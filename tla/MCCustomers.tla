----------------------------- MODULE MCCustomers -----------------------------
(* The customer components for TLC, in one run: in each of its behaviours one *)
(* component is awake and the others stay as they are initially, so the run   *)
(* is their disjoint union and says of each what a run of its own would.      *)
EXTENDS CustomerTrail, LeadIntake, MarketingReply, LeadFormNudge, WebinarLeads,
        VentorBalance, ConversationStore, StaffReport, TLC

CONSTANT MaxLoad

VARIABLE awake   \* the component whose behaviour this is

Symmetry == Permutations(Users) \cup Permutations(Handlers) \cup Permutations(Visitors)

(* Of the initial states of a component at rest one is named, so that the others'  *)
(* behaviours are not repeated for each.                                          *)
TrailRests == hooked
ReplyRests ==
  /\ client = [assigned |-> NoSeller, step |-> "other"]
  /\ campaign = [type |-> "standard", advances |-> FALSE]
NudgeRests == ~settings /\ \A l \in Forms : number[l] = "international"
WebinarsRest == ~crm
StoreRests == ~known

Components == {"trail", "intake", "reply", "nudge", "webinar", "balance", "store", "staff"}

SuiteInit ==
  /\ awake \in Components
  /\ TrailInit /\ (awake = "trail" \/ TrailRests)
  /\ IntakeInit
  /\ ReplyInit /\ (awake = "reply" \/ ReplyRests)
  /\ NudgeInit /\ (awake = "nudge" \/ NudgeRests)
  /\ LeadsInit /\ (awake = "webinar" \/ WebinarsRest)
  /\ BalanceInit
  /\ StoreInit /\ (awake = "store" \/ StoreRests)
  /\ StaffInit

SuiteNext ==
  /\ UNCHANGED awake
  /\ \/ /\ awake = "trail" /\ TrailNext
        /\ UNCHANGED <<intakeVars, replyVars, nudgeVars, webinarVars, balanceVars,
                       storeVars, staffVars>>
     \/ /\ awake = "intake" /\ IntakeNext
        /\ UNCHANGED <<trailVars, replyVars, nudgeVars, webinarVars, balanceVars,
                       storeVars, staffVars>>
     \/ /\ awake = "reply" /\ ReplyNext
        /\ UNCHANGED <<trailVars, intakeVars, nudgeVars, webinarVars, balanceVars,
                       storeVars, staffVars>>
     \/ /\ awake = "nudge" /\ NudgeNext
        /\ UNCHANGED <<trailVars, intakeVars, replyVars, webinarVars, balanceVars,
                       storeVars, staffVars>>
     \/ /\ awake = "webinar" /\ WebinarNext
        /\ UNCHANGED <<trailVars, intakeVars, replyVars, nudgeVars, balanceVars,
                       storeVars, staffVars>>
     \/ /\ awake = "balance" /\ BalanceNext
        /\ UNCHANGED <<trailVars, intakeVars, replyVars, nudgeVars, webinarVars,
                       storeVars, staffVars>>
     \/ /\ awake = "store" /\ StoreNext
        /\ UNCHANGED <<trailVars, intakeVars, replyVars, nudgeVars, webinarVars,
                       balanceVars, staffVars>>
     \/ /\ awake = "staff" /\ StaffNext
        /\ UNCHANGED <<trailVars, intakeVars, replyVars, nudgeVars, webinarVars,
                       balanceVars, storeVars>>

suiteVars == <<awake, trailVars, intakeVars, replyVars, nudgeVars, webinarVars, balanceVars,
               storeVars, staffVars>>
SuiteSpec == SuiteInit /\ [][SuiteNext]_suiteVars

-----------------------------------------------------------------------------
(* The instances: which counts of requests, crashes and failures may come together *)

\* The step and the assignee of a customer do not read each other.
TrailInstance ==
  /\ \/ step = Nobody /\ stepRows = {} /\ \A r \in Clerks : clerk[r].way # "step"
     \/ /\ events = <<>> /\ ever = {Nobody} /\ recomputing = NoRepair
        /\ \A r \in Clerks : ~Assigning(r) \/ clerk[r].to = Nobody
  /\ clerkRequests + Len(events) + trailCrashes <= 3
  /\ (clerkRequests > 1) => (recomputing = NoRepair)

IntakeInstance == ingresses <= (IF raced THEN 2 ELSE 3)

ReplyInstance == managed + replyFailures + replyCrashes
                   + (IF rivalled /\ managed = 0 THEN 1 ELSE 0) <= 1

\* Three requests of admins without leads, or one at a time beside the leads.
WebinarInstance ==
  \/ /\ ~crm /\ leadRequests = 0
  \/ /\ webinarFailures = 0 /\ ~jostled /\ webinarRequests <= 2
     /\ Cardinality({a \in WebinarAdmins : Underway(a)}) <= 1
     /\ webinarRequests + leadRequests <=
          LET alone == ~crm /\ \A a \in WebinarAdmins : ~Underway(a)
          IN IF alone /\ ~deskRaces /\ ~deskErrors THEN 4 ELSE 3

BalanceInstance == \A v \in Office : load[v] <= MaxLoad

\* Hand-overs and what follows; calls; the steps of customers in one hand.
StaffInstance ==
  LET unmoved == \A c \in Clients : holding[c].stage = NoMember
      enabled == \A c \in Clients : holding[c].enabled
  IN \/ /\ callLog = <<>> /\ report.columns = {} /\ unmoved
        /\ changed > 2 => ~refreshed /\ enabled /\ list = NoList /\ time = 1
     \/ /\ changeLog = <<>> /\ report.columns = {} /\ unmoved /\ enabled
        /\ Len(callLog) = changed /\ changed <= 2 /\ time = 1 /\ list = NoList
     \/ callLog = <<>> /\ changed <= 2 /\ ~refreshed /\ enabled /\ time = 1 /\ list = NoList

Instance ==
  /\ TrailInstance /\ IntakeInstance /\ ReplyInstance /\ WebinarInstance /\ BalanceInstance
  /\ StaffInstance

\* One component, for the run that looks for the violation of a property of it.
TrailOnly == awake = "trail" /\ TrailInstance

=============================================================================
