---------------------------- MODULE PaymentAccess ----------------------------
(***************************************************************************)
(* Who may record a down payment or a fee of a customer: administrators,    *)
(* and physical ventors who have the customer or were put on an event of    *)
(* his as guide.  Three questions are asked one after the other, the first  *)
(* to another service, while ventors and guides change; the answer holds    *)
(* until the payment is recorded.  A step boundary is an await.             *)
(***************************************************************************)
EXTENDS Naturals, FiniteSets

CONSTANTS
  Recorders,                  \* office users who record payments
  Slips,                      \* requests to record a payment of the customer
  MaxTransfers                \* bound for TLC: changes of the office

ASSUME AccessAssumption == MaxTransfers \in Nat

Facts == {"physical", "having", "guiding"}

VARIABLES
  exists,               \* there is a customer of the id the requests name
  is,                   \* for each fact, the users of whom it is true: the office knows
                        \* them as physical, assignedTo names them (one or none), they
                        \* are guides of an event of the customer
  slip,                 \* requests: at, by, whether an administrator's or unheard by the
                        \* office, the facts that were true of its user at some time
                        \* since it came (history), and those that were all the time
  transfers             \* history: changes so far

office == <<exists, is>>
accessVars == <<office, slip, transfers>>

NoSlip(u) ==
  [at |-> "idle", by |-> u, admin |-> FALSE, unheard |-> FALSE, once |-> {}, always |-> {}]

AccessInit ==
  /\ exists \in BOOLEAN
  /\ is \in [Facts -> SUBSET Recorders] /\ is["having"] = {}
  /\ ~exists => is["guiding"] = {}
  /\ slip \in [Slips -> {NoSlip(u) : u \in Recorders}]
  /\ transfers = 0

TrueOf(u) == {fact \in Facts : u \in is[fact]}
SlipTo(r, place) == slip' = [slip EXCEPT ![r].at = place]
By(r) == slip[r].by

-----------------------------------------------------------------------------
\* The office changes, and with it what was true of the users all the while.
Transfer(fact, users) ==
  /\ transfers < MaxTransfers /\ users # is[fact]
  /\ fact = "physical" \/ exists
  /\ transfers' = transfers + 1
  /\ is' = [is EXCEPT ![fact] = users] /\ exists' = exists
  /\ slip' = [r \in Slips |->
       IF slip[r].at = "idle" THEN slip[r]
       ELSE LET still == By(r) \in users
            IN [slip[r] EXCEPT !.once = IF still THEN @ \cup {fact} ELSE @,
                               !.always = IF still THEN @ ELSE @ \ {fact}]]

\* assertCanRecordCustomerPayment: an administrator goes on at once.
AskToRecord(r, admin) ==
  /\ slip[r].at = "idle"
  /\ slip' = [slip EXCEPT ![r] =
       [NoSlip(By(r)) EXCEPT !.at = IF admin THEN "record" ELSE "office", !.admin = admin,
                             !.once = TrueOf(By(r)), !.always = TrueOf(By(r))]]
  /\ UNCHANGED <<office, transfers>>

\* fetchUserIsPhysical: no answer counts as no.
AskOffice(r) ==
  /\ slip[r].at = "office"
  /\ \/ SlipTo(r, IF By(r) \in is["physical"] THEN "customer" ELSE "refused")
     \/ slip' = [slip EXCEPT ![r].at = "refused", ![r].unheard = TRUE]
  /\ UNCHANGED <<office, transfers>>

\* A customer that is not there is nobody's.
LookCustomer(r) ==
  /\ slip[r].at = "customer"
  /\ SlipTo(r, IF ~exists THEN "refused"
               ELSE IF By(r) \in is["having"] THEN "record" ELSE "events")
  /\ UNCHANGED <<office, transfers>>

\* Fault: guides have no access.
NobodyGuides(r) ==
  /\ slip[r].at = "events"
  /\ SlipTo(r, "refused")
  /\ UNCHANGED <<office, transfers>>

LookEvents(r) ==
  /\ slip[r].at = "events"
  /\ SlipTo(r, IF By(r) \in is["guiding"] THEN "record" ELSE "refused")
  /\ UNCHANGED <<office, transfers>>

\* createDownPayment, addFee: the payment is recorded by the user of the token.
RecordPayment(r) ==
  /\ slip[r].at = "record"
  /\ SlipTo(r, "recorded")
  /\ UNCHANGED <<office, transfers>>

AccessNext ==
  \/ \E users \in SUBSET Recorders :
       \/ \E fact \in {"physical", "guiding"} : Transfer(fact, users)
       \/ Cardinality(users) <= 1 /\ Transfer("having", users)
  \/ \E r \in Slips :
       \/ \E admin \in BOOLEAN : AskToRecord(r, admin)
       \/ AskOffice(r) \/ LookCustomer(r) \/ LookEvents(r) \/ RecordPayment(r)

AccessSpec == AccessInit /\ [][AccessNext]_accessVars

-----------------------------------------------------------------------------
(* Properties                                                                *)

\* Every variable has its type.
AccessTypeOK ==
  /\ exists \in BOOLEAN
  /\ is \in [Facts -> SUBSET Recorders] /\ Cardinality(is["having"]) <= 1
  /\ slip \in [Slips ->
       [at : {"idle", "office", "customer", "events", "record", "recorded", "refused"},
        by : Recorders, admin : BOOLEAN, unheard : BOOLEAN,
        once : SUBSET Facts, always : SUBSET Facts]]
  /\ transfers \in Nat

\* Whoever recorded a payment was an administrator, or had been known as physical and
\* had had the customer or been a guide of his since the request came.
RecordedByTheirVentor ==
  \A r \in Slips : slip[r].at = "recorded" =>
    \/ slip[r].admin
    \/ "physical" \in slip[r].once /\ slip[r].once \cap {"having", "guiding"} # {}

\* Whoever was physical and had the customer, or was and stayed his guide, all the
\* while is not refused, unless the office did not answer.
VentorIsNotRefused ==
  \A r \in Slips : (slip[r].at = "refused" /\ ~slip[r].unheard) =>
    ~("physical" \in slip[r].always /\ slip[r].always \cap {"having", "guiding"} # {})

\* Those who may record payments can, and others do not, while the office changes.
AccessCorrect == AccessTypeOK /\ RecordedByTheirVentor /\ VentorIsNotRefused
=============================================================================
