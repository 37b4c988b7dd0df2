--------------------------- MODULE MarketingReply ---------------------------
(***************************************************************************)
(* The reply of one customer to the message of a WhatsApp campaign: it may  *)
(* give him to another ventor, move his step, answer him and log him in the *)
(* chat, and only then is the recipient marked as handled.  Replies come    *)
(* through the Meta webhook or the legacy queue; an error drops them, a     *)
(* crash brings them again.  A step boundary is an await.                   *)
(***************************************************************************)
EXTENDS Naturals, FiniteSets

CONSTANTS
  Sellers,              \* ventors
  NoSeller,
  Repliers,             \* replies in the hands of the service at once
  Replies,              \* messages that quote the campaign's message
  MaxReplyCrashes, MaxReplyFailures, MaxManager   \* bounds for TLC

ASSUME ReplyAssumption ==
  /\ NoSeller \notin Sellers
  /\ {MaxReplyCrashes, MaxReplyFailures, MaxManager} \subseteq Nat

\* The step of a customer: one that preserves his assignee, the one a reply advances
\* him to, or another.
ReplySteps == {"preserving", "advanced", "other"}

VARIABLES
  campaign,             \* campaignType, and whether a reply advances the step
  client,               \* the customer: assignedTo, step
  recipient,            \* replyHandledAt is set, replyOutcome
  reply,                \* handlers: at, message, what was read, what was done
  chat,                 \* messages of his in the conversation
  answered,             \* history: automatic replies: the seller in each, and in charge
  takings,              \* history: assignments that replies have made
  rivalled,             \* history: two writers of the customer were under way at once
  nobodyPicked,         \* history: no ventor could be picked
  managed, replyFailures, replyCrashes

replyDb == <<campaign, client, recipient, chat>>
replyHistory ==
  <<answered, takings, rivalled, nobodyPicked, managed, replyFailures, replyCrashes>>
replyVars == <<replyDb, reply, replyHistory>>

NoReply == [at |-> "idle", message |-> 0, assigned |-> NoSeller, step |-> "other",
            kind |-> "none", outcome |-> "reply_logged"]

ReplyInit ==
  /\ campaign \in [type : {"standard", "recovery_potential"}, advances : BOOLEAN]
  /\ client \in [assigned : Sellers \cup {NoSeller}, step : {"preserving", "other"}]
  /\ recipient = [handled |-> FALSE, outcome |-> "none"]
  /\ reply = [h \in Repliers |-> NoReply]
  /\ chat = {} /\ answered = {} /\ takings = 0
  /\ rivalled = FALSE /\ nobodyPicked = FALSE
  /\ managed = 0 /\ replyFailures = 0 /\ replyCrashes = 0

ReplyTo(h, place) == reply' = [reply EXCEPT ![h].at = place]
Busy(h) == reply[h].at # "idle"

Fresh == ~recipient.handled

\* executeHandleMarketingReply finds the recipient by the message quoted: one that is
\* handled lets the reply go, and the webhook goes on to the next message.
TakeReply(h, m) ==
  /\ ~Busy(h)
  /\ IF Fresh THEN reply' = [reply EXCEPT ![h] = [NoReply EXCEPT !.at = "read", !.message = m]]
              ELSE UNCHANGED reply
  /\ rivalled' = (rivalled \/ (Fresh /\ \E g \in Repliers : Busy(g)))
  /\ UNCHANGED <<replyDb, answered, takings, nobodyPicked, managed, replyFailures,
                 replyCrashes>>

Preserves(step) == step = "preserving"

\* The customer is read.  A standard campaign does nothing to him; a recovery campaign
\* leaves the assignee to a customer in certain steps, and looks for another otherwise.
ReadClient(h) ==
  /\ reply[h].at = "read"
  /\ LET kept == campaign.type = "recovery_potential" /\ Preserves(client.step)
     IN reply' = [reply EXCEPT
          ![h].at = IF campaign.type = "standard" THEN "chat"
                    ELSE IF kept THEN "advance" ELSE "assign",
          ![h].assigned = client.assigned, ![h].step = client.step,
          ![h].kind = IF kept THEN "preserve" ELSE "none",
          ![h].outcome = IF kept THEN "preserved_assignee" ELSE "reply_logged"]
  /\ UNCHANGED <<replyDb, replyHistory>>

\* The load balance prefers another seller than the one there is.
Eligible(now) == IF Sellers \ {now} = {} THEN Sellers ELSE Sellers \ {now}

\* save() writes the assignee that was picked where it differs from the one read.
SavedClient(h, v) == [client EXCEPT !.assigned = IF v = reply[h].assigned THEN @ ELSE v]

\* executeAssignCustomerIfUnassigned or executeReassignCustomerByLoadBalance.
AssignSeller(h) ==
  /\ reply[h].at = "assign"
  /\ \/ \E v \in Eligible(reply[h].assigned) :
          /\ client' = SavedClient(h, v)
          /\ reply' = [reply EXCEPT ![h].at = "advance", ![h].assigned = v,
                 ![h].kind = "assign",
                 ![h].outcome = IF reply[h].assigned = NoSeller THEN "assigned_ventor"
                                ELSE "reassigned_ventor"]
          /\ takings' = takings + 1 /\ UNCHANGED nobodyPicked
     \/ nobodyPicked' = TRUE /\ ReplyTo(h, "advance") /\ UNCHANGED <<client, takings>>
  /\ UNCHANGED <<campaign, recipient, chat, answered, rivalled, managed, replyFailures,
                 replyCrashes>>

\* setCustomerStep, where the campaign says to.
AdvanceStep(h) ==
  /\ reply[h].at = "advance"
  /\ client' = IF campaign.advances THEN [client EXCEPT !.step = "advanced"] ELSE client
  /\ reply' = [reply EXCEPT ![h].at = "answer",
                 ![h].outcome = IF campaign.advances THEN "step_advanced" ELSE @]
  /\ UNCHANGED <<campaign, recipient, chat, replyHistory>>

Speaks(h) == reply[h].kind # "none" /\ reply[h].assigned # NoSeller

\* executeSendRecoveryAutoReply: the contact or the text names the seller in memory.
Answer(h) ==
  /\ reply[h].at = "answer"
  /\ answered' = answered \cup
       (IF Speaks(h) THEN {[by |-> reply[h].message, kind |-> reply[h].kind,
                            named |-> reply[h].assigned, owner |-> client.assigned]} ELSE {})
  /\ ReplyTo(h, "chat")
  /\ UNCHANGED <<replyDb, takings, rivalled, nobodyPicked, managed, replyFailures,
                 replyCrashes>>

\* Fault: the recipient is marked first, and the message logged after that.
MarkReplyFirst(h) ==
  \/ /\ reply[h].at = "chat"
     /\ recipient' = [handled |-> TRUE, outcome |-> reply[h].outcome]
     /\ ReplyTo(h, "save") /\ UNCHANGED chat
     /\ UNCHANGED <<campaign, client, replyHistory>>
  \/ /\ reply[h].at = "save"
     /\ chat' = chat \cup {reply[h].message}
     /\ reply' = [reply EXCEPT ![h] = NoReply] /\ UNCHANGED recipient
     /\ UNCHANGED <<campaign, client, replyHistory>>

\* The message is logged in the conversation, and then the recipient saved as handled.
CloseReply(h) ==
  \/ /\ reply[h].at = "chat"
     /\ chat' = chat \cup {reply[h].message}
     /\ ReplyTo(h, "save") /\ UNCHANGED recipient
     /\ UNCHANGED <<campaign, client, replyHistory>>
  \/ /\ reply[h].at = "save"
     /\ recipient' = [handled |-> TRUE, outcome |-> reply[h].outcome]
     /\ reply' = [reply EXCEPT ![h] = NoReply] /\ UNCHANGED chat
     /\ UNCHANGED <<campaign, client, replyHistory>>

\* Whatever throws on the way (the broker, the office, the database) drops the reply,
\* which is acknowledged all the same.
FailReply(h) ==
  /\ Busy(h) /\ replyFailures < MaxReplyFailures
  /\ replyFailures' = replyFailures + 1
  /\ reply' = [reply EXCEPT ![h] = NoReply]
  /\ UNCHANGED <<replyDb, answered, takings, rivalled, nobodyPicked, managed, replyCrashes>>

\* Meanwhile a manager gives the customer to somebody or moves his step.
Manage ==
  /\ managed < MaxManager /\ managed' = managed + 1
  /\ \/ \E v \in Sellers : client' = [client EXCEPT !.assigned = v]
     \/ \E s \in ReplySteps : client' = [client EXCEPT !.step = s]
  /\ rivalled' = (rivalled \/ \E h \in Repliers : Busy(h))
  /\ UNCHANGED <<campaign, recipient, chat, reply, answered, takings, nobodyPicked,
                 replyFailures, replyCrashes>>

\* The service dies; what it held is delivered again, as TakeReply may.
ReplyCrash ==
  /\ replyCrashes < MaxReplyCrashes
  /\ replyCrashes' = replyCrashes + 1
  /\ reply' = [h \in Repliers |-> NoReply]
  /\ UNCHANGED <<replyDb, answered, takings, rivalled, nobodyPicked, managed, replyFailures>>

ReplyNext ==
  \/ \E h \in Repliers :
       \/ \E m \in Replies : TakeReply(h, m)
       \/ ReadClient(h) \/ AssignSeller(h) \/ AdvanceStep(h) \/ Answer(h)
       \/ CloseReply(h) \/ FailReply(h)
  \/ Manage \/ ReplyCrash

ReplySpec == ReplyInit /\ [][ReplyNext]_replyVars

-----------------------------------------------------------------------------
(* Properties                                                                *)

\* Every variable has its type.
ReplyTypeOK ==
  /\ campaign \in [type : {"standard", "recovery_potential"}, advances : BOOLEAN]
  /\ client \in [assigned : Sellers \cup {NoSeller}, step : ReplySteps]
  /\ recipient \in [handled : BOOLEAN,
       outcome : {"none", "reply_logged", "preserved_assignee", "assigned_ventor",
                  "reassigned_ventor", "step_advanced"}]
  /\ reply \in [Repliers ->
       [at : {"idle", "read", "assign", "advance", "answer", "chat", "save"},
        message : Replies \cup {0}, assigned : Sellers \cup {NoSeller}, step : ReplySteps,
        kind : {"none", "preserve", "assign"},
        outcome : {"reply_logged", "preserved_assignee", "assigned_ventor",
                   "reassigned_ventor", "step_advanced"}]]
  /\ chat \subseteq Replies
  /\ answered \subseteq [by : Replies \cup {0}, kind : {"preserve", "assign"},
                         named : Sellers, owner : Sellers \cup {NoSeller}]
  /\ {rivalled, nobodyPicked} \subseteq BOOLEAN
  /\ {takings, managed, replyFailures, replyCrashes} \subseteq Nat

\* However many messages quote the campaign's, and however often they come, they give
\* the customer away once and answer him once: unless they overlap, or a handler dies
\* or fails before the recipient is saved.
ReplyActsOnce ==
  (~rivalled /\ replyCrashes + replyFailures = 0) => takings <= 1 /\ Cardinality(answered) <= 1

\* The answer names the seller who is in charge when it is sent, unless somebody else
\* writes the customer meanwhile.
AnswerNamesTheOwner == rivalled \/ \A a \in answered : a.named = a.owner

\* A recipient that counts as handled has its message in the conversation, wherever the
\* handler died.
HandledIsInChat == recipient.handled => chat # {}

\* A recovery reply that counts as handled has left its customer with a seller, unless
\* none could be picked, or his step kept him as he was.
RecoveryHasSeller ==
  (recipient.handled /\ campaign.type = "recovery_potential" /\ ~nobodyPicked
     /\ recipient.outcome \in {"reply_logged", "assigned_ventor", "reassigned_ventor"})
    => client.assigned # NoSeller

\* A reply acts once, names the seller in charge, and is handled only when all is done.
ReplyCorrect ==
  ReplyTypeOK /\ ReplyActsOnce /\ AnswerNamesTheOwner /\ HandledIsInChat /\ RecoveryHasSeller
=============================================================================
