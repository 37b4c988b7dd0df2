----------------------------- MODULE FieldVisit -----------------------------
(***************************************************************************)
(* A visit to the land: who attends it, what became of it, and what the     *)
(* history of the customer and the phones of the agents say about both.     *)
(* Every request reads the visit, writes it and then reports what it did;   *)
(* requests overlap, and a step boundary is an await.                       *)
(***************************************************************************)
EXTENDS Naturals, Sequences, FiniteSets

CONSTANTS
  Agents,               \* users who may attend the visit
  Owner,                \* userId, the ventor who sold it
  Coordinator,          \* a coordinator, who may write any visit
  NoAgent,
  VisitHandlers,        \* requests under way at once
  MaxVisitRequests, MaxVisitCrashes     \* bounds for TLC

ASSUME VisitAssumption ==
  /\ Owner # Coordinator /\ {Owner, Coordinator, NoAgent} \cap Agents = {}
  /\ {MaxVisitRequests, MaxVisitCrashes} \subseteq Nat

Finals == {"done", "cancelled"}
Statuses == {"pending"} \cup Finals
People == Agents \cup {Owner, Coordinator}

NoRequest == [at |-> "idle", by |-> NoAgent, to |-> "none", seen |-> "none", guide |-> NoAgent]

VARIABLES
  visit,          \* its status, "none" before it exists
  guide,          \* onLandAgentUserId: the agent who attends it
  said,           \* the customer events of this visit, in the order they were written
  named,          \* the guide the last CUSTOMER_ON_LAND_AGENT_ASSIGNED event names
  phones,         \* agents whose last push said that the visit is theirs
  visitor,        \* the state of each request
  visitRequests, visitCrashes,          \* bounds
  statusRaced, agentRaced               \* history: two such requests overlapped

visitVars == <<visit, guide, said, named, phones, visitor, visitRequests, visitCrashes,
               statusRaced, agentRaced>>

VisitInit ==
  /\ visit = "none" /\ guide = NoAgent /\ said = <<>> /\ named = NoAgent /\ phones = {}
  /\ visitor = [h \in VisitHandlers |-> NoRequest]
  /\ visitRequests = 0 /\ visitCrashes = 0 /\ statusRaced = FALSE /\ agentRaced = FALSE

StatusPlaces == {"set", "record"}
AgentPlaces == {"appoint", "log", "push"}
Someone(h, places) == \E g \in VisitHandlers \ {h} : visitor[g].at \in places

Receive(h, state) ==
  /\ visitor[h] = NoRequest /\ visitRequests < MaxVisitRequests
  /\ visitRequests' = visitRequests + 1
  /\ visitor' = [visitor EXCEPT ![h] = state]

VisitGoto(h, place) == visitor' = [visitor EXCEPT ![h].at = place]
VisitDone(h) == visitor' = [visitor EXCEPT ![h] = NoRequest]

\* create, for a visit to the land: the document ...
CreateVisit(h) ==
  /\ visit = "none"
  /\ Receive(h, [NoRequest EXCEPT !.at = "sent"])
  /\ visit' = "pending"
  /\ UNCHANGED <<guide, said, named, phones, visitCrashes, statusRaced, agentRaced>>

\* ... and the event that the customer is sent to the land.
RecordSent(h) ==
  /\ visitor[h].at = "sent"
  /\ said' = Append(said, "sent")
  /\ VisitDone(h)
  /\ UNCHANGED <<visit, guide, named, phones, visitRequests, visitCrashes, statusRaced,
                 agentRaced>>

\* What the two filters of updateStatus let through; a coordinator has none.
MayWrite(p) == p \in {Owner, guide, Coordinator}

\* updateStatus and updateStatusAsCoordinator read the visit ...
ReadStatus(h, p, s) ==
  /\ visit # "none" /\ MayWrite(p)
  /\ Receive(h, [at |-> "set", by |-> p, to |-> s, seen |-> visit, guide |-> NoAgent])
  /\ statusRaced' = (statusRaced \/ Someone(h, StatusPlaces \cup {"sent"}))
  /\ UNCHANGED <<visit, guide, said, named, phones, visitCrashes, agentRaced>>

\* becameDone, becameCancelled: against what was read.
Becomes(r) == r.to \in Finals /\ r.seen # r.to

\* Fault: the write goes by the id of the visit alone.
SetStatusById(h) ==
  /\ visitor[h].at = "set"
  /\ visit' = visitor[h].to
  /\ IF Becomes(visitor[h]) THEN VisitGoto(h, "record") ELSE VisitDone(h)
  /\ UNCHANGED <<guide, said, named, phones, visitRequests, visitCrashes, statusRaced,
                 agentRaced>>

\* ... write the status, if the user may still ...
SetStatus(h) ==
  /\ visitor[h].at = "set"
  /\ IF MayWrite(visitor[h].by)
     THEN /\ visit' = visitor[h].to
          /\ IF Becomes(visitor[h]) THEN VisitGoto(h, "record") ELSE VisitDone(h)
     ELSE VisitDone(h) /\ UNCHANGED visit
  /\ UNCHANGED <<guide, said, named, phones, visitRequests, visitCrashes, statusRaced,
                 agentRaced>>

\* Fault: the event keeps the status that was read.
RecordSeen(h) ==
  /\ visitor[h].at = "record"
  /\ said' = Append(said, IF visitor[h].seen \in Finals THEN visitor[h].seen ELSE "done")
  /\ VisitDone(h)
  /\ UNCHANGED <<visit, guide, named, phones, visitRequests, visitCrashes, statusRaced,
                 agentRaced>>

\* ... and record that the visit was made or cancelled.
RecordStatus(h) ==
  /\ visitor[h].at = "record"
  /\ said' = Append(said, visitor[h].to)
  /\ VisitDone(h)
  /\ UNCHANGED <<visit, guide, named, phones, visitRequests, visitCrashes, statusRaced,
                 agentRaced>>

\* assignOnLandAgent: the owner and a coordinator name the guide of a pending visit,
\* the guide may only withdraw ...
ReadAgent(h, p, a) ==
  /\ visit = "pending"
  /\ p \in {Owner, Coordinator} \/ (p = guide /\ p \in Agents /\ a = NoAgent)
  /\ Receive(h, [at |-> "appoint", by |-> p, to |-> a, seen |-> visit, guide |-> guide])
  /\ agentRaced' = (agentRaced \/ Someone(h, AgentPlaces))
  /\ UNCHANGED <<visit, guide, said, named, phones, visitCrashes, statusRaced>>

\* ... the write does not ask again whether the visit is still pending ...
Appoint(h) ==
  /\ visitor[h].at = "appoint"
  /\ guide' = visitor[h].to
  /\ VisitGoto(h, "log")
  /\ UNCHANGED <<visit, said, named, phones, visitRequests, visitCrashes, statusRaced,
                 agentRaced>>

\* ... an event names the guide ...
LogAgent(h) ==
  /\ visitor[h].at = "log"
  /\ named' = visitor[h].to
  /\ VisitGoto(h, "push")
  /\ UNCHANGED <<visit, guide, said, phones, visitRequests, visitCrashes, statusRaced,
                 agentRaced>>

\* The phones after a push to the guide that was read and to the new one.
Notified(r) ==
  IF r.guide = r.to THEN phones ELSE (phones \ {r.guide}) \cup ({r.to} \ {NoAgent})

\* ... and both agents get a push, which may fail without anybody noticing.
PushAgents(h) ==
  /\ visitor[h].at = "push"
  /\ phones' = Notified(visitor[h])
  /\ VisitDone(h)
  /\ UNCHANGED <<visit, guide, said, named, visitRequests, visitCrashes, statusRaced,
                 agentRaced>>

\* The service dies, or what a request has yet to do after its write fails.
VisitCrash ==
  /\ visitCrashes < MaxVisitCrashes
  /\ visitCrashes' = visitCrashes + 1
  /\ \E S \in SUBSET VisitHandlers :
       visitor' = [h \in VisitHandlers |-> IF h \in S THEN NoRequest ELSE visitor[h]]
  /\ UNCHANGED <<visit, guide, said, named, phones, visitRequests, statusRaced, agentRaced>>

VisitNext ==
  \/ \E h \in VisitHandlers :
       \/ CreateVisit(h) \/ RecordSent(h)
       \/ \E p \in People : \E s \in Statuses : ReadStatus(h, p, s)
       \/ SetStatus(h) \/ RecordStatus(h)
       \/ \E p \in People : \E a \in Agents \cup {NoAgent} : ReadAgent(h, p, a)
       \/ Appoint(h) \/ LogAgent(h) \/ PushAgents(h)
  \/ VisitCrash

VisitSpec == VisitInit /\ [][VisitNext]_visitVars

-----------------------------------------------------------------------------
(* Properties                                                                *)

\* Every variable has its type, and no request is left at a place that is not there.
VisitTypeOK ==
  /\ visit \in Statuses \cup {"none"} /\ guide \in Agents \cup {NoAgent}
  /\ said \in Seq({"sent"} \cup Finals) /\ named \in Agents \cup {NoAgent}
  /\ phones \subseteq Agents
  /\ \A h \in VisitHandlers :
       /\ visitor[h].at \in {"idle", "sent"} \cup StatusPlaces \cup AgentPlaces
       /\ visitor[h].by \in People \cup {NoAgent}
       /\ visitor[h].to \in Statuses \cup Agents \cup {NoAgent, "none"}
       /\ visitor[h].seen \in Statuses \cup {"none"}
       /\ visitor[h].guide \in Agents \cup {NoAgent}
  /\ visitRequests \in Nat /\ visitCrashes \in Nat
  /\ statusRaced \in BOOLEAN /\ agentRaced \in BOOLEAN

Reporting(places) == \E h \in VisitHandlers : visitor[h].at \in places

Records(s) == {i \in DOMAIN said : said[i] = s}

\* A visit that is done or cancelled was recorded as such in the history of the
\* customer, whichever requests overlap: who finds it already so was preceded by
\* one who did not.
FinalIsRecorded ==
  (visit \in Finals /\ visitCrashes = 0 /\ ~Reporting({"record"})) => Records(visit) # {}

\* Unless two requests about the status overlap, the last record is what the visit is.
LastRecordIsStatus ==
  (visit \in Finals /\ visitCrashes = 0 /\ ~statusRaced /\ ~Reporting({"record", "sent"}))
    => said[Len(said)] = visit

\* Unless appointments overlap, exactly the guide of the visit believes it is his,
\* and the history names him.
AgentKnows ==
  (visitCrashes = 0 /\ ~agentRaced /\ ~Reporting({"log", "push"}))
    => phones = {guide} \ {NoAgent} /\ named = guide

\* A guide who was withdrawn while his request waited does not write the status:
\* only the owner, a coordinator or the guide of that moment does.
WithdrawnDoesNotWrite ==
  [][\A h \in VisitHandlers :
       (visitor[h].at = "set" /\ visit' # visit /\ visitor'[h].at # "set")
         => visitor[h].by \in {Owner, guide, Coordinator}]_visitVars

\* The history of the customer and the phones of the guides agree with the visit.
VisitCorrect == VisitTypeOK /\ FinalIsRecorded /\ LastRecordIsStatus /\ AgentKnows
=============================================================================
