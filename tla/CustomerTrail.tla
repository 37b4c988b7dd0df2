--------------------------- MODULE CustomerTrail ---------------------------
(***************************************************************************)
(* What is written down of one customer: who is in charge of him and the    *)
(* log, the pushes and the attended marks that follow, his pipeline step    *)
(* and its log, and the time of his last event.  The assignee is written by *)
(* requests that have read the document before; the log is written after    *)
(* the document, by the request itself or by the save hook of the audit,    *)
(* which nobody awaits.  A step boundary is an await.                       *)
(***************************************************************************)
EXTENDS Naturals, Sequences, FiniteSets

CONSTANTS
  Users,                 \* office users
  Steps,                 \* pipeline steps
  Nobody,                \* no assignee, no step
  Clerks,                \* requests that write the assignee or the step
  Visitors,              \* requests that record an event
  MaxClerkRequests, MaxEvents, MaxTrailCrashes  \* bounds for TLC

ASSUME TrailAssumption ==
  /\ Nobody \notin Users \cup Steps
  /\ {MaxClerkRequests, MaxEvents, MaxTrailCrashes} \subseteq Nat

\* The ways to a new assignee: assignCustomerAssignee and updateCustomerAdmin log
\* it themselves; updateCustomer, the intake and a booked call leave it to the
\* hook; "own" is the intake of a customer that the same request has created.
LoggedWays == {"assign"}
AssignWays == LoggedWays \cup {"update", "intake", "book", "own"}

VARIABLES
  hooked,                 \* the hooks, added after the model is compiled, do run
  recorded, assignee,     \* the customer
  assignmentLog,          \* customer_assignment_change_logs: from, to, attended by
  believes,               \* the users whose last push gave them the customer
  step, stepRows,         \* customerStepId, and the steps in its update log
  events, lastUpdate,     \* customer_events: by whom, after how many rows; lastUpdate
  clerk,                  \* requests: at, way, the value read, the value wanted
  visitor,                \* requests that record an event: at, the number of the event
  recomputing,            \* the recomputation of lastUpdate, and the maximum it read
  clerkRequests,          \* history: requests so far
  ever,                   \* history: assignees the document has had
  crossed,                \* history: two assignments were under way at once
  unlogged,               \* history: an assignment that nothing writes down
  outdated,               \* history: an event came in under a recomputation
  trailCrashes

trailDb == <<hooked, recorded, assignee, assignmentLog, believes>>
stepDb == <<step, stepRows>>
eventDb == <<events, lastUpdate, visitor, recomputing, outdated>>
trailHistory == <<clerkRequests, ever, crossed, unlogged, trailCrashes>>
trailVars == <<trailDb, stepDb, eventDb, clerk, trailHistory>>

NoRequest == [at |-> "idle", way |-> "none", seen |-> Nobody, to |-> Nobody]
NoVisit == [at |-> "idle", number |-> 0]
NoRepair == [at |-> "idle", max |-> 0]

TrailInit ==
  /\ hooked \in BOOLEAN
  /\ recorded = FALSE /\ assignee = Nobody /\ assignmentLog = <<>> /\ believes = {}
  /\ step = Nobody /\ stepRows = {}
  /\ events = <<>> /\ lastUpdate = 0
  /\ clerk = [r \in Clerks |-> NoRequest]
  /\ visitor = [e \in Visitors |-> NoVisit]
  /\ recomputing = NoRepair
  /\ clerkRequests = 0 /\ ever = {Nobody} /\ crossed = FALSE /\ unlogged = FALSE
  /\ outdated = FALSE /\ trailCrashes = 0

Assigning(r) == clerk[r].way \in AssignWays

BeginRequest(r, record) ==
  /\ clerk[r].at = "idle" /\ clerkRequests < MaxClerkRequests
  /\ clerkRequests' = clerkRequests + 1
  /\ clerk' = [clerk EXCEPT ![r] = record]
  /\ crossed' = (crossed \/ (record.way \in AssignWays /\ \E o \in Clerks : Assigning(o)))

RequestTo(r, place) == clerk' = [clerk EXCEPT ![r].at = place]

-----------------------------------------------------------------------------
(* The assignee                                                              *)

\* createCustomer, createCustomerAdmin: one insert, as the phone is unique.  Leadgen
\* goes on to assign a customer it has created for nobody, without reading him again.
CreateCustomer(r, u) ==
  /\ ~recorded
  /\ BeginRequest(r, [at |-> IF u = Nobody THEN "pick" ELSE IF hooked THEN "log" ELSE "end",
                      way |-> "own", seen |-> Nobody, to |-> u])
  /\ recorded' = TRUE /\ assignee' = u
  /\ ever' = ever \cup {u}
  /\ unlogged' = (u # Nobody /\ ~hooked)
  /\ UNCHANGED <<hooked, assignmentLog, believes, stepDb, eventDb, trailCrashes>>

\* A request reads the document; the intake goes on only with an unassigned one.
ReadAssignee(r, way, u) ==
  /\ recorded
  /\ way \in {"intake", "book"} => u # Nobody
  /\ way = "intake" => assignee = Nobody
  /\ BeginRequest(r, [at |-> "save", way |-> way, seen |-> assignee, to |-> u])
  /\ UNCHANGED <<trailDb, stepDb, eventDb, ever, unlogged, trailCrashes>>

\* The load balance picks a user for the customer just created, if there is one.
PickAssignee(r, u) ==
  /\ clerk[r].at = "pick"
  /\ clerk' = [clerk EXCEPT ![r].at = IF u = Nobody THEN "end" ELSE "save", ![r].to = u]
  /\ UNCHANGED <<trailDb, stepDb, eventDb, trailHistory>>

Changes(r) == clerk[r].to # clerk[r].seen

\* Whether a save gets its row, from the request or from the hook.  The hook has
\* nothing to compare a document with that was created in memory.
LogsAssignment(r) ==
  Changes(r) /\ (clerk[r].way \in LoggedWays \/ (hooked /\ clerk[r].way # "own"))

\* save() writes assignedTo only where it differs from what was read.
SaveAssignee(r) ==
  /\ clerk[r].at = "save" /\ Assigning(r)
  /\ assignee' = IF Changes(r) THEN clerk[r].to ELSE assignee
  /\ ever' = ever \cup {assignee'}
  /\ unlogged' = (unlogged \/ (Changes(r) /\ clerk[r].way \notin LoggedWays
                                /\ (~hooked \/ clerk[r].way = "own")))
  /\ RequestTo(r, IF LogsAssignment(r) THEN "log" ELSE "end")
  /\ UNCHANGED <<hooked, recorded, assignmentLog, believes, stepDb, eventDb, clerkRequests,
                 crossed, trailCrashes>>

\* recordAssignmentChange inserts the row ...
LogAssignment(r) ==
  /\ clerk[r].at = "log"
  /\ assignmentLog' = Append(assignmentLog, [to |-> clerk[r].to, attended |-> 0])
  /\ RequestTo(r, "push")
  /\ UNCHANGED <<hooked, recorded, assignee, believes, stepDb, eventDb, trailHistory>>

\* ... and, awaited by nobody, tells the old assignee and the new one.
PushAssignment(r) ==
  /\ clerk[r].at = "push"
  /\ believes' = (believes \ {clerk[r].seen}) \cup ({clerk[r].to} \ {Nobody})
  /\ RequestTo(r, "end")
  /\ UNCHANGED <<hooked, recorded, assignee, assignmentLog, stepDb, eventDb, trailHistory>>

EndRequest(r) ==
  /\ clerk[r].at = "end"
  /\ clerk' = [clerk EXCEPT ![r] = NoRequest]
  /\ UNCHANGED <<trailDb, stepDb, eventDb, trailHistory>>

-----------------------------------------------------------------------------
(* The step                                                                  *)

\* setCustomerStep
ReadStep(r, s) ==
  /\ recorded
  /\ BeginRequest(r, [at |-> IF s = step THEN "end" ELSE "step log", way |-> "step",
                      seen |-> step, to |-> s])
  /\ UNCHANGED <<trailDb, stepDb, eventDb, ever, unlogged, trailCrashes>>

\* Fault: the log follows the customer.
StepFirst(r) ==
  \/ /\ clerk[r].at = "step log"
     /\ step' = clerk[r].to
     /\ RequestTo(r, "step save")
     /\ UNCHANGED <<stepRows, trailDb, eventDb, trailHistory>>
  \/ /\ clerk[r].at = "step save"
     /\ stepRows' = stepRows \cup {clerk[r].to}
     /\ RequestTo(r, "end")
     /\ UNCHANGED <<step, trailDb, eventDb, trailHistory>>

\* The log is inserted, and then the customer saved.
WriteStep(r) ==
  \/ /\ clerk[r].at = "step log"
     /\ stepRows' = stepRows \cup {clerk[r].to}
     /\ RequestTo(r, "step save")
     /\ UNCHANGED <<step, trailDb, eventDb, trailHistory>>
  \/ /\ clerk[r].at = "step save"
     /\ step' = clerk[r].to
     /\ RequestTo(r, "end")
     /\ UNCHANGED <<stepRows, trailDb, eventDb, trailHistory>>

-----------------------------------------------------------------------------
(* The events                                                                *)

\* createEvent, createCallCrmEvent: the event of a user, dated by its insertion ...
RecordEvent(e, u) ==
  /\ recorded /\ visitor[e].at = "idle" /\ Len(events) < MaxEvents
  /\ events' = Append(events, [by |-> u, after |-> Len(assignmentLog)])
  /\ visitor' = [visitor EXCEPT ![e] = [at |-> "bump", number |-> Len(events')]]
  /\ outdated' = (outdated \/ recomputing.at # "idle")
  /\ UNCHANGED <<lastUpdate, recomputing, trailDb, stepDb, clerk, trailHistory>>

\* ... raises lastUpdate ($max) ...
BumpLastUpdate(e) ==
  /\ visitor[e].at = "bump"
  /\ lastUpdate' = IF visitor[e].number > lastUpdate THEN visitor[e].number ELSE lastUpdate
  /\ visitor' = [visitor EXCEPT ![e].at = "mark"]
  /\ UNCHANGED <<events, recomputing, outdated, trailDb, stepDb, clerk, trailHistory>>

\* The rows of the user of an event that are before it and that he has not attended.
OpenRows(e) ==
  LET event == events[visitor[e].number]
  IN {i \in 1..event.after : assignmentLog[i].to = event.by /\ assignmentLog[i].attended = 0}

\* ... and marks the latest of them (markAssignmentAttendedIfNeeded).
MarkAttended(e) ==
  /\ visitor[e].at = "mark"
  /\ assignmentLog' = [i \in DOMAIN assignmentLog |->
       IF i \in OpenRows(e) /\ \A j \in OpenRows(e) : j <= i
       THEN [assignmentLog[i] EXCEPT !.attended = visitor[e].number] ELSE assignmentLog[i]]
  /\ visitor' = [visitor EXCEPT ![e] = NoVisit]
  /\ UNCHANGED <<hooked, recorded, assignee, believes, events, lastUpdate, recomputing,
                 outdated, stepDb, clerk, trailHistory>>

\* recomputeCustomerLastUpdateFromEvents, asked by a user in charge: the maximum ...
Recompute ==
  /\ recorded /\ recomputing.at = "idle"
  /\ recomputing' = [at |-> "set", max |-> Len(events)]
  /\ UNCHANGED <<events, lastUpdate, visitor, outdated, trailDb, stepDb, clerk, trailHistory>>

\* ... is set, or unset if there is none.
SetLastUpdate ==
  /\ recomputing.at = "set"
  /\ lastUpdate' = recomputing.max
  /\ recomputing' = NoRepair
  /\ UNCHANGED <<events, visitor, outdated, trailDb, stepDb, clerk, trailHistory>>

-----------------------------------------------------------------------------
\* The service dies with whatever is under way, the work of the hook included.
TrailCrash ==
  /\ trailCrashes < MaxTrailCrashes
  /\ trailCrashes' = trailCrashes + 1
  /\ clerk' = [r \in Clerks |-> NoRequest]
  /\ visitor' = [e \in Visitors |-> NoVisit]
  /\ recomputing' = NoRepair
  /\ UNCHANGED <<trailDb, stepDb, events, lastUpdate, outdated,
                 clerkRequests, ever, crossed, unlogged>>

TrailNext ==
  \/ \E r \in Clerks :
       \/ \E u \in Users \cup {Nobody} :
            \/ CreateCustomer(r, u) \/ PickAssignee(r, u)
            \/ \E way \in AssignWays \ {"own"} : ReadAssignee(r, way, u)
       \/ SaveAssignee(r) \/ LogAssignment(r) \/ PushAssignment(r) \/ EndRequest(r)
       \/ \E s \in Steps : ReadStep(r, s)
       \/ WriteStep(r)
  \/ \E e \in Visitors :
       (\E u \in Users : RecordEvent(e, u)) \/ BumpLastUpdate(e) \/ MarkAttended(e)
  \/ Recompute \/ SetLastUpdate
  \/ TrailCrash

TrailSpec == TrailInit /\ [][TrailNext]_trailVars

-----------------------------------------------------------------------------
(* Properties                                                                *)

EventNumbers == 0..MaxEvents

\* Every variable has its type.
TrailTypeOK ==
  /\ {hooked, recorded, crossed, unlogged, outdated} \subseteq BOOLEAN
  /\ assignee \in Users \cup {Nobody} /\ believes \subseteq Users
  /\ assignmentLog \in Seq([to : Users \cup {Nobody}, attended : EventNumbers])
  /\ step \in Steps \cup {Nobody} /\ stepRows \subseteq Steps
  /\ events \in Seq([by : Users, after : Nat]) /\ lastUpdate \in EventNumbers
  /\ clerk \in [Clerks ->
       [at : {"idle", "pick", "save", "log", "push", "step log", "step save", "end"},
        way : AssignWays \cup {"none", "step"}, seen : Users \cup Steps \cup {Nobody},
        to : Users \cup Steps \cup {Nobody}]]
  /\ visitor \in [Visitors -> [at : {"idle", "bump", "mark"}, number : EventNumbers]]
  /\ recomputing \in [at : {"idle", "set"}, max : EventNumbers]
  /\ clerkRequests \in Nat /\ ever \subseteq Users \cup {Nobody} /\ trailCrashes \in Nat

TrailQuiet ==
  /\ \A r \in Clerks : ~Assigning(r)
  /\ \A e \in Visitors : visitor[e].at = "idle"
  /\ recomputing.at = "idle"

\* Whoever was ever in charge of the customer is in the log, however requests and
\* hooks overlapped, once they are done: unless the service died, or the change was
\* one of those that nothing logs.
EveryAssigneeIsLogged ==
  (TrailQuiet /\ ~unlogged /\ trailCrashes = 0) =>
    \A u \in ever \ {Nobody} : \E i \in DOMAIN assignmentLog : assignmentLog[i].to = u

\* As long as assignments do not overlap, hooks and pushes included, the phones of
\* the users agree with the document on who has the customer, and so does the log.
PhonesAgree ==
  (TrailQuiet /\ ~unlogged /\ ~crossed /\ trailCrashes = 0) =>
    /\ believes = {assignee} \ {Nobody}
    /\ assignmentLog # <<>> => assignmentLog[Len(assignmentLog)].to = assignee

\* The current step of a customer is in the update log, whatever races or dies.
StepIsLogged == step = Nobody \/ step \in stepRows

\* lastUpdate is the time of the last event, unless one came in while it was being
\* recomputed or the service died between the two writes.
LastUpdateKeepsUp ==
  (TrailQuiet /\ ~outdated /\ trailCrashes = 0) => lastUpdate = Len(events)

\* Who records an event after the customer was given to him has, in the end, attended
\* the latest of these assignments, unless the service died.
ActedIsAttended ==
  (TrailQuiet /\ trailCrashes = 0) =>
    \A k \in DOMAIN events :
      LET his == {i \in 1..events[k].after : assignmentLog[i].to = events[k].by}
      IN \A i \in his : (\A j \in his : j <= i) => assignmentLog[i].attended > 0

\* The assignment log is written "when a customer's assignedTo changes (admin assign,
\* create with assignee, ventor auto-assign)", and the hooks run: whoever is in charge
\* of the customer is in it when nothing is under way.
AssigneeIsLogged ==
  (hooked /\ TrailQuiet /\ trailCrashes = 0 /\ assignee # Nobody) =>
    \E i \in DOMAIN assignmentLog : assignmentLog[i].to = assignee

\* What is written down of a customer agrees with the customer.
TrailCorrect ==
  /\ TrailTypeOK
  /\ EveryAssigneeIsLogged /\ PhonesAgree
  /\ StepIsLogged /\ LastUpdateKeepsUp /\ ActedIsAttended
=============================================================================
