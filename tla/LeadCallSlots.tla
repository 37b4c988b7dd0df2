----------------------------- MODULE LeadCallSlots -----------------------------
(***************************************************************************)
(* The agenda of lead calls: the bot's handlers that book a 30-minute slot  *)
(* (LeadCallSlotService.bookSlot), the administrator's requests that        *)
(* reassign, reschedule or close a call (LeadCallScheduleAdminService), and *)
(* what users put into their schedules meanwhile (VentorScheduleService),   *)
(* all on ventor_schedule_events.  Every query is a step of its own; the    *)
(* only thing that holds between two of them is the unique partial index    *)
(* {userId, scheduledAt, eventType} over pending calls.                     *)
(*                                                                          *)
(* A session stands for its customer too.  Slots do not overlap each other; *)
(* a visit is any other pending event inside a slot of its user.            *)
(***************************************************************************)
EXTENDS Naturals, FiniteSets

CONSTANTS
  Users,      \* advance-leads office users
  Slots,      \* starts of 30-minute calls
  Sessions,   \* lead conversation sessions
  Calls,      \* ids of call events: bounds how many are created
  Bookers,    \* inbound handlers inside bookSlot
  Admins,     \* HTTP requests on the agenda
  None,
  MaxCloses   \* bound: calls an administrator marks done or cancelled

ASSUME NoneAssumption ==
  None \notin Users /\ None \notin Slots /\ None \notin Sessions /\ None \notin Calls
ASSUME ProcsAssumption == Bookers \cap Admins = {}

Procs == Bookers \cup Admins

VARIABLES
  call,      \* the call events: user, slot, session, status
  visits,    \* users' other pending events: pairs of user and slot
  assignee,  \* customer.assignedTo of each session's customer
  mirror,    \* session.assignedVentorId
  date,      \* session.answers.fechaLlamada as an administrator left it
  pc,
  job,       \* what each request is about: session, slot, call, its user, and
             \* the user a reschedule found the call with; late, history, are the
             \* users given a visit in the slot since the request searched
  free,      \* users a process found free
  disturbed, \* history: a request began while another one on its session was
             \* under way, or a user took up a call that was over
  closes     \* history, bounded for TLC

agenda == <<call, visits, assignee, mirror, date>>
history == <<disturbed, closes>>
vars == <<agenda, pc, job, free, history>>

NoCall == [user |-> None, slot |-> None, session |-> None, status |-> "none"]
JobOf(s, slot, n, u) ==
  [session |-> s, slot |-> slot, call |-> n, user |-> u, was |-> None, late |-> {}]
NoJob == JobOf(None, None, None, None)

Init ==
  /\ call = [n \in Calls |-> NoCall]
  /\ visits = {}
  /\ assignee = [s \in Sessions |-> None]
  /\ mirror = [s \in Sessions |-> None]
  /\ date = [s \in Sessions |-> None]
  /\ pc = [p \in Procs |-> "idle"]
  /\ job = [p \in Procs |-> NoJob]
  /\ free = [p \in Procs |-> {}]
  /\ disturbed = FALSE /\ closes = 0

Pending(n) == call[n].status = "pending"
PendingAt(u, slot) == {n \in Calls : Pending(n) /\ call[n].user = u /\ call[n].slot = slot}

\* findBusyEvents and findFreeUserIds: no pending event inside the slot.
FreeUsers(slot) == {u \in Users : PendingAt(u, slot) = {} /\ <<u, slot>> \notin visits}

\* The unique index admits call n as a pending one of u at slot.
IndexAdmits(n, u, slot) == PendingAt(u, slot) \subseteq {n}

\* A request on session s begins.
Begin(s) == disturbed' = (disturbed \/ \E q \in Procs : job[q].session = s)

Goto(p, label) == pc' = [pc EXCEPT ![p] = label]
End(p) ==
  /\ pc' = [pc EXCEPT ![p] = "idle"]
  /\ job' = [job EXCEPT ![p] = NoJob]
  /\ free' = [free EXCEPT ![p] = {}]

-----------------------------------------------------------------------------
(* bookSlot                                                                  *)

\* findPendingSessionCall; a call at that very start is returned as it is.
BookFind(p, s, slot) ==
  /\ p \in Bookers /\ pc[p] = "idle"
  /\ LET mine == {n \in Calls : Pending(n) /\ call[n].session = s} IN
     \/ /\ mine = {}
        /\ job' = [job EXCEPT ![p] = JobOf(s, slot, None, None)]
        /\ Goto(p, "look")
     \/ \E n \in mine :
          /\ job' = [job EXCEPT ![p] =
               JobOf(s, slot, n, IF call[n].slot = slot THEN call[n].user ELSE None)]
          /\ Goto(p, IF call[n].slot = slot THEN "assign" ELSE "look")
  /\ Begin(s)
  /\ UNCHANGED <<agenda, free, closes>>

\* Fault: only calls make a user busy.
BookLookAtCalls(p) ==
  /\ pc[p] = "look"
  /\ free' = [free EXCEPT ![p] = {u \in Users : PendingAt(u, job[p].slot) = {}}]
  /\ Goto(p, "create")
  /\ UNCHANGED <<agenda, job, history>>

BookLook(p) ==
  /\ pc[p] = "look"
  /\ free' = [free EXCEPT ![p] = FreeUsers(job[p].slot)]
  /\ Goto(p, "create")
  /\ UNCHANGED <<agenda, job, history>>

\* Fault: the session's previous call is left pending.
AfterCreateKeeping(p) == "assign"
AfterCreate(p) == IF job[p].call = None THEN "assign" ELSE "cancel"

\* Fault: the session's previous call is cancelled before there is a new one.
BookCreateCancelFirst(p) ==
  LET j == job[p]
      left == IF j.call = None THEN call
              ELSE [call EXCEPT ![j.call].status = "cancelled"]
  IN
  /\ pc[p] = "create"
  /\ \/ \E u \in free[p], n \in Calls :
          /\ call[n] = NoCall /\ IndexAdmits(n, u, j.slot)
          /\ call' = [left EXCEPT ![n] =
               [user |-> u, slot |-> j.slot, session |-> j.session, status |-> "pending"]]
          /\ job' = [job EXCEPT ![p].user = u]
          /\ free' = [free EXCEPT ![p] = {}]
          /\ Goto(p, "assign")
     \/ /\ free[p] = {} /\ call' = left /\ End(p)
  /\ UNCHANGED <<visits, assignee, mirror, date, history>>

\* tryCreateCall: a duplicate key goes on with the next candidate; without one
\* the slot was taken.  The order by day load is left out.
BookCreate(p) ==
  LET j == job[p] IN
  /\ pc[p] = "create"
  /\ \/ \E u \in free[p], n \in Calls :
          /\ call[n] = NoCall /\ IndexAdmits(n, u, j.slot)
          /\ call' = [call EXCEPT ![n] =
               [user |-> u, slot |-> j.slot, session |-> j.session, status |-> "pending"]]
          /\ job' = [job EXCEPT ![p].user = u]
          /\ free' = [free EXCEPT ![p] = {}]
          /\ Goto(p, AfterCreate(p))
     \/ \E u \in free[p] :
          /\ PendingAt(u, j.slot) # {}
          /\ free' = [free EXCEPT ![p] = @ \ {u}]
          /\ UNCHANGED <<call, pc, job>>
     \/ /\ free[p] = {} /\ call' = call /\ End(p)
  /\ UNCHANGED <<visits, assignee, mirror, date, history>>

\* Whatever the previous call is by now.
BookCancel(p) ==
  /\ pc[p] = "cancel"
  /\ call' = [call EXCEPT ![job[p].call].status = "cancelled"]
  /\ Goto(p, "assign")
  /\ UNCHANGED <<visits, assignee, mirror, date, job, free, history>>

\* executeUnifyCustomerOnBook, for a customer that is its own match.
BookAssign(p) ==
  /\ p \in Bookers /\ pc[p] = "assign"
  /\ assignee' = [assignee EXCEPT ![job[p].session] = job[p].user]
  /\ End(p)
  /\ UNCHANGED <<call, visits, mirror, date, history>>

BookNext == \E p \in Bookers :
  \/ \E s \in Sessions, slot \in Slots : BookFind(p, s, slot)
  \/ BookLook(p) \/ BookCreate(p) \/ BookCancel(p) \/ BookAssign(p)

-----------------------------------------------------------------------------
(* The administrator                                                         *)

\* findPendingCall: the event as it is now.
AdminFind(p, n, label) ==
  /\ p \in Admins /\ pc[p] = "idle" /\ Pending(n)
  /\ job' = [job EXCEPT ![p] = JobOf(call[n].session, call[n].slot, n, call[n].user)]
  /\ Goto(p, label)
  /\ Begin(call[n].session)
  /\ UNCHANGED <<agenda, free, closes>>

\* reassignCall: another user who is free, or 409.
ReassignLook(p) ==
  LET others == FreeUsers(job[p].slot) \ {job[p].user} IN
  /\ pc[p] = "reassign"
  /\ \/ \E u \in others :
          job' = [job EXCEPT ![p].user = u] /\ free' = free /\ Goto(p, "move")
     \/ End(p)
  /\ UNCHANGED <<agenda, history>>

\* Fault: the index does not hold for updates.
MoveUnindexed(p) ==
  LET j == job[p] IN
  /\ pc[p] = "move"
  /\ call' = [call EXCEPT ![j.call].user = j.user]
  /\ Goto(p, "own") /\ job' = job /\ free' = free
  /\ UNCHANGED <<visits, assignee, mirror, date, history>>

\* executeMoveEvent: by _id, whatever the status and the slot are by now.
Move(p) ==
  LET j == job[p] IN
  /\ pc[p] = "move"
  /\ \/ /\ Pending(j.call) => IndexAdmits(j.call, j.user, call[j.call].slot)
        /\ call' = [call EXCEPT ![j.call].user = j.user]
        /\ Goto(p, "own") /\ job' = job /\ free' = free
     \/ /\ Pending(j.call) /\ ~IndexAdmits(j.call, j.user, call[j.call].slot)
        /\ call' = call /\ End(p)
  /\ UNCHANGED <<visits, assignee, mirror, date, history>>

\* rescheduleCall finds who is free; the current user stays if he is, or if the
\* slot is the same, unless the administrator names another who is free.
RescheduleLook(p, slot) ==
  LET j == job[p] IN
  /\ pc[p] = "reschedule"
  /\ \/ /\ job' = [job EXCEPT ![p].slot = slot, ![p].was = j.user]
        /\ slot # j.slot /\ j.user \notin FreeUsers(slot)
        /\ free' = [free EXCEPT ![p] = FreeUsers(slot)]
        /\ Goto(p, "recheck")
     \/ \E u \in FreeUsers(slot) \cup {j.user} :
          /\ slot = j.slot \/ j.user \in FreeUsers(slot)
          /\ job' = [job EXCEPT ![p].user = u, ![p].slot = slot, ![p].was = j.user]
          /\ Goto(p, "shift")
          /\ free' = free
     \/ End(p)
  /\ UNCHANGED <<agenda, history>>

\* isUserFreeAtSlot asks once more for the current user, about calls only; a visit
\* in the slot does not keep him from it.
RescheduleRecheck(p) ==
  LET j == job[p]
      keeps == PendingAt(j.user, j.slot) \ {j.call} = {}
  IN
  /\ pc[p] = "recheck"
  /\ \/ \E u \in free[p] \cup (IF keeps THEN {j.user} ELSE {}) :
          /\ job' = [job EXCEPT ![p].user = u]
          /\ free' = [free EXCEPT ![p] = {}]
          /\ Goto(p, "shift")
     \/ End(p)
  /\ UNCHANGED <<agenda, history>>

\* executeRescheduleEvent; the user read is only replaced if he changed.
Shift(p) ==
  LET j == job[p] IN
  /\ pc[p] = "shift"
  /\ \/ /\ Pending(j.call) => IndexAdmits(j.call, j.user, j.slot)
        /\ call' = [call EXCEPT ![j.call].user = j.user, ![j.call].slot = j.slot]
        /\ Goto(p, IF j.user = j.was THEN "patch" ELSE "own")
        /\ UNCHANGED <<job, free>>
     \/ /\ Pending(j.call) /\ ~IndexAdmits(j.call, j.user, j.slot)
        /\ call' = call /\ End(p)
  /\ UNCHANGED <<visits, assignee, mirror, date, history>>

\* assignToVentor, then setAssignedVentor.
Own(p) ==
  /\ pc[p] = "own"
  /\ assignee' = [assignee EXCEPT ![job[p].session] = job[p].user]
  /\ Goto(p, "mirror")
  /\ UNCHANGED <<call, visits, mirror, date, job, free, history>>

Mirror(p) ==
  /\ pc[p] = "mirror"
  /\ mirror' = [mirror EXCEPT ![job[p].session] = job[p].user]
  /\ IF job[p].was = None THEN End(p) ELSE Goto(p, "patch") /\ UNCHANGED <<job, free>>
  /\ UNCHANGED <<call, visits, assignee, date, history>>

\* patchScheduledCallAnswers.
Patch(p) ==
  /\ pc[p] = "patch"
  /\ date' = [date EXCEPT ![job[p].session] = job[p].slot]
  /\ End(p)
  /\ UNCHANGED <<call, visits, assignee, mirror, history>>

\* updateStatus: done or cancelled, by _id, by an administrator or by its user.
Close(n, status) ==
  /\ call[n] # NoCall /\ closes < MaxCloses
  /\ call' = [call EXCEPT ![n].status = status]
  /\ closes' = closes + 1
  /\ UNCHANGED <<visits, assignee, mirror, date, pc, job, free, disturbed>>

AdminNext ==
  \/ \E p \in Admins :
       \/ \E n \in Calls : AdminFind(p, n, "reassign") \/ AdminFind(p, n, "reschedule")
       \/ ReassignLook(p) \/ Move(p)
       \/ \E slot \in Slots : RescheduleLook(p, slot)
       \/ RescheduleRecheck(p)
       \/ Shift(p) \/ Own(p) \/ Mirror(p) \/ Patch(p)
  \/ \E n \in Calls, status \in {"done", "cancelled"} : Close(n, status)

-----------------------------------------------------------------------------
(* The users' own schedules                                                  *)

\* The request is between its search for users in the slot and its last write.
Searching(p, slot) ==
  pc[p] \in {"create", "move", "recheck", "shift"} /\ job[p].slot = slot

\* create: an event of the user's own, which looks at no other.
PlaceVisit(u, slot) ==
  /\ visits' = visits \cup {<<u, slot>>}
  /\ job' = [p \in Procs |->
       IF Searching(p, slot) THEN [job[p] EXCEPT !.late = @ \cup {u}] ELSE job[p]]
  /\ UNCHANGED <<call, assignee, mirror, date, pc, free, history>>

\* updateStatus: the event is done or cancelled.
EndVisit(u, slot) ==
  /\ <<u, slot>> \in visits
  /\ visits' = visits \ {<<u, slot>>}
  /\ UNCHANGED <<call, assignee, mirror, date, pc, job, free, history>>

\* updateStatus: a user sets a call of his that was over back to pending.
Reopen(n) ==
  /\ call[n].status \in {"done", "cancelled"}
  /\ IndexAdmits(n, call[n].user, call[n].slot)
  /\ call' = [call EXCEPT ![n].status = "pending"]
  /\ disturbed' = TRUE
  /\ UNCHANGED <<visits, assignee, mirror, date, pc, job, free, closes>>

UserNext ==
  \/ \E u \in Users, slot \in Slots : PlaceVisit(u, slot) \/ EndVisit(u, slot)
  \/ \E n \in Calls : Reopen(n)

Next == BookNext \/ AdminNext \/ UserNext

Spec == Init /\ [][Next]_vars

-----------------------------------------------------------------------------
(* Properties                                                                *)

CallType ==
  [user : Users, slot : Slots, session : Sessions,
   status : {"pending", "done", "cancelled"}]

JobType ==
  [session : Sessions \cup {None}, slot : Slots \cup {None}, call : Calls \cup {None},
   user : Users \cup {None}, was : Users \cup {None}, late : SUBSET Users]
Labels ==
  {"idle", "look", "create", "cancel", "assign",
   "reassign", "move", "reschedule", "recheck", "shift", "own", "mirror", "patch"}

\* Types; also that no request ever writes a call without a user or a slot.
TypeOK ==
  /\ call \in [Calls -> CallType \cup {NoCall}]
  /\ visits \subseteq Users \X Slots
  /\ assignee \in [Sessions -> Users \cup {None}]
  /\ mirror \in [Sessions -> Users \cup {None}]
  /\ date \in [Sessions -> Slots \cup {None}]
  /\ pc \in [Procs -> Labels]
  /\ job \in [Procs -> JobType]
  /\ free \in [Procs -> SUBSET Users]
  /\ disturbed \in BOOLEAN /\ closes \in Nat

\* No user has two pending calls at one start, whoever books, reassigns and
\* reschedules at the same time ("One pending call per user and start time",
\* ventor-schedule-event.schema.ts).
NoDoubleBooking ==
  \A n, m \in Calls :
    /\ n # m /\ Pending(n) /\ Pending(m) /\ call[n].user = call[m].user
    => call[n].slot # call[m].slot

\* Whatever requests race, the agenda stays one that can be kept: every pending call
\* has its user and start, and no user two of them at once.
AgendaSafe == TypeOK /\ NoDoubleBooking

\* Request p gives call n to a user it searched for, in the slot it searched.
Hands(p, n) ==
  /\ pc[p] \in {"create", "move", "shift"} /\ pc'[p] # pc[p]
  /\ call'[n].user # call[n].user /\ call'[n].slot = job[p].slot
  /\ pc[p] = "shift" => job[p].user # job[p].was

\* A call is given to nobody over another event of his day, by a booking, a
\* reassignment or a rescheduling, unless the event was put there after the
\* request had searched: the agenda has no index that would refuse it then.  (Who
\* keeps a call that is rescheduled is only asked about his calls.)
BookedOutsideVisits ==
  [][\A p \in Procs, n \in Calls :
       Hands(p, n) /\ <<call'[n].user, job[p].slot>> \in visits
       => call'[n].user \in job[p].late]_vars

\* Picking another slot never leaves the customer without a call: as long as no
\* administrator closes one, a session with a call keeps a pending one.
RebookingKeepsACall ==
  closes = 0 => \A s \in Sessions :
    (\E n \in Calls : call[n].session = s) =>
      \E n \in Calls : call[n].session = s /\ Pending(n)

Settled(s) == \A p \in Procs : job[p].session # s

\* A session has one pending call at most once its requests are over ("Idempotent
\* per session (re-booking cancels the previous pending call)").
BookingIsIdempotent ==
  \A s \in Sessions : Settled(s) =>
    Cardinality({n \in Calls : Pending(n) /\ call[n].session = s}) <= 1

\* That holds while no two requests for a session overlapped and no user took up a
\* call that was over, whatever administrators did in between.
OneCallPerSession == ~disturbed => BookingIsIdempotent

\* A customer whose requests are over and did not overlap belongs to the user who
\* will call, through re-bookings, reassignments and other users' closures.
AssigneeCalls ==
  ~disturbed => \A s \in Sessions : Settled(s) =>
    \A n \in Calls : Pending(n) /\ call[n].session = s => call[n].user = assignee[s]

\* Sessions whose requests did not overlap have one call, of whoever has the customer.
OneCallOfTheAssignee == OneCallPerSession /\ AssigneeCalls
=============================================================================
