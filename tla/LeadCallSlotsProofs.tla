--------------------------- MODULE LeadCallSlotsProofs ---------------------------
(***************************************************************************)
(* Theorems of LeadCallSlots for every number of users, slots, sessions,    *)
(* handlers and administrators: the types, that no user is ever booked      *)
(* twice at one start, whichever requests overlap, that a slot picked again  *)
(* leaves no customer without a call, and that requests which do not overlap *)
(* on a session leave it one call at most, of the user who has the customer. *)
(***************************************************************************)
EXTENDS LeadCallSlots, FiniteSetTheorems, TLAPS

\* What a request carries from one of its queries to the next: a session and a
\* slot, a call that was there when it was read, and a user to write.
Fits(label, j) ==
  /\ label # "idle" => j.session \in Sessions /\ j.slot \in Slots
  /\ label \in {"cancel", "reassign", "move", "reschedule", "recheck", "shift"} =>
       j.call \in Calls
  /\ label \in {"cancel", "assign", "reschedule", "recheck", "move", "shift", "own", "mirror",
               "patch"} =>
       j.user \in Users

Exists(j) == j.call \in Calls => call[j.call] # NoCall

JobOK == \A p \in Procs : Fits(pc[p], job[p]) /\ Exists(job[p])

TypeInv == TypeOK /\ JobOK

-----------------------------------------------------------------------------
(* Types                                                                     *)

\* The agenda starts empty and nothing is under way.
LEMMA InitTypeInv == Init => TypeInv
<1> SUFFICES ASSUME Init PROVE TypeInv
  OBVIOUS
<1>1. NoJob \in JobType BY DEF NoJob, JobOf, JobType
<1>2. TypeOK BY <1>1 DEF Init, TypeOK, Labels, Procs
<1>3. JobOK BY NoneAssumption DEF Init, JobOK, Fits, Exists, NoJob, JobOf, Procs
<1> QED BY <1>2, <1>3 DEF TypeInv

\* A record that stands for a call is not the one that stands for none.
LEMMA CallIsSomething == ASSUME NEW c \in CallType PROVE c # NoCall
  BY DEF CallType, NoCall

\* Calls are never deleted, and one process at a time moves on: a request stays
\* well formed if the one that moved is.
LEMMA JobWritten ==
  ASSUME TypeInv, NEW p \in Procs, NEW j \in JobType, NEW label \in Labels,
         Fits(label, j), Exists(j),
         job' = [job EXCEPT ![p] = j], pc' = [pc EXCEPT ![p] = label],
         \A n \in Calls : call[n] # NoCall => call'[n] # NoCall
  PROVE  JobOK' /\ pc' \in [Procs -> Labels] /\ job' \in [Procs -> JobType]
  BY DEF TypeInv, TypeOK, JobOK, Fits, Exists

\* A request that is over is well formed.
LEMMA Ended ==
  ASSUME TypeInv, NEW p \in Procs, End(p),
         \A n \in Calls : call[n] # NoCall => call'[n] # NoCall
  PROVE  /\ JobOK' /\ pc' \in [Procs -> Labels] /\ job' \in [Procs -> JobType]
         /\ free' \in [Procs -> SUBSET Users]
<1>1. NoJob \in JobType /\ "idle" \in Labels BY DEF NoJob, JobOf, JobType, Labels
<1>2. Fits("idle", NoJob) /\ Exists(NoJob)
  BY NoneAssumption DEF Fits, Exists, NoJob, JobOf
<1>3. job' = [job EXCEPT ![p] = NoJob] /\ pc' = [pc EXCEPT ![p] = "idle"]
  BY DEF End
<1>4. free' \in [Procs -> SUBSET Users] BY DEF End, TypeInv, TypeOK
<1> QED BY <1>1, <1>2, <1>3, <1>4, JobWritten

\* A call that is written stays a call.
LEMMA CallWritten ==
  ASSUME TypeOK, NEW n \in Calls, NEW c \in CallType, call' = [call EXCEPT ![n] = c]
  PROVE  /\ call' \in [Calls -> CallType \cup {NoCall}]
         /\ call'[n] = c
         /\ \A m \in Calls : call[m] # NoCall => call'[m] # NoCall
  BY CallIsSomething DEF TypeOK

\* findPendingSessionCall carries the pending call it found, if any.
LEMMA BookFindTypes ==
  ASSUME TypeInv, NEW p \in Bookers, NEW s \in Sessions, NEW slot \in Slots,
         BookFind(p, s, slot)
  PROVE  TypeInv'
<1> USE DEF Procs
<1>1. PICK j \in JobType, label \in Labels :
        /\ Fits(label, j) /\ Exists(j)
        /\ job' = [job EXCEPT ![p] = j] /\ pc' = [pc EXCEPT ![p] = label]
  <2> DEFINE mine == {n \in Calls : Pending(n) /\ call[n].session = s}
             fresh == JobOf(s, slot, None, None)
  <2>1. CASE /\ mine = {} /\ job' = [job EXCEPT ![p] = fresh] /\ Goto(p, "look")
    <3>1. fresh \in JobType /\ "look" \in Labels BY DEF JobType, NoJob, JobOf, Labels
    <3>2. Fits("look", fresh) /\ Exists(fresh) BY NoneAssumption DEF Fits, Exists, NoJob, JobOf
    <3> QED BY <2>1, <3>1, <3>2 DEF Goto
  <2>2. ASSUME NEW n \in mine,
          /\ job' = [job EXCEPT ![p] =
               JobOf(s, slot, n, IF call[n].slot = slot THEN call[n].user ELSE None)]
          /\ Goto(p, IF call[n].slot = slot THEN "assign" ELSE "look")
        PROVE \E j \in JobType, label \in Labels :
                /\ Fits(label, j) /\ Exists(j)
                /\ job' = [job EXCEPT ![p] = j] /\ pc' = [pc EXCEPT ![p] = label]
    <3> DEFINE j == JobOf(s, slot, n, IF call[n].slot = slot THEN call[n].user ELSE None)
               label == IF call[n].slot = slot THEN "assign" ELSE "look"
    <3>1. n \in Calls /\ call[n] # NoCall /\ call[n].user \in Users
      BY DEF TypeInv, TypeOK, Pending, NoCall, CallType
    <3>2. j \in JobType /\ label \in Labels BY <3>1 DEF JobType, Labels, NoJob, JobOf
    <3>3. Fits(label, j) /\ Exists(j) BY <3>1 DEF Fits, Exists, NoJob, JobOf
    <3> QED BY <2>2, <3>2, <3>3 DEF Goto
  <2> QED BY <2>1, <2>2 DEF BookFind
<1>2. UNCHANGED <<agenda, free, closes>> /\ disturbed' \in BOOLEAN
  BY DEF BookFind, Begin, TypeInv, TypeOK
<1>3. JobOK' /\ pc' \in [Procs -> Labels] /\ job' \in [Procs -> JobType]
  BY <1>1, <1>2, JobWritten DEF agenda
<1> QED BY <1>2, <1>3 DEF TypeInv, TypeOK, agenda

\* An insert writes a whole call and carries the user it was made for.
LEMMA BookCreateTypes ==
  ASSUME TypeInv, NEW p \in Bookers, BookCreate(p)
  PROVE  TypeInv'
<1> USE DEF Procs
<1>0. /\ UNCHANGED <<visits, assignee, mirror, date, history>>
      /\ pc[p] = "create" /\ p \in Procs
  BY DEF BookCreate
<1>1. job[p].session \in Sessions /\ job[p].slot \in Slots /\ job[p] \in JobType
  BY <1>0 DEF TypeInv, TypeOK, JobOK, Fits
<1>2. CASE \E u \in free[p], n \in Calls :
          /\ call[n] = NoCall /\ IndexAdmits(n, u, job[p].slot)
          /\ call' = [call EXCEPT ![n] = [user |-> u, slot |-> job[p].slot,
                        session |-> job[p].session, status |-> "pending"]]
          /\ job' = [job EXCEPT ![p].user = u]
          /\ free' = [free EXCEPT ![p] = {}]
          /\ Goto(p, AfterCreate(p))
  <2>1. PICK u \in free[p], n \in Calls :
          /\ call' = [call EXCEPT ![n] = [user |-> u, slot |-> job[p].slot,
                        session |-> job[p].session, status |-> "pending"]]
          /\ job' = [job EXCEPT ![p].user = u]
          /\ free' = [free EXCEPT ![p] = {}]
          /\ Goto(p, AfterCreate(p))
    BY <1>2
  <2> DEFINE j == [job[p] EXCEPT !.user = u]
  <2>2. u \in Users BY <1>0, <2>1 DEF TypeInv, TypeOK
  <2>3. /\ call' \in [Calls -> CallType \cup {NoCall}]
        /\ \A m \in Calls : call[m] # NoCall => call'[m] # NoCall
    BY <1>1, <2>1, <2>2, CallWritten DEF CallType, TypeInv
  <2>4. j \in JobType /\ AfterCreate(p) \in Labels
    BY <1>1, <2>2 DEF JobType, AfterCreate, Labels
  <2>5. Fits(AfterCreate(p), j)
    BY <1>1, <2>2 DEF Fits, AfterCreate, JobType
  <2>6. Exists(j) BY <1>0 DEF TypeInv, JobOK, Exists
  <2>7. job' = [job EXCEPT ![p] = j] /\ pc' = [pc EXCEPT ![p] = AfterCreate(p)]
    BY <2>1 DEF Goto
  <2>8. JobOK' /\ pc' \in [Procs -> Labels] /\ job' \in [Procs -> JobType]
    BY <1>0, <2>3, <2>4, <2>5, <2>6, <2>7, JobWritten
  <2> QED BY <1>0, <2>1, <2>3, <2>8 DEF history, TypeInv, TypeOK
<1>3. CASE \E u \in free[p] : free' = [free EXCEPT ![p] = @ \ {u}] /\ UNCHANGED <<call, pc, job>>
  BY <1>0, <1>3 DEF history, TypeInv, TypeOK, JobOK, Exists
<1>4. CASE free[p] = {} /\ call' = call /\ End(p)
  BY <1>0, <1>4, Ended DEF history, TypeInv, TypeOK
<1> QED BY <1>2, <1>3, <1>4 DEF BookCreate

\* A step of bookSlot keeps the types and leaves every request well formed.
LEMMA BookTypes == TypeInv /\ BookNext => TypeInv'
<1> SUFFICES ASSUME TypeInv, BookNext PROVE TypeInv'
  OBVIOUS
<1> USE DEF Procs
<1>1. ASSUME NEW p \in Bookers, BookLook(p) PROVE TypeInv'
  <2>1. UNCHANGED <<agenda, job, history>> /\ pc[p] = "look" /\ p \in Procs
    BY <1>1 DEF BookLook
  <2>2. free' \in [Procs -> SUBSET Users]
    BY <1>1 DEF BookLook, FreeUsers, TypeInv, TypeOK
  <2>3. Fits("create", job[p]) /\ Exists(job[p]) /\ job[p] \in JobType
    BY <2>1 DEF TypeInv, TypeOK, JobOK, Fits
  <2>4. job' = [job EXCEPT ![p] = job[p]] /\ pc' = [pc EXCEPT ![p] = "create"]
    BY <1>1, <2>1 DEF BookLook, Goto, TypeInv, TypeOK
  <2>5. JobOK' /\ pc' \in [Procs -> Labels] /\ job' \in [Procs -> JobType]
    BY <2>1, <2>3, <2>4, JobWritten DEF agenda, Labels
  <2> QED BY <2>1, <2>2, <2>5 DEF history, TypeInv, TypeOK, agenda
<1>2. ASSUME NEW p \in Bookers, BookCancel(p) PROVE TypeInv'
  <2>1. /\ UNCHANGED <<visits, assignee, mirror, date, job, free, history>>
        /\ pc[p] = "cancel" /\ p \in Procs
        /\ call' = [call EXCEPT ![job[p].call] =
                      [call[job[p].call] EXCEPT !.status = "cancelled"]]
    BY <1>2 DEF BookCancel
  <2>2. job[p].call \in Calls /\ call[job[p].call] \in CallType
    BY <2>1 DEF TypeInv, TypeOK, JobOK, Fits, Exists
  <2>3. [call[job[p].call] EXCEPT !.status = "cancelled"] \in CallType
    BY <2>2 DEF CallType
  <2>4. /\ call' \in [Calls -> CallType \cup {NoCall}]
        /\ \A m \in Calls : call[m] # NoCall => call'[m] # NoCall
    BY <2>1, <2>2, <2>3, CallWritten DEF TypeInv
  <2>5. Fits("assign", job[p]) /\ Exists(job[p]) /\ job[p] \in JobType
    BY <2>1 DEF TypeInv, TypeOK, JobOK, Fits
  <2>6. job' = [job EXCEPT ![p] = job[p]] /\ pc' = [pc EXCEPT ![p] = "assign"]
    BY <1>2, <2>1 DEF BookCancel, Goto, TypeInv, TypeOK
  <2>7. JobOK' /\ pc' \in [Procs -> Labels] /\ job' \in [Procs -> JobType]
    BY <2>1, <2>4, <2>5, <2>6, JobWritten DEF Labels
  <2> QED BY <2>1, <2>4, <2>7 DEF history, TypeInv, TypeOK
<1>3. ASSUME NEW p \in Bookers, BookAssign(p) PROVE TypeInv'
  <2>1. UNCHANGED <<call, visits, mirror, date, history>> /\ End(p) /\ p \in Procs
    BY <1>3 DEF BookAssign
  <2>2. assignee' \in [Sessions -> Users \cup {None}]
    BY <1>3, <2>1 DEF BookAssign, TypeInv, TypeOK, JobOK, Fits
  <2> QED BY <2>1, <2>2, Ended DEF history, TypeInv, TypeOK
<1> QED BY <1>1, <1>2, <1>3, BookFindTypes, BookCreateTypes DEF BookNext

\* The searches of the administrator's requests: only the request moves.
LEMMA AdminLookTypes ==
  ASSUME TypeInv, NEW p \in Admins,
         \/ \E n \in Calls : AdminFind(p, n, "reassign") \/ AdminFind(p, n, "reschedule")
         \/ ReassignLook(p)
         \/ \E slot \in Slots : RescheduleLook(p, slot)
         \/ RescheduleRecheck(p)
  PROVE  TypeInv'
<1> USE DEF Procs
<1>0. UNCHANGED <<agenda, closes>> /\ disturbed' \in BOOLEAN /\ p \in Procs
  BY DEF AdminFind, ReassignLook, RescheduleLook, RescheduleRecheck, Begin, history,
         TypeInv, TypeOK
<1>1. ASSUME free' \in [Procs -> SUBSET Users],
             NEW j \in JobType, NEW label \in Labels, Fits(label, j), Exists(j),
             job' = [job EXCEPT ![p] = j], pc' = [pc EXCEPT ![p] = label]
      PROVE TypeInv'
  BY <1>0, <1>1, JobWritten DEF history, TypeInv, TypeOK, agenda
<1>f. free \in [Procs -> SUBSET Users] BY DEF TypeInv, TypeOK
<1>2. ASSUME End(p) PROVE TypeInv'
  BY <1>0, <1>2, Ended DEF history, TypeInv, TypeOK, agenda
<1>3. ASSUME NEW n \in Calls, NEW label \in {"reassign", "reschedule"}, AdminFind(p, n, label)
      PROVE TypeInv'
  <2> DEFINE j == JobOf(call[n].session, call[n].slot, n, call[n].user)
  <2>1. call[n] \in CallType BY <1>3 DEF AdminFind, Pending, TypeInv, TypeOK, NoCall
  <2>2. j \in JobType /\ label \in Labels BY <2>1 DEF JobType, CallType, Labels, NoJob, JobOf
  <2>3. Fits(label, j) /\ Exists(j)
    BY <2>1, CallIsSomething DEF Fits, Exists, CallType, NoJob, JobOf
  <2> QED BY <1>1, <1>3, <1>f, <2>2, <2>3 DEF AdminFind, Goto
<1>4. CASE ReassignLook(p)
  <2>1. CASE End(p) BY <1>2, <2>1
  <2>2. CASE ~End(p)
    <3>1. PICK u \in Users :
            job' = [job EXCEPT ![p].user = u] /\ free' = free /\ Goto(p, "move")
      BY <1>4, <2>2 DEF ReassignLook, FreeUsers
    <3> DEFINE j == [job[p] EXCEPT !.user = u]
    <3>2. /\ job[p] \in JobType /\ Fits("reassign", job[p]) /\ Exists(job[p])
      BY <1>0, <1>4 DEF ReassignLook, TypeInv, TypeOK, JobOK
    <3>3. j \in JobType /\ "move" \in Labels BY <3>2 DEF JobType, Labels
    <3>4. Fits("move", j) /\ Exists(j) BY <3>2 DEF Fits, Exists, JobType
    <3> QED BY <1>1, <1>f, <3>1, <3>3, <3>4 DEF Goto
  <2> QED BY <2>1, <2>2
<1>5. ASSUME NEW slot \in Slots, RescheduleLook(p, slot) PROVE TypeInv'
  <2> DEFINE told(u) == [job[p] EXCEPT !.user = u, !.slot = slot, !.was = job[p].user]
             kept == [job[p] EXCEPT !.slot = slot, !.was = job[p].user]
  <2>1. /\ job[p] \in JobType /\ Fits("reschedule", job[p]) /\ Exists(job[p])
    BY <1>0, <1>5 DEF RescheduleLook, TypeInv, TypeOK, JobOK
  <2>2. CASE End(p) BY <1>2, <2>2
  <2>3. ASSUME NEW u \in FreeUsers(slot) \cup {job[p].user},
               job' = [job EXCEPT ![p] = told(u)], Goto(p, "shift"), free' = free
        PROVE  TypeInv'
    <3>1. u \in Users BY <2>1 DEF FreeUsers, Fits
    <3>2. told(u) \in JobType /\ "shift" \in Labels BY <2>1, <3>1 DEF JobType, Labels
    <3>3. Fits("shift", told(u)) /\ Exists(told(u)) BY <2>1, <3>1 DEF Fits, Exists, JobType
    <3> QED BY <1>1, <1>f, <2>3, <3>2, <3>3 DEF Goto
  <2>4. CASE /\ job' = [job EXCEPT ![p] = kept] /\ Goto(p, "recheck")
             /\ free' = [free EXCEPT ![p] = FreeUsers(slot)]
    <3>1. kept \in JobType /\ "recheck" \in Labels BY <2>1 DEF JobType, Labels
    <3>2. Fits("recheck", kept) /\ Exists(kept) BY <2>1 DEF Fits, Exists, JobType
    <3>3. free' \in [Procs -> SUBSET Users] BY <1>f, <2>4 DEF FreeUsers
    <3> QED BY <1>1, <2>4, <3>1, <3>2, <3>3 DEF Goto
  <2>5. job \in [Procs -> JobType] BY DEF TypeInv, TypeOK
  <2> QED BY <1>0, <1>5, <2>2, <2>3, <2>4, <2>5 DEF RescheduleLook
<1>6. CASE RescheduleRecheck(p)
  <2>1. /\ job[p] \in JobType /\ Fits("recheck", job[p]) /\ Exists(job[p])
        /\ free[p] \subseteq Users
    BY <1>0, <1>6 DEF RescheduleRecheck, TypeInv, TypeOK, JobOK
  <2>2. CASE End(p) BY <1>2, <2>2
  <2>3. CASE ~End(p)
    <3>1. PICK u \in Users :
            /\ job' = [job EXCEPT ![p].user = u] /\ Goto(p, "shift")
            /\ free' = [free EXCEPT ![p] = {}]
      BY <1>6, <2>1, <2>3 DEF RescheduleRecheck, Fits
    <3> DEFINE j == [job[p] EXCEPT !.user = u]
    <3>2. j \in JobType /\ "shift" \in Labels BY <2>1 DEF JobType, Labels
    <3>3. Fits("shift", j) /\ Exists(j) BY <2>1 DEF Fits, Exists, JobType
    <3>4. free' \in [Procs -> SUBSET Users] BY <1>f, <3>1
    <3> QED BY <1>1, <3>1, <3>2, <3>3, <3>4 DEF Goto
  <2> QED BY <2>2, <2>3
<1> QED BY <1>3, <1>4, <1>5, <1>6

\* The updates of the call itself.
LEMMA AdminWriteTypes ==
  ASSUME TypeInv, NEW p \in Admins, Move(p) \/ Shift(p)
  PROVE  TypeInv'
<1> USE DEF Procs
<1> DEFINE j == job[p]
<1>0. UNCHANGED <<visits, assignee, mirror, date, history>> /\ p \in Procs
  BY DEF Move, Shift
<1>1. /\ j \in JobType /\ Fits("shift", j) /\ Exists(j)
      /\ j.call \in Calls /\ call[j.call] \in CallType
  BY <1>0 DEF Move, Shift, TypeInv, TypeOK, JobOK, Fits, Exists
<1>2. CASE call' = call /\ End(p)
  BY <1>0, <1>2, Ended DEF history, TypeInv, TypeOK
<1>3. ASSUME NEW c \in CallType, call' = [call EXCEPT ![j.call] = c],
             NEW label \in {"own", "patch"}, Goto(p, label), UNCHANGED <<job, free>>
      PROVE TypeInv'
  <2>1. /\ call' \in [Calls -> CallType \cup {NoCall}]
        /\ \A m \in Calls : call[m] # NoCall => call'[m] # NoCall
    BY <1>1, <1>3, CallWritten DEF TypeInv
  <2>2. label \in Labels /\ Fits(label, j) BY <1>1 DEF Labels, Fits
  <2>3. job' = [job EXCEPT ![p] = j] /\ pc' = [pc EXCEPT ![p] = label]
    BY <1>0, <1>3 DEF Goto, TypeInv, TypeOK
  <2>4. JobOK' /\ pc' \in [Procs -> Labels] /\ job' \in [Procs -> JobType]
    BY <1>0, <1>1, <2>1, <2>2, <2>3, JobWritten
  <2> QED BY <1>0, <1>3, <2>1, <2>4 DEF history, TypeInv, TypeOK
<1>4. CASE Move(p)
  <2> DEFINE c == [call[j.call] EXCEPT !.user = j.user]
  <2>1. c \in CallType BY <1>1 DEF CallType, Fits
  <2> QED BY <1>2, <1>3, <1>4, <2>1 DEF Move
<1>5. CASE Shift(p)
  <2> DEFINE c == [call[j.call] EXCEPT !.user = j.user, !.slot = j.slot]
  <2>1. c \in CallType BY <1>1 DEF CallType, Fits
  <2>2. CASE call' = call /\ End(p) BY <1>2, <2>2
  <2>3. CASE ~(call' = call /\ End(p))
    <3>1. /\ call' = [call EXCEPT ![j.call].user = j.user, ![j.call].slot = j.slot]
          /\ Goto(p, IF j.user = j.was THEN "patch" ELSE "own")
          /\ UNCHANGED <<job, free>>
      BY <1>5, <2>3 DEF Shift
    <3>2. call' = [call EXCEPT ![j.call] = c] BY <1>1, <3>1 DEF TypeInv, TypeOK
    <3> QED BY <1>3, <2>1, <3>1, <3>2
  <2> QED BY <2>2, <2>3
<1> QED BY <1>4, <1>5

\* What a request writes to the customer and to the session.
LEMMA AdminTellTypes ==
  ASSUME TypeInv, NEW p \in Admins, Own(p) \/ Mirror(p) \/ Patch(p)
  PROVE  TypeInv'
<1> USE DEF Procs
<1> DEFINE j == job[p]
<1>0. UNCHANGED <<call, visits, history>> /\ p \in Procs
  BY DEF Own, Mirror, Patch
<1>1. /\ j \in JobType /\ Fits("own", j) /\ Exists(j)
  BY <1>0 DEF Own, Mirror, Patch, TypeInv, TypeOK, JobOK, Fits
<1>2. /\ assignee' \in [Sessions -> Users \cup {None}]
      /\ mirror' \in [Sessions -> Users \cup {None}]
      /\ date' \in [Sessions -> Slots \cup {None}]
  BY <1>1 DEF Own, Mirror, Patch, Fits, TypeInv, TypeOK
<1>3. CASE End(p)
  BY <1>0, <1>2, <1>3, Ended DEF history, TypeInv, TypeOK
<1>4. ASSUME NEW label \in {"mirror", "patch"}, Goto(p, label), UNCHANGED <<job, free>>
      PROVE TypeInv'
  <2>1. label \in Labels /\ Fits(label, j) BY <1>1 DEF Labels, Fits
  <2>2. job' = [job EXCEPT ![p] = j] /\ pc' = [pc EXCEPT ![p] = label]
    BY <1>0, <1>4 DEF Goto, TypeInv, TypeOK
  <2>3. JobOK' /\ pc' \in [Procs -> Labels] /\ job' \in [Procs -> JobType]
    BY <1>0, <1>1, <2>1, <2>2, JobWritten
  <2> QED BY <1>0, <1>2, <1>4, <2>3 DEF history, TypeInv, TypeOK
<1> QED BY <1>3, <1>4 DEF Own, Mirror, Patch

\* So does a step of an administrator's request.
LEMMA AdminTypes == TypeInv /\ AdminNext => TypeInv'
<1> SUFFICES ASSUME TypeInv, AdminNext PROVE TypeInv'
  OBVIOUS
<1>1. ASSUME NEW n \in Calls, NEW status \in {"done", "cancelled"}, Close(n, status)
      PROVE TypeInv'
  <2>1. /\ UNCHANGED <<visits, assignee, mirror, date, pc, job, free, disturbed>>
        /\ call' = [call EXCEPT ![n] = [call[n] EXCEPT !.status = status]]
        /\ call[n] \in CallType
        /\ closes' \in Nat
    BY <1>1 DEF Close, TypeInv, TypeOK
  <2>2. [call[n] EXCEPT !.status = status] \in CallType BY <2>1 DEF CallType
  <2>3. /\ call' \in [Calls -> CallType \cup {NoCall}]
        /\ \A m \in Calls : call[m] # NoCall => call'[m] # NoCall
    BY <2>1, <2>2, CallWritten DEF TypeInv
  <2> QED BY <2>1, <2>3 DEF history, TypeInv, TypeOK, JobOK, Exists
<1> QED BY <1>1, AdminLookTypes, AdminWriteTypes, AdminTellTypes DEF AdminNext

\* What the users do to their schedules leaves every request well formed.
LEMMA UserTypes == TypeInv /\ UserNext => TypeInv'
<1> SUFFICES ASSUME TypeInv, UserNext PROVE TypeInv'
  OBVIOUS
<1>1. ASSUME NEW u \in Users, NEW slot \in Slots, PlaceVisit(u, slot) PROVE TypeInv'
  <2>1. /\ UNCHANGED <<call, assignee, mirror, date, pc, free, history>>
        /\ visits' = visits \cup {<<u, slot>>}
        /\ job' = [p \in Procs |-> IF Searching(p, slot)
                     THEN [job[p] EXCEPT !.late = @ \cup {u}] ELSE job[p]]
    BY <1>1 DEF PlaceVisit
  <2>2. ASSUME NEW p \in Procs
        PROVE  job'[p] \in JobType /\ Fits(pc[p], job'[p]) /\ Exists(job'[p])
    <3>1. job[p] \in JobType /\ Fits(pc[p], job[p]) /\ Exists(job[p])
      BY DEF TypeInv, TypeOK, JobOK
    <3>2. job'[p] = IF Searching(p, slot) THEN [job[p] EXCEPT !.late = @ \cup {u}] ELSE job[p]
      BY <2>1
    <3> QED BY <3>1, <3>2 DEF JobType, Fits, Exists
  <2>3. job' \in [Procs -> JobType] BY <2>1, <2>2
  <2>4. JobOK' BY <2>1, <2>2 DEF JobOK, Exists
  <2> QED BY <2>1, <2>3, <2>4 DEF history, TypeInv, TypeOK
<1>2. ASSUME NEW u \in Users, NEW slot \in Slots, EndVisit(u, slot) PROVE TypeInv'
  BY <1>2 DEF EndVisit, history, TypeInv, TypeOK, JobOK, Exists
<1>3. ASSUME NEW n \in Calls, Reopen(n) PROVE TypeInv'
  <2>1. /\ UNCHANGED <<visits, assignee, mirror, date, pc, job, free, closes>>
        /\ call' = [call EXCEPT ![n] = [call[n] EXCEPT !.status = "pending"]]
        /\ call[n] \in CallType
        /\ disturbed' \in BOOLEAN
    BY <1>3 DEF Reopen, TypeInv, TypeOK, NoCall
  <2>2. [call[n] EXCEPT !.status = "pending"] \in CallType BY <2>1 DEF CallType
  <2>3. /\ call' \in [Calls -> CallType \cup {NoCall}]
        /\ \A m \in Calls : call[m] # NoCall => call'[m] # NoCall
    BY <2>1, <2>2, CallWritten DEF TypeInv
  <2> QED BY <2>1, <2>3 DEF TypeInv, TypeOK, JobOK, Exists
<1> QED BY <1>1, <1>2, <1>3 DEF UserNext

\* The inductive step of the types.
LEMMA TypeStep == TypeInv /\ [Next]_vars => TypeInv'
<1>1. CASE UNCHANGED vars
  BY <1>1 DEF vars, agenda, history, TypeInv, TypeOK, JobOK, Exists
<1> QED BY <1>1, BookTypes, AdminTypes, UserTypes DEF Next

\* Every variable keeps its type; a call is never left without a user or a slot.
THEOREM TypeCorrect == Spec => []TypeOK
<1>1. Init => TypeInv BY InitTypeInv
<1>2. TypeInv /\ [Next]_vars => TypeInv' BY TypeStep
<1>3. TypeInv => TypeOK BY DEF TypeInv
<1> QED BY <1>1, <1>2, <1>3, PTL DEF Spec

-----------------------------------------------------------------------------
(* The unique index                                                          *)

\* An insert or an update of call n that the index admits, and a step that only
\* takes calls out of the index, leave no two pending calls at one place.
LEMMA IndexHolds ==
  ASSUME TypeOK, NoDoubleBooking,
         NEW n \in Calls,
         \A m \in Calls : m # n => call'[m] = call[m],
         \/ call'[n].status # "pending"
         \/ IndexAdmits(n, call'[n].user, call'[n].slot)
  PROVE  NoDoubleBooking'
  BY DEF NoDoubleBooking, IndexAdmits, PendingAt, Pending

\* The step that preserves it, by the actions that write calls.
LEMMA BookingStep == TypeInv /\ NoDoubleBooking /\ [Next]_vars => NoDoubleBooking'
<1> SUFFICES ASSUME TypeInv, NoDoubleBooking, [Next]_vars PROVE NoDoubleBooking'
  OBVIOUS
<1> USE DEF TypeInv, Procs
<1>1. CASE call' = call
  BY <1>1 DEF NoDoubleBooking, Pending
<1>2. ASSUME NEW p \in Bookers, BookCreate(p), call' # call PROVE NoDoubleBooking'
  <2>1. PICK u \in free[p], n \in Calls :
          /\ IndexAdmits(n, u, job[p].slot)
          /\ call' = [call EXCEPT ![n] = [user |-> u, slot |-> job[p].slot,
                        session |-> job[p].session, status |-> "pending"]]
    BY <1>2 DEF BookCreate
  <2>2. call'[n] = [user |-> u, slot |-> job[p].slot, session |-> job[p].session,
                    status |-> "pending"]
    BY <2>1 DEF TypeOK
  <2>3. \A m \in Calls : m # n => call'[m] = call[m] BY <2>1 DEF TypeOK
  <2>4. IndexAdmits(n, call'[n].user, call'[n].slot) BY <2>1, <2>2
  <2> QED BY <2>3, <2>4, IndexHolds
<1>3. ASSUME NEW p \in Bookers, BookCancel(p) PROVE NoDoubleBooking'
  <2>1. job[p].call \in Calls BY <1>3 DEF BookCancel, JobOK, Fits
  <2>2. call' = [call EXCEPT ![job[p].call].status = "cancelled"] BY <1>3 DEF BookCancel
  <2>3. NoDoubleBooking'
    BY <2>1, <2>2 DEF NoDoubleBooking, Pending, TypeOK, CallType, NoCall
  <2> QED BY <2>3
<1>4. ASSUME NEW p \in Admins, Move(p), call' # call PROVE NoDoubleBooking'
  <2> DEFINE n == job[p].call
  <2>1. n \in Calls /\ call[n] \in CallType
    BY <1>4 DEF Move, JobOK, Fits, Exists, TypeOK
  <2>2. /\ Pending(n) => IndexAdmits(n, job[p].user, call[n].slot)
        /\ call' = [call EXCEPT ![n] = [call[n] EXCEPT !.user = job[p].user]]
    BY <1>4 DEF Move
  <2>3. \A m \in Calls : m # n => call'[m] = call[m] BY <2>2 DEF TypeOK
  <2>4. call'[n] = [call[n] EXCEPT !.user = job[p].user] BY <2>1, <2>2, CallWritten
  <2>5. /\ call'[n].user = job[p].user
        /\ call'[n].slot = call[n].slot
        /\ call'[n].status = call[n].status
    BY <2>1, <2>4 DEF CallType
  <2> HIDE DEF n
  <2> QED BY <2>1, <2>2, <2>3, <2>5, IndexHolds DEF Pending
<1>5. ASSUME NEW p \in Admins, Shift(p), call' # call PROVE NoDoubleBooking'
  <2> DEFINE n == job[p].call
  <2>1. n \in Calls /\ call[n] \in CallType
    BY <1>5 DEF Shift, JobOK, Fits, Exists, TypeOK
  <2>2. /\ Pending(n) => IndexAdmits(n, job[p].user, job[p].slot)
        /\ call' = [call EXCEPT ![n] =
                      [call[n] EXCEPT !.user = job[p].user, !.slot = job[p].slot]]
    BY <1>5 DEF Shift
  <2>3. \A m \in Calls : m # n => call'[m] = call[m] BY <2>2 DEF TypeOK
  <2>4. call'[n] = [call[n] EXCEPT !.user = job[p].user, !.slot = job[p].slot]
    BY <2>1, <2>2, CallWritten
  <2>5. /\ call'[n].user = job[p].user
        /\ call'[n].slot = job[p].slot
        /\ call'[n].status = call[n].status
    BY <2>1, <2>4 DEF CallType
  <2> HIDE DEF n
  <2> QED BY <2>1, <2>2, <2>3, <2>5, IndexHolds DEF Pending
<1>6. ASSUME NEW n \in Calls, NEW status \in {"done", "cancelled"}, Close(n, status)
      PROVE NoDoubleBooking'
  BY <1>6 DEF Close, NoDoubleBooking, Pending, TypeOK, CallType, NoCall
<1>u. ASSUME NEW n \in Calls, Reopen(n) PROVE NoDoubleBooking'
  <2>1. /\ IndexAdmits(n, call[n].user, call[n].slot) /\ call[n] \in CallType
        /\ call' = [call EXCEPT ![n] = [call[n] EXCEPT !.status = "pending"]]
    BY <1>u DEF Reopen, TypeOK, NoCall
  <2>2. \A m \in Calls : m # n => call'[m] = call[m] BY <2>1 DEF TypeOK
  <2>3. call'[n] = [call[n] EXCEPT !.status = "pending"] BY <2>1 DEF TypeOK
  <2>4. call'[n].user = call[n].user /\ call'[n].slot = call[n].slot
    BY <2>1, <2>3 DEF CallType
  <2> QED BY <2>1, <2>2, <2>4, IndexHolds
<1>7. CASE UNCHANGED vars
  BY <1>1, <1>7 DEF vars, agenda, history
<1>8. CASE BookNext
  BY <1>1, <1>2, <1>3, <1>8
     DEF BookNext, BookFind, BookLook, BookAssign, agenda
<1>9. CASE AdminNext
  BY <1>1, <1>4, <1>5, <1>6, <1>9
     DEF AdminNext, AdminFind, ReassignLook, RescheduleLook, RescheduleRecheck, Own, Mirror,
         Patch, agenda
<1>10. CASE UserNext BY <1>1, <1>u, <1>10 DEF UserNext, PlaceVisit, EndVisit
<1> QED BY <1>7, <1>8, <1>9, <1>10 DEF Next

\* bookSlot, reassignCall and rescheduleCall search first and write later; the
\* unique index alone keeps every user to one pending call per start.
THEOREM NoDoubleBookingCorrect == Spec => []NoDoubleBooking
<1>1. Init => TypeInv /\ NoDoubleBooking
  BY InitTypeInv DEF Init, NoDoubleBooking, Pending, NoCall
<1>2. TypeInv /\ NoDoubleBooking /\ [Next]_vars => (TypeInv /\ NoDoubleBooking)'
  BY TypeStep, BookingStep
<1> QED BY <1>1, <1>2, PTL DEF Spec

\* The two together: what the agenda promises its users.
THEOREM AgendaSafeCorrect == Spec => []AgendaSafe
<1>1. TypeOK /\ NoDoubleBooking => AgendaSafe BY DEF AgendaSafe
<1> QED BY <1>1, TypeCorrect, NoDoubleBookingCorrect, PTL

-----------------------------------------------------------------------------
(* Bookings and the rest of the day                                          *)

\* An event of u in the slot of request p was put there after p had searched.
LateIfAny(p, u) == <<u, job[p].slot>> \in visits => u \in job[p].late

\* What request p found is still so, but for the events put into the slot meanwhile:
\* those it may choose from had none, and the one it chose neither.
Candidate(p) ==
  /\ pc[p] \in {"create", "recheck"} => \A u \in free[p] : LateIfAny(p, u)
  /\ pc[p] = "move" => LateIfAny(p, job[p].user)
  /\ pc[p] = "recheck" => job[p].was = job[p].user
  /\ pc[p] = "shift" /\ job[p].was # job[p].user => LateIfAny(p, job[p].user)

CandidatesAreFree == \A p \in Procs : Candidate(p)

\* A step of one request is no matter of another's candidates.
LEMMA OthersKeep ==
  ASSUME CandidatesAreFree, NEW p \in Procs, visits' = visits,
         \A q \in Procs : q # p => /\ pc'[q] = pc[q] /\ job'[q] = job[q]
                                  /\ free'[q] = free[q],
         Candidate(p)'
  PROVE  CandidatesAreFree'
  BY DEF CandidatesAreFree, Candidate, LateIfAny

\* Only a search makes candidates, only a choice or an insert takes some away, and an
\* event put into the slot is noted by those who have searched.
LEMMA CandidatesStep ==
  ASSUME TypeInv, CandidatesAreFree, [Next]_vars
  PROVE  CandidatesAreFree'
<1> USE DEF Procs
<1>t. /\ pc \in [Procs -> Labels] /\ job \in [Procs -> JobType]
      /\ free \in [Procs -> SUBSET Users]
  BY DEF TypeInv, TypeOK
<1>c. \A p \in Procs : Candidate(p) BY DEF CandidatesAreFree
<1>1. CASE BookNext
  <2>1. ASSUME NEW p \in Bookers, NEW s \in Sessions, NEW slot \in Slots,
               BookFind(p, s, slot)
        PROVE  CandidatesAreFree'
    <3>1. /\ visits' = visits /\ free' = free
          /\ \A q \in Procs : q # p => pc'[q] = pc[q] /\ job'[q] = job[q]
          /\ pc'[p] \in {"look", "assign"}
      BY <2>1, <1>t DEF BookFind, Goto, agenda
    <3>2. Candidate(p)' BY <3>1 DEF Candidate
    <3> QED BY <3>1, <3>2, OthersKeep
  <2>2. ASSUME NEW p \in Bookers, BookLook(p) PROVE CandidatesAreFree'
    <3>1. /\ visits' = visits /\ job' = job
          /\ \A q \in Procs : q # p => pc'[q] = pc[q] /\ free'[q] = free[q]
          /\ pc'[p] = "create" /\ free'[p] = FreeUsers(job[p].slot)
      BY <2>2, <1>t DEF BookLook, Goto, agenda
    <3>2. Candidate(p)' BY <3>1 DEF Candidate, LateIfAny, FreeUsers
    <3> QED BY <3>1, <3>2, OthersKeep
  <2>3. ASSUME NEW p \in Bookers, BookCreate(p) PROVE CandidatesAreFree'
    <3>1. /\ visits' = visits
          /\ \A q \in Procs : q # p => /\ pc'[q] = pc[q] /\ job'[q] = job[q]
                                       /\ free'[q] = free[q]
      BY <2>3, <1>t DEF BookCreate, Goto, End
    <3>2. \/ pc'[p] \in {"assign", "cancel", "idle"}
          \/ pc'[p] = "create" /\ job'[p] = job[p] /\ free'[p] \subseteq free[p]
      BY <2>3, <1>t DEF BookCreate, Goto, End, AfterCreate
    <3>3. pc[p] = "create" BY <2>3 DEF BookCreate
    <3>4. Candidate(p)' BY <3>1, <3>2, <3>3, <1>c DEF Candidate, LateIfAny
    <3> QED BY <3>1, <3>4, OthersKeep
  <2>4. ASSUME NEW p \in Bookers, BookCancel(p) \/ BookAssign(p)
        PROVE  CandidatesAreFree'
    <3>1. /\ visits' = visits
          /\ \A q \in Procs : q # p => /\ pc'[q] = pc[q] /\ job'[q] = job[q]
                                       /\ free'[q] = free[q]
          /\ pc'[p] \in {"assign", "idle"}
      BY <2>4, <1>t DEF BookCancel, BookAssign, Goto, End
    <3>2. Candidate(p)' BY <3>1 DEF Candidate
    <3> QED BY <3>1, <3>2, OthersKeep
  <2> QED BY <1>1, <2>1, <2>2, <2>3, <2>4 DEF BookNext
<1>2. CASE AdminNext
  <2>1. ASSUME NEW p \in Admins,
               \/ \E n \in Calls : AdminFind(p, n, "reassign") \/ AdminFind(p, n, "reschedule")
               \/ Move(p) \/ Shift(p) \/ Own(p) \/ Mirror(p) \/ Patch(p)
        PROVE  CandidatesAreFree'
    <3> DEFINE spared ==
                 /\ visits' = visits
                 /\ \A q \in Procs : q # p => /\ pc'[q] = pc[q] /\ job'[q] = job[q]
                                              /\ free'[q] = free[q]
                 /\ pc'[p] \in {"reassign", "reschedule", "own", "mirror", "patch", "idle"}
    <3>1. spared
      <4>1. ASSUME NEW n \in Calls, NEW label \in {"reassign", "reschedule"},
                   AdminFind(p, n, label)
            PROVE  spared
        BY <4>1, <1>t DEF AdminFind, Goto, agenda
      <4>3. CASE Move(p) BY <4>3, <1>t DEF Move, Goto, End
      <4>5. CASE Shift(p) BY <4>5, <1>t DEF Shift, Goto, End
      <4>6. CASE Own(p) BY <4>6, <1>t DEF Own, Goto
      <4>7. CASE Mirror(p) BY <4>7, <1>t DEF Mirror, Goto, End
      <4>8. CASE Patch(p) BY <4>8, <1>t DEF Patch, End
      <4> QED BY <2>1, <4>1, <4>3, <4>5, <4>6, <4>7, <4>8
    <3>2. Candidate(p)' BY <3>1 DEF Candidate
    <3> QED BY <3>1, <3>2, OthersKeep
  <2>2. ASSUME NEW n \in Calls, NEW status \in {"done", "cancelled"}, Close(n, status)
        PROVE  CandidatesAreFree'
    BY <2>2 DEF Close, CandidatesAreFree, Candidate, LateIfAny
  <2>3. ASSUME NEW p \in Admins, ReassignLook(p) PROVE CandidatesAreFree'
    <3>1. /\ visits' = visits
          /\ \A q \in Procs : q # p => /\ pc'[q] = pc[q] /\ job'[q] = job[q]
                                       /\ free'[q] = free[q]
      BY <2>3, <1>t DEF ReassignLook, Goto, End, agenda
    <3>2. \/ pc'[p] = "idle"
          \/ /\ pc'[p] = "move" /\ job'[p].slot = job[p].slot
             /\ job'[p].user \in FreeUsers(job[p].slot)
      BY <2>3, <1>t DEF ReassignLook, Goto, End, JobType
    <3>3. Candidate(p)' BY <3>1, <3>2 DEF Candidate, LateIfAny, FreeUsers
    <3> QED BY <3>1, <3>3, OthersKeep
  <2>4. ASSUME NEW p \in Admins, NEW slot \in Slots, RescheduleLook(p, slot)
        PROVE  CandidatesAreFree'
    <3>1. /\ visits' = visits
          /\ \A q \in Procs : q # p => /\ pc'[q] = pc[q] /\ job'[q] = job[q]
                                       /\ free'[q] = free[q]
      BY <2>4, <1>t DEF RescheduleLook, Goto, End, agenda
    <3>2. \/ pc'[p] = "idle"
          \/ /\ pc'[p] = "recheck" /\ job'[p].slot = slot /\ job'[p].was = job'[p].user
             /\ free'[p] = FreeUsers(slot)
          \/ /\ pc'[p] = "shift" /\ job'[p].slot = slot /\ job'[p].was = job[p].user
             /\ job'[p].user \in FreeUsers(slot) \cup {job[p].user}
      <4>1. CASE End(p) BY <4>1, <1>t DEF End
      <4>2. CASE /\ job' = [job EXCEPT ![p].slot = slot, ![p].was = job[p].user]
                 /\ free' = [free EXCEPT ![p] = FreeUsers(slot)] /\ Goto(p, "recheck")
        <5>1. job'[p] = [job[p] EXCEPT !.slot = slot, !.was = job[p].user]
          BY <4>2, <1>t
        <5> QED BY <4>2, <5>1, <1>t DEF Goto, JobType
      <4>3. ASSUME NEW u \in FreeUsers(slot) \cup {job[p].user}, Goto(p, "shift"),
              job' = [job EXCEPT ![p].user = u, ![p].slot = slot, ![p].was = job[p].user]
            PROVE  /\ pc'[p] = "shift" /\ job'[p].slot = slot /\ job'[p].was = job[p].user
                   /\ job'[p].user \in FreeUsers(slot) \cup {job[p].user}
        <5>1. job'[p] = [job[p] EXCEPT !.user = u, !.slot = slot, !.was = job[p].user]
          BY <4>3, <1>t
        <5> QED BY <4>3, <5>1, <1>t DEF Goto, JobType
      <4> QED BY <2>4, <4>1, <4>2, <4>3 DEF RescheduleLook
    <3>3. Candidate(p)' BY <3>1, <3>2 DEF Candidate, LateIfAny, FreeUsers
    <3> QED BY <3>1, <3>3, OthersKeep
  <2>5. ASSUME NEW p \in Admins, RescheduleRecheck(p) PROVE CandidatesAreFree'
    <3>1. /\ visits' = visits
          /\ \A q \in Procs : q # p => /\ pc'[q] = pc[q] /\ job'[q] = job[q]
                                       /\ free'[q] = free[q]
      BY <2>5, <1>t DEF RescheduleRecheck, Goto, End, agenda
    <3>2. \/ pc'[p] = "idle"
          \/ /\ pc'[p] = "shift" /\ job'[p].slot = job[p].slot /\ job'[p].was = job[p].was
             /\ job'[p].late = job[p].late
             /\ job'[p].user \in free[p] \cup {job[p].user}
      BY <2>5, <1>t DEF RescheduleRecheck, Goto, End, JobType
    <3>3. pc[p] = "recheck" BY <2>5 DEF RescheduleRecheck
    <3>4. Candidate(p)' BY <3>1, <3>2, <3>3, <1>c DEF Candidate, LateIfAny
    <3> QED BY <3>1, <3>4, OthersKeep
  <2> QED BY <1>2, <2>1, <2>2, <2>3, <2>4, <2>5 DEF AdminNext
<1>3. CASE UserNext
  <2>1. ASSUME NEW u \in Users, NEW slot \in Slots, PlaceVisit(u, slot)
        PROVE  CandidatesAreFree'
    <3>1. /\ pc' = pc /\ free' = free /\ visits' = visits \cup {<<u, slot>>}
          /\ \A p \in Procs : job'[p] = IF Searching(p, slot)
                                    THEN [job[p] EXCEPT !.late = @ \cup {u}] ELSE job[p]
      BY <2>1 DEF PlaceVisit
    <3>2. ASSUME NEW p \in Procs
          PROVE  /\ job'[p].slot = job[p].slot /\ job'[p].user = job[p].user
                 /\ job'[p].was = job[p].was
                 /\ job'[p].late = IF Searching(p, slot) THEN job[p].late \cup {u} ELSE job[p].late
      BY <3>1, <1>t DEF JobType
    <3>3. ASSUME NEW p \in Procs, pc[p] \in {"create", "move", "recheck", "shift"},
                 NEW w, LateIfAny(p, w)
          PROVE  <<w, job'[p].slot>> \in visits' => w \in job'[p].late
      BY <3>1, <3>2, <3>3 DEF LateIfAny, Searching
    <3>4. ASSUME NEW p \in Procs PROVE Candidate(p)'
      BY <3>1, <3>2, <3>3, <1>c DEF Candidate, LateIfAny
    <3> QED BY <3>4 DEF CandidatesAreFree
  <2>2. ASSUME NEW u \in Users, NEW slot \in Slots, EndVisit(u, slot)
        PROVE  CandidatesAreFree'
    BY <2>2 DEF EndVisit, CandidatesAreFree, Candidate, LateIfAny
  <2>3. ASSUME NEW n \in Calls, Reopen(n) PROVE CandidatesAreFree'
    BY <2>3 DEF Reopen, CandidatesAreFree, Candidate, LateIfAny
  <2> QED BY <1>3, <2>1, <2>2, <2>3 DEF UserNext
<1>4. CASE UNCHANGED vars BY <1>4 DEF vars, agenda, CandidatesAreFree, Candidate, LateIfAny
<1> QED BY <1>1, <1>2, <1>3, <1>4 DEF Next

\* A call that a request gives to a user it searched for is given to a candidate.
LEMMA HandedStep ==
  ASSUME TypeInv, CandidatesAreFree, Next, NEW p \in Procs, NEW n \in Calls, Hands(p, n)
  PROVE  LateIfAny(p, call'[n].user)
<1> USE DEF Procs
<1>t. /\ call \in [Calls -> CallType \cup {NoCall}]
      /\ pc \in [Procs -> Labels] /\ job \in [Procs -> JobType]
      /\ free \in [Procs -> SUBSET Users]
  BY DEF TypeInv, TypeOK
<1>c. Candidate(p) BY DEF CandidatesAreFree
<1>h. /\ pc[p] \in {"create", "move", "shift"} /\ pc'[p] # pc[p]
      /\ call'[n].user # call[n].user
      /\ pc[p] = "shift" => job[p].user # job[p].was
  BY DEF Hands
<1>1. ASSUME NEW q \in Procs, \A r \in Procs : r # q => pc'[r] = pc[r]
      PROVE  p = q
  BY <1>1, <1>h
<1>2. ASSUME NEW q \in Bookers, BookCreate(q) PROVE LateIfAny(p, call'[n].user)
  <2>1. p = q /\ pc[p] = "create" /\ call' # call
    <3>1. \A r \in Procs : r # q => pc'[r] = pc[r]
      BY <1>2, <1>t DEF BookCreate, Goto, End
    <3> QED BY <1>1, <1>2, <1>h, <3>1 DEF BookCreate
  <2>2. PICK u \in free[p], m \in Calls :
          call' = [call EXCEPT ![m] = [user |-> u, slot |-> job[p].slot,
                     session |-> job[p].session, status |-> "pending"]]
    BY <1>2, <2>1 DEF BookCreate
  <2>3. call'[n].user = u BY <1>h, <1>t, <2>2
  <2> QED BY <1>c, <2>1, <2>3 DEF Candidate
<1>3. ASSUME NEW q \in Admins, Move(q) \/ Shift(q) PROVE LateIfAny(p, call'[n].user)
  <2>1. p = q
    <3>1. \A r \in Procs : r # q => pc'[r] = pc[r]
      BY <1>3, <1>t DEF Move, Shift, Goto, End
    <3> QED BY <1>1, <3>1
  <2>2. /\ pc[p] \in {"move", "shift"} /\ call' # call
        /\ job[p].call \in Calls /\ call[job[p].call] \in CallType
    BY <1>3, <1>h, <1>t, <2>1 DEF Move, Shift, TypeInv, JobOK, Fits, Exists
  <2>3. call'[n].user = job[p].user
    <3>1. CASE Move(q)
      <4>1. call' = [call EXCEPT ![job[p].call].user = job[p].user]
        BY <2>1, <2>2, <3>1 DEF Move
      <4> QED BY <1>h, <1>t, <2>2, <4>1 DEF CallType
    <3>2. CASE Shift(q)
      <4>1. call' = [call EXCEPT ![job[p].call].user = job[p].user,
                                 ![job[p].call].slot = job[p].slot]
        BY <2>1, <2>2, <3>2 DEF Shift
      <4> QED BY <1>h, <1>t, <2>2, <4>1 DEF CallType
    <3> QED BY <1>3, <3>1, <3>2
  <2> QED BY <1>c, <1>h, <2>2, <2>3 DEF Candidate
<1>4. ASSUME NEW q \in Procs, q \in Bookers, BookCancel(q) PROVE FALSE
  <2>1. call'[n].user = call[n].user
    BY <1>4, <1>t DEF BookCancel, CallType, NoCall
  <2> QED BY <1>h, <2>1
<1>5. ASSUME pc' = pc PROVE FALSE BY <1>5, <1>h
<1>6. ASSUME call' = call PROVE FALSE BY <1>6, <1>h
<1>7. CASE BookNext
  BY <1>2, <1>4, <1>6, <1>7 DEF BookNext, BookFind, BookLook, BookAssign, agenda
<1>8. CASE AdminNext
  BY <1>3, <1>5, <1>6, <1>8
     DEF AdminNext, AdminFind, ReassignLook, RescheduleLook, RescheduleRecheck, Close, Own,
         Mirror, Patch, agenda
<1>9. CASE UserNext
  BY <1>5, <1>9 DEF UserNext, PlaceVisit, EndVisit, Reopen
<1> QED BY <1>7, <1>8, <1>9 DEF Next

\* A booking, a reassignment or a rescheduling gives a call to nobody over an event
\* that was there when it searched, whatever is booked, moved, placed or done before
\* its write; an event over which it does was placed in between.
THEOREM BookedOutsideVisitsCorrect == Spec => BookedOutsideVisits
<1>1. Init => TypeInv /\ CandidatesAreFree
  BY InitTypeInv DEF Init, CandidatesAreFree, Candidate, Procs
<1>2. TypeInv /\ CandidatesAreFree /\ [Next]_vars => (TypeInv /\ CandidatesAreFree)'
  BY TypeStep, CandidatesStep
<1>3. TypeInv /\ CandidatesAreFree /\ [Next]_vars =>
        [\A p \in Procs, n \in Calls :
           Hands(p, n) /\ <<call'[n].user, job[p].slot>> \in visits
           => call'[n].user \in job[p].late]_vars
  BY HandedStep DEF LateIfAny
<1> QED BY <1>1, <1>2, <1>3, PTL DEF Spec, BookedOutsideVisits

-----------------------------------------------------------------------------
(* Re-booking                                                                *)

\* The previous call a handler carries is one of its own session.
CarriesOwnCall == \A p \in Bookers :
  pc[p] \in {"look", "create", "cancel"} /\ job[p].call # None =>
    call[job[p].call].session = job[p].session

\* A session with a call has a pending one that nobody is about to cancel: the
\* last one made, for a handler only cancels what was there before its own.
KeepsOne ==
  closes = 0 => \A s \in Sessions :
    (\E n \in Calls : call[n].session = s) =>
      \E n \in Calls :
        /\ call[n].session = s /\ Pending(n)
        /\ \A p \in Procs : pc[p] = "cancel" => job[p].call # n

\* What a step does to the calls, in all but the steps that make or cancel one.
Unmade(p) ==
  /\ closes' = closes
  /\ \A n \in Calls : /\ call'[n].session = call[n].session
                       /\ call'[n].status = call[n].status
  /\ \A q \in Procs : q # p => pc'[q] = pc[q] /\ job'[q] = job[q]
  /\ pc'[p] # "cancel"

LEMMA UnmadeKeepsOne ==
  ASSUME KeepsOne, NEW p \in Procs, Unmade(p)
  PROVE  KeepsOne'
  BY DEF KeepsOne, Unmade, Pending

\* Whatever an administrator writes into a call, it stays its session's, as it was.
LEMMA AdminUnmade ==
  ASSUME TypeInv, NEW p \in Admins,
         \/ \E n \in Calls : AdminFind(p, n, "reassign") \/ AdminFind(p, n, "reschedule")
         \/ ReassignLook(p) \/ Move(p)
         \/ \E slot \in Slots : RescheduleLook(p, slot)
         \/ RescheduleRecheck(p)
         \/ Shift(p) \/ Own(p) \/ Mirror(p) \/ Patch(p)
  PROVE  Unmade(p)
<1> USE DEF TypeInv, TypeOK, Procs, Unmade, history
<1>1. ASSUME NEW n \in Calls, NEW label \in {"reassign", "reschedule"},
             AdminFind(p, n, label)
      PROVE  Unmade(p)
  BY <1>1 DEF AdminFind, Goto, agenda
<1>2. CASE ReassignLook(p) BY <1>2 DEF ReassignLook, Goto, End, agenda
<1>3. CASE Move(p) \/ Shift(p)
  <2>1. job[p].call \in Calls /\ call[job[p].call] \in CallType
    BY <1>3 DEF Move, Shift, JobOK, Fits, Exists
  <2>2. \A n \in Calls : /\ call'[n].session = call[n].session
                        /\ call'[n].status = call[n].status
    BY <1>3, <2>1 DEF Move, Shift, CallType
  <2> QED BY <1>3, <2>2 DEF Move, Shift, Goto, End
<1>4. ASSUME NEW slot \in Slots, RescheduleLook(p, slot) PROVE Unmade(p)
  BY <1>4 DEF RescheduleLook, Goto, End, agenda
<1>5. CASE Own(p) BY <1>5 DEF Own, Goto
<1>6. CASE Mirror(p) BY <1>6 DEF Mirror, Goto, End
<1>7. CASE Patch(p) BY <1>7 DEF Patch, End
<1>8. CASE RescheduleRecheck(p) BY <1>8 DEF RescheduleRecheck, Goto, End, agenda
<1> QED BY <1>1, <1>2, <1>3, <1>4, <1>5, <1>6, <1>7, <1>8

\* What a user does to his schedule leaves requests where they are, with all but what
\* they have missed, and takes no call from anybody; it may only make one pending.
LEMMA UserStep ==
  ASSUME TypeInv, UserNext
  PROVE  /\ pc' = pc /\ assignee' = assignee /\ closes' = closes
         /\ \A p \in Procs :
              /\ job'[p].session = job[p].session /\ job'[p].call = job[p].call
              /\ job'[p].user = job[p].user /\ job'[p].was = job[p].was
              /\ pc[p] = "idle" => job'[p] = job[p]
         /\ \A n \in Calls :
              /\ call'[n].user = call[n].user /\ call'[n].session = call[n].session
              /\ call'[n].status \in {call[n].status, "pending"}
         /\ ~disturbed' => call' = call /\ ~disturbed
<1> USE DEF TypeInv, TypeOK, Procs
<1>1. ASSUME NEW u \in Users, NEW slot \in Slots, PlaceVisit(u, slot)
      PROVE  /\ UNCHANGED <<pc, assignee, closes, call, disturbed>>
             /\ \A p \in Procs :
                  /\ job'[p].session = job[p].session /\ job'[p].call = job[p].call
                  /\ job'[p].user = job[p].user /\ job'[p].was = job[p].was
                  /\ pc[p] = "idle" => job'[p] = job[p]
  <2>1. UNCHANGED <<pc, assignee, closes, call, disturbed>>
    BY <1>1 DEF PlaceVisit, history
  <2>2. ASSUME NEW p \in Procs
        PROVE  /\ job'[p].session = job[p].session /\ job'[p].call = job[p].call
               /\ job'[p].user = job[p].user /\ job'[p].was = job[p].was
               /\ pc[p] = "idle" => job'[p] = job[p]
    <3>1. job[p] \in JobType
      OBVIOUS
    <3>2. job'[p] = IF Searching(p, slot)
                      THEN [job[p] EXCEPT !.late = @ \cup {u}] ELSE job[p]
      BY <1>1 DEF PlaceVisit
    <3> QED BY <3>1, <3>2 DEF JobType, Searching
  <2> QED BY <2>1, <2>2
<1>2. ASSUME NEW u \in Users, NEW slot \in Slots, EndVisit(u, slot)
      PROVE  UNCHANGED <<pc, assignee, closes, call, job, disturbed>>
  BY <1>2 DEF EndVisit, history
<1>3. ASSUME NEW n \in Calls, Reopen(n)
      PROVE  /\ UNCHANGED <<pc, assignee, closes, job>> /\ disturbed'
             /\ \A m \in Calls :
                  /\ call'[m].user = call[m].user /\ call'[m].session = call[m].session
                  /\ call'[m].status \in {call[m].status, "pending"}
  <2>1. call[n] \in CallType BY <1>3 DEF Reopen, NoCall
  <2>2. call' = [call EXCEPT ![n] = [call[n] EXCEPT !.status = "pending"]]
    BY <1>3 DEF Reopen
  <2>3. \A m \in Calls :
          /\ call'[m].user = call[m].user /\ call'[m].session = call[m].session
          /\ call'[m].status \in {call[m].status, "pending"}
    BY <2>1, <2>2 DEF CallType
  <2> QED BY <1>3, <2>3 DEF Reopen
<1> QED BY <1>1, <1>2, <1>3 DEF UserNext

\* A handler's previous call stays its session's.
LEMMA CarriesStep ==
  ASSUME TypeInv, TypeInv', CarriesOwnCall, [Next]_vars
  PROVE  CarriesOwnCall'
<1> USE DEF TypeInv, TypeOK, CarriesOwnCall, Procs
<1>1. CASE BookNext
  <2>1. ASSUME NEW p \in Bookers, NEW s \in Sessions, NEW slot \in Slots,
               BookFind(p, s, slot)
        PROVE  CarriesOwnCall'
    <3>1. /\ call' = call
          /\ \A q \in Procs : q # p => pc'[q] = pc[q] /\ job'[q] = job[q]
      BY <2>1 DEF BookFind, Goto, agenda
    <3>2. job'[p].call # None => call[job'[p].call].session = job'[p].session
      <4> DEFINE own == \/ job'[p].call = None
                        \/ \E n \in Calls : /\ call[n].session = s
                                           /\ job'[p].call = n /\ job'[p].session = s
      <4>1. own
        <5>1. CASE job' = [job EXCEPT ![p] = JobOf(s, slot, None, None)]
          BY <5>1 DEF JobOf
        <5>2. ASSUME NEW n \in Calls, call[n].session = s,
                job' = [job EXCEPT ![p] =
                  JobOf(s, slot, n, IF call[n].slot = slot THEN call[n].user ELSE None)]
              PROVE own
          BY <5>2 DEF JobOf
        <5> QED BY <2>1, <5>1, <5>2 DEF BookFind
      <4> QED BY <4>1
    <3> QED BY <3>1, <3>2
  <2>2. ASSUME NEW p \in Bookers, BookLook(p) PROVE CarriesOwnCall'
    BY <2>2 DEF BookLook, Goto, agenda
  <2>3. ASSUME NEW p \in Bookers, BookCreate(p) PROVE CarriesOwnCall'
    <3>1. /\ \A q \in Procs : q # p => pc'[q] = pc[q] /\ job'[q] = job[q]
          /\ pc[p] = "create"
      BY <2>3 DEF BookCreate, Goto, End
    <3>2. \A n \in Calls : call[n] # NoCall => call'[n] = call[n]
      BY <2>3 DEF BookCreate
    <3>3. \/ pc'[p] = "idle"
          \/ job'[p].call = job[p].call /\ job'[p].session = job[p].session
      BY <2>3 DEF BookCreate, Goto, End, JobType
    <3>4. \A q \in Procs : job[q].call # None =>
            job[q].call \in Calls /\ call[job[q].call] # NoCall
      BY DEF JobOK, Exists, JobType
    <3> QED BY <3>1, <3>2, <3>3, <3>4
  <2>4. ASSUME NEW p \in Bookers, BookCancel(p) \/ BookAssign(p)
        PROVE  CarriesOwnCall'
    <3>1. /\ \A q \in Procs : q # p => pc'[q] = pc[q] /\ job'[q] = job[q]
          /\ pc'[p] \in {"assign", "idle"}
      BY <2>4 DEF BookCancel, BookAssign, Goto, End
    <3>2. \A n \in Calls : call'[n].session = call[n].session
      BY <2>4 DEF BookCancel, BookAssign, CallType, NoCall
    <3>3. \A q \in Procs : job[q].call # None => job[q].call \in Calls
      BY DEF JobType
    <3> QED BY <3>1, <3>2, <3>3
  <2> QED BY <1>1, <2>1, <2>2, <2>3, <2>4 DEF BookNext
<1>2. CASE AdminNext
  <2>0. \A q \in Procs : job[q].call # None => job[q].call \in Calls
    BY DEF JobType
  <2>1. ASSUME NEW p \in Admins, Unmade(p) PROVE CarriesOwnCall'
    BY <2>0, <2>1, ProcsAssumption DEF Unmade
  <2>2. ASSUME NEW n \in Calls, NEW status \in {"done", "cancelled"}, Close(n, status)
        PROVE  CarriesOwnCall'
    <3>1. \A m \in Calls : call'[m].session = call[m].session
      BY <2>2 DEF Close, CallType, NoCall
    <3> QED BY <2>0, <2>2, <3>1 DEF Close
  <2> QED BY <1>2, <2>1, <2>2, AdminUnmade DEF AdminNext
<1>3. CASE UserNext
  <2>1. \A q \in Procs : job[q].call # None => job[q].call \in Calls
    BY DEF JobType
  <2> QED BY <1>3, <2>1, UserStep
<1>4. CASE UNCHANGED vars BY <1>4 DEF vars, agenda
<1> QED BY <1>1, <1>2, <1>3, <1>4 DEF Next

\* A new call is nobody's target; what a handler cancels was its target.
LEMMA KeepsOneStep ==
  ASSUME TypeInv, CarriesOwnCall, KeepsOne, [Next]_vars
  PROVE  KeepsOne'
<1> USE DEF TypeInv, TypeOK, Procs
<1>0. ASSUME NEW p \in Procs, Unmade(p) PROVE KeepsOne'
  BY <1>0, UnmadeKeepsOne
<1>1. ASSUME NEW p \in Bookers, NEW s \in Sessions, NEW slot \in Slots,
             BookFind(p, s, slot)
      PROVE  KeepsOne'
  <2>1. Unmade(p) BY <1>1 DEF Unmade, BookFind, Goto, agenda
  <2> QED BY <1>0, <2>1
<1>2. ASSUME NEW p \in Bookers, BookLook(p) \/ BookAssign(p) PROVE KeepsOne'
  <2>1. Unmade(p)
    BY <1>2 DEF Unmade, BookLook, BookAssign, Goto, End, agenda, history
  <2> QED BY <1>0, <2>1
<1>3. ASSUME NEW p \in Bookers, BookCreate(p) PROVE KeepsOne'
  <2>1. CASE \E n \in Calls, u \in free[p] :
               /\ call[n] = NoCall
               /\ call' = [call EXCEPT ![n] = [user |-> u, slot |-> job[p].slot,
                             session |-> job[p].session, status |-> "pending"]]
               /\ job' = [job EXCEPT ![p].user = u]
    <3>1. PICK n \in Calls, u \in free[p] :
               /\ call[n] = NoCall
               /\ call' = [call EXCEPT ![n] = [user |-> u, slot |-> job[p].slot,
                             session |-> job[p].session, status |-> "pending"]]
               /\ job' = [job EXCEPT ![p].user = u]
      BY <2>1
    <3>2. /\ call'[n].session = job[p].session /\ call'[n].status = "pending"
          /\ \A m \in Calls : m # n => call'[m] = call[m]
      BY <3>1
    <3>3. /\ \A q \in Procs : job'[q].call = job[q].call
          /\ \A q \in Procs : q # p => pc'[q] = pc[q]
          /\ closes' = closes
      <4>1. \A q \in Procs : job'[q].call = job[q].call BY <3>1 DEF JobType
      <4>2. \A q \in Procs : q # p => pc'[q] = pc[q] BY <1>3 DEF BookCreate, Goto, End
      <4>3. closes' = closes BY <1>3 DEF BookCreate, history
      <4> QED BY <4>1, <4>2, <4>3
    <3>4. \A q \in Procs : job[q].call # n
      BY <3>1, NoneAssumption DEF JobOK, Exists
    <3>5. job[p].call # None => call[job[p].call].session = job[p].session
      BY <1>3 DEF BookCreate, CarriesOwnCall
    <3>6. ASSUME closes' = 0, NEW s \in Sessions, NEW k \in Calls, call'[k].session = s
          PROVE  \E m \in Calls :
                   /\ call'[m].session = s /\ Pending(m)'
                   /\ \A q \in Procs : pc'[q] = "cancel" => job'[q].call # m
      <4>1. CASE s = job[p].session
        BY <3>2, <3>3, <3>4, <4>1 DEF Pending
      <4>2. CASE s # job[p].session
        <5>1. k # n /\ call[k].session = s BY <3>2, <3>6, <4>2
        <5>2. PICK m \in Calls :
                /\ call[m].session = s /\ Pending(m)
                /\ \A q \in Procs : pc[q] = "cancel" => job[q].call # m
          BY <3>3, <3>6, <5>1 DEF KeepsOne
        <5>3. m # n /\ call'[m] = call[m] BY <3>1, <3>2, <5>2 DEF Pending, NoCall
        <5>4. job[p].call # m BY <3>5, <4>2, <5>2, NoneAssumption
        <5> QED BY <3>3, <5>2, <5>3, <5>4 DEF Pending
      <4> QED BY <4>1, <4>2
    <3> QED BY <3>6 DEF KeepsOne
  <2>2. CASE call' = call
    <3>1. \/ \E u \in free[p], n \in Calls :
               /\ call[n] = NoCall
               /\ call' = [call EXCEPT ![n] = [user |-> u, slot |-> job[p].slot,
                             session |-> job[p].session, status |-> "pending"]]
          \/ pc' = pc /\ job' = job /\ pc[p] = "create"
          \/ End(p)
      BY <1>3 DEF BookCreate
    <3>2. (pc' = pc /\ job' = job /\ pc[p] = "create") \/ End(p)
      BY <2>2, <3>1 DEF NoCall
    <3>3. closes' = closes BY <1>3 DEF BookCreate, history
    <3>4. Unmade(p) BY <2>2, <3>2, <3>3 DEF Unmade, End
    <3> QED BY <1>0, <3>4
  <2> QED BY <1>3, <2>1, <2>2 DEF BookCreate
<1>4. ASSUME NEW p \in Bookers, BookCancel(p) PROVE KeepsOne'
  <2>1. job[p].call \in Calls /\ pc[p] = "cancel"
    BY <1>4 DEF BookCancel, JobOK, Fits
  <2>2. /\ \A m \in Calls : m # job[p].call => call'[m] = call[m]
        /\ \A m \in Calls : call'[m].session = call[m].session
        /\ \A q \in Procs : pc'[q] = "cancel" => pc[q] = "cancel"
        /\ job' = job /\ closes' = closes
    BY <1>4, <2>1 DEF BookCancel, Goto, CallType, NoCall, history
  <2> QED BY <2>1, <2>2 DEF KeepsOne, Pending
<1>5. ASSUME NEW p \in Admins, Unmade(p) PROVE KeepsOne'
  BY <1>0, <1>5
<1>6. ASSUME NEW n \in Calls, NEW status \in {"done", "cancelled"}, Close(n, status)
      PROVE KeepsOne'
  BY <1>6 DEF Close, KeepsOne
<1>7. CASE UNCHANGED vars BY <1>7 DEF vars, agenda, history, KeepsOne, Pending
<1>8. CASE BookNext BY <1>1, <1>2, <1>3, <1>4, <1>8 DEF BookNext
<1>9. CASE AdminNext BY <1>5, <1>6, <1>9, AdminUnmade DEF AdminNext
<1>10. CASE UserNext
  <2>1. /\ pc' = pc /\ closes' = closes
        /\ \A p \in Procs : job'[p].call = job[p].call
        /\ \A n \in Calls : /\ call'[n].session = call[n].session
                            /\ Pending(n) => Pending(n)'
    BY <1>10, UserStep DEF Pending
  <2> QED BY <2>1 DEF KeepsOne
<1> QED BY <1>7, <1>8, <1>9, <1>10 DEF Next

\* A slot picked again, or two picked at once, never leave a session whose calls
\* nobody closed without one: bookSlot inserts before it cancels.
THEOREM RebookingKeepsACallCorrect == Spec => []RebookingKeepsACall
<1> DEFINE I == TypeInv /\ CarriesOwnCall /\ KeepsOne
<1>1. Init => I
  BY InitTypeInv, NoneAssumption DEF Init, CarriesOwnCall, KeepsOne, NoCall, Procs
<1>2. I /\ [Next]_vars => I'
  BY TypeStep, CarriesStep, KeepsOneStep
<1>3. I => RebookingKeepsACall
  BY DEF KeepsOne, RebookingKeepsACall
<1> QED BY <1>1, <1>2, <1>3, PTL DEF Spec

-----------------------------------------------------------------------------
(* One call of the assignee                                                  *)

\* The pending calls of a session.
Mine(s) == {n \in Calls : Pending(n) /\ call[n].session = s}

\* A session whose requests are over: one pending call at most, of the assignee.
InOrder(s) ==
  /\ \A n, m \in Mine(s) : n = m
  /\ \A n \in Mine(s) : call[n].user = assignee[s]

\* What a request alone on its session knows of the session's calls.
Stage(p) ==
  LET j == job[p]
      s == j.session
  IN
  /\ pc[p] \in {"look", "create", "reassign", "move", "reschedule", "recheck", "shift"} =>
       \A n \in Mine(s) : n = j.call /\ call[n].user = assignee[s]
  /\ pc[p] = "reschedule" => call[j.call].user = j.user
  /\ pc[p] \in {"recheck", "shift"} => call[j.call].user = j.was
  /\ pc[p] = "cancel" =>
       /\ \A n, m \in Mine(s) \ {j.call} : n = m
       /\ \A n \in Mine(s) \ {j.call} : call[n].user = j.user
  /\ pc[p] \in {"assign", "own"} =>
       /\ \A n, m \in Mine(s) : n = m
       /\ \A n \in Mine(s) : call[n].user = j.user
  /\ pc[p] \in {"mirror", "patch"} => InOrder(s)

\* Every request carries a call of its own session; one that is over, nothing.
OwnCalls == \A p \in Procs :
  /\ job[p].call # None => call[job[p].call].session = job[p].session
  /\ pc[p] = "idle" => job[p] = NoJob

\* No two requests on one session.
Alone == \A p, q \in Procs :
  job[p].session = job[q].session /\ job[p].session # None => p = q

\* As long as no request began over another one.
OneEach ==
  ~disturbed =>
    /\ Alone
    /\ \A p \in Procs : Stage(p)
    /\ \A s \in Sessions : Settled(s) => InOrder(s)

\* No step moves a call to another session.
LEMMA SessionsStay ==
  ASSUME TypeInv, Next, NEW n \in Calls, call[n] # NoCall
  PROVE  call'[n].session = call[n].session
<1> USE DEF TypeInv, TypeOK, Procs
<1>1. ASSUME NEW p \in Bookers, BookCreate(p) PROVE call'[n] = call[n]
  BY <1>1 DEF BookCreate
<1>2. ASSUME NEW p \in Bookers, BookCancel(p) PROVE call'[n].session = call[n].session
  BY <1>2 DEF BookCancel, CallType
<1>3. CASE BookNext
  BY <1>1, <1>2, <1>3 DEF BookNext, BookFind, BookLook, BookAssign, agenda
<1>4. ASSUME NEW m \in Calls, NEW status \in {"done", "cancelled"}, Close(m, status)
      PROVE call'[n].session = call[n].session
  BY <1>4 DEF Close, CallType
<1>5. CASE AdminNext
  BY <1>4, <1>5, AdminUnmade DEF AdminNext, Unmade
<1>6. CASE UserNext BY <1>6, UserStep
<1> QED BY <1>3, <1>5, <1>6 DEF Next

\* What a step after its first one does to the requests: it goes on with the same
\* call of the same session, or ends.
GoesOn(p) ==
  /\ \A q \in Procs : q # p => pc'[q] = pc[q] /\ job'[q] = job[q]
  /\ \/ pc'[p] = "idle" /\ job'[p] = NoJob
     \/ /\ pc'[p] # "idle"
        /\ job'[p].call = job[p].call /\ job'[p].session = job[p].session

Later(p) ==
  \/ p \in Bookers /\ (BookLook(p) \/ BookCreate(p) \/ BookCancel(p) \/ BookAssign(p))
  \/ /\ p \in Admins
     /\ \/ ReassignLook(p) \/ Move(p)
        \/ \E slot \in Slots : RescheduleLook(p, slot)
        \/ RescheduleRecheck(p)
        \/ Shift(p) \/ Own(p) \/ Mirror(p) \/ Patch(p)

LEMMA LaterGoesOn ==
  ASSUME TypeInv, NEW p \in Procs, Later(p)
  PROVE  GoesOn(p)
<1> USE DEF TypeInv, TypeOK, GoesOn
<1>0. job[p] \in JobType
  OBVIOUS
<1>1. CASE End(p) BY <1>1 DEF End
<1>2. CASE BookLook(p) BY <1>2 DEF BookLook, Goto
<1>3. CASE BookCreate(p)
  <2>1. ASSUME NEW u \in free[p], job' = [job EXCEPT ![p].user = u],
               Goto(p, AfterCreate(p))
        PROVE  GoesOn(p)
    <3>1. pc' = [pc EXCEPT ![p] = AfterCreate(p)] /\ AfterCreate(p) # "idle"
      BY <2>1 DEF AfterCreate, Goto
    <3>2. job'[p].call = job[p].call /\ job'[p].session = job[p].session
      BY <1>0, <2>1 DEF JobType
    <3> QED BY <2>1, <3>1, <3>2
  <2>2. CASE UNCHANGED <<pc, job>> BY <1>3, <2>2 DEF BookCreate
  <2> QED BY <1>1, <1>3, <2>1, <2>2 DEF BookCreate
<1>4. CASE BookCancel(p) BY <1>4 DEF BookCancel, Goto
<1>5. CASE BookAssign(p) BY <1>1, <1>5 DEF BookAssign
<1>6. CASE ReassignLook(p)
  BY <1>0, <1>1, <1>6 DEF ReassignLook, Goto, JobType
<1>7. CASE Move(p) \/ Shift(p) BY <1>1, <1>7 DEF Move, Shift, Goto
<1>8. ASSUME NEW slot \in Slots, RescheduleLook(p, slot) PROVE GoesOn(p)
  <2>1. ASSUME NEW u, Goto(p, "shift"),
               job' = [job EXCEPT ![p].user = u, ![p].slot = slot, ![p].was = job[p].user]
        PROVE  GoesOn(p)
    <3>1. job'[p].call = job[p].call /\ job'[p].session = job[p].session
      BY <1>0, <2>1 DEF JobType
    <3> QED BY <2>1, <3>1 DEF Goto
  <2>2. CASE /\ job' = [job EXCEPT ![p].slot = slot, ![p].was = job[p].user]
             /\ Goto(p, "recheck")
    <3>1. job'[p].call = job[p].call /\ job'[p].session = job[p].session
      BY <1>0, <2>2 DEF JobType
    <3> QED BY <2>2, <3>1 DEF Goto
  <2> QED BY <1>1, <1>8, <2>1, <2>2 DEF RescheduleLook
<1>10. CASE RescheduleRecheck(p)
  <2>1. ASSUME NEW u, job' = [job EXCEPT ![p].user = u], Goto(p, "shift")
        PROVE  GoesOn(p)
    BY <1>0, <2>1 DEF Goto, JobType
  <2> QED BY <1>1, <1>10, <2>1 DEF RescheduleRecheck
<1>9. CASE Own(p) \/ Mirror(p) \/ Patch(p)
  BY <1>1, <1>9 DEF Own, Mirror, Patch, Goto
<1> QED BY <1>2, <1>3, <1>4, <1>5, <1>6, <1>7, <1>8, <1>9, <1>10 DEF Later

\* The first step of a request: it carries nothing, or a pending call of its session.
Begins(p, s) ==
  /\ \A q \in Procs : q # p => pc'[q] = pc[q] /\ job'[q] = job[q]
  /\ UNCHANGED agenda
  /\ pc[p] = "idle" /\ pc'[p] # "idle" /\ job'[p].session = s
  /\ job'[p].call # None => job'[p].call \in Mine(s)
  /\ disturbed' = (disturbed \/ \E q \in Procs : job[q].session = s)

LEMMA FindBegins ==
  ASSUME TypeInv, NEW p \in Bookers, NEW s \in Sessions, NEW slot \in Slots,
         BookFind(p, s, slot)
  PROVE  Begins(p, s)
<1> USE DEF TypeInv, TypeOK, Procs
<1> DEFINE mine == {n \in Calls : Pending(n) /\ call[n].session = s}
<1>1. CASE mine = {} /\ job' = [job EXCEPT ![p] = JobOf(s, slot, None, None)]
             /\ Goto(p, "look")
  <2>1. job'[p].session = s /\ job'[p].call = None BY <1>1 DEF JobOf
  <2> QED BY <1>1, <2>1 DEF BookFind, Begins, Begin, Goto
<1>2. ASSUME NEW n \in mine,
             job' = [job EXCEPT ![p] =
               JobOf(s, slot, n, IF call[n].slot = slot THEN call[n].user ELSE None)],
             Goto(p, IF call[n].slot = slot THEN "assign" ELSE "look")
      PROVE  Begins(p, s)
  <2>1. job'[p].session = s /\ job'[p].call = n BY <1>2 DEF JobOf
  <2>2. n \in Mine(s) BY DEF Mine
  <2> QED BY <1>2, <2>1, <2>2 DEF BookFind, Begins, Begin, Goto
<1> QED BY <1>1, <1>2 DEF BookFind

LEMMA AdminBegins ==
  ASSUME TypeInv, NEW p \in Admins, NEW n \in Calls,
         NEW label \in {"reassign", "reschedule"}, AdminFind(p, n, label)
  PROVE  call[n].session \in Sessions /\ Begins(p, call[n].session)
<1> USE DEF TypeInv, TypeOK, Procs
<1>1. call[n].session \in Sessions /\ n \in Mine(call[n].session)
  BY DEF AdminFind, Pending, Mine, CallType, NoCall
<1>2. job'[p].session = call[n].session /\ job'[p].call = n
  BY DEF AdminFind, JobOf
<1> QED BY <1>1, <1>2 DEF AdminFind, Begins, Begin, Goto

\* What a process does in one step.
LEMMA Steps ==
  ASSUME TypeInv, Next
  PROVE  \/ \E p \in Procs, s \in Sessions : Begins(p, s)
         \/ \E p \in Procs : Later(p)
         \/ \E n \in Calls, status \in {"done", "cancelled"} : Close(n, status)
         \/ UserNext
<1>1. CASE BookNext BY <1>1, FindBegins DEF BookNext, Later, Procs
<1>2. CASE AdminNext
  <2>1. CASE \E n \in Calls, status \in {"done", "cancelled"} : Close(n, status)
    BY <2>1
  <2>2. ASSUME NEW p \in Admins, NEW n \in Calls,
               AdminFind(p, n, "reassign") \/ AdminFind(p, n, "reschedule")
        PROVE  \E q \in Procs, s \in Sessions : Begins(q, s)
    BY <2>2, AdminBegins DEF Procs
  <2> QED BY <1>2, <2>1, <2>2 DEF AdminNext, Later, Procs
<1> QED BY <1>1, <1>2 DEF Next

\* A request never takes up another session's call.
LEMMA OwnCallsStep ==
  ASSUME TypeInv, TypeInv', OwnCalls, [Next]_vars
  PROVE  OwnCalls'
<1> USE DEF OwnCalls
<1>1. CASE UNCHANGED vars BY <1>1 DEF vars, agenda
<1>2. CASE Next
  <2>1. ASSUME NEW q \in Procs, job[q].call # None
        PROVE  call'[job[q].call].session = call[job[q].call].session
    <3>1. job[q].call \in Calls /\ call[job[q].call] # NoCall
      BY <2>1 DEF TypeInv, TypeOK, JobOK, Exists, JobType
    <3> QED BY <1>2, <3>1, SessionsStay
  <2>2. ASSUME NEW p \in Procs, NEW s \in Sessions, Begins(p, s) PROVE OwnCalls'
    <3>1. call' = call BY <2>2 DEF Begins, agenda
    <3>2. job'[p].call # None => call[job'[p].call].session = job'[p].session
      BY <2>2 DEF Begins, Mine
    <3> QED BY <2>2, <3>1, <3>2 DEF Begins
  <2>3. ASSUME NEW p \in Procs, Later(p) PROVE OwnCalls'
    <3>1. GoesOn(p) BY <2>3, LaterGoesOn
    <3>2. ASSUME NEW q \in Procs, job'[q].call # None
          PROVE  call'[job'[q].call].session = job'[q].session
      <4>1. NoJob.call = None BY DEF NoJob, JobOf
      <4>2. job'[q].call = job[q].call /\ job'[q].session = job[q].session
        BY <3>1, <3>2, <4>1 DEF GoesOn
      <4> QED BY <2>1, <3>2, <4>2
    <3> QED BY <3>1, <3>2 DEF GoesOn
  <2>4. ASSUME NEW n \in Calls, NEW status \in {"done", "cancelled"}, Close(n, status)
        PROVE  OwnCalls'
    BY <2>1, <2>4 DEF Close
  <2>5. CASE UserNext
    <3>1. \A q \in Procs : job[q].call \in Calls \cup {None}
      BY DEF TypeInv, TypeOK, JobType
    <3>2. \A q \in Procs : job'[q].session = job[q].session /\ job'[q].call = job[q].call
      BY <2>5, UserStep
    <3>3. ASSUME NEW q \in Procs, job'[q].call # None
          PROVE  call'[job'[q].call].session = job'[q].session
      BY <2>1, <3>2, <3>3
    <3>4. ASSUME NEW q \in Procs, pc'[q] = "idle" PROVE job'[q] = NoJob
      BY <2>5, <3>4, UserStep
    <3> QED BY <3>3, <3>4
  <2> QED BY <1>2, <2>2, <2>3, <2>4, <2>5, Steps
<1> QED BY <1>1, <1>2

\* A step of a request writes the calls and the assignee of its own session.
Within(s) ==
  /\ \A n \in Calls : call[n] # NoCall /\ call[n].session # s => call'[n] = call[n]
  /\ \A n \in Calls : call'[n] # NoCall /\ call'[n].session # s => call'[n] = call[n]
  /\ \A t \in Sessions : t # s => assignee'[t] = assignee[t]

LEMMA LaterWithin ==
  ASSUME TypeInv, OwnCalls, NEW p \in Procs, Later(p)
  PROVE  job[p].session \in Sessions /\ Within(job[p].session)
<1> USE DEF TypeInv, TypeOK, Within, Procs
<1> DEFINE s == job[p].session
<1>1. s \in Sessions
  BY DEF Later, JobOK, Fits, BookLook, BookCreate, BookCancel, BookAssign, ReassignLook,
         Move, RescheduleLook, RescheduleRecheck, Shift, Own, Mirror, Patch
<1> SUFFICES Within(s)
  BY <1>1
<1>2. ASSUME NEW n \in Calls, NEW c, call' = [call EXCEPT ![n] = c],
             call[n] = NoCall \/ call[n].session = s, c.session = s,
             assignee' = assignee
      PROVE  Within(s)
  BY <1>2
<1>3. CASE UNCHANGED <<call, assignee>> BY <1>3
<1>4. CASE BookCreate(p)
  <2>1. ASSUME NEW u \in free[p], NEW n \in Calls, call[n] = NoCall,
               call' = [call EXCEPT ![n] = [user |-> u, slot |-> job[p].slot,
                          session |-> job[p].session, status |-> "pending"]]
        PROVE  Within(s)
    BY <1>2, <1>4, <2>1 DEF BookCreate
  <2> QED BY <1>3, <1>4, <2>1 DEF BookCreate
<1>5. ASSUME job[p].call \in Calls
      PROVE  call[job[p].call] \in CallType /\ call[job[p].call].session = s
  BY <1>5, NoneAssumption DEF OwnCalls, JobOK, Exists
<1>6. CASE BookCancel(p)
  <2>1. job[p].call \in Calls BY <1>6 DEF BookCancel, JobOK, Fits
  <2>2. [call[job[p].call] EXCEPT !.status = "cancelled"].session = s
    BY <1>5, <2>1 DEF CallType
  <2> QED BY <1>2, <1>5, <1>6, <2>1, <2>2 DEF BookCancel
<1>7. CASE Move(p) \/ Shift(p)
  <2>1. job[p].call \in Calls BY <1>7 DEF Move, Shift, JobOK, Fits
  <2>2. CASE call' = call BY <1>3, <1>7, <2>2 DEF Move, Shift
  <2>3. CASE call' # call
    <3>1. \E c \in CallType : c.session = s /\ call' = [call EXCEPT ![job[p].call] = c]
      <4>1. /\ [call[job[p].call] EXCEPT !.user = job[p].user] \in CallType
            /\ [call[job[p].call] EXCEPT !.user = job[p].user].session = s
            /\ [call[job[p].call] EXCEPT !.user = job[p].user, !.slot = job[p].slot]
                 \in CallType
            /\ [call[job[p].call] EXCEPT !.user = job[p].user, !.slot = job[p].slot].session = s
        <5>1. job[p].user \in Users /\ job[p].slot \in Slots
          BY <1>7 DEF Move, Shift, JobOK, Fits
        <5> QED BY <1>5, <2>1, <5>1 DEF CallType
      <4> QED BY <1>7, <2>1, <2>3, <4>1 DEF Move, Shift
    <3> QED BY <1>2, <1>5, <1>7, <2>1, <3>1 DEF Move, Shift
  <2> QED BY <2>2, <2>3
<1>8. CASE BookAssign(p) \/ Own(p)
  <2>1. call' = call BY <1>8 DEF BookAssign, Own
  <2>2. assignee' = [assignee EXCEPT ![s] = job[p].user] BY <1>8 DEF BookAssign, Own
  <2> QED BY <2>1, <2>2
<1>9. CASE \/ BookLook(p) \/ ReassignLook(p) \/ Mirror(p) \/ Patch(p)
           \/ \E slot \in Slots : RescheduleLook(p, slot)
           \/ RescheduleRecheck(p)
  BY <1>3, <1>9
     DEF BookLook, ReassignLook, RescheduleLook, RescheduleRecheck, Mirror, Patch, agenda
<1> QED BY <1>4, <1>6, <1>7, <1>8, <1>9 DEF Later

\* The other requests, each on a session of its own, know what they knew.
LEMMA OthersStand ==
  ASSUME TypeInv, TypeInv', OwnCalls, OneEach, ~disturbed, ~disturbed',
         NEW p \in Procs, NEW s \in Sessions, Within(s),
         \A q \in Procs : q # p =>
           /\ pc'[q] = pc[q] /\ job'[q] = job[q] /\ job[q].session # s,
         job[p].session \in {s, None}, job'[p].session \in {s, None},
         Stage(p)',
         job'[p].session # s => InOrder(s)'
  PROVE  OneEach'
<1> USE DEF TypeInv, TypeOK
<1>1. ASSUME NEW t \in Sessions, t # s
      PROVE  /\ Mine(t)' = Mine(t) /\ assignee'[t] = assignee[t]
             /\ \A n \in Mine(t) : call'[n] = call[n]
  <2>1. ASSUME NEW n \in Calls PROVE n \in Mine(t)' <=> n \in Mine(t)
    <3>1. Pending(n) => call[n] # NoCall BY DEF Pending, NoCall
    <3>2. Pending(n)' => call'[n] # NoCall BY DEF Pending, NoCall
    <3> QED BY <1>1, <3>1, <3>2 DEF Mine, Pending, Within
  <2>2. \A n \in Mine(t) : call'[n] = call[n]
    BY <1>1 DEF Mine, Pending, Within, NoCall
  <2> QED BY <1>1, <2>1, <2>2 DEF Mine, Within
<1>2. ASSUME NEW t \in Sessions, t # s, InOrder(t) PROVE InOrder(t)'
  BY <1>1, <1>2 DEF InOrder
<1>3. Alone'
  BY NoneAssumption DEF OneEach, Alone
<1>4. ASSUME NEW q \in Procs, q # p PROVE Stage(q)'
  <2> DEFINE t == job[q].session
  <2>1. CASE t \notin Sessions
    <3>1. pc[q] = "idle" BY <2>1 DEF JobOK, Fits
    <3> QED BY <1>4, <3>1 DEF Stage
  <2>2. CASE t \in Sessions
    <3>1. t # s /\ Stage(q) BY <1>4 DEF OneEach
    <3>2. ASSUME pc[q] \in {"reschedule", "recheck", "shift"}
          PROVE  call'[job[q].call] = call[job[q].call]
      <4>1. job[q].call \in Calls /\ call[job[q].call] # NoCall
        BY <3>2 DEF JobOK, Fits, Exists
      <4>2. call[job[q].call].session # s
        BY <3>1, <4>1, NoneAssumption DEF OwnCalls
      <4> QED BY <4>1, <4>2 DEF Within
    <3> QED BY <1>1, <1>2, <1>4, <2>2, <3>1, <3>2 DEF Stage
  <2> QED BY <2>1, <2>2
<1>5. ASSUME NEW t \in Sessions, Settled(t)' PROVE InOrder(t)'
  <2>1. CASE t = s BY <1>5, <2>1 DEF Settled
  <2>2. CASE t # s
    <3>1. Settled(t) BY <1>5, <2>2, NoneAssumption DEF Settled
    <3> QED BY <1>2, <2>2, <3>1 DEF OneEach
  <2> QED BY <2>1, <2>2
<1> QED BY <1>3, <1>4, <1>5 DEF OneEach

\* What a request knows after its next step; a session it is done with is in order.
Knows(p, s) == Stage(p)' /\ (pc'[p] = "idle" => InOrder(s)')

\* What leaves calls and assignees as they are leaves sessions in order.
LEMMA SameMine ==
  ASSUME UNCHANGED <<call, assignee>>, NEW s
  PROVE  Mine(s)' = Mine(s) /\ (InOrder(s)' <=> InOrder(s))
  BY DEF Mine, Pending, InOrder

LEMMA BookKnows ==
  ASSUME TypeInv, OwnCalls, NEW p \in Bookers, NEW s \in Sessions,
         job[p].session = s, Stage(p),
         BookLook(p) \/ BookCreate(p) \/ BookCancel(p) \/ BookAssign(p)
  PROVE  Knows(p, s)
<1> USE DEF TypeInv, TypeOK, Procs
<1>0. job[p] \in JobType /\ (job[p].call = None \/ job[p].call \in Calls)
  BY DEF JobOK, Fits, JobType, BookLook, BookCreate, BookCancel, BookAssign
<1>1. CASE BookLook(p)
  <2>1. UNCHANGED <<call, assignee, job>> /\ pc[p] = "look" /\ pc'[p] = "create"
    BY <1>1 DEF BookLook, Goto, agenda
  <2> QED BY <2>1, SameMine DEF Stage, Knows
<1>2. CASE BookCreate(p)
  <2>0. pc[p] = "create" /\ assignee' = assignee BY <1>2 DEF BookCreate
  <2>1. \A n \in Mine(s) : n = job[p].call /\ call[n].user = assignee[s]
    BY <2>0 DEF Stage
  <2>2. ASSUME NEW u \in free[p], NEW n \in Calls, call[n] = NoCall,
               call' = [call EXCEPT ![n] = [user |-> u, slot |-> job[p].slot,
                          session |-> job[p].session, status |-> "pending"]],
               job' = [job EXCEPT ![p].user = u],
               Goto(p, AfterCreate(p))
        PROVE  Knows(p, s)
    <3>1. /\ job'[p].session = s /\ job'[p].call = job[p].call /\ job'[p].user = u
      BY <1>0, <2>2 DEF JobType
    <3>2. call'[n].user = u /\ n # job[p].call
      BY <2>2, NoneAssumption DEF JobOK, Exists
    <3>3. \A m \in Mine(s)' : m = n \/ (m \in Mine(s) /\ call'[m] = call[m])
      BY <2>2 DEF Mine, Pending
    <3>4. CASE job[p].call = None
      <4>1. pc'[p] = "assign" BY <2>2, <3>4 DEF AfterCreate, Goto
      <4>2. \A m \in Mine(s)' : m = n
        BY <2>1, <3>3, <3>4, NoneAssumption DEF Mine
      <4> QED BY <3>1, <3>2, <4>1, <4>2 DEF Knows, Stage
    <3>5. CASE job[p].call # None
      <4>1. pc'[p] = "cancel" BY <2>2, <3>5 DEF AfterCreate, Goto
      <4>2. \A m \in Mine(s)' \ {job[p].call} : m = n
        BY <2>1, <3>3
      <4> QED BY <3>1, <3>2, <4>1, <4>2 DEF Knows, Stage
    <3> QED BY <3>4, <3>5
  <2>3. CASE UNCHANGED <<call, pc, job>>
    BY <2>0, <2>3, SameMine DEF Knows, Stage
  <2>4. CASE call' = call /\ End(p)
    <3>1. pc'[p] = "idle" BY <2>4 DEF End
    <3>2. InOrder(s) BY <2>1 DEF InOrder
    <3> QED BY <2>0, <2>4, <3>1, <3>2, SameMine DEF Knows, Stage
  <2> QED BY <1>2, <2>2, <2>3, <2>4 DEF BookCreate
<1>3. CASE BookCancel(p)
  <2>1. /\ pc[p] = "cancel" /\ pc'[p] = "assign" /\ job' = job
        /\ call' = [call EXCEPT ![job[p].call].status = "cancelled"]
    BY <1>3 DEF BookCancel, Goto
  <2>2. job[p].call \in Calls /\ call[job[p].call] \in CallType
    BY <2>1 DEF JobOK, Fits, Exists
  <2>3. \A n \in Mine(s)' : n \in Mine(s) \ {job[p].call} /\ call'[n] = call[n]
    BY <2>1, <2>2 DEF Mine, Pending, CallType
  <2> QED BY <2>1, <2>3 DEF Knows, Stage
<1>4. CASE BookAssign(p)
  <2>1. /\ pc[p] = "assign" /\ pc'[p] = "idle" /\ call' = call
        /\ assignee'[s] = job[p].user
    BY <1>0, <1>4 DEF BookAssign, End
  <2>2. Mine(s)' = Mine(s) BY <2>1 DEF Mine, Pending
  <2>3. /\ \A n, m \in Mine(s) : n = m
        /\ \A n \in Mine(s) : call[n].user = job[p].user
    BY <2>1 DEF Stage
  <2>4. InOrder(s)' BY <2>1, <2>2, <2>3 DEF InOrder
  <2> QED BY <2>1, <2>4 DEF Knows, Stage
<1> QED BY <1>1, <1>2, <1>3, <1>4

LEMMA AdminKnows ==
  ASSUME TypeInv, OwnCalls, NEW p \in Admins, NEW s \in Sessions,
         job[p].session = s, Stage(p), Later(p), p \notin Bookers
  PROVE  Knows(p, s)
<1> USE DEF TypeInv, TypeOK, Procs
<1> DEFINE j == job[p]
<1>0. j \in JobType
  OBVIOUS
<1>1. CASE ReassignLook(p)
  <2>1. UNCHANGED <<call, assignee>> /\ pc[p] = "reassign"
    BY <1>1 DEF ReassignLook, agenda
  <2>2. \A n \in Mine(s) : n = j.call /\ call[n].user = assignee[s]
    BY <2>1 DEF Stage
  <2>3. CASE End(p)
    <3>1. pc'[p] = "idle" /\ InOrder(s) BY <2>2, <2>3 DEF End, InOrder
    <3> QED BY <2>1, <3>1, SameMine DEF Knows, Stage
  <2>4. ASSUME NEW u \in Users, job' = [job EXCEPT ![p].user = u], Goto(p, "move")
        PROVE  Knows(p, s)
    <3>1. pc'[p] = "move" /\ job'[p].session = s /\ job'[p].call = j.call
      BY <1>0, <2>4 DEF Goto, JobType
    <3> QED BY <2>1, <2>2, <3>1, SameMine DEF Knows, Stage
  <2> QED BY <1>1, <2>3, <2>4 DEF ReassignLook, FreeUsers
<1>2. CASE Move(p)
  <2>1. assignee' = assignee /\ pc[p] = "move" /\ j.call \in Calls
    BY <1>2 DEF Move, JobOK, Fits
  <2>2. \A n \in Mine(s) : n = j.call /\ call[n].user = assignee[s]
    BY <2>1 DEF Stage
  <2>3. CASE call' = call /\ End(p)
    <3>1. pc'[p] = "idle" /\ InOrder(s) BY <2>2, <2>3 DEF End, InOrder
    <3> QED BY <2>1, <2>3, <3>1, SameMine DEF Knows, Stage
  <2>4. CASE /\ call' = [call EXCEPT ![j.call].user = j.user]
             /\ Goto(p, "own") /\ job' = job
    <3>1. call[j.call] \in CallType BY <2>1 DEF JobOK, Exists
    <3>2. /\ call'[j.call].user = j.user
          /\ \A n \in Calls : /\ call'[n].status = call[n].status
                               /\ call'[n].session = call[n].session
      BY <2>1, <2>4, <3>1 DEF CallType
    <3>3. \A n \in Mine(s)' : n = j.call /\ call'[n].user = j.user
      BY <2>2, <3>2, <2>4 DEF Mine, Pending
    <3>4. pc'[p] = "own" BY <2>4 DEF Goto
    <3> QED BY <2>4, <3>3, <3>4 DEF Knows, Stage
  <2> QED BY <1>2, <2>3, <2>4 DEF Move
<1>3. ASSUME NEW slot \in Slots, RescheduleLook(p, slot) PROVE Knows(p, s)
  <2>1. UNCHANGED <<call, assignee>> /\ pc[p] = "reschedule"
    BY <1>3 DEF RescheduleLook, agenda
  <2>2. /\ \A n \in Mine(s) : n = j.call /\ call[n].user = assignee[s]
        /\ call[j.call].user = j.user
    BY <2>1 DEF Stage
  <2>3. CASE End(p)
    <3>1. pc'[p] = "idle" /\ InOrder(s) BY <2>2, <2>3 DEF End, InOrder
    <3> QED BY <2>1, <3>1, SameMine DEF Knows, Stage
  <2>4. ASSUME NEW u, Goto(p, "shift"),
               job' = [job EXCEPT ![p].user = u, ![p].slot = slot, ![p].was = job[p].user]
        PROVE  Knows(p, s)
    <3>1. /\ pc'[p] = "shift" /\ job'[p].session = s /\ job'[p].call = j.call
          /\ job'[p].was = j.user
      BY <1>0, <2>4 DEF Goto, JobType
    <3> QED BY <2>1, <2>2, <3>1, SameMine DEF Knows, Stage
  <2>5. CASE /\ job' = [job EXCEPT ![p].slot = slot, ![p].was = job[p].user]
             /\ Goto(p, "recheck")
    <3>1. /\ pc'[p] = "recheck" /\ job'[p].session = s /\ job'[p].call = j.call
          /\ job'[p].was = j.user
      BY <1>0, <2>5 DEF Goto, JobType
    <3> QED BY <2>1, <2>2, <3>1, SameMine DEF Knows, Stage
  <2> QED BY <1>3, <2>3, <2>4, <2>5 DEF RescheduleLook
<1>r. CASE RescheduleRecheck(p)
  <2>1. UNCHANGED <<call, assignee>> /\ pc[p] = "recheck"
    BY <1>r DEF RescheduleRecheck, agenda
  <2>2. /\ \A n \in Mine(s) : n = j.call /\ call[n].user = assignee[s]
        /\ call[j.call].user = j.was
    BY <2>1 DEF Stage
  <2>3. CASE End(p)
    <3>1. pc'[p] = "idle" /\ InOrder(s) BY <2>2, <2>3 DEF End, InOrder
    <3> QED BY <2>1, <3>1, SameMine DEF Knows, Stage
  <2>4. ASSUME NEW u, Goto(p, "shift"), job' = [job EXCEPT ![p].user = u]
        PROVE  Knows(p, s)
    <3>1. /\ pc'[p] = "shift" /\ job'[p].session = s /\ job'[p].call = j.call
          /\ job'[p].was = j.was
      BY <1>0, <2>4 DEF Goto, JobType
    <3> QED BY <2>1, <2>2, <3>1, SameMine DEF Knows, Stage
  <2> QED BY <1>r, <2>3, <2>4 DEF RescheduleRecheck
<1>4. CASE Shift(p)
  <2>1. assignee' = assignee /\ pc[p] = "shift" /\ j.call \in Calls
    BY <1>4 DEF Shift, JobOK, Fits
  <2>2. /\ \A n \in Mine(s) : n = j.call /\ call[n].user = assignee[s]
        /\ call[j.call].user = j.was
    BY <2>1 DEF Stage
  <2>3. CASE call' = call /\ End(p)
    <3>1. pc'[p] = "idle" /\ InOrder(s) BY <2>2, <2>3 DEF End, InOrder
    <3> QED BY <2>1, <2>3, <3>1, SameMine DEF Knows, Stage
  <2>4. CASE /\ call' = [call EXCEPT ![j.call].user = j.user, ![j.call].slot = j.slot]
             /\ Goto(p, IF j.user = j.was THEN "patch" ELSE "own") /\ job' = job
    <3>1. call[j.call] \in CallType BY <2>1 DEF JobOK, Exists
    <3>2. /\ call'[j.call].user = j.user
          /\ \A n \in Calls : /\ call'[n].status = call[n].status
                               /\ call'[n].session = call[n].session
      BY <2>1, <2>4, <3>1 DEF CallType
    <3>3. \A n \in Mine(s)' : n \in Mine(s) /\ n = j.call /\ call'[n].user = j.user
      BY <2>2, <3>2, <2>4 DEF Mine, Pending
    <3>4. CASE j.user = j.was
      <4>1. pc'[p] = "patch" BY <2>4, <3>4 DEF Goto
      <4>2. InOrder(s)' BY <2>1, <2>2, <3>3, <3>4 DEF InOrder
      <4> QED BY <2>4, <4>1, <4>2 DEF Knows, Stage
    <3>5. CASE j.user # j.was
      <4>1. pc'[p] = "own" BY <2>4, <3>5 DEF Goto
      <4> QED BY <2>4, <3>3, <4>1 DEF Knows, Stage
    <3> QED BY <3>4, <3>5
  <2> QED BY <1>4, <2>3, <2>4 DEF Shift
<1>5. CASE Own(p)
  <2>1. /\ pc[p] = "own" /\ pc'[p] = "mirror" /\ UNCHANGED <<call, job>>
        /\ assignee'[s] = j.user
    BY <1>0, <1>5 DEF Own, Goto
  <2>2. Mine(s)' = Mine(s) BY <2>1 DEF Mine, Pending
  <2>3. /\ \A n, m \in Mine(s) : n = m
        /\ \A n \in Mine(s) : call[n].user = j.user
    BY <2>1 DEF Stage
  <2>4. InOrder(s)' BY <2>1, <2>2, <2>3 DEF InOrder
  <2> QED BY <2>1, <2>4 DEF Knows, Stage
<1>6. CASE Mirror(p) \/ Patch(p)
  <2>1. /\ pc[p] \in {"mirror", "patch"} /\ UNCHANGED <<call, assignee>>
        /\ pc'[p] = "idle" \/ (pc'[p] = "patch" /\ job' = job)
    BY <1>6 DEF Mirror, Patch, Goto, End
  <2>2. InOrder(s)' BY <2>1, SameMine DEF Stage
  <2> QED BY <2>1, <2>2 DEF Knows, Stage
<1> QED BY <1>1, <1>2, <1>3, <1>r, <1>4, <1>5, <1>6 DEF Later

\* A request that is first on its session finds it in order.
LEMMA FirstKnows ==
  ASSUME TypeInv, NEW s \in Sessions, InOrder(s), NEW p \in Procs,
         \/ \E slot \in Slots : BookFind(p, s, slot)
         \/ \E n \in Mine(s), label \in {"reassign", "reschedule"} : AdminFind(p, n, label)
  PROVE  Stage(p)'
<1> USE DEF TypeInv, TypeOK
<1>1. UNCHANGED <<call, assignee>> BY DEF BookFind, AdminFind, agenda
<1>2. ASSUME NEW slot \in Slots, BookFind(p, s, slot) PROVE Stage(p)'
  <2> DEFINE mine == {n \in Calls : Pending(n) /\ call[n].session = s}
  <2>1. CASE /\ mine = {}
             /\ job' = [job EXCEPT ![p] = JobOf(s, slot, None, None)]
             /\ Goto(p, "look")
    <3>1. pc'[p] = "look" /\ job'[p].session = s BY <2>1 DEF Goto, JobOf
    <3>2. Mine(s) = {} BY <2>1 DEF Mine
    <3> QED BY <1>1, <3>1, <3>2, SameMine DEF Stage
  <2>2. ASSUME NEW n \in mine,
               job' = [job EXCEPT ![p] =
                 JobOf(s, slot, n, IF call[n].slot = slot THEN call[n].user ELSE None)],
               Goto(p, IF call[n].slot = slot THEN "assign" ELSE "look")
        PROVE  Stage(p)'
    <3>1. job'[p].session = s /\ job'[p].call = n BY <2>2 DEF JobOf
    <3>2. n \in Mine(s) BY DEF Mine
    <3>3. \A m \in Mine(s) : m = n /\ call[m].user = assignee[s]
      BY <3>2 DEF InOrder
    <3>4. CASE call[n].slot = slot
      <4>1. pc'[p] = "assign" /\ job'[p].user = call[n].user BY <2>2, <3>4 DEF Goto, JobOf
      <4> QED BY <1>1, <3>1, <3>3, <4>1, SameMine DEF Stage
    <3>5. CASE call[n].slot # slot
      <4>1. pc'[p] = "look" BY <2>2, <3>5 DEF Goto
      <4> QED BY <1>1, <3>1, <3>3, <4>1, SameMine DEF Stage
    <3> QED BY <3>4, <3>5
  <2> QED BY <1>2, <2>1, <2>2 DEF BookFind
<1>3. ASSUME NEW n \in Mine(s), NEW label \in {"reassign", "reschedule"},
             AdminFind(p, n, label)
      PROVE  Stage(p)'
  <2>1. /\ pc'[p] = label /\ job'[p].session = s /\ job'[p].call = n
        /\ job'[p].user = call[n].user
    BY <1>3 DEF AdminFind, Goto, Mine, JobOf
  <2>2. \A m \in Mine(s) : m = n /\ call[m].user = assignee[s]
    BY DEF InOrder
  <2> QED BY <1>1, <2>1, <2>2, SameMine DEF Stage
<1> QED BY <1>2, <1>3

\* Closing a call leaves every session with what it had or one call less.
LEMMA CloseStep ==
  ASSUME TypeInv, OneEach, NEW n \in Calls, NEW status \in {"done", "cancelled"},
         Close(n, status)
  PROVE  OneEach'
<1> USE DEF TypeInv, TypeOK
<1>1. UNCHANGED <<assignee, pc, job, disturbed>> BY DEF Close
<1>2. \A m \in Calls : call'[m].user = call[m].user /\ call'[m].session = call[m].session
  BY DEF Close, CallType
<1>3. ASSUME NEW s PROVE Mine(s)' \subseteq Mine(s)
  BY <1>2 DEF Close, Mine, Pending, CallType
<1>4. ASSUME NEW s, InOrder(s) PROVE InOrder(s)'
  BY <1>1, <1>2, <1>3, <1>4 DEF InOrder, Mine
<1>5. ASSUME NEW p \in Procs, Stage(p) PROVE Stage(p)'
  <2>1. PICK s : s = job[p].session OBVIOUS
  <2>2. Mine(s)' \subseteq Mine(s) /\ Mine(s) \subseteq Calls BY <1>3 DEF Mine
  <2>3. pc[p] \in {"reschedule", "recheck", "shift"} => job[p].call \in Calls
    BY DEF JobOK, Fits
  <2>4. job'[p] = job[p] /\ pc'[p] = pc[p] /\ assignee' = assignee BY <1>1
  <2>5. InOrder(s) => InOrder(s)' BY <1>4
  <2> QED BY <1>2, <1>5, <2>1, <2>2, <2>3, <2>4, <2>5 DEF Stage
<1>6. ASSUME NEW s \in Sessions, Settled(s)' PROVE Settled(s)
  BY <1>1, <1>6 DEF Settled
<1> QED BY <1>1, <1>4, <1>5, <1>6 DEF OneEach, Alone

\* A user who puts events into his schedule changes nobody's calls.
LEMMA UserStands ==
  ASSUME TypeInv, OneEach, UserNext, ~disturbed'
  PROVE  OneEach'
<1>1. /\ UNCHANGED <<call, assignee, pc>> /\ ~disturbed
      /\ \A p \in Procs :
           /\ job'[p].session = job[p].session /\ job'[p].call = job[p].call
           /\ job'[p].user = job[p].user /\ job'[p].was = job[p].was
  BY UserStep
<1>2. \A s : Mine(s)' = Mine(s) /\ (InOrder(s)' <=> InOrder(s)) BY <1>1, SameMine
<1>3. ASSUME NEW p \in Procs, Stage(p) PROVE Stage(p)'
  <2>1. PICK s : s = job[p].session OBVIOUS
  <2>2. Mine(s)' = Mine(s) /\ (InOrder(s)' <=> InOrder(s)) BY <1>2
  <2> QED BY <1>1, <1>3, <2>1, <2>2 DEF Stage
<1>4. \A s : Settled(s)' => Settled(s) BY <1>1 DEF Settled
<1> QED BY <1>1, <1>2, <1>3, <1>4 DEF OneEach, Alone

LEMMA OneEachStep ==
  ASSUME TypeInv, TypeInv', OwnCalls, OneEach, [Next]_vars
  PROVE  OneEach'
<1>1. CASE UNCHANGED vars
  <2>1. \A s : Mine(s)' = Mine(s)
    BY <1>1 DEF vars, agenda, Mine, Pending
  <2>2. \A s : InOrder(s)' <=> InOrder(s)
    BY <1>1, <2>1 DEF vars, agenda, InOrder
  <2>3. \A p \in Procs : Stage(p) => Stage(p)'
    <3>1. SUFFICES ASSUME NEW p \in Procs, Stage(p) PROVE Stage(p)'
      OBVIOUS
    <3>2. PICK s : s = job[p].session OBVIOUS
    <3>3. UNCHANGED <<call, assignee, pc, job>> BY <1>1 DEF vars, agenda
    <3> QED BY <2>1, <2>2, <3>1, <3>2, <3>3 DEF Stage
  <2> QED BY <1>1, <2>2, <2>3 DEF vars, agenda, history, OneEach, Alone, Settled
<1>2. CASE Next
  <2>1. ASSUME disturbed' PROVE OneEach' BY <2>1 DEF OneEach
  <2>2. ASSUME ~disturbed', NEW p \in Procs, NEW s \in Sessions,
               Begins(p, s), InOrder(s) => Stage(p)'
        PROVE  OneEach'
    <3>1. ~disturbed /\ \A q \in Procs : job[q].session # s
      BY <2>2 DEF Begins
    <3>2. Stage(p)' BY <2>2, <3>1 DEF OneEach, Settled
    <3>3. Within(s) BY <2>2 DEF Begins, agenda, Within
    <3>4. job[p].session = None BY <2>2 DEF Begins, OwnCalls, NoJob, JobOf
    <3>5. /\ job'[p].session = s
          /\ \A q \in Procs : q # p => pc'[q] = pc[q] /\ job'[q] = job[q]
      BY <2>2 DEF Begins
    <3> QED BY <2>2, <3>1, <3>2, <3>3, <3>4, <3>5, OthersStand
  <2>3. ASSUME ~disturbed', NEW p \in Procs, Later(p) PROVE OneEach'
    <3>1. PICK s \in Sessions : s = job[p].session /\ Within(s)
      BY <2>3, LaterWithin
    <3>2. disturbed' = disturbed
      BY <2>3 DEF Later, BookLook, BookCreate, BookCancel, BookAssign, ReassignLook, Move,
           RescheduleLook, RescheduleRecheck, Shift, Own, Mirror, Patch, history
    <3>3. Stage(p) /\ \A q \in Procs : q # p => job[q].session # s
      BY <2>3, <3>1, <3>2, NoneAssumption DEF OneEach, Alone
    <3>4. Knows(p, s)
      <4>1. CASE p \in Bookers
        BY <2>3, <3>1, <3>3, <4>1, BookKnows, ProcsAssumption DEF Later
      <4>2. CASE p \notin Bookers
        BY <2>3, <3>1, <3>3, <4>2, AdminKnows DEF Procs
      <4> QED BY <4>1, <4>2
    <3>5. GoesOn(p) BY <2>3, LaterGoesOn
    <3>6. /\ job'[p].session \in {s, None}
          /\ job'[p].session # s => InOrder(s)'
      BY <3>1, <3>4, <3>5 DEF GoesOn, Knows, NoJob, JobOf
    <3>7. Stage(p)' BY <3>4 DEF Knows
    <3>8. \A q \in Procs : q # p =>
            /\ pc'[q] = pc[q] /\ job'[q] = job[q] /\ job[q].session # s
      BY <3>3, <3>5 DEF GoesOn
    <3> QED BY <2>3, <3>1, <3>2, <3>6, <3>7, <3>8, OthersStand
  <2>4. CASE BookNext
    <3>1. ASSUME NEW p \in Bookers, NEW s \in Sessions, NEW slot \in Slots,
                 BookFind(p, s, slot)
          PROVE  OneEach'
      BY <2>1, <2>2, <3>1, FindBegins, FirstKnows DEF Procs
    <3> QED BY <2>1, <2>3, <2>4, <3>1 DEF BookNext, Later, Procs
  <2>5. CASE AdminNext
    <3>1. ASSUME NEW p \in Admins, NEW n \in Calls,
                 NEW label \in {"reassign", "reschedule"}, AdminFind(p, n, label)
          PROVE  OneEach'
      <4>1. PICK s \in Sessions : s = call[n].session /\ Begins(p, s)
        BY <3>1, AdminBegins
      <4>2. n \in Mine(s) BY <3>1, <4>1 DEF AdminFind, Mine
      <4> QED BY <2>1, <2>2, <3>1, <4>1, <4>2, FirstKnows DEF Procs
    <3> QED BY <2>1, <2>3, <2>5, <3>1, CloseStep DEF AdminNext, Later, Procs
  <2>6. CASE UserNext BY <2>1, <2>6, UserStands
  <2> QED BY <1>2, <2>4, <2>5, <2>6 DEF Next
<1> QED BY <1>1, <1>2

\* A set in which all are the same has one element at most.
LEMMA AtMostOne ==
  ASSUME NEW S, \A x, y \in S : x = y
  PROVE  Cardinality(S) <= 1
<1>1. CASE S = {} BY <1>1, FS_EmptySet
<1>2. CASE S # {}
  <2>1. PICK x : S = {x} BY <1>2
  <2> QED BY <2>1, FS_Singleton
<1> QED BY <1>1, <1>2

\* A session whose requests never overlapped has one pending call at most once
\* they are over, of the user its customer belongs to: through re-bookings,
\* reassignments, reschedules and calls closed under the requests' feet.
THEOREM OneCallOfTheAssigneeCorrect == Spec => []OneCallOfTheAssignee
<1> DEFINE I == TypeInv /\ OwnCalls /\ OneEach
<1>1. ASSUME Init PROVE I
  <2>1. TypeInv /\ OwnCalls
    BY <1>1, InitTypeInv DEF Init, OwnCalls, NoJob, JobOf
  <2>2. \A n \in Calls : ~Pending(n)
    BY <1>1 DEF Init, Pending, NoCall
  <2>3. \A s : InOrder(s) BY <2>2 DEF InOrder, Mine
  <2>4. Alone /\ \A p \in Procs : Stage(p)
    BY <1>1 DEF Init, Alone, Stage, NoJob, JobOf
  <2> QED BY <2>1, <2>3, <2>4 DEF OneEach
<1>2. I /\ [Next]_vars => I'
  BY TypeStep, OwnCallsStep, OneEachStep
<1>3. ASSUME I PROVE OneCallOfTheAssignee
  <2>1. ASSUME ~disturbed, NEW s \in Sessions, Settled(s) PROVE InOrder(s)
    BY <1>3, <2>1 DEF OneEach
  <2>2. ASSUME ~disturbed, NEW s \in Sessions, Settled(s)
        PROVE  Cardinality({n \in Calls : Pending(n) /\ call[n].session = s}) <= 1
    BY <2>1, <2>2, AtMostOne DEF InOrder, Mine
  <2>3. OneCallPerSession BY <2>2 DEF OneCallPerSession, BookingIsIdempotent
  <2>4. AssigneeCalls BY <2>1 DEF AssigneeCalls, InOrder, Mine
  <2> QED BY <2>3, <2>4 DEF OneCallOfTheAssignee
<1> QED BY <1>1, <1>2, <1>3, PTL DEF Spec

=============================================================================
