--------------------------- MODULE CustomerProofs ---------------------------
(***************************************************************************)
(* Theorems of what is written down of customers: their trail, for any      *)
(* users and requests; the load of their ventors, for any office; their     *)
(* chats, for any messages; their replies to campaigns, for any             *)
(* deliveries; what is reported of their ventors, for any staff, where the  *)
(* sums over a set are those of PaymentProofs.  Each section has the        *)
(* inductive invariant of its component first, then a lemma for each        *)
(* action, and the theorem last.                                            *)
(***************************************************************************)
EXTENDS CustomerTrail, VentorBalance, ConversationStore, MarketingReply, StaffReport,
        PaymentProofs, FiniteSetTheorems, SequenceTheorems, TLAPS

-----------------------------------------------------------------------------
(* The trail: what a request, the log, the phones and the events have of it  *)

Logged(u) == \E i \in DOMAIN assignmentLog : assignmentLog[i].to = u

\* Where a request is, and what it holds there.
RequestFits(r) ==
  /\ clerk[r].way = "none" <=> clerk[r].at = "idle"
  /\ clerk[r].at \in {"pick", "save", "log", "push"} =>
       Assigning(r) /\ {clerk[r].seen, clerk[r].to} \subseteq Users \cup {Nobody}
  /\ clerk[r].at \in {"log", "push"} => Changes(r)
  /\ clerk[r].at = "step log" => clerk[r].way = "step" /\ clerk[r].to \in Steps
  /\ clerk[r].at = "step save" => clerk[r].way = "step" /\ clerk[r].to \in stepRows

\* There are no requests, and no assignees, before there is a customer.
NobodyYet ==
  ~recorded => /\ assignee = Nobody /\ ever = {Nobody} /\ ~unlogged
               /\ \A r \in Clerks : clerk[r].at = "idle"

\* Whoever was ever in charge is in the log, or a request is about to log him.
AssigneesComing ==
  /\ assignee \in ever
  /\ (~unlogged /\ trailCrashes = 0) =>
       \A u \in ever \ {Nobody} :
         Logged(u) \/ \E r \in Clerks : clerk[r].at = "log" /\ clerk[r].to = u

LastIsCharged ==
  assignmentLog # <<>> => assignmentLog[Len(assignmentLog)].to = assignee

\* Of assignments that do not overlap at most one is under way, and the phones are
\* behind the document by that one only.
AloneFits(r) ==
  /\ clerk[r].at \in {"pick", "save"} => clerk[r].seen = assignee
  /\ clerk[r].at \in {"pick", "save", "end"} => believes = {assignee} \ {Nobody} /\ LastIsCharged
  /\ clerk[r].at \in {"log", "push"} =>
       clerk[r].to = assignee /\ believes = {clerk[r].seen} \ {Nobody}
  /\ clerk[r].at = "push" => LastIsCharged

PhonesFollow ==
  (~unlogged /\ ~crossed /\ trailCrashes = 0) =>
    /\ \A r, o \in Clerks : (Assigning(r) /\ Assigning(o)) => r = o
    /\ \A r \in Clerks : Assigning(r) => AloneFits(r)
    /\ (\A r \in Clerks : ~Assigning(r)) => (believes = {assignee} \ {Nobody} /\ LastIsCharged)

\* The events, and the visitors that have not finished theirs.
EventsFit ==
  /\ Len(events) <= MaxEvents
  /\ \A k \in DOMAIN events : events[k].after <= Len(assignmentLog)
  /\ \A e \in Visitors : visitor[e].at # "idle" => visitor[e].number \in 1..Len(events)

\* lastUpdate is behind the events only while the last of them has not raised it yet.
UpdateComing ==
  (~outdated /\ trailCrashes = 0) =>
    /\ lastUpdate <= Len(events)
    /\ lastUpdate = Len(events)
         \/ \E e \in Visitors : visitor[e].at = "bump" /\ visitor[e].number = Len(events)
    /\ recomputing.at = "set" => recomputing.max = Len(events)

HisRows(k) == {i \in 1..events[k].after : assignmentLog[i].to = events[k].by}

\* The latest of his rows is attended, or a visitor is about to see to it.
AttendedComing ==
  trailCrashes = 0 =>
    \A k \in DOMAIN events :
      \/ \E e \in Visitors : visitor[e].at # "idle" /\ visitor[e].number = k
      \/ \A i \in HisRows(k) : (\A j \in HisRows(k) : j <= i) => assignmentLog[i].attended > 0

TrailInv ==
  /\ TrailTypeOK
  /\ \A r \in Clerks : RequestFits(r)
  /\ NobodyYet /\ AssigneesComing /\ PhonesFollow
  /\ StepIsLogged /\ EventsFit /\ UpdateComing /\ AttendedComing

-----------------------------------------------------------------------------
ClerkPlaces == {"idle", "pick", "save", "log", "push", "step log", "step save", "end"}
ClerkWays == AssignWays \cup {"none", "step"}
Charged == Users \cup {Nobody}
Written == Users \cup Steps \cup {Nobody}
ClerkRequests == [at : ClerkPlaces, way : ClerkWays, seen : Written, to : Written]
TrailRows == [to : Charged, attended : EventNumbers]

\* Request r is as said, the others are as they were.
ClerkIs(r, entry) ==
  /\ clerk' \in [Clerks -> ClerkRequests] /\ clerk'[r] = entry
  /\ \A o \in Clerks \ {r} : clerk'[o] = clerk[o]

\* What TrailTypeOK says of each variable, for the steps that need little of it.
LEMMA TrailTypes ==
  ASSUME TrailTypeOK
  PROVE /\ hooked \in BOOLEAN /\ recorded \in BOOLEAN /\ crossed \in BOOLEAN
        /\ unlogged \in BOOLEAN /\ outdated \in BOOLEAN
        /\ assignee \in Charged /\ believes \subseteq Users
        /\ assignmentLog \in Seq(TrailRows)
        /\ step \in Steps \cup {Nobody} /\ stepRows \subseteq Steps
        /\ events \in Seq([by : Users, after : Nat]) /\ lastUpdate \in EventNumbers
        /\ clerk \in [Clerks -> ClerkRequests]
        /\ visitor \in [Visitors -> [at : {"idle", "bump", "mark"}, number : EventNumbers]]
        /\ recomputing \in [at : {"idle", "set"}, max : EventNumbers]
        /\ clerkRequests \in Nat /\ ever \subseteq Charged /\ trailCrashes \in Nat
BY DEF TrailTypeOK, Charged, TrailRows, ClerkRequests, ClerkPlaces, ClerkWays, Written

\* A request is replaced by another.
LEMMA ClerkReplaced ==
  ASSUME TrailTypeOK, NEW r \in Clerks, NEW entry \in ClerkRequests,
         clerk' = [clerk EXCEPT ![r] = entry]
  PROVE ClerkIs(r, entry)
<1>1. clerk \in [Clerks -> ClerkRequests] BY TrailTypes
<1> QED BY <1>1 DEF ClerkIs

\* A request goes on to another place.
LEMMA ClerkMoves ==
  ASSUME TrailTypeOK, NEW r \in Clerks, NEW place \in ClerkPlaces, RequestTo(r, place)
  PROVE /\ ClerkIs(r, [clerk[r] EXCEPT !.at = place])
        /\ clerk'[r].at = place /\ clerk'[r].way = clerk[r].way
        /\ clerk'[r].seen = clerk[r].seen /\ clerk'[r].to = clerk[r].to
<1>1. clerk \in [Clerks -> ClerkRequests] BY TrailTypes
<1>2. clerk[r] \in ClerkRequests BY <1>1
<1>3. [clerk[r] EXCEPT !.at = place] \in ClerkRequests BY <1>2 DEF ClerkRequests
<1>4. clerk' = [clerk EXCEPT ![r] = [clerk[r] EXCEPT !.at = place]]
  BY <1>1, <1>2 DEF RequestTo
<1>5. ClerkIs(r, [clerk[r] EXCEPT !.at = place])
  BY <1>3, <1>4, ClerkReplaced
<1>6. clerk'[r] = [clerk[r] EXCEPT !.at = place] BY <1>5 DEF ClerkIs
<1> QED BY <1>2, <1>5, <1>6 DEF ClerkRequests

\* A row is added to the log: the others stay where they are.
LEMMA LogGrows ==
  ASSUME TrailTypeOK, NEW row \in TrailRows, assignmentLog' = Append(assignmentLog, row)
  PROVE /\ Len(assignmentLog) \in Nat /\ Len(assignmentLog') = Len(assignmentLog) + 1
        /\ DOMAIN assignmentLog = 1..Len(assignmentLog)
        /\ DOMAIN assignmentLog' = 1..(Len(assignmentLog) + 1)
        /\ \A i \in 1..Len(assignmentLog) : assignmentLog'[i] = assignmentLog[i]
        /\ assignmentLog'[Len(assignmentLog) + 1] = row
        /\ assignmentLog' \in Seq(TrailRows) /\ assignmentLog' # <<>>
<1>1. assignmentLog \in Seq(TrailRows) BY TrailTypes
<1>2. /\ Len(assignmentLog) \in Nat /\ DOMAIN assignmentLog = 1..Len(assignmentLog)
  BY <1>1, LenProperties
<1>3. /\ assignmentLog' \in Seq(TrailRows) /\ assignmentLog' # <<>>
      /\ Len(assignmentLog') = Len(assignmentLog) + 1
      /\ \A i \in 1..Len(assignmentLog) : assignmentLog'[i] = assignmentLog[i]
      /\ assignmentLog'[Len(assignmentLog) + 1] = row
  BY <1>1, AppendProperties
<1>4. DOMAIN assignmentLog' = 1..(Len(assignmentLog) + 1) BY <1>3, LenProperties
<1> QED BY <1>2, <1>3, <1>4

-----------------------------------------------------------------------------
(* The events are not touched by a request for the assignee or the step, but *)
(* for the log's growth                                                      *)

LEMMA EventsUntouched ==
  ASSUME TrailTypeOK, EventsFit, UpdateComing, AttendedComing,
         UNCHANGED <<eventDb, trailCrashes, assignmentLog>>
  PROVE EventsFit' /\ UpdateComing' /\ AttendedComing'
<1>1. /\ events' = events /\ lastUpdate' = lastUpdate /\ visitor' = visitor
      /\ recomputing' = recomputing /\ outdated' = outdated
      /\ trailCrashes' = trailCrashes /\ assignmentLog' = assignmentLog
  BY DEF eventDb
<1>2. EventsFit' BY <1>1 DEF EventsFit
<1>3. UpdateComing' BY <1>1 DEF UpdateComing
<1>4. \A k : HisRows(k)' = HisRows(k) BY <1>1 DEF HisRows
<1>5. AttendedComing' BY <1>1, <1>4 DEF AttendedComing
<1> QED BY <1>2, <1>3, <1>5

LEMMA EventsOutliveLog ==
  ASSUME TrailTypeOK, EventsFit, UpdateComing, AttendedComing,
         NEW row \in TrailRows, assignmentLog' = Append(assignmentLog, row),
         UNCHANGED <<eventDb, trailCrashes>>
  PROVE EventsFit' /\ UpdateComing' /\ AttendedComing'
<1>1. /\ events' = events /\ lastUpdate' = lastUpdate /\ visitor' = visitor
      /\ recomputing' = recomputing /\ outdated' = outdated /\ trailCrashes' = trailCrashes
  BY DEF eventDb
<1>2. /\ Len(assignmentLog) \in Nat /\ Len(assignmentLog') = Len(assignmentLog) + 1
      /\ \A i \in 1..Len(assignmentLog) : assignmentLog'[i] = assignmentLog[i]
  BY LogGrows
<1>3. events \in Seq([by : Users, after : Nat]) BY TrailTypes
<1>4. \A k \in DOMAIN events : events[k].after \in Nat
  <2> TAKE k \in DOMAIN events
  <2>1. k \in 1..Len(events) BY <1>3, LenProperties
  <2>2. events[k] \in [by : Users, after : Nat] BY <1>3, <2>1, ElementOfSeq
  <2> QED BY <2>2
<1>5. \A k \in DOMAIN events : events[k].after <= Len(assignmentLog) BY DEF EventsFit
<1>6. \A k \in DOMAIN events : events[k].after <= Len(assignmentLog')
  BY <1>2, <1>4, <1>5
<1>7. EventsFit' BY <1>1, <1>6 DEF EventsFit
<1>8. UpdateComing' BY <1>1 DEF UpdateComing
<1>9. \A k \in DOMAIN events : \A i \in 1..events[k].after : assignmentLog'[i] = assignmentLog[i]
  BY <1>2, <1>4, <1>5
<1>10. \A k \in DOMAIN events : HisRows(k)' = HisRows(k)
  BY <1>1, <1>9 DEF HisRows
<1>11. \A k \in DOMAIN events : \A i \in HisRows(k) : assignmentLog'[i] = assignmentLog[i]
  BY <1>9 DEF HisRows
<1>12. AttendedComing' BY <1>1, <1>10, <1>11 DEF AttendedComing
<1> QED BY <1>7, <1>8, <1>12

-----------------------------------------------------------------------------
(* What a step of request r has to see to, conjunct by conjunct               *)

LEMMA RequestsFit ==
  ASSUME \A o \in Clerks : RequestFits(o), NEW r \in Clerks, NEW entry, ClerkIs(r, entry),
         RequestFits(r)', stepRows \subseteq stepRows'
  PROVE \A o \in Clerks : RequestFits(o)'
<1> SUFFICES ASSUME NEW o \in Clerks, o # r PROVE RequestFits(o)'
  OBVIOUS
<1>1. clerk'[o] = clerk[o] BY DEF ClerkIs
<1>2. RequestFits(o) OBVIOUS
<1> QED BY <1>1, <1>2 DEF RequestFits, Assigning, Changes

Uneventful == ~unlogged /\ trailCrashes = 0

LEMMA AssigneesCome ==
  ASSUME AssigneesComing, NEW r \in Clerks, NEW entry, ClerkIs(r, entry),
         assignee' \in ever', Uneventful' => Uneventful,
         \A u \in ever' \ {Nobody} :
           u \in ever \/ Logged(u)' \/ (clerk'[r].at = "log" /\ clerk'[r].to = u),
         \A u : Logged(u) => Logged(u)',
         \A u : (clerk[r].at = "log" /\ clerk[r].to = u) =>
           (Logged(u)' \/ (clerk'[r].at = "log" /\ clerk'[r].to = u))
  PROVE AssigneesComing'
<1> SUFFICES ASSUME Uneventful', NEW u \in ever' \ {Nobody}
             PROVE Logged(u)' \/ \E o \in Clerks : clerk'[o].at = "log" /\ clerk'[o].to = u
  BY DEF AssigneesComing, Uneventful
<1>1. CASE u \in ever
  <2>1. Logged(u) \/ \E o \in Clerks : clerk[o].at = "log" /\ clerk[o].to = u
    BY <1>1 DEF AssigneesComing, Uneventful
  <2>2. CASE Logged(u) BY <2>2
  <2>3. ASSUME NEW o \in Clerks, clerk[o].at = "log", clerk[o].to = u
        PROVE Logged(u)' \/ \E p \in Clerks : clerk'[p].at = "log" /\ clerk'[p].to = u
    <3>1. CASE o = r
      <4>1. clerk[r].at = "log" /\ clerk[r].to = u BY <2>3, <3>1
      <4> QED BY <4>1
    <3>2. CASE o # r
      <4>1. clerk'[o] = clerk[o] BY <3>2 DEF ClerkIs
      <4> QED BY <2>3, <4>1
    <3> QED BY <3>1, <3>2
  <2> QED BY <2>1, <2>2, <2>3
<1>2. CASE u \notin ever BY <1>2
<1> QED BY <1>1, <1>2

Calm == ~unlogged /\ ~crossed /\ trailCrashes = 0
Settled == believes = {assignee} \ {Nobody} /\ LastIsCharged

\* A step of the one request for the assignee, or of the first.
LEMMA PhonesOfOne ==
  ASSUME NEW r \in Clerks, NEW entry, ClerkIs(r, entry),
         Calm' => \A o \in Clerks \ {r} : ~Assigning(o),
         (Calm' /\ Assigning(r)') => AloneFits(r)',
         (Calm' /\ ~Assigning(r)') => Settled'
  PROVE PhonesFollow'
<1> SUFFICES ASSUME Calm'
             PROVE /\ \A p, o \in Clerks : (Assigning(p)' /\ Assigning(o)') => p = o
                   /\ \A o \in Clerks : Assigning(o)' => AloneFits(o)'
                   /\ (\A o \in Clerks : ~Assigning(o)') => Settled'
  BY DEF PhonesFollow, Calm, Settled
<1>1. \A o \in Clerks \ {r} : ~Assigning(o)'
  BY DEF ClerkIs, Assigning
<1> QED BY <1>1

\* A step of a request that has nothing to do with the assignee.
LEMMA PhonesUntouched ==
  ASSUME PhonesFollow, NEW r \in Clerks, NEW entry, ClerkIs(r, entry), Calm' => Calm,
         UNCHANGED <<assignee, believes, assignmentLog>>,
         ~Assigning(r), ~Assigning(r)'
  PROVE PhonesFollow'
<1> SUFFICES ASSUME Calm'
             PROVE /\ \A p, o \in Clerks : (Assigning(p)' /\ Assigning(o)') => p = o
                   /\ \A o \in Clerks : Assigning(o)' => AloneFits(o)'
                   /\ (\A o \in Clerks : ~Assigning(o)') => Settled'
  BY DEF PhonesFollow, Calm, Settled
<1>1. Calm OBVIOUS
<1>2. /\ \A p, o \in Clerks : (Assigning(p) /\ Assigning(o)) => p = o
      /\ \A o \in Clerks : Assigning(o) => AloneFits(o)
      /\ (\A o \in Clerks : ~Assigning(o)) => Settled
  BY <1>1 DEF PhonesFollow, Calm, Settled
<1>3. \A o \in Clerks : Assigning(o)' <=> Assigning(o)
  BY DEF ClerkIs, Assigning
<1>4. \A o \in Clerks : Assigning(o)' => clerk'[o] = clerk[o]
  BY DEF ClerkIs
<1>5. Settled' <=> Settled BY DEF Settled, LastIsCharged
<1>6. \A o \in Clerks : (Assigning(o)' /\ AloneFits(o)) => AloneFits(o)'
  BY <1>4 DEF AloneFits, LastIsCharged
<1> QED BY <1>2, <1>3, <1>5, <1>6

\* Of assignments that do not overlap the others are not for the assignee.
LEMMA CalmIsAlone ==
  ASSUME PhonesFollow, Calm, NEW r \in Clerks, Assigning(r)
  PROVE (\A o \in Clerks \ {r} : ~Assigning(o)) /\ AloneFits(r)
BY DEF PhonesFollow, Calm

\* A request begins.
LEMMA BeginIs ==
  ASSUME TrailTypeOK, \A o \in Clerks : RequestFits(o), NEW r \in Clerks,
         NEW entry \in ClerkRequests, BeginRequest(r, entry)
  PROVE /\ ClerkIs(r, entry) /\ clerk[r].at = "idle" /\ ~Assigning(r)
        /\ clerkRequests' \in Nat /\ crossed' \in BOOLEAN
        /\ crossed => crossed'
        /\ (entry.way \in AssignWays /\ ~crossed') => \A o \in Clerks : ~Assigning(o)
<1>1. ClerkIs(r, entry) BY ClerkReplaced DEF BeginRequest
<1>2. clerk[r].at = "idle" BY DEF BeginRequest
<1>3. clerk[r].way = "none" BY <1>2 DEF RequestFits
<1>4. ~Assigning(r) BY <1>3 DEF Assigning, AssignWays, LoggedWays
<1>5. clerkRequests \in Nat /\ crossed \in BOOLEAN BY TrailTypes
<1>6. clerkRequests' \in Nat BY <1>5 DEF BeginRequest
<1>7. crossed' = (crossed \/ (entry.way \in AssignWays /\ \E o \in Clerks : Assigning(o)))
  BY DEF BeginRequest
<1>8. (crossed' \in BOOLEAN) /\ (crossed => crossed') BY <1>5, <1>7
<1>9. (entry.way \in AssignWays /\ ~crossed') => \A o \in Clerks : ~Assigning(o)
  BY <1>7
<1> QED BY <1>1, <1>2, <1>4, <1>6, <1>8, <1>9

\* Before any assignment the phones are settled.
LEMMA CalmIsSettled ==
  ASSUME PhonesFollow, Calm, \A o \in Clerks : ~Assigning(o)
  PROVE Settled
BY DEF PhonesFollow, Calm, Settled

-----------------------------------------------------------------------------
(* The requests for the assignee                                              *)

ClerksKeep ==
  /\ \A r \in Clerks : RequestFits(r)
  /\ NobodyYet /\ AssigneesComing /\ PhonesFollow /\ StepIsLogged

EventsKeep == EventsFit /\ UpdateComing /\ AttendedComing

\* The invariant in two parts.
LEMMA TrailInvIs == TrailInv <=> (TrailTypeOK /\ ClerksKeep /\ EventsKeep)
BY DEF TrailInv, ClerksKeep, EventsKeep

LEMMA TrailInvNext ==
  ASSUME TrailTypeOK', ClerksKeep', EventsKeep'
  PROVE TrailInv'
BY DEF TrailInv, ClerksKeep, EventsKeep

LEMMA CreateCustomerKeeps ==
  ASSUME TrailInv, TrailAssumption, NEW r \in Clerks, NEW u \in Users \cup {Nobody},
         CreateCustomer(r, u)
  PROVE TrailTypeOK' /\ ClerksKeep'
<1> DEFINE entry == [at |-> IF u = Nobody THEN "pick" ELSE IF hooked THEN "log" ELSE "end",
                       way |-> "own", seen |-> Nobody, to |-> u]
<1>1. TrailTypeOK /\ ClerksKeep BY TrailInvIs
<1>2. entry \in ClerkRequests
  BY DEF ClerkRequests, ClerkPlaces, ClerkWays, AssignWays, LoggedWays, Written
<1>3. BeginRequest(r, entry) BY DEF CreateCustomer
<1>4. /\ ~recorded /\ recorded' = TRUE /\ assignee' = u /\ ever' = ever \cup {u}
      /\ unlogged' = (u # Nobody /\ ~hooked)
      /\ UNCHANGED <<hooked, assignmentLog, believes, stepDb, eventDb, trailCrashes>>
  BY DEF CreateCustomer
<1>5. /\ ClerkIs(r, entry) /\ clerk[r].at = "idle" /\ ~Assigning(r)
      /\ clerkRequests' \in Nat /\ crossed' \in BOOLEAN
      /\ crossed => crossed'
      /\ (entry.way \in AssignWays /\ ~crossed') => \A o \in Clerks : ~Assigning(o)
  BY <1>1, <1>2, <1>3, BeginIs DEF ClerksKeep
<1>6. /\ assignee = Nobody /\ ever = {Nobody} /\ ~unlogged
      /\ \A o \in Clerks : clerk[o].at = "idle"
  BY <1>1, <1>4 DEF ClerksKeep, NobodyYet
<1>7. /\ clerk'[r].at = IF u = Nobody THEN "pick" ELSE IF hooked THEN "log" ELSE "end"
      /\ clerk'[r].way = "own" /\ clerk'[r].seen = Nobody /\ clerk'[r].to = u
  BY <1>5 DEF ClerkIs
<1> HIDE DEF entry
<1>8. Assigning(r)' BY <1>7 DEF Assigning, AssignWays
<1>9. unlogged' \in BOOLEAN BY <1>4
<1>10. TrailTypeOK'
  BY <1>1, <1>4, <1>5, <1>9
  DEF TrailTypeOK, ClerkIs, stepDb, eventDb, ClerkRequests, ClerkPlaces, ClerkWays, Written
<1>11. RequestFits(r)'
  BY <1>7, <1>8 DEF RequestFits, Changes
<1>12. stepRows' = stepRows /\ step' = step BY <1>4 DEF stepDb
<1>13. \A o \in Clerks : RequestFits(o)'
  BY <1>1, <1>5, <1>11, <1>12, RequestsFit DEF ClerksKeep
<1>14. NobodyYet' BY <1>4 DEF NobodyYet
<1>15. AssigneesComing'
  <2>1. AssigneesComing BY <1>1 DEF ClerksKeep
  <2>2. assignee' \in ever' BY <1>4
  <2>3. Uneventful' => Uneventful BY <1>4, <1>6 DEF Uneventful
  <2>4. \A v : Logged(v) => Logged(v)' BY <1>4 DEF Logged
  <2>5. CASE Uneventful'
    <3>1. u # Nobody => clerk'[r].at = "log" BY <1>4, <1>7, <2>5 DEF Uneventful
    <3>2. \A v \in ever' \ {Nobody} :
            v \in ever \/ Logged(v)' \/ (clerk'[r].at = "log" /\ clerk'[r].to = v)
      BY <1>4, <1>7, <3>1
    <3> QED BY <1>5, <2>1, <2>2, <2>3, <2>4, <3>2, AssigneesCome
  <2>6. CASE ~Uneventful' BY <2>2, <2>6 DEF AssigneesComing, Uneventful
  <2> QED BY <2>5, <2>6
<1>16. PhonesFollow'
  <2>1. CASE Calm'
    <3>1. Calm BY <1>4, <1>5, <1>6, <2>1 DEF Calm
    <3>2. \A o \in Clerks : ~Assigning(o)
      BY <1>6, <1>1 DEF ClerksKeep, RequestFits, Assigning, AssignWays, LoggedWays
    <3>3. Settled BY <1>1, <3>1, <3>2, CalmIsSettled DEF ClerksKeep
    <3>4. u = Nobody \/ clerk'[r].at = "log" BY <1>4, <1>7, <2>1 DEF Calm
    <3>5. AloneFits(r)'
      BY <1>4, <1>6, <1>7, <3>3, <3>4 DEF AloneFits, Settled, LastIsCharged
    <3> QED BY <1>5, <1>8, <3>2, <3>5, PhonesOfOne
  <2>2. CASE ~Calm' BY <2>2 DEF PhonesFollow, Calm
  <2> QED BY <2>1, <2>2
<1>17. StepIsLogged' BY <1>1, <1>12 DEF ClerksKeep, StepIsLogged
<1> QED BY <1>10, <1>13, <1>14, <1>15, <1>16, <1>17 DEF ClerksKeep

LEMMA ReadAssigneeKeeps ==
  ASSUME TrailInv, TrailAssumption, NEW r \in Clerks, NEW way \in AssignWays \ {"own"},
         NEW u \in Users \cup {Nobody}, ReadAssignee(r, way, u)
  PROVE TrailTypeOK' /\ ClerksKeep'
<1> DEFINE entry == [at |-> "save", way |-> way, seen |-> assignee, to |-> u]
<1>1. TrailTypeOK /\ ClerksKeep BY TrailInvIs
<1>0. assignee \in Users \cup {Nobody} BY <1>1 DEF TrailTypeOK
<1>2. entry \in ClerkRequests
  BY <1>0 DEF ClerkRequests, ClerkPlaces, ClerkWays, Written
<1>3. BeginRequest(r, entry) BY DEF ReadAssignee
<1>4. /\ recorded /\ UNCHANGED <<trailDb, stepDb, eventDb, ever, unlogged, trailCrashes>>
  BY DEF ReadAssignee
<1>4a. /\ recorded' = recorded /\ assignee' = assignee /\ ever' = ever /\ unlogged' = unlogged
       /\ trailCrashes' = trailCrashes /\ assignmentLog' = assignmentLog /\ hooked' = hooked
       /\ believes' = believes /\ step' = step /\ stepRows' = stepRows
  BY <1>4 DEF trailDb, stepDb
<1>5. /\ ClerkIs(r, entry) /\ clerk[r].at = "idle" /\ ~Assigning(r)
      /\ clerkRequests' \in Nat /\ crossed' \in BOOLEAN
      /\ crossed => crossed'
      /\ (entry.way \in AssignWays /\ ~crossed') => \A o \in Clerks : ~Assigning(o)
  BY <1>1, <1>2, <1>3, BeginIs DEF ClerksKeep
<1>7. /\ clerk'[r].at = "save" /\ clerk'[r].way = way /\ clerk'[r].seen = assignee
      /\ clerk'[r].to = u
  BY <1>5 DEF ClerkIs
<1>7a. entry.way = way OBVIOUS
<1> HIDE DEF entry
<1>8. Assigning(r)' BY <1>7 DEF Assigning
<1>10. TrailTypeOK'
  BY <1>1, <1>4, <1>4a, <1>5
  DEF TrailTypeOK, ClerkIs, eventDb, ClerkRequests, ClerkPlaces, ClerkWays, Written
<1>11. RequestFits(r)'
  BY <1>7, <1>8, <1>0 DEF RequestFits, Changes, AssignWays, LoggedWays
<1>13. \A o \in Clerks : RequestFits(o)'
  BY <1>1, <1>4a, <1>5, <1>11, RequestsFit DEF ClerksKeep
<1>14. NobodyYet' BY <1>4, <1>4a DEF NobodyYet
<1>15. AssigneesComing'
  <2>1. AssigneesComing BY <1>1 DEF ClerksKeep
  <2>2. assignee' \in ever' BY <1>4a, <2>1 DEF AssigneesComing
  <2>3. Uneventful' => Uneventful BY <1>4a DEF Uneventful
  <2>4. \A v : Logged(v) => Logged(v)' BY <1>4a DEF Logged
  <2>5. \A v \in ever' \ {Nobody} : v \in ever BY <1>4a
  <2> QED BY <1>5, <2>1, <2>2, <2>3, <2>4, <2>5, AssigneesCome
<1>16. PhonesFollow'
  <2>1. CASE Calm'
    <3>1. Calm BY <1>4a, <1>5, <2>1 DEF Calm
    <3>2. \A o \in Clerks : ~Assigning(o) BY <1>5, <1>7a, <2>1 DEF Calm
    <3>3. Settled BY <1>1, <3>1, <3>2, CalmIsSettled DEF ClerksKeep
    <3>5. AloneFits(r)'
      BY <1>4a, <1>7, <3>3 DEF AloneFits, Settled, LastIsCharged
    <3> QED BY <1>5, <1>8, <3>2, <3>5, PhonesOfOne
  <2>2. CASE ~Calm' BY <2>2 DEF PhonesFollow, Calm
  <2> QED BY <2>1, <2>2
<1>17. StepIsLogged' BY <1>1, <1>4a DEF ClerksKeep, StepIsLogged
<1> QED BY <1>10, <1>13, <1>14, <1>15, <1>16, <1>17 DEF ClerksKeep

\* What RequestFits says of a request that is under way.
LEMMA FitsAt ==
  ASSUME ClerksKeep, NEW r \in Clerks
  PROVE RequestFits(r)
BY DEF ClerksKeep

LEMMA PickAssigneeKeeps ==
  ASSUME TrailInv, TrailAssumption, NEW r \in Clerks, NEW u \in Users \cup {Nobody},
         PickAssignee(r, u)
  PROVE TrailTypeOK' /\ ClerksKeep'
<1> DEFINE entry == [clerk[r] EXCEPT !.at = IF u = Nobody THEN "end" ELSE "save", !.to = u]
<1>1. TrailTypeOK /\ ClerksKeep BY TrailInvIs
<1>2. clerk \in [Clerks -> ClerkRequests] BY <1>1, TrailTypes
<1>3. clerk[r] \in ClerkRequests BY <1>2
<1>4. entry \in ClerkRequests
  BY <1>3 DEF ClerkRequests, ClerkPlaces, Written
<1>5. clerk' = [clerk EXCEPT ![r] = entry] BY <1>2, <1>3 DEF PickAssignee
<1>6. ClerkIs(r, entry) BY <1>1, <1>4, <1>5, ClerkReplaced
<1>7. /\ clerk'[r].at = (IF u = Nobody THEN "end" ELSE "save")
      /\ clerk'[r].way = clerk[r].way /\ clerk'[r].seen = clerk[r].seen /\ clerk'[r].to = u
  BY <1>3, <1>6 DEF ClerkIs, ClerkRequests
<1>8. /\ clerk[r].at = "pick"
      /\ UNCHANGED <<trailDb, stepDb, eventDb, trailHistory>>
  BY DEF PickAssignee
<1>9. /\ recorded' = recorded /\ assignee' = assignee /\ ever' = ever /\ unlogged' = unlogged
      /\ trailCrashes' = trailCrashes /\ assignmentLog' = assignmentLog /\ hooked' = hooked
      /\ believes' = believes /\ step' = step /\ stepRows' = stepRows /\ crossed' = crossed
      /\ clerkRequests' = clerkRequests
  BY <1>8 DEF trailDb, stepDb, trailHistory
<1> HIDE DEF entry
<1>10. TrailTypeOK'
  BY <1>1, <1>6, <1>8, <1>9
  DEF TrailTypeOK, ClerkIs, eventDb, ClerkRequests, ClerkPlaces, ClerkWays, Written
<1>11. RequestFits(r) BY <1>1, FitsAt
<1>12. Assigning(r) /\ {clerk[r].seen, clerk[r].to} \subseteq Users \cup {Nobody}
  BY <1>8, <1>11 DEF RequestFits
<1>13. Assigning(r)' BY <1>7, <1>12 DEF Assigning
<1>14. RequestFits(r)'
  BY <1>7, <1>12, <1>13 DEF RequestFits, Changes, Assigning, AssignWays, LoggedWays
<1>15. \A o \in Clerks : RequestFits(o)'
  BY <1>1, <1>6, <1>9, <1>14, RequestsFit DEF ClerksKeep
<1>16. NobodyYet' BY <1>1, <1>8, <1>9 DEF ClerksKeep, NobodyYet
<1>17. AssigneesComing'
  <2>1. AssigneesComing BY <1>1 DEF ClerksKeep
  <2>2. assignee' \in ever' BY <1>9, <2>1 DEF AssigneesComing
  <2>3. Uneventful' => Uneventful BY <1>9 DEF Uneventful
  <2>4. \A v : Logged(v) => Logged(v)' BY <1>9 DEF Logged
  <2>5. \A v \in ever' \ {Nobody} : v \in ever BY <1>9
  <2> QED BY <1>6, <1>8, <2>1, <2>2, <2>3, <2>4, <2>5, AssigneesCome
<1>18. PhonesFollow'
  <2>1. CASE Calm'
    <3>1. Calm BY <1>9, <2>1 DEF Calm
    <3>2. (\A o \in Clerks \ {r} : ~Assigning(o)) /\ AloneFits(r)
      BY <1>1, <1>12, <3>1, CalmIsAlone DEF ClerksKeep
    <3>3. AloneFits(r)'
      BY <1>7, <1>8, <1>9, <3>2 DEF AloneFits, LastIsCharged
    <3> QED BY <1>6, <1>13, <3>2, <3>3, PhonesOfOne
  <2>2. CASE ~Calm' BY <2>2 DEF PhonesFollow, Calm
  <2> QED BY <2>1, <2>2
<1>19. StepIsLogged' BY <1>1, <1>9 DEF ClerksKeep, StepIsLogged
<1> QED BY <1>10, <1>15, <1>16, <1>17, <1>18, <1>19 DEF ClerksKeep

LEMMA SaveAssigneeKeeps ==
  ASSUME TrailInv, TrailAssumption, NEW r \in Clerks, SaveAssignee(r)
  PROVE TrailTypeOK' /\ ClerksKeep'
<1> DEFINE place == IF LogsAssignment(r) THEN "log" ELSE "end"
<1> DEFINE entry == [clerk[r] EXCEPT !.at = place]
<1>1. TrailTypeOK /\ ClerksKeep BY TrailInvIs
<1>2. place \in ClerkPlaces BY DEF ClerkPlaces
<1>3. RequestTo(r, place) BY DEF SaveAssignee
<1>4. /\ ClerkIs(r, entry)
      /\ clerk'[r].at = place /\ clerk'[r].way = clerk[r].way
      /\ clerk'[r].seen = clerk[r].seen /\ clerk'[r].to = clerk[r].to
  BY <1>1, <1>2, <1>3, ClerkMoves
<1>5. place = (IF LogsAssignment(r) THEN "log" ELSE "end") OBVIOUS
<1> HIDE DEF entry, place
<1>6. /\ clerk[r].at = "save" /\ Assigning(r)
      /\ assignee' = (IF Changes(r) THEN clerk[r].to ELSE assignee)
      /\ ever' = ever \cup {assignee'}
      /\ unlogged' = (unlogged \/ (Changes(r) /\ clerk[r].way \notin LoggedWays
                                /\ (~hooked \/ clerk[r].way = "own")))
      /\ UNCHANGED <<hooked, recorded, assignmentLog, believes, stepDb, eventDb, clerkRequests,
                     crossed, trailCrashes>>
  BY DEF SaveAssignee
<1>7. step' = step /\ stepRows' = stepRows BY <1>6 DEF stepDb
<1>8. RequestFits(r) BY <1>1, FitsAt
<1>9. {clerk[r].seen, clerk[r].to} \subseteq Users \cup {Nobody}
  BY <1>6, <1>8 DEF RequestFits
<1>10. Assigning(r)' BY <1>4, <1>6 DEF Assigning
<1>11. /\ unlogged \in BOOLEAN /\ hooked \in BOOLEAN
       /\ assignee \in Users \cup {Nobody} /\ ever \subseteq Users \cup {Nobody}
  BY <1>1 DEF TrailTypeOK
<1>12. unlogged' \in BOOLEAN BY <1>6, <1>11
<1>13. assignee' \in Users \cup {Nobody} /\ ever' \subseteq Users \cup {Nobody}
  BY <1>6, <1>9, <1>11
<1>14. TrailTypeOK'
  BY <1>1, <1>4, <1>6, <1>12, <1>13
  DEF TrailTypeOK, ClerkIs, eventDb, stepDb, ClerkRequests, ClerkPlaces, ClerkWays, Written
<1>15. RequestFits(r)'
  BY <1>4, <1>5, <1>6, <1>9, <1>10
  DEF RequestFits, Changes, LogsAssignment, Assigning, AssignWays, LoggedWays
<1>16. \A o \in Clerks : RequestFits(o)'
  BY <1>1, <1>4, <1>7, <1>15, RequestsFit DEF ClerksKeep
<1>17. recorded BY <1>1, <1>6 DEF ClerksKeep, NobodyYet
<1>18. NobodyYet' BY <1>6, <1>17 DEF NobodyYet
<1>19. AssigneesComing'
  <2>1. AssigneesComing BY <1>1 DEF ClerksKeep
  <2>2. assignee' \in ever' BY <1>6
  <2>3. Uneventful' => Uneventful BY <1>6, <1>11 DEF Uneventful
  <2>4. \A v : Logged(v) => Logged(v)' BY <1>6 DEF Logged
  <2>5. CASE Uneventful'
    <3>1. Changes(r) => LogsAssignment(r)
      BY <1>6, <2>5 DEF Uneventful, LogsAssignment
    <3>2. Changes(r) => (clerk'[r].at = "log" /\ clerk'[r].to = assignee')
      BY <1>4, <1>5, <1>6, <3>1
    <3>3. ~Changes(r) => assignee' \in ever BY <1>6, <2>1 DEF AssigneesComing
    <3>4. \A v \in ever' \ {Nobody} :
            v \in ever \/ Logged(v)' \/ (clerk'[r].at = "log" /\ clerk'[r].to = v)
      BY <1>6, <3>2, <3>3
    <3> QED BY <1>4, <1>6, <2>1, <2>2, <2>3, <2>4, <3>4, AssigneesCome
  <2>6. CASE ~Uneventful' BY <2>2, <2>6 DEF AssigneesComing, Uneventful
  <2> QED BY <2>5, <2>6
<1>20. PhonesFollow'
  <2>1. CASE Calm'
    <3>1. Calm BY <1>6, <1>11, <2>1 DEF Calm
    <3>2. (\A o \in Clerks \ {r} : ~Assigning(o)) /\ AloneFits(r)
      BY <1>1, <1>6, <3>1, CalmIsAlone DEF ClerksKeep
    <3>3. clerk[r].seen = assignee /\ believes = {assignee} \ {Nobody} /\ LastIsCharged
      BY <1>6, <3>2 DEF AloneFits
    <3>4. CASE Changes(r)
      <4>1. LogsAssignment(r) BY <1>6, <2>1, <3>4 DEF Calm, LogsAssignment
      <4>2. clerk'[r].at = "log" /\ assignee' = clerk[r].to BY <1>4, <1>5, <1>6, <3>4, <4>1
      <4>3. AloneFits(r)' BY <1>4, <1>6, <3>3, <4>2 DEF AloneFits
      <4> QED BY <1>4, <1>10, <3>2, <4>3, PhonesOfOne
    <3>5. CASE ~Changes(r)
      <4>1. ~LogsAssignment(r) BY <3>5 DEF LogsAssignment
      <4>2. clerk'[r].at = "end" /\ assignee' = assignee BY <1>4, <1>5, <1>6, <3>5, <4>1
      <4>3. AloneFits(r)' BY <1>6, <3>3, <4>2 DEF AloneFits, LastIsCharged
      <4> QED BY <1>4, <1>10, <3>2, <4>3, PhonesOfOne
    <3> QED BY <3>4, <3>5
  <2>2. CASE ~Calm' BY <2>2 DEF PhonesFollow, Calm
  <2> QED BY <2>1, <2>2
<1>21. StepIsLogged' BY <1>1, <1>7 DEF ClerksKeep, StepIsLogged
<1> QED BY <1>14, <1>16, <1>18, <1>19, <1>20, <1>21 DEF ClerksKeep

LEMMA LogAssignmentKeeps ==
  ASSUME TrailInv, TrailAssumption, NEW r \in Clerks, LogAssignment(r)
  PROVE TrailTypeOK' /\ ClerksKeep' /\ EventsKeep'
<1> DEFINE entry == [clerk[r] EXCEPT !.at = "push"]
<1> DEFINE row == [to |-> clerk[r].to, attended |-> 0]
<1>1. TrailTypeOK /\ ClerksKeep /\ EventsKeep BY TrailInvIs
<1>2. "push" \in ClerkPlaces BY DEF ClerkPlaces
<1>3. RequestTo(r, "push") BY DEF LogAssignment
<1>4. /\ ClerkIs(r, entry)
      /\ clerk'[r].at = "push" /\ clerk'[r].way = clerk[r].way
      /\ clerk'[r].seen = clerk[r].seen /\ clerk'[r].to = clerk[r].to
  BY <1>1, <1>2, <1>3, ClerkMoves
<1>5. /\ clerk[r].at = "log" /\ assignmentLog' = Append(assignmentLog, row)
      /\ UNCHANGED <<hooked, recorded, assignee, believes, stepDb, eventDb, trailHistory>>
  BY DEF LogAssignment
<1>6. /\ ever' = ever /\ unlogged' = unlogged /\ trailCrashes' = trailCrashes
      /\ step' = step /\ stepRows' = stepRows /\ crossed' = crossed
      /\ clerkRequests' = clerkRequests
  BY <1>5 DEF stepDb, trailHistory
<1>7. RequestFits(r) BY <1>1, FitsAt
<1>8. Assigning(r) /\ Changes(r) /\ {clerk[r].seen, clerk[r].to} \subseteq Users \cup {Nobody}
  BY <1>5, <1>7 DEF RequestFits
<1>9. row \in TrailRows
  <2>1. 0 \in EventNumbers BY DEF EventNumbers, TrailAssumption
  <2> QED BY <1>8, <2>1 DEF TrailRows, Charged
<1>9a. row.to = clerk[r].to OBVIOUS
<1> HIDE DEF entry, row
<1>10. /\ Len(assignmentLog) \in Nat /\ Len(assignmentLog') = Len(assignmentLog) + 1
       /\ DOMAIN assignmentLog = 1..Len(assignmentLog)
       /\ DOMAIN assignmentLog' = 1..(Len(assignmentLog) + 1)
       /\ \A i \in 1..Len(assignmentLog) : assignmentLog'[i] = assignmentLog[i]
       /\ assignmentLog'[Len(assignmentLog) + 1] = row
       /\ assignmentLog' \in Seq(TrailRows) /\ assignmentLog' # <<>>
  BY <1>1, <1>5, <1>9, LogGrows
<1>11. TrailTypeOK'
  BY <1>1, <1>4, <1>5, <1>6, <1>10
  DEF TrailTypeOK, ClerkIs, eventDb, ClerkRequests, ClerkPlaces, ClerkWays, Written,
      TrailRows, Charged
<1>12. Assigning(r)' BY <1>4, <1>8 DEF Assigning
<1>13. RequestFits(r)'
  BY <1>4, <1>8, <1>12 DEF RequestFits, Changes, Assigning, AssignWays, LoggedWays
<1>14. \A o \in Clerks : RequestFits(o)'
  BY <1>1, <1>4, <1>6, <1>13, RequestsFit DEF ClerksKeep
<1>15. recorded BY <1>1, <1>5 DEF ClerksKeep, NobodyYet
<1>16. NobodyYet' BY <1>5, <1>15 DEF NobodyYet
<1>17. AssigneesComing'
  <2>1. AssigneesComing BY <1>1 DEF ClerksKeep
  <2>2. assignee' \in ever' BY <1>5, <1>6, <2>1 DEF AssigneesComing
  <2>3. Uneventful' => Uneventful BY <1>6 DEF Uneventful
  <2>4. \A v : Logged(v) => Logged(v)' BY <1>10 DEF Logged
  <2>5. \A v \in ever' \ {Nobody} : v \in ever BY <1>6
  <2>6. Len(assignmentLog) + 1 \in DOMAIN assignmentLog' BY <1>10
  <2>7. \A v : (clerk[r].at = "log" /\ clerk[r].to = v) => Logged(v)'
    BY <1>9a, <1>10, <2>6 DEF Logged
  <2> QED BY <1>4, <2>1, <2>2, <2>3, <2>4, <2>5, <2>7, AssigneesCome
<1>18. PhonesFollow'
  <2>1. CASE Calm'
    <3>1. Calm BY <1>6, <2>1 DEF Calm
    <3>2. (\A o \in Clerks \ {r} : ~Assigning(o)) /\ AloneFits(r)
      BY <1>1, <1>8, <3>1, CalmIsAlone DEF ClerksKeep
    <3>3. clerk[r].to = assignee /\ believes = {clerk[r].seen} \ {Nobody}
      BY <1>5, <3>2 DEF AloneFits
    <3>4. LastIsCharged' BY <1>5, <1>9a, <1>10, <3>3 DEF LastIsCharged
    <3>5. AloneFits(r)' BY <1>4, <1>5, <3>3, <3>4 DEF AloneFits
    <3> QED BY <1>4, <1>12, <3>2, <3>5, PhonesOfOne
  <2>2. CASE ~Calm' BY <2>2 DEF PhonesFollow, Calm
  <2> QED BY <2>1, <2>2
<1>19. StepIsLogged' BY <1>1, <1>6 DEF ClerksKeep, StepIsLogged
<1>20. EventsKeep'
  BY <1>1, <1>5, <1>6, <1>9, EventsOutliveLog DEF EventsKeep
<1> QED BY <1>11, <1>14, <1>16, <1>17, <1>18, <1>19, <1>20 DEF ClerksKeep

LEMMA PushAssignmentKeeps ==
  ASSUME TrailInv, TrailAssumption, NEW r \in Clerks, PushAssignment(r)
  PROVE TrailTypeOK' /\ ClerksKeep'
<1> DEFINE entry == [clerk[r] EXCEPT !.at = "end"]
<1>1. TrailTypeOK /\ ClerksKeep BY TrailInvIs
<1>2. "end" \in ClerkPlaces BY DEF ClerkPlaces
<1>3. RequestTo(r, "end") BY DEF PushAssignment
<1>4. /\ ClerkIs(r, entry)
      /\ clerk'[r].at = "end" /\ clerk'[r].way = clerk[r].way
      /\ clerk'[r].seen = clerk[r].seen /\ clerk'[r].to = clerk[r].to
  BY <1>1, <1>2, <1>3, ClerkMoves
<1> HIDE DEF entry
<1>5. /\ clerk[r].at = "push"
      /\ believes' = (believes \ {clerk[r].seen}) \cup ({clerk[r].to} \ {Nobody})
      /\ UNCHANGED <<hooked, recorded, assignee, assignmentLog, stepDb, eventDb, trailHistory>>
  BY DEF PushAssignment
<1>6. /\ ever' = ever /\ unlogged' = unlogged /\ trailCrashes' = trailCrashes
      /\ step' = step /\ stepRows' = stepRows /\ crossed' = crossed
      /\ clerkRequests' = clerkRequests
  BY <1>5 DEF stepDb, trailHistory
<1>7. RequestFits(r) BY <1>1, FitsAt
<1>8. Assigning(r) /\ {clerk[r].seen, clerk[r].to} \subseteq Users \cup {Nobody}
  BY <1>5, <1>7 DEF RequestFits
<1>9. believes' \subseteq Users
  <2>1. believes \subseteq Users BY <1>1 DEF TrailTypeOK
  <2> QED BY <1>5, <1>8, <2>1
<1>11. TrailTypeOK'
  BY <1>1, <1>4, <1>5, <1>6, <1>9
  DEF TrailTypeOK, ClerkIs, eventDb, ClerkRequests, ClerkPlaces, ClerkWays, Written
<1>12. Assigning(r)' BY <1>4, <1>8 DEF Assigning
<1>13. RequestFits(r)'
  BY <1>4, <1>8, <1>12 DEF RequestFits, Changes, Assigning, AssignWays, LoggedWays
<1>14. \A o \in Clerks : RequestFits(o)'
  BY <1>1, <1>4, <1>6, <1>13, RequestsFit DEF ClerksKeep
<1>15. recorded BY <1>1, <1>5 DEF ClerksKeep, NobodyYet
<1>16. NobodyYet' BY <1>5, <1>15 DEF NobodyYet
<1>17. AssigneesComing'
  <2>1. AssigneesComing BY <1>1 DEF ClerksKeep
  <2>2. assignee' \in ever' BY <1>5, <1>6, <2>1 DEF AssigneesComing
  <2>3. Uneventful' => Uneventful BY <1>6 DEF Uneventful
  <2>4. \A v : Logged(v) => Logged(v)' BY <1>5 DEF Logged
  <2>5. \A v \in ever' \ {Nobody} : v \in ever BY <1>6
  <2> QED BY <1>4, <1>5, <2>1, <2>2, <2>3, <2>4, <2>5, AssigneesCome
<1>18. PhonesFollow'
  <2>1. CASE Calm'
    <3>1. Calm BY <1>6, <2>1 DEF Calm
    <3>2. (\A o \in Clerks \ {r} : ~Assigning(o)) /\ AloneFits(r)
      BY <1>1, <1>8, <3>1, CalmIsAlone DEF ClerksKeep
    <3>3. clerk[r].to = assignee /\ believes = {clerk[r].seen} \ {Nobody} /\ LastIsCharged
      BY <1>5, <3>2 DEF AloneFits
    <3>4. believes' = {assignee} \ {Nobody} BY <1>5, <3>3
    <3>5. AloneFits(r)' BY <1>4, <1>5, <3>3, <3>4 DEF AloneFits, LastIsCharged
    <3> QED BY <1>4, <1>12, <3>2, <3>5, PhonesOfOne
  <2>2. CASE ~Calm' BY <2>2 DEF PhonesFollow, Calm
  <2> QED BY <2>1, <2>2
<1>19. StepIsLogged' BY <1>1, <1>6 DEF ClerksKeep, StepIsLogged
<1> QED BY <1>11, <1>14, <1>16, <1>17, <1>18, <1>19 DEF ClerksKeep

LEMMA NoRequestIs ==
  /\ NoRequest \in ClerkRequests /\ NoRequest.at = "idle" /\ NoRequest.way = "none"
BY DEF NoRequest, ClerkRequests, ClerkPlaces, ClerkWays, Written

LEMMA EndRequestKeeps ==
  ASSUME TrailInv, TrailAssumption, NEW r \in Clerks, EndRequest(r)
  PROVE TrailTypeOK' /\ ClerksKeep'
<1>1. TrailTypeOK /\ ClerksKeep BY TrailInvIs
<1>2. clerk' = [clerk EXCEPT ![r] = NoRequest] BY DEF EndRequest
<1>3. ClerkIs(r, NoRequest) BY <1>1, <1>2, ClerkReplaced, NoRequestIs
<1>4. clerk'[r].at = "idle" /\ clerk'[r].way = "none" BY <1>3, NoRequestIs DEF ClerkIs
<1>5. /\ clerk[r].at = "end"
      /\ UNCHANGED <<trailDb, stepDb, eventDb, trailHistory>>
  BY DEF EndRequest
<1>6. /\ recorded' = recorded /\ assignee' = assignee /\ ever' = ever /\ unlogged' = unlogged
      /\ trailCrashes' = trailCrashes /\ assignmentLog' = assignmentLog /\ hooked' = hooked
      /\ believes' = believes /\ step' = step /\ stepRows' = stepRows /\ crossed' = crossed
      /\ clerkRequests' = clerkRequests
  BY <1>5 DEF trailDb, stepDb, trailHistory
<1>11. TrailTypeOK'
  BY <1>1, <1>3, <1>5, <1>6
  DEF TrailTypeOK, ClerkIs, eventDb, ClerkRequests, ClerkPlaces, ClerkWays, Written
<1>12. ~Assigning(r)' BY <1>4 DEF Assigning, AssignWays, LoggedWays
<1>13. RequestFits(r)' BY <1>4 DEF RequestFits
<1>14. \A o \in Clerks : RequestFits(o)'
  BY <1>1, <1>3, <1>6, <1>13, RequestsFit DEF ClerksKeep
<1>15. recorded BY <1>1, <1>5 DEF ClerksKeep, NobodyYet
<1>16. NobodyYet' BY <1>6, <1>15 DEF NobodyYet
<1>17. AssigneesComing'
  <2>1. AssigneesComing BY <1>1 DEF ClerksKeep
  <2>2. assignee' \in ever' BY <1>6, <2>1 DEF AssigneesComing
  <2>3. Uneventful' => Uneventful BY <1>6 DEF Uneventful
  <2>4. \A v : Logged(v) => Logged(v)' BY <1>6 DEF Logged
  <2>5. \A v \in ever' \ {Nobody} : v \in ever BY <1>6
  <2> QED BY <1>3, <1>5, <2>1, <2>2, <2>3, <2>4, <2>5, AssigneesCome
<1>18. PhonesFollow'
  <2>1. CASE Calm'
    <3>1. Calm BY <1>6, <2>1 DEF Calm
    <3>2. CASE Assigning(r)
      <4>1. (\A o \in Clerks \ {r} : ~Assigning(o)) /\ AloneFits(r)
        BY <1>1, <3>1, <3>2, CalmIsAlone DEF ClerksKeep
      <4>2. Settled BY <1>5, <4>1 DEF AloneFits, Settled
      <4>3. Settled' BY <1>6, <4>2 DEF Settled, LastIsCharged
      <4> QED BY <1>3, <1>12, <4>1, <4>3, PhonesOfOne
    <3>3. CASE ~Assigning(r)
      <4>1. PhonesFollow BY <1>1 DEF ClerksKeep
      <4> QED BY <1>3, <1>6, <1>12, <3>1, <3>3, <4>1, PhonesUntouched
    <3> QED BY <3>2, <3>3
  <2>2. CASE ~Calm' BY <2>2 DEF PhonesFollow, Calm
  <2> QED BY <2>1, <2>2
<1>19. StepIsLogged' BY <1>1, <1>6 DEF ClerksKeep, StepIsLogged
<1> QED BY <1>11, <1>14, <1>16, <1>17, <1>18, <1>19 DEF ClerksKeep

-----------------------------------------------------------------------------
(* The requests for the step                                                  *)

\* A request that has nothing to do with the assignee leaves what is said of him.
LEMMA AssigneesUntouched ==
  ASSUME ClerksKeep, NEW r \in Clerks, NEW entry, ClerkIs(r, entry),
         UNCHANGED <<trailDb, ever, unlogged, trailCrashes>>,
         crossed \in BOOLEAN, crossed => crossed', ~Assigning(r), ~Assigning(r)', recorded
  PROVE NobodyYet' /\ AssigneesComing' /\ PhonesFollow'
<1>1. /\ recorded' = recorded /\ assignee' = assignee /\ ever' = ever /\ unlogged' = unlogged
      /\ trailCrashes' = trailCrashes /\ assignmentLog' = assignmentLog
      /\ believes' = believes
  BY DEF trailDb
<1>2. RequestFits(r) BY FitsAt
<1>3. clerk[r].at # "log" BY <1>2 DEF RequestFits
<1>4. NobodyYet' BY <1>1 DEF NobodyYet
<1>5. AssigneesComing'
  <2>1. AssigneesComing BY DEF ClerksKeep
  <2>2. assignee' \in ever' BY <1>1, <2>1 DEF AssigneesComing
  <2>3. Uneventful' => Uneventful BY <1>1 DEF Uneventful
  <2>4. \A v : Logged(v) => Logged(v)' BY <1>1 DEF Logged
  <2>5. \A v \in ever' \ {Nobody} : v \in ever BY <1>1
  <2> QED BY <1>3, <2>1, <2>2, <2>3, <2>4, <2>5, AssigneesCome
<1>6. PhonesFollow'
  <2>1. Calm' => Calm BY <1>1 DEF Calm
  <2>2. PhonesFollow BY DEF ClerksKeep
  <2> QED BY <1>1, <2>1, <2>2, PhonesUntouched
<1> QED BY <1>4, <1>5, <1>6

LEMMA ReadStepKeeps ==
  ASSUME TrailInv, TrailAssumption, NEW r \in Clerks, NEW s \in Steps, ReadStep(r, s)
  PROVE TrailTypeOK' /\ ClerksKeep'
<1> DEFINE entry == [at |-> IF s = step THEN "end" ELSE "step log", way |-> "step",
                       seen |-> step, to |-> s]
<1>1. TrailTypeOK /\ ClerksKeep BY TrailInvIs
<1>2. step \in Steps \cup {Nobody} /\ crossed \in BOOLEAN BY <1>1 DEF TrailTypeOK
<1>3. entry \in ClerkRequests
  BY <1>2 DEF ClerkRequests, ClerkPlaces, ClerkWays, Written
<1>4. BeginRequest(r, entry) BY DEF ReadStep
<1>5. recorded /\ UNCHANGED <<trailDb, stepDb, eventDb, ever, unlogged, trailCrashes>>
  BY DEF ReadStep
<1>6. /\ ClerkIs(r, entry) /\ clerk[r].at = "idle" /\ ~Assigning(r)
      /\ clerkRequests' \in Nat /\ crossed' \in BOOLEAN
      /\ crossed => crossed'
  BY <1>1, <1>3, <1>4, BeginIs DEF ClerksKeep
<1>7a. clerk'[r] = entry BY <1>6 DEF ClerkIs
<1>7b. /\ entry.way = "step" /\ entry.to = s
       /\ entry.at = IF s = step THEN "end" ELSE "step log"
  OBVIOUS
<1>7. /\ clerk'[r].at \in {"end", "step log"} /\ clerk'[r].way = "step" /\ clerk'[r].to = s
  BY <1>7a, <1>7b
<1> HIDE DEF entry
<1>8. ~Assigning(r)' BY <1>7 DEF Assigning, AssignWays, LoggedWays
<1>9. step' = step /\ stepRows' = stepRows BY <1>5 DEF stepDb
<1>10. TrailTypeOK'
  BY <1>1, <1>5, <1>6, <1>9
  DEF TrailTypeOK, ClerkIs, trailDb, eventDb, ClerkRequests, ClerkPlaces, ClerkWays, Written
<1>11. RequestFits(r)' BY <1>7 DEF RequestFits
<1>12. \A o \in Clerks : RequestFits(o)'
  BY <1>1, <1>6, <1>9, <1>11, RequestsFit DEF ClerksKeep
<1>13. NobodyYet' /\ AssigneesComing' /\ PhonesFollow'
  BY <1>1, <1>2, <1>5, <1>6, <1>8, AssigneesUntouched
<1>14. StepIsLogged' BY <1>1, <1>9 DEF ClerksKeep, StepIsLogged
<1> QED BY <1>10, <1>12, <1>13, <1>14 DEF ClerksKeep

LEMMA WriteStepKeeps ==
  ASSUME TrailInv, TrailAssumption, NEW r \in Clerks, WriteStep(r)
  PROVE TrailTypeOK' /\ ClerksKeep'
<1>1. TrailTypeOK /\ ClerksKeep BY TrailInvIs
<1>2. RequestFits(r) BY <1>1, FitsAt
<1>3. crossed \in BOOLEAN BY <1>1 DEF TrailTypeOK
<1>4. UNCHANGED <<trailDb, eventDb, trailHistory>> BY DEF WriteStep
<1>5. recorded
  BY <1>1 DEF ClerksKeep, NobodyYet, WriteStep
<1>6. CASE clerk[r].at = "step log"
  <2> DEFINE entry == [clerk[r] EXCEPT !.at = "step save"]
  <2>1. /\ stepRows' = stepRows \cup {clerk[r].to} /\ step' = step
        /\ RequestTo(r, "step save")
    BY <1>6 DEF WriteStep
  <2>2. "step save" \in ClerkPlaces BY DEF ClerkPlaces
  <2>3. /\ ClerkIs(r, entry)
        /\ clerk'[r].at = "step save" /\ clerk'[r].way = clerk[r].way
        /\ clerk'[r].seen = clerk[r].seen /\ clerk'[r].to = clerk[r].to
    BY <1>1, <2>1, <2>2, ClerkMoves
  <2> HIDE DEF entry
  <2>4. clerk[r].way = "step" /\ clerk[r].to \in Steps BY <1>2, <1>6 DEF RequestFits
  <2>5. ~Assigning(r) /\ ~Assigning(r)' BY <2>3, <2>4 DEF Assigning, AssignWays, LoggedWays
  <2>6. TrailTypeOK'
    BY <1>1, <1>4, <2>1, <2>3, <2>4
    DEF TrailTypeOK, ClerkIs, trailDb, eventDb, trailHistory, ClerkRequests, ClerkPlaces,
        ClerkWays, Written
  <2>7. RequestFits(r)' BY <2>1, <2>3, <2>4 DEF RequestFits
  <2>8. \A o \in Clerks : RequestFits(o)'
    BY <1>1, <2>1, <2>3, <2>7, RequestsFit DEF ClerksKeep
  <2>9. NobodyYet' /\ AssigneesComing' /\ PhonesFollow'
    BY <1>1, <1>3, <1>4, <1>5, <2>3, <2>5, AssigneesUntouched DEF trailHistory
  <2>10. StepIsLogged' BY <1>1, <2>1 DEF ClerksKeep, StepIsLogged
  <2> QED BY <2>6, <2>8, <2>9, <2>10 DEF ClerksKeep
<1>7. CASE clerk[r].at = "step save"
  <2> DEFINE entry == [clerk[r] EXCEPT !.at = "end"]
  <2>1. step' = clerk[r].to /\ stepRows' = stepRows /\ RequestTo(r, "end")
    BY <1>7 DEF WriteStep
  <2>2. "end" \in ClerkPlaces BY DEF ClerkPlaces
  <2>3. /\ ClerkIs(r, entry)
        /\ clerk'[r].at = "end" /\ clerk'[r].way = clerk[r].way
        /\ clerk'[r].seen = clerk[r].seen /\ clerk'[r].to = clerk[r].to
    BY <1>1, <2>1, <2>2, ClerkMoves
  <2> HIDE DEF entry
  <2>4. clerk[r].way = "step" /\ clerk[r].to \in stepRows BY <1>2, <1>7 DEF RequestFits
  <2>5. ~Assigning(r) /\ ~Assigning(r)' BY <2>3, <2>4 DEF Assigning, AssignWays, LoggedWays
  <2>6. stepRows \subseteq Steps BY <1>1 DEF TrailTypeOK
  <2>7. TrailTypeOK'
    BY <1>1, <1>4, <2>1, <2>3, <2>4, <2>6
    DEF TrailTypeOK, ClerkIs, trailDb, eventDb, trailHistory, ClerkRequests, ClerkPlaces,
        ClerkWays, Written
  <2>8. RequestFits(r)' BY <2>3, <2>4 DEF RequestFits
  <2>9. \A o \in Clerks : RequestFits(o)'
    BY <1>1, <2>1, <2>3, <2>8, RequestsFit DEF ClerksKeep
  <2>10. NobodyYet' /\ AssigneesComing' /\ PhonesFollow'
    BY <1>1, <1>3, <1>4, <1>5, <2>3, <2>5, AssigneesUntouched DEF trailHistory
  <2>11. StepIsLogged' BY <2>1, <2>4 DEF StepIsLogged
  <2> QED BY <2>7, <2>9, <2>10, <2>11 DEF ClerksKeep
<1> QED BY <1>6, <1>7 DEF WriteStep

-----------------------------------------------------------------------------
(* The events                                                                 *)

LEMMA ClerksUntouched ==
  ASSUME ClerksKeep, UNCHANGED <<trailDb, stepDb, clerk, trailHistory>>
  PROVE ClerksKeep'
<1>1. /\ recorded' = recorded /\ assignee' = assignee /\ ever' = ever /\ unlogged' = unlogged
      /\ trailCrashes' = trailCrashes /\ assignmentLog' = assignmentLog /\ clerk' = clerk
      /\ believes' = believes /\ step' = step /\ stepRows' = stepRows /\ crossed' = crossed
  BY DEF trailDb, stepDb, trailHistory
<1>2. \A r \in Clerks : RequestFits(r)'
  BY <1>1 DEF ClerksKeep, RequestFits, Assigning, Changes
<1>3. NobodyYet' BY <1>1 DEF ClerksKeep, NobodyYet
<1>4. \A u : Logged(u)' <=> Logged(u) BY <1>1 DEF Logged
<1>5. AssigneesComing' BY <1>1, <1>4 DEF ClerksKeep, AssigneesComing
<1>6. LastIsCharged' <=> LastIsCharged BY <1>1 DEF LastIsCharged
<1>7. \A r \in Clerks : (Assigning(r)' <=> Assigning(r)) /\ (AloneFits(r)' <=> AloneFits(r))
  BY <1>1, <1>6 DEF Assigning, AloneFits
<1>8. PhonesFollow' BY <1>1, <1>6, <1>7 DEF ClerksKeep, PhonesFollow
<1>9. StepIsLogged' BY <1>1 DEF ClerksKeep, StepIsLogged
<1> QED BY <1>2, <1>3, <1>5, <1>8, <1>9 DEF ClerksKeep

TrailEvents == [by : Users, after : Nat]
VisitorPlaces == {"idle", "bump", "mark"}

LEMMA RecordEventKeeps ==
  ASSUME TrailInv, TrailAssumption, NEW e \in Visitors, NEW u \in Users, RecordEvent(e, u)
  PROVE TrailInv'
<1> DEFINE event == [by |-> u, after |-> Len(assignmentLog)]
<1>1. TrailTypeOK /\ ClerksKeep /\ EventsFit /\ UpdateComing /\ AttendedComing
  BY TrailInvIs DEF EventsKeep
<1>2. /\ visitor[e].at = "idle" /\ Len(events) < MaxEvents
      /\ events' = Append(events, event)
      /\ visitor' = [visitor EXCEPT ![e] = [at |-> "bump", number |-> Len(events')]]
      /\ outdated' = (outdated \/ recomputing.at # "idle")
      /\ UNCHANGED <<lastUpdate, recomputing, trailDb, stepDb, clerk, trailHistory>>
  BY DEF RecordEvent
<1>3. ClerksKeep' BY <1>1, <1>2, ClerksUntouched
<1>4. /\ assignmentLog' = assignmentLog /\ trailCrashes' = trailCrashes
  BY <1>2 DEF trailDb, trailHistory
<1>5. /\ events \in Seq(TrailEvents) /\ assignmentLog \in Seq(TrailRows)
      /\ visitor \in [Visitors -> [at : VisitorPlaces, number : EventNumbers]]
      /\ outdated \in BOOLEAN /\ lastUpdate \in EventNumbers
      /\ recomputing \in [at : {"idle", "set"}, max : EventNumbers]
  BY <1>1, TrailTypes DEF TrailEvents, VisitorPlaces
<1>6. /\ Len(events) \in Nat /\ Len(assignmentLog) \in Nat
      /\ DOMAIN events = 1..Len(events)
  BY <1>5, LenProperties
<1>7. event \in TrailEvents BY <1>6 DEF TrailEvents
<1>7a. event.by = u /\ event.after = Len(assignmentLog) OBVIOUS
<1> HIDE DEF event
<1>8. /\ events' \in Seq(TrailEvents) /\ Len(events') = Len(events) + 1
      /\ \A k \in 1..Len(events) : events'[k] = events[k]
      /\ events'[Len(events) + 1] = event
  BY <1>2, <1>5, <1>7, AppendProperties
<1>9. DOMAIN events' = 1..(Len(events) + 1) BY <1>8, LenProperties
<1>10. MaxEvents \in Nat BY DEF TrailAssumption
<1>11. Len(events') \in EventNumbers /\ Len(events') <= MaxEvents
  BY <1>2, <1>6, <1>8, <1>10 DEF EventNumbers
<1>12. /\ visitor' \in [Visitors -> [at : VisitorPlaces, number : EventNumbers]]
       /\ visitor'[e].at = "bump" /\ visitor'[e].number = Len(events) + 1
       /\ \A d \in Visitors \ {e} : visitor'[d] = visitor[d]
  <2>1. [at |-> "bump", number |-> Len(events')] \in [at : VisitorPlaces, number : EventNumbers]
    BY <1>11 DEF VisitorPlaces
  <2>2. visitor' \in [Visitors -> [at : VisitorPlaces, number : EventNumbers]]
    BY <1>2, <1>5, <2>1
  <2>3. visitor'[e] = [at |-> "bump", number |-> Len(events')] BY <1>2, <1>5
  <2>4. \A d \in Visitors \ {e} : visitor'[d] = visitor[d] BY <1>2, <1>5
  <2> QED BY <1>8, <2>2, <2>3, <2>4
<1>13. outdated' \in BOOLEAN BY <1>2, <1>5
<1>14. TrailTypeOK'
  BY <1>1, <1>2, <1>8, <1>12, <1>13
  DEF TrailTypeOK, trailDb, stepDb, trailHistory, TrailEvents, VisitorPlaces
<1>15. EventsFit'
  <2>1. \A k \in DOMAIN events' : events'[k].after <= Len(assignmentLog')
    <3> TAKE k \in DOMAIN events'
    <3>1. CASE k \in 1..Len(events) BY <1>1, <1>4, <1>6, <1>8, <3>1 DEF EventsFit
    <3>2. CASE k = Len(events) + 1 BY <1>4, <1>6, <1>7a, <1>8, <3>2
    <3> QED BY <1>6, <1>9, <3>1, <3>2
  <2>2. \A d \in Visitors : visitor'[d].at # "idle" => visitor'[d].number \in 1..Len(events')
    <3> TAKE d \in Visitors
    <3>1. CASE d = e BY <1>6, <1>8, <1>12, <3>1
    <3>2. CASE d # e
      <4>1. visitor[d].at # "idle" => visitor[d].number \in 1..Len(events)
        BY <1>1 DEF EventsFit
      <4> QED BY <1>6, <1>8, <1>12, <3>2, <4>1
    <3> QED BY <3>1, <3>2
  <2> QED BY <1>11, <2>1, <2>2 DEF EventsFit
<1>16. UpdateComing'
  <2> SUFFICES ASSUME ~outdated', trailCrashes' = 0
               PROVE /\ lastUpdate' <= Len(events')
                     /\ \E d \in Visitors :
                          visitor'[d].at = "bump" /\ visitor'[d].number = Len(events')
                     /\ recomputing'.at # "set"
    BY DEF UpdateComing
  <2>1. ~outdated /\ recomputing.at = "idle" BY <1>2
  <2>2. lastUpdate <= Len(events) BY <1>1, <1>4, <2>1 DEF UpdateComing
  <2>3. lastUpdate' <= Len(events')
    BY <1>2, <1>5, <1>6, <1>8, <2>2 DEF EventNumbers
  <2> QED BY <1>2, <1>8, <1>12, <2>1, <2>3
<1>17. AttendedComing'
  <2> SUFFICES ASSUME trailCrashes' = 0, NEW k \in DOMAIN events'
               PROVE \/ \E d \in Visitors : visitor'[d].at # "idle" /\ visitor'[d].number = k
                     \/ \A i \in HisRows(k)' : (\A j \in HisRows(k)' : j <= i)
                                                  => assignmentLog'[i].attended > 0
    BY DEF AttendedComing
  <2>1. CASE k = Len(events) + 1 BY <1>12, <2>1
  <2>2. CASE k \in 1..Len(events)
    <3>1. HisRows(k)' = HisRows(k) BY <1>4, <1>8, <2>2 DEF HisRows
    <3>2. \/ \E d \in Visitors : visitor[d].at # "idle" /\ visitor[d].number = k
          \/ \A i \in HisRows(k) : (\A j \in HisRows(k) : j <= i)
                                      => assignmentLog[i].attended > 0
      BY <1>1, <1>4, <1>6, <2>2 DEF AttendedComing
    <3>3. ASSUME NEW d \in Visitors, visitor[d].at # "idle", visitor[d].number = k
          PROVE visitor'[d].at # "idle" /\ visitor'[d].number = k
      <4>1. d # e BY <1>2, <3>3
      <4> QED BY <1>12, <3>3, <4>1
    <3> QED BY <1>4, <3>1, <3>2, <3>3
  <2> QED BY <1>6, <1>9, <2>1, <2>2
<1> QED BY <1>3, <1>14, <1>15, <1>16, <1>17, TrailInvNext DEF EventsKeep

LEMMA BumpLastUpdateKeeps ==
  ASSUME TrailInv, TrailAssumption, NEW e \in Visitors, BumpLastUpdate(e)
  PROVE TrailInv'
<1>1. TrailTypeOK /\ ClerksKeep /\ EventsFit /\ UpdateComing /\ AttendedComing
  BY TrailInvIs DEF EventsKeep
<1>2. /\ visitor[e].at = "bump"
      /\ lastUpdate' = (IF visitor[e].number > lastUpdate THEN visitor[e].number ELSE lastUpdate)
      /\ visitor' = [visitor EXCEPT ![e].at = "mark"]
      /\ UNCHANGED <<events, recomputing, outdated, trailDb, stepDb, clerk, trailHistory>>
  BY DEF BumpLastUpdate
<1>3. ClerksKeep' BY <1>1, <1>2, ClerksUntouched
<1>4. /\ assignmentLog' = assignmentLog /\ trailCrashes' = trailCrashes
  BY <1>2 DEF trailDb, trailHistory
<1>5. /\ events \in Seq(TrailEvents)
      /\ visitor \in [Visitors -> [at : VisitorPlaces, number : EventNumbers]]
      /\ outdated \in BOOLEAN /\ lastUpdate \in EventNumbers
      /\ recomputing \in [at : {"idle", "set"}, max : EventNumbers]
  BY <1>1, TrailTypes DEF TrailEvents, VisitorPlaces
<1>6. Len(events) \in Nat BY <1>5, LenProperties
<1>7. visitor[e].number \in EventNumbers BY <1>5
<1>8. /\ visitor' \in [Visitors -> [at : VisitorPlaces, number : EventNumbers]]
      /\ visitor'[e].at = "mark" /\ visitor'[e].number = visitor[e].number
      /\ \A d \in Visitors \ {e} : visitor'[d] = visitor[d]
  BY <1>2, <1>5 DEF VisitorPlaces
<1>9. lastUpdate' \in EventNumbers BY <1>2, <1>5, <1>7
<1>10. TrailTypeOK'
  BY <1>1, <1>2, <1>8, <1>9
  DEF TrailTypeOK, trailDb, stepDb, trailHistory, VisitorPlaces
<1>11. \A d \in Visitors : visitor'[d].at # "idle" =>
         (visitor[d].at # "idle" /\ visitor'[d].number = visitor[d].number)
  BY <1>2, <1>8
<1>12. EventsFit' BY <1>1, <1>2, <1>4, <1>11 DEF EventsFit
<1>13. UpdateComing'
  <2> SUFFICES ASSUME ~outdated', trailCrashes' = 0
               PROVE /\ lastUpdate' <= Len(events')
                     /\ lastUpdate' = Len(events') \/ \E d \in Visitors :
                          visitor'[d].at = "bump" /\ visitor'[d].number = Len(events')
                     /\ recomputing'.at = "set" => recomputing'.max = Len(events')
    BY DEF UpdateComing
  <2>1. /\ lastUpdate <= Len(events)
        /\ lastUpdate = Len(events) \/ \E d \in Visitors :
             visitor[d].at = "bump" /\ visitor[d].number = Len(events)
        /\ recomputing.at = "set" => recomputing.max = Len(events)
    BY <1>1, <1>2, <1>4 DEF UpdateComing
  <2>2. visitor[e].number <= Len(events) BY <1>1, <1>2, <1>6 DEF EventsFit
  <2>3. lastUpdate' <= Len(events) BY <1>2, <2>1, <2>2
  <2>4. CASE lastUpdate = Len(events)
    <3>1. lastUpdate' = Len(events)
      BY <1>2, <1>5, <1>6, <1>7, <2>2, <2>4 DEF EventNumbers
    <3> QED BY <1>2, <2>1, <2>3, <3>1
  <2>5. CASE visitor[e].number = Len(events)
    <3>1. lastUpdate' = Len(events)
      BY <1>2, <1>5, <1>6, <1>7, <2>1, <2>5 DEF EventNumbers
    <3> QED BY <1>2, <2>1, <2>3, <3>1
  <2>6. ASSUME NEW d \in Visitors, d # e, visitor[d].at = "bump",
               visitor[d].number = Len(events)
        PROVE \E c \in Visitors : visitor'[c].at = "bump" /\ visitor'[c].number = Len(events')
    BY <1>2, <1>8, <2>6
  <2>7. recomputing'.at = "set" => recomputing'.max = Len(events') BY <1>2, <2>1
  <2>8. lastUpdate' <= Len(events') BY <1>2, <2>3
  <2> QED BY <2>1, <2>4, <2>5, <2>6, <2>7, <2>8
<1>14. AttendedComing'
  <2>1. \A k : HisRows(k)' = HisRows(k) BY <1>2, <1>4 DEF HisRows
  <2>2. \A d \in Visitors : visitor[d].at # "idle" =>
          (visitor'[d].at # "idle" /\ visitor'[d].number = visitor[d].number)
    BY <1>8
  <2> QED BY <1>1, <1>2, <1>4, <2>1, <2>2 DEF AttendedComing
<1> QED BY <1>3, <1>10, <1>12, <1>13, <1>14, TrailInvNext DEF EventsKeep

LEMMA MarkAttendedKeeps ==
  ASSUME TrailInv, TrailAssumption, NEW e \in Visitors, MarkAttended(e)
  PROVE TrailInv'
<1>1. TrailTypeOK /\ ClerksKeep /\ EventsFit /\ UpdateComing /\ AttendedComing
  BY TrailInvIs DEF EventsKeep
<1> DEFINE n == visitor[e].number
<1>2. /\ visitor[e].at = "mark"
      /\ assignmentLog' = [i \in DOMAIN assignmentLog |->
           IF i \in OpenRows(e) /\ \A j \in OpenRows(e) : j <= i
           THEN [assignmentLog[i] EXCEPT !.attended = visitor[e].number] ELSE assignmentLog[i]]
      /\ visitor' = [visitor EXCEPT ![e] = NoVisit]
      /\ UNCHANGED <<hooked, recorded, assignee, believes, events, lastUpdate, recomputing,
                     outdated, stepDb, clerk, trailHistory>>
  BY DEF MarkAttended
<1>3. /\ trailCrashes' = trailCrashes /\ clerk' = clerk /\ step' = step /\ stepRows' = stepRows
      /\ ever' = ever /\ unlogged' = unlogged /\ crossed' = crossed
      /\ clerkRequests' = clerkRequests /\ recorded' = recorded /\ assignee' = assignee
      /\ believes' = believes /\ events' = events
  BY <1>2 DEF stepDb, trailHistory
<1>5. /\ events \in Seq(TrailEvents) /\ assignmentLog \in Seq(TrailRows)
      /\ visitor \in [Visitors -> [at : VisitorPlaces, number : EventNumbers]]
  BY <1>1, TrailTypes DEF TrailEvents, VisitorPlaces
<1>6. /\ Len(events) \in Nat /\ Len(assignmentLog) \in Nat
      /\ DOMAIN events = 1..Len(events) /\ DOMAIN assignmentLog = 1..Len(assignmentLog)
      /\ \A i \in 1..Len(assignmentLog) : assignmentLog[i] \in TrailRows
  BY <1>5, LenProperties, ElementOfSeq
<1>7. n \in EventNumbers /\ n \in 1..Len(events)
  BY <1>1, <1>2, <1>5 DEF EventsFit
<1>7a. n > 0 /\ n \in Nat BY <1>6, <1>7
<1> HIDE DEF n
<1>8. \A i \in DOMAIN assignmentLog :
        /\ assignmentLog'[i] \in TrailRows
        /\ assignmentLog'[i].to = assignmentLog[i].to
        /\ assignmentLog'[i].attended \in {assignmentLog[i].attended, n}
        /\ (i \in OpenRows(e) /\ \A j \in OpenRows(e) : j <= i) => assignmentLog'[i].attended = n
  <2> TAKE i \in DOMAIN assignmentLog
  <2>1. assignmentLog[i] \in TrailRows BY <1>6
  <2>2. CASE i \in OpenRows(e) /\ \A j \in OpenRows(e) : j <= i
    <3>1. assignmentLog'[i] = [assignmentLog[i] EXCEPT !.attended = n]
      BY <1>2, <2>2 DEF n
    <3> QED BY <1>7, <2>1, <3>1 DEF TrailRows
  <2>3. CASE ~(i \in OpenRows(e) /\ \A j \in OpenRows(e) : j <= i)
    <3>1. assignmentLog'[i] = assignmentLog[i] BY <1>2, <2>3
    <3> QED BY <2>1, <2>3, <3>1
  <2> QED BY <2>2, <2>3
<1>9. /\ assignmentLog' \in Seq(TrailRows) /\ Len(assignmentLog') = Len(assignmentLog)
      /\ DOMAIN assignmentLog' = DOMAIN assignmentLog
      /\ (assignmentLog' # <<>>) => (assignmentLog # <<>>)
  <2>1. assignmentLog' \in [1..Len(assignmentLog) -> TrailRows] BY <1>2, <1>6, <1>8
  <2>2. /\ assignmentLog' \in Seq(TrailRows) /\ Len(assignmentLog') = Len(assignmentLog)
    BY <1>6, <2>1, SeqDef, LenProperties
  <2>3. DOMAIN assignmentLog' = DOMAIN assignmentLog BY <1>2
  <2>4. (assignmentLog' # <<>>) => (assignmentLog # <<>>)
    BY <1>5, <2>2, EmptySeq
  <2> QED BY <2>2, <2>3, <2>4
<1>10. /\ visitor' \in [Visitors -> [at : VisitorPlaces, number : EventNumbers]]
       /\ visitor'[e].at = "idle"
       /\ \A d \in Visitors \ {e} : visitor'[d] = visitor[d]
  <2>1. 0 \in EventNumbers BY DEF EventNumbers, TrailAssumption
  <2>2. NoVisit \in [at : VisitorPlaces, number : EventNumbers]
    BY <2>1 DEF NoVisit, VisitorPlaces
  <2>3. visitor' \in [Visitors -> [at : VisitorPlaces, number : EventNumbers]]
    BY <1>2, <1>5, <2>2
  <2>4. visitor'[e] = NoVisit BY <1>2, <1>5
  <2>5. \A d \in Visitors \ {e} : visitor'[d] = visitor[d] BY <1>2, <1>5
  <2> QED BY <2>3, <2>4, <2>5 DEF NoVisit
<1>11. TrailTypeOK'
  BY <1>1, <1>2, <1>9, <1>10
  DEF TrailTypeOK, stepDb, trailHistory, TrailRows, Charged, VisitorPlaces
<1>12. ClerksKeep'
  <2>1. \A r \in Clerks : RequestFits(r)'
    BY <1>1, <1>3 DEF ClerksKeep, RequestFits, Assigning, Changes
  <2>2. NobodyYet' BY <1>1, <1>3 DEF ClerksKeep, NobodyYet
  <2>3. \A u : Logged(u) => Logged(u)' BY <1>8, <1>9 DEF Logged
  <2>4. AssigneesComing' BY <1>1, <1>3, <2>3 DEF ClerksKeep, AssigneesComing
  <2>5. LastIsCharged => LastIsCharged'
    <3> SUFFICES ASSUME LastIsCharged, assignmentLog' # <<>>
                 PROVE assignmentLog'[Len(assignmentLog')].to = assignee'
      BY DEF LastIsCharged
    <3>1. assignmentLog # <<>> BY <1>9
    <3>2. assignmentLog[Len(assignmentLog)].to = assignee BY <3>1 DEF LastIsCharged
    <3>3. Len(assignmentLog) # 0 BY <1>5, <3>1, EmptySeq
    <3>4. Len(assignmentLog) \in DOMAIN assignmentLog BY <1>6, <3>3
    <3> QED BY <1>3, <1>8, <1>9, <3>2, <3>4
  <2>6. \A r \in Clerks : (Assigning(r)' <=> Assigning(r)) /\ (AloneFits(r) => AloneFits(r)')
    BY <1>3, <2>5 DEF Assigning, AloneFits
  <2>7. PhonesFollow' BY <1>1, <1>3, <2>5, <2>6 DEF ClerksKeep, PhonesFollow
  <2>8. StepIsLogged' BY <1>1, <1>3 DEF ClerksKeep, StepIsLogged
  <2> QED BY <2>1, <2>2, <2>4, <2>7, <2>8 DEF ClerksKeep
<1>13. EventsFit'
  <2>1. \A d \in Visitors : visitor'[d].at # "idle" => visitor'[d].number \in 1..Len(events')
    BY <1>1, <1>3, <1>10 DEF EventsFit
  <2> QED BY <1>1, <1>3, <1>9, <2>1 DEF EventsFit
<1>14. UpdateComing'
  <2>1. \A d \in Visitors : visitor[d].at = "bump" => visitor'[d] = visitor[d]
    BY <1>2, <1>10
  <2> QED BY <1>1, <1>2, <1>3, <2>1 DEF UpdateComing
<1>15. AttendedComing'
  <2> SUFFICES ASSUME trailCrashes' = 0, NEW k \in DOMAIN events'
               PROVE \/ \E d \in Visitors : visitor'[d].at # "idle" /\ visitor'[d].number = k
                     \/ \A i \in HisRows(k)' : (\A j \in HisRows(k)' : j <= i)
                                                  => assignmentLog'[i].attended > 0
    BY DEF AttendedComing
  <2>1. events[k].after \in Nat /\ events[k].after <= Len(assignmentLog)
    <3>1. events[k] \in TrailEvents BY <1>3, <1>5, <1>6, ElementOfSeq
    <3> QED BY <1>1, <1>3, <3>1 DEF EventsFit, TrailEvents
  <2>2. \A i \in 1..events[k].after : i \in DOMAIN assignmentLog BY <1>6, <2>1
  <2>3. HisRows(k)' = HisRows(k) BY <1>3, <1>8, <2>2 DEF HisRows
  <2>4. \A i \in HisRows(k) : i \in DOMAIN assignmentLog BY <2>2 DEF HisRows
  <2>5. \A i \in DOMAIN assignmentLog :
          assignmentLog[i].attended > 0 => assignmentLog'[i].attended > 0
    BY <1>7a, <1>8
  <2>6. \/ \E d \in Visitors : visitor[d].at # "idle" /\ visitor[d].number = k
        \/ \A i \in HisRows(k) : (\A j \in HisRows(k) : j <= i)
                                    => assignmentLog[i].attended > 0
    BY <1>1, <1>3 DEF AttendedComing
  <2>7. ASSUME NEW d \in Visitors, d # e, visitor[d].at # "idle", visitor[d].number = k
        PROVE visitor'[d].at # "idle" /\ visitor'[d].number = k
    BY <1>10, <2>7
  <2>8. CASE n = k
    <3> SUFFICES ASSUME NEW i \in HisRows(k), \A j \in HisRows(k) : j <= i
                 PROVE assignmentLog'[i].attended > 0
      BY <2>3
    <3>1. i \in DOMAIN assignmentLog BY <2>4
    <3>2. assignmentLog[i] \in TrailRows BY <1>6, <3>1
    <3>3. OpenRows(e) = {j \in HisRows(k) : assignmentLog[j].attended = 0}
      BY <2>8 DEF OpenRows, HisRows, n
    <3>4. CASE assignmentLog[i].attended = 0
      <4>1. i \in OpenRows(e) /\ \A j \in OpenRows(e) : j <= i BY <3>3, <3>4
      <4> QED BY <1>7a, <1>8, <3>1, <4>1
    <3>5. CASE assignmentLog[i].attended # 0
      <4>1. assignmentLog[i].attended \in EventNumbers BY <3>2 DEF TrailRows
      <4>2. assignmentLog[i].attended > 0 BY <3>5, <4>1 DEF EventNumbers
      <4> QED BY <2>5, <3>1, <4>2
    <3> QED BY <3>4, <3>5
  <2>9. CASE n # k
    <3>1. CASE \E d \in Visitors : visitor[d].at # "idle" /\ visitor[d].number = k
      <4>1. PICK d \in Visitors : visitor[d].at # "idle" /\ visitor[d].number = k BY <3>1
      <4>2. d # e BY <2>9, <4>1 DEF n
      <4> QED BY <2>7, <4>1, <4>2
    <3>2. CASE \A i \in HisRows(k) : (\A j \in HisRows(k) : j <= i)
                                        => assignmentLog[i].attended > 0
      BY <2>3, <2>4, <2>5, <3>2
    <3> QED BY <2>6, <3>1, <3>2
  <2> QED BY <2>8, <2>9
<1> QED BY <1>11, <1>12, <1>13, <1>14, <1>15, TrailInvNext DEF EventsKeep

LEMMA RecomputeKeeps ==
  ASSUME TrailInv, TrailAssumption, Recompute
  PROVE TrailInv'
<1>1. TrailTypeOK /\ ClerksKeep /\ EventsFit /\ UpdateComing /\ AttendedComing
  BY TrailInvIs DEF EventsKeep
<1>2. /\ recomputing' = [at |-> "set", max |-> Len(events)]
      /\ UNCHANGED <<events, lastUpdate, visitor, outdated, trailDb, stepDb, clerk,
                     trailHistory>>
  BY DEF Recompute
<1>3. ClerksKeep' BY <1>1, <1>2, ClerksUntouched
<1>4. /\ assignmentLog' = assignmentLog /\ trailCrashes' = trailCrashes
  BY <1>2 DEF trailDb, trailHistory
<1>5. events \in Seq(TrailEvents) BY <1>1, TrailTypes DEF TrailEvents
<1>6. Len(events) \in EventNumbers
  BY <1>1, <1>5, LenProperties DEF EventsFit, EventNumbers, TrailAssumption
<1>7. /\ recomputing' \in [at : {"idle", "set"}, max : EventNumbers]
      /\ recomputing'.max = Len(events)
  BY <1>2, <1>6
<1>8. TrailTypeOK'
  BY <1>1, <1>2, <1>7 DEF TrailTypeOK, trailDb, stepDb, trailHistory
<1>9. EventsFit' BY <1>1, <1>2, <1>4 DEF EventsFit
<1>10. UpdateComing' BY <1>1, <1>2, <1>4, <1>7 DEF UpdateComing
<1>11. \A k : HisRows(k)' = HisRows(k) BY <1>2, <1>4 DEF HisRows
<1>12. AttendedComing' BY <1>1, <1>2, <1>4, <1>11 DEF AttendedComing
<1> QED BY <1>3, <1>8, <1>9, <1>10, <1>12, TrailInvNext DEF EventsKeep

LEMMA SetLastUpdateKeeps ==
  ASSUME TrailInv, TrailAssumption, SetLastUpdate
  PROVE TrailInv'
<1>1. TrailTypeOK /\ ClerksKeep /\ EventsFit /\ UpdateComing /\ AttendedComing
  BY TrailInvIs DEF EventsKeep
<1>2. /\ recomputing.at = "set" /\ lastUpdate' = recomputing.max /\ recomputing' = NoRepair
      /\ UNCHANGED <<events, visitor, outdated, trailDb, stepDb, clerk, trailHistory>>
  BY DEF SetLastUpdate
<1>3. ClerksKeep' BY <1>1, <1>2, ClerksUntouched
<1>4. /\ assignmentLog' = assignmentLog /\ trailCrashes' = trailCrashes
  BY <1>2 DEF trailDb, trailHistory
<1>5. events \in Seq(TrailEvents) /\ recomputing \in [at : {"idle", "set"}, max : EventNumbers]
  BY <1>1, TrailTypes DEF TrailEvents
<1>6. Len(events) \in Nat BY <1>5, LenProperties
<1>7. recomputing' \in [at : {"idle", "set"}, max : EventNumbers] /\ recomputing'.at = "idle"
  BY <1>2 DEF NoRepair, EventNumbers, TrailAssumption
<1>8. lastUpdate' \in EventNumbers BY <1>2, <1>5
<1>9. TrailTypeOK'
  BY <1>1, <1>2, <1>7, <1>8 DEF TrailTypeOK, trailDb, stepDb, trailHistory
<1>10. EventsFit' BY <1>1, <1>2, <1>4 DEF EventsFit
<1>11. UpdateComing'
  <2> SUFFICES ASSUME ~outdated', trailCrashes' = 0
               PROVE lastUpdate' = Len(events') /\ lastUpdate' <= Len(events')
    BY <1>7 DEF UpdateComing
  <2>1. recomputing.max = Len(events) BY <1>1, <1>2, <1>4 DEF UpdateComing
  <2>2. lastUpdate' = Len(events') BY <1>2, <2>1
  <2>3. Len(events') \in Nat BY <1>2, <1>6
  <2> QED BY <2>2, <2>3
<1>12. \A k : HisRows(k)' = HisRows(k) BY <1>2, <1>4 DEF HisRows
<1>13. AttendedComing' BY <1>1, <1>2, <1>4, <1>12 DEF AttendedComing
<1> QED BY <1>3, <1>9, <1>10, <1>11, <1>13, TrailInvNext DEF EventsKeep

LEMMA TrailCrashKeeps ==
  ASSUME TrailInv, TrailAssumption, TrailCrash
  PROVE TrailInv'
<1>1. TrailTypeOK /\ ClerksKeep /\ EventsFit /\ UpdateComing /\ AttendedComing
  BY TrailInvIs DEF EventsKeep
<1>2. /\ trailCrashes' = trailCrashes + 1
      /\ clerk' = [r \in Clerks |-> NoRequest]
      /\ visitor' = [e \in Visitors |-> NoVisit]
      /\ recomputing' = NoRepair
      /\ UNCHANGED <<trailDb, stepDb, events, lastUpdate, outdated,
                     clerkRequests, ever, crossed, unlogged>>
  BY DEF TrailCrash
<1>3. trailCrashes \in Nat BY <1>1, TrailTypes
<1>4. trailCrashes' # 0 /\ trailCrashes' \in Nat BY <1>2, <1>3
<1>5. recomputing' \in [at : {"idle", "set"}, max : EventNumbers]
  BY <1>2 DEF NoRepair, EventNumbers, TrailAssumption
<1>6. visitor' \in [Visitors -> [at : VisitorPlaces, number : EventNumbers]]
      /\ \A e \in Visitors : visitor'[e].at = "idle"
  BY <1>2 DEF NoVisit, EventNumbers, TrailAssumption, VisitorPlaces
<1>7. clerk' \in [Clerks -> ClerkRequests]
      /\ \A r \in Clerks : clerk'[r].at = "idle" /\ clerk'[r].way = "none"
  BY <1>2, NoRequestIs
<1>8. /\ recorded' = recorded /\ assignee' = assignee /\ assignmentLog' = assignmentLog
      /\ step' = step /\ stepRows' = stepRows
  BY <1>2 DEF trailDb, stepDb
<1>9. TrailTypeOK'
  BY <1>1, <1>2, <1>4, <1>5, <1>6, <1>7
  DEF TrailTypeOK, trailDb, stepDb, ClerkRequests, ClerkPlaces, ClerkWays, Written,
      VisitorPlaces
<1>10. \A r \in Clerks : RequestFits(r)' BY <1>7 DEF RequestFits
<1>11. NobodyYet' BY <1>1, <1>2, <1>7, <1>8 DEF ClerksKeep, NobodyYet
<1>12. AssigneesComing' BY <1>1, <1>2, <1>4, <1>8 DEF ClerksKeep, AssigneesComing
<1>13. PhonesFollow' BY <1>4 DEF PhonesFollow
<1>14. StepIsLogged' BY <1>1, <1>8 DEF ClerksKeep, StepIsLogged
<1>15. EventsFit' BY <1>1, <1>2, <1>6, <1>8 DEF EventsFit
<1>16. UpdateComing' /\ AttendedComing' BY <1>4 DEF UpdateComing, AttendedComing
<1> QED BY <1>9, <1>10, <1>11, <1>12, <1>13, <1>14, <1>15, <1>16, TrailInvNext
        DEF ClerksKeep, EventsKeep

-----------------------------------------------------------------------------
(* The invariant                                                              *)

LEMMA TrailStep ==
  ASSUME TrailInv, TrailAssumption, [TrailNext]_trailVars
  PROVE TrailInv'
<1>0. TrailTypeOK /\ ClerksKeep /\ EventsKeep BY TrailInvIs
<1>1. ASSUME NEW r \in Clerks, TrailTypeOK', ClerksKeep',
             UNCHANGED <<eventDb, trailCrashes, assignmentLog>>
      PROVE TrailInv'
  BY <1>0, <1>1, EventsUntouched, TrailInvNext DEF EventsKeep
<1>2. ASSUME NEW r \in Clerks, NEW u \in Users \cup {Nobody}, CreateCustomer(r, u)
      PROVE TrailInv'
  BY <1>1, <1>2, CreateCustomerKeeps DEF CreateCustomer
<1>3. ASSUME NEW r \in Clerks, NEW u \in Users \cup {Nobody}, PickAssignee(r, u)
      PROVE TrailInv'
  BY <1>1, <1>3, PickAssigneeKeeps DEF PickAssignee, trailDb, trailHistory
<1>4. ASSUME NEW r \in Clerks, NEW u \in Users \cup {Nobody},
             NEW way \in AssignWays \ {"own"}, ReadAssignee(r, way, u)
      PROVE TrailInv'
  BY <1>1, <1>4, ReadAssigneeKeeps DEF ReadAssignee, trailDb
<1>5. ASSUME NEW r \in Clerks, SaveAssignee(r) PROVE TrailInv'
  BY <1>1, <1>5, SaveAssigneeKeeps DEF SaveAssignee
<1>6. ASSUME NEW r \in Clerks, LogAssignment(r) PROVE TrailInv'
  BY <1>6, LogAssignmentKeeps, TrailInvNext
<1>7. ASSUME NEW r \in Clerks, PushAssignment(r) PROVE TrailInv'
  BY <1>1, <1>7, PushAssignmentKeeps DEF PushAssignment, trailHistory
<1>8. ASSUME NEW r \in Clerks, EndRequest(r) PROVE TrailInv'
  BY <1>1, <1>8, EndRequestKeeps DEF EndRequest, trailDb, trailHistory
<1>9. ASSUME NEW r \in Clerks, NEW s \in Steps, ReadStep(r, s) PROVE TrailInv'
  BY <1>1, <1>9, ReadStepKeeps DEF ReadStep, trailDb
<1>10. ASSUME NEW r \in Clerks, WriteStep(r) PROVE TrailInv'
  BY <1>1, <1>10, WriteStepKeeps DEF WriteStep, trailDb, trailHistory
<1>11. ASSUME NEW e \in Visitors, NEW u \in Users, RecordEvent(e, u) PROVE TrailInv'
  BY <1>11, RecordEventKeeps
<1>12. ASSUME NEW e \in Visitors, BumpLastUpdate(e) PROVE TrailInv'
  BY <1>12, BumpLastUpdateKeeps
<1>13. ASSUME NEW e \in Visitors, MarkAttended(e) PROVE TrailInv'
  BY <1>13, MarkAttendedKeeps
<1>14. CASE Recompute BY <1>14, RecomputeKeeps
<1>15. CASE SetLastUpdate BY <1>15, SetLastUpdateKeeps
<1>16. CASE TrailCrash BY <1>16, TrailCrashKeeps
<1>17. CASE UNCHANGED trailVars
  <2>1. ClerksKeep' BY <1>0, <1>17, ClerksUntouched DEF trailVars
  <2>2. EventsKeep'
    BY <1>0, <1>17, EventsUntouched DEF trailVars, trailDb, trailHistory, EventsKeep
  <2>3. TrailTypeOK'
    BY <1>0, <1>17 DEF trailVars, trailDb, stepDb, eventDb, trailHistory, TrailTypeOK
  <2> QED BY <2>1, <2>2, <2>3, TrailInvNext
<1> QED
  BY <1>2, <1>3, <1>4, <1>5, <1>6, <1>7, <1>8, <1>9, <1>10, <1>11, <1>12, <1>13, <1>14,
     <1>15, <1>16, <1>17 DEF TrailNext

LEMMA TrailStarts ==
  ASSUME TrailAssumption, TrailInit
  PROVE TrailInv
<1>1. /\ hooked \in BOOLEAN
      /\ recorded = FALSE /\ assignee = Nobody /\ assignmentLog = <<>> /\ believes = {}
      /\ step = Nobody /\ stepRows = {}
      /\ events = <<>> /\ lastUpdate = 0
      /\ clerk = [r \in Clerks |-> NoRequest]
      /\ visitor = [e \in Visitors |-> NoVisit]
      /\ recomputing = NoRepair
      /\ clerkRequests = 0 /\ ever = {Nobody} /\ crossed = FALSE /\ unlogged = FALSE
      /\ outdated = FALSE /\ trailCrashes = 0
  BY DEF TrailInit
<1>2. /\ assignmentLog \in Seq(TrailRows) /\ Len(assignmentLog) = 0
      /\ events \in Seq(TrailEvents) /\ Len(events) = 0
      /\ DOMAIN events = {}
  <2>1. /\ assignmentLog \in Seq(TrailRows) /\ Len(assignmentLog) = 0
        /\ events \in Seq(TrailEvents) /\ Len(events) = 0
    BY <1>1, EmptySeq
  <2>2. DOMAIN events = 1..0 BY <2>1, LenProperties
  <2> QED BY <2>1, <2>2
<1>3. recomputing \in [at : {"idle", "set"}, max : EventNumbers] /\ recomputing.at = "idle"
  BY <1>1 DEF NoRepair, EventNumbers, TrailAssumption
<1>4. visitor \in [Visitors -> [at : VisitorPlaces, number : EventNumbers]]
      /\ \A e \in Visitors : visitor[e].at = "idle"
  BY <1>1 DEF NoVisit, EventNumbers, TrailAssumption, VisitorPlaces
<1>5. clerk \in [Clerks -> ClerkRequests]
      /\ \A r \in Clerks : clerk[r].at = "idle" /\ clerk[r].way = "none"
  BY <1>1, NoRequestIs
<1>6. 0 \in Nat /\ 0 \in EventNumbers BY DEF EventNumbers, TrailAssumption
<1>7. TrailTypeOK
  BY <1>1, <1>2, <1>3, <1>4, <1>5, <1>6
  DEF TrailTypeOK, ClerkRequests, ClerkPlaces, ClerkWays, Written, VisitorPlaces, TrailRows,
      Charged, TrailEvents
<1>8. \A r \in Clerks : RequestFits(r) /\ ~Assigning(r)
  BY <1>5 DEF RequestFits, Assigning, AssignWays, LoggedWays
<1>9. NobodyYet BY <1>1, <1>5 DEF NobodyYet
<1>10. AssigneesComing BY <1>1 DEF AssigneesComing
<1>11. PhonesFollow BY <1>1, <1>8 DEF PhonesFollow, LastIsCharged
<1>12. StepIsLogged BY <1>1 DEF StepIsLogged
<1>13. EventsFit BY <1>2, <1>4 DEF EventsFit, TrailAssumption
<1>14. UpdateComing BY <1>1, <1>2, <1>3 DEF UpdateComing
<1>15. AttendedComing BY <1>2 DEF AttendedComing
<1> QED BY <1>7, <1>8, <1>9, <1>10, <1>11, <1>12, <1>13, <1>14, <1>15 DEF TrailInv

\* When nothing is under way, what is coming has come.
LEMMA TrailShows ==
  ASSUME TrailInv
  PROVE TrailCorrect
<1>1. TrailTypeOK /\ ClerksKeep /\ EventsFit /\ UpdateComing /\ AttendedComing
  BY TrailInvIs DEF EventsKeep
<1>2. \A r \in Clerks : clerk[r].at = "log" => Assigning(r)
  BY <1>1 DEF ClerksKeep, RequestFits
<1>3. EveryAssigneeIsLogged
  <2> SUFFICES ASSUME TrailQuiet, ~unlogged, trailCrashes = 0, NEW u \in ever \ {Nobody}
               PROVE Logged(u)
    BY DEF EveryAssigneeIsLogged, Logged
  <2>1. Logged(u) \/ \E r \in Clerks : clerk[r].at = "log" /\ clerk[r].to = u
    BY <1>1 DEF ClerksKeep, AssigneesComing
  <2> QED BY <1>2, <2>1 DEF TrailQuiet
<1>4. PhonesAgree
  BY <1>1 DEF ClerksKeep, PhonesFollow, PhonesAgree, TrailQuiet, LastIsCharged
<1>5. LastUpdateKeepsUp
  <2> SUFFICES ASSUME TrailQuiet, ~outdated, trailCrashes = 0
               PROVE lastUpdate = Len(events)
    BY DEF LastUpdateKeepsUp
  <2>1. lastUpdate = Len(events)
          \/ \E e \in Visitors : visitor[e].at = "bump" /\ visitor[e].number = Len(events)
    BY <1>1 DEF UpdateComing
  <2> QED BY <2>1 DEF TrailQuiet
<1>6. ActedIsAttended
  <2> SUFFICES ASSUME TrailQuiet, trailCrashes = 0, NEW k \in DOMAIN events
               PROVE \A i \in HisRows(k) :
                       (\A j \in HisRows(k) : j <= i) => assignmentLog[i].attended > 0
    BY DEF ActedIsAttended, HisRows
  <2>1. ~ \E e \in Visitors : visitor[e].at # "idle" /\ visitor[e].number = k
    BY DEF TrailQuiet
  <2> QED BY <1>1, <2>1 DEF AttendedComing
<1> QED BY <1>1, <1>3, <1>4, <1>5, <1>6 DEF TrailCorrect, ClerksKeep

\* What is written down of a customer agrees with the customer: his assignees with the
\* log and the phones, his step and the time of his last event with their rows, and who
\* acted on his assignment has attended it (customer.service.ts and its audit).
THEOREM TrailIsCorrect == TrailSpec => []TrailCorrect
<1>1. TrailInit => TrailInv BY TrailStarts, TrailAssumption
<1>2. TrailInv /\ [TrailNext]_trailVars => TrailInv' BY TrailStep, TrailAssumption
<1>3. TrailInv => TrailCorrect BY TrailShows
<1> QED BY <1>1, <1>2, <1>3, PTL DEF TrailSpec

-----------------------------------------------------------------------------
(* The load of the ventors stays even.  A request may go by stale counts,    *)
(* and several may pick the same ventor: what bounds them is how many can    *)
(* still do so.  For every level c that a ventor w has reached, the load of  *)
(* another v and the requests that would still pick v at level c are         *)
(* together at most c plus the number of requests.                           *)

\* Requests that have counted v and found at most c: they may still pick v.
MayPick(v, c) == {p \in picking : v \notin uncounted[p] /\ counted[p][v] <= c}

\* A count is never above the load: it may be stale, and loads only grow.
CountsAreStale ==
  \A p \in picking, v \in Office : v \notin uncounted[p] => counted[p][v] <= load[v]

Bounded(v, w, c) ==
  c >= load[w] => load[v] + Cardinality(MayPick(v, c)) <= c + Cardinality(Pickers)

BalanceInv ==
  /\ BalanceTypeOK
  /\ CountsAreStale
  /\ \A v, w \in Office : \A c \in Nat : Bounded(v, w, c)

\* The requests that may pick a ventor are a part of all requests.
LEMMA MayPickSize ==
  ASSUME BalanceTypeOK, NEW v \in Office, NEW c \in Nat
  PROVE  /\ IsFiniteSet(MayPick(v, c))
         /\ Cardinality(MayPick(v, c)) \in Nat
         /\ Cardinality(MayPick(v, c)) <= Cardinality(Pickers)
         /\ Cardinality(Pickers) \in Nat
<1>1. MayPick(v, c) \subseteq Pickers
  BY DEF MayPick, BalanceTypeOK
<1> QED
  BY <1>1, BalanceAssumption, FS_Subset, FS_CardinalityType

\* Fewer requests may pick a ventor when none has become one of them.
LEMMA FewerMayPick ==
  ASSUME BalanceTypeOK, NEW v \in Office, NEW c \in Nat, NEW S, S \subseteq MayPick(v, c)
  PROVE  /\ Cardinality(S) \in Nat /\ Cardinality(S) <= Cardinality(MayPick(v, c))
BY MayPickSize, FS_Subset, FS_CardinalityType

LEMMA InitBalanced == BalanceInit => BalanceInv
<1> SUFFICES ASSUME BalanceInit PROVE BalanceInv
  OBVIOUS
<1>1. BalanceTypeOK
  BY DEF BalanceInit, BalanceTypeOK
<1>2. CountsAreStale
  BY DEF BalanceInit, CountsAreStale
<1>3. ASSUME NEW v \in Office, NEW w \in Office, NEW c \in Nat PROVE Bounded(v, w, c)
  <2>1. Cardinality(MayPick(v, c)) <= Cardinality(Pickers)
        /\ Cardinality(MayPick(v, c)) \in Nat /\ Cardinality(Pickers) \in Nat
    BY <1>1, MayPickSize
  <2> QED
    BY <2>1 DEF Bounded, BalanceInit
<1> QED
  BY <1>1, <1>2, <1>3 DEF BalanceInv

\* A request that starts has counted nobody, and so may pick nobody yet.
LEMMA StartBalanced ==
  ASSUME BalanceInv, NEW q \in Pickers, StartPick(q) PROVE BalanceInv'
<1> USE DEF BalanceInv, StartPick
<1>1. BalanceTypeOK'
  BY DEF BalanceTypeOK
<1>2. CountsAreStale'
  BY DEF CountsAreStale, BalanceTypeOK
<1>3. ASSUME NEW v \in Office, NEW w \in Office, NEW c \in Nat PROVE Bounded(v, w, c)'
  <2>1. MayPick(v, c)' \subseteq MayPick(v, c)
    BY DEF MayPick, BalanceTypeOK
  <2>2. Cardinality(MayPick(v, c)') \in Nat /\ Cardinality(MayPick(v, c)') <= Cardinality(MayPick(v, c))
        /\ Cardinality(MayPick(v, c)) \in Nat /\ Cardinality(Pickers) \in Nat
    BY <2>1, FewerMayPick, MayPickSize
  <2>3. Bounded(v, w, c)
    OBVIOUS
  <2>4. Cardinality(MayPick(v, c))' = Cardinality(MayPick(v, c)')
    OBVIOUS
  <2>5. load[v] \in Nat /\ load[w] \in Nat
    BY DEF BalanceTypeOK
  <2> QED
    BY <2>2, <2>3, <2>4, <2>5 DEF Bounded
<1> QED
  BY <1>1, <1>2, <1>3

\* Who counts v finds its load: below that level he is not one more to pick v, and
\* from it on there is room for every request.
LEMMA CountBalanced ==
  ASSUME BalanceInv, NEW q \in Pickers, NEW u \in Office, Count(q, u) PROVE BalanceInv'
<1> USE DEF BalanceInv, Count
<1>1. BalanceTypeOK'
  BY DEF BalanceTypeOK
<1>2. CountsAreStale'
  BY DEF CountsAreStale, BalanceTypeOK
<1>3. ASSUME NEW v \in Office, NEW w \in Office, NEW c \in Nat PROVE Bounded(v, w, c)'
  <2> DEFINE after == MayPick(v, c)'
  <2>1. Cardinality(after) \in Nat /\ Cardinality(after) <= Cardinality(Pickers)
        /\ Cardinality(Pickers) \in Nat
    <3>1. after \subseteq Pickers
      BY DEF MayPick, BalanceTypeOK
    <3> QED
      BY <3>1, BalanceAssumption, FS_Subset, FS_CardinalityType
  <2>2. load[v] \in Nat /\ load[w] \in Nat /\ load' = load
    BY DEF BalanceTypeOK
  <2>3. CASE c >= load[v]
    BY <2>1, <2>2, <2>3 DEF Bounded
  <2>4. CASE c < load[v]
    <3>1. after \subseteq MayPick(v, c)
      BY <2>2, <2>4 DEF MayPick, BalanceTypeOK
    <3>2. Cardinality(after) <= Cardinality(MayPick(v, c)) /\ Cardinality(MayPick(v, c)) \in Nat
      BY <3>1, FewerMayPick, MayPickSize
    <3>3. Bounded(v, w, c)
      OBVIOUS
    <3> QED
      BY <2>1, <2>2, <3>2, <3>3 DEF Bounded
  <2> QED
    BY <2>2, <2>3, <2>4
<1> QED
  BY <1>1, <1>2, <1>3

\* Who picks u had counted it, and found no more than anybody's load: it was one of
\* those that might, and is none of them any more.
LEMMA AssignBalanced ==
  ASSUME BalanceInv, NEW q \in Pickers, NEW u \in Office, AssignTo(q, u) PROVE BalanceInv'
<1> USE DEF BalanceInv, AssignTo
<1>1. BalanceTypeOK'
  BY DEF BalanceTypeOK
<1>2. CountsAreStale'
  BY DEF CountsAreStale, BalanceTypeOK
<1>3. ASSUME NEW v \in Office, NEW w \in Office, NEW c \in Nat PROVE Bounded(v, w, c)'
  <2> DEFINE before == MayPick(v, c)
             after == MayPick(v, c)'
  <2>1. after \subseteq before \ {q}
    BY DEF MayPick, BalanceTypeOK
  <2>2. /\ IsFiniteSet(before) /\ Cardinality(before) \in Nat
        /\ Cardinality(before) <= Cardinality(Pickers) /\ Cardinality(Pickers) \in Nat
    BY MayPickSize
  <2>3. Cardinality(after) \in Nat /\ Cardinality(after) <= Cardinality(before)
    BY <2>1, FewerMayPick
  <2>4. load[v] \in Nat /\ load[w] \in Nat /\ load'[v] \in Nat /\ load'[w] \in Nat
        /\ load[w] <= load'[w]
    BY DEF BalanceTypeOK
  <2>5. CASE v # u
    <3>1. load'[v] = load[v]
      BY <2>5 DEF BalanceTypeOK
    <3>2. Bounded(v, w, c)
      OBVIOUS
    <3> QED
      BY <2>2, <2>3, <2>4, <3>1, <3>2 DEF Bounded
  <2>6. CASE v = u /\ w = u
    <3>1. c >= load'[w] => load'[v] + Cardinality(after) <= c + Cardinality(Pickers)
      BY <2>2, <2>3, <2>4, <2>6
    <3> QED
      BY <3>1 DEF Bounded
  <2>7. CASE v = u /\ w # u /\ c >= load'[w]
    <3>1. load'[w] = load[w] /\ load'[v] = load[v] + 1
      BY <2>7 DEF BalanceTypeOK
    <3>2. counted[q][v] <= counted[q][w] /\ counted[q][w] <= load[w]
          /\ counted[q][v] \in Nat /\ counted[q][w] \in Nat
      BY <2>7 DEF Fewest, CountsAreStale, BalanceTypeOK
    <3>3. q \in before
      BY <2>4, <2>7, <3>1, <3>2 DEF MayPick
    <3>4. Cardinality(before \ {q}) = Cardinality(before) - 1 /\ IsFiniteSet(before \ {q})
      BY <2>2, <3>3, FS_RemoveElement
    <3>5. Cardinality(after) <= Cardinality(before \ {q})
      BY <2>1, <3>4, FS_Subset
    <3>6. Bounded(v, w, c)
      OBVIOUS
    <3> QED
      BY <2>2, <2>3, <2>4, <2>7, <3>1, <3>4, <3>5, <3>6 DEF Bounded
  <2>8. CASE v = u /\ w # u /\ ~(c >= load'[w])
    BY <2>8 DEF Bounded
  <2> QED
    BY <2>5, <2>6, <2>7, <2>8
<1> QED
  BY <1>1, <1>2, <1>3

LEMMA NextBalanced == BalanceInv /\ [BalanceNext]_balanceVars => BalanceInv'
<1> SUFFICES ASSUME BalanceInv, [BalanceNext]_balanceVars PROVE BalanceInv'
  OBVIOUS
<1>1. CASE BalanceNext
  BY <1>1, StartBalanced, CountBalanced, AssignBalanced DEF BalanceNext
<1>2. CASE UNCHANGED balanceVars
  BY <1>2 DEF balanceVars, BalanceInv, BalanceTypeOK, CountsAreStale, Bounded, MayPick
<1> QED
  BY <1>1, <1>2

\* The level of w itself leaves v no more than the requests above it.
LEMMA BalancedIsEven == BalanceInv => EvenLoad
<1> SUFFICES ASSUME BalanceInv, NEW v \in Office, NEW w \in Office
             PROVE  load[v] <= load[w] + Cardinality(Pickers)
  BY DEF EvenLoad
<1>1. load[v] \in Nat /\ load[w] \in Nat
  BY DEF BalanceInv, BalanceTypeOK
<1>2. Cardinality(MayPick(v, load[w])) \in Nat /\ Cardinality(Pickers) \in Nat
  BY <1>1, MayPickSize DEF BalanceInv
<1>3. Bounded(v, w, load[w])
  BY <1>1 DEF BalanceInv
<1> QED
  BY <1>1, <1>2, <1>3 DEF Bounded

\* Whatever requests overlap, and however old the counts they go by: no ventor gets
\* further ahead of another than there can be requests at once.
THEOREM EvenLoadCorrect == BalanceSpec => []EvenLoad
<1>1. BalanceInit => BalanceInv
  BY InitBalanced
<1>2. BalanceInv /\ [BalanceNext]_balanceVars => BalanceInv'
  BY NextBalanced
<1>3. BalanceInv => EvenLoad
  BY BalancedIsEven
<1> QED
  BY <1>1, <1>2, <1>3, PTL DEF BalanceSpec

-----------------------------------------------------------------------------
(* The messages of a chat                                                    *)

\* Whoever is at work has a message in hand, and stores it in a chat that is there.
UpsertsUnderWay ==
  /\ stored \subseteq came
  /\ \A h \in Upserters :
       /\ upsert[h].at = "idle" => upsert[h].message = 0
       /\ upsert[h].at # "idle" => upsert[h].message \in Timestamps
       /\ upsert[h].at = "message" => chatLast # 0

\* As long as messages come in their order, those under way are one, the last.
LastIsLast ==
  (~backwards /\ upsertFailures = 0) =>
    /\ \A g, h \in Upserters : (upsert[g].at # "idle" /\ upsert[h].at # "idle") =>
         upsert[g].message = upsert[h].message
    /\ \A h \in Upserters :
         /\ upsert[h].at # "idle" => \A k \in came : k <= upsert[h].message
         /\ upsert[h].at = "message" => chatLast = upsert[h].message
    /\ \A m \in stored : m <= chatLast

StoreInv == StoreTypeOK /\ HandledIsKept /\ UpsertsUnderWay /\ LastIsLast

LEMMA UpsertKinds ==
  ASSUME StoreTypeOK, NEW h \in Upserters
  PROVE  /\ upsert[h].message \in 0..MaxTimestamp
         /\ MaxTimestamp \in Nat /\ Timestamps \subseteq Nat /\ Timestamps \subseteq 0..MaxTimestamp
         /\ \A m \in Timestamps : m # 0 /\ m <= m
BY StoreAssumption DEF StoreTypeOK, Timestamps

\* What a handler has in hand after a step of another.
OthersKeep(h, r) == upsert' = [upsert EXCEPT ![h] = r]

LEMMA UpsertsAre ==
  ASSUME StoreTypeOK, NEW h \in Upserters, NEW r, OthersKeep(h, r)
  PROVE  upsert'[h] = r /\ \A g \in Upserters : g # h => upsert'[g] = upsert[g]
BY DEF OthersKeep, StoreTypeOK

LEMMA BeginKeeps ==
  ASSUME StoreInv, NEW h \in Upserters, NEW m \in Timestamps, NEW place \in {"chat", "unresolved"},
         BeginUpsert(h, m, place)
  PROVE  StoreInv'
<1> DEFINE r == [at |-> place, message |-> m]
<1>t. StoreTypeOK
  BY DEF StoreInv
<1>1. /\ upsert[h].at = "idle" /\ OthersKeep(h, r) /\ upserts' = upserts + 1
      /\ backwards' = (backwards \/ (\E k \in came : k > m)
                        \/ \E g \in Upserters : upsert[g].message \notin {0, m})
      /\ UNCHANGED <<known, chatLast, stored, unresolved, came, upsertFailures, dropped>>
  BY DEF BeginUpsert, storeDb, OthersKeep
<1>2. r.at = place /\ r.message = m
  OBVIOUS
<1>3. upsert'[h] = r /\ \A g \in Upserters : g # h => upsert'[g] = upsert[g]
  BY <1>t, <1>1, UpsertsAre
<1>4. StoreTypeOK'
  <2>1. upsert' \in [Upserters -> [at : {"idle", "unresolved", "chat", "message"},
                                   message : 0..MaxTimestamp]]
    BY <1>t, <1>1, UpsertKinds DEF OthersKeep, StoreTypeOK
  <2>2. upserts' \in Nat
    BY <1>t, <1>1 DEF StoreTypeOK
  <2>3. backwards' \in BOOLEAN
    BY <1>t, <1>1 DEF StoreTypeOK
  <2> QED
    BY <1>t, <1>1, <2>1, <2>2, <2>3 DEF StoreTypeOK
<1> HIDE DEF r
<1>5. HandledIsKept'
  BY <1>1 DEF StoreInv, HandledIsKept
<1>6. UpsertsUnderWay'
  BY <1>1, <1>2, <1>3 DEF StoreInv, UpsertsUnderWay
<1>7. LastIsLast'
  <2> SUFFICES ASSUME ~backwards', upsertFailures' = 0 PROVE LastIsLast'
    BY DEF LastIsLast
  <2>1. /\ ~backwards /\ upsertFailures = 0
        /\ \A k \in came : ~(k > m)
        /\ \A g \in Upserters : upsert[g].message \in {0, m}
    BY <1>1
  <2>2. \A k \in came : k <= m
    BY <1>t, <2>1, UpsertKinds DEF StoreTypeOK
  <2>3. \A g \in Upserters : upsert'[g].at # "idle" => upsert'[g].message = m
    <3>1. ASSUME NEW g \in Upserters, upsert[g].at # "idle" PROVE upsert[g].message = m
      <4>1. upsert[g].message \in Timestamps
        BY <3>1 DEF StoreInv, UpsertsUnderWay
      <4> QED
        BY <1>t, <2>1, <4>1, UpsertKinds
    <3> QED
      BY <1>2, <1>3, <3>1
  <2>4. \A g \in Upserters : upsert'[g].at = "message" => chatLast = m
    <3>1. ASSUME NEW g \in Upserters, upsert'[g].at = "message" PROVE chatLast = m
      <4>1. g # h
        BY <1>2, <1>3, <3>1
      <4>2. upsert[g].at = "message" /\ upsert'[g] = upsert[g]
        BY <1>3, <3>1, <4>1
      <4>3. chatLast = upsert[g].message
        BY <2>1, <4>2 DEF StoreInv, LastIsLast
      <4> QED
        BY <2>3, <3>1, <4>2, <4>3
    <3> QED
      BY <3>1
  <2>5. \A k \in stored : k <= chatLast
    BY <2>1 DEF StoreInv, LastIsLast
  <2> QED
    BY <1>1, <2>2, <2>3, <2>4, <2>5 DEF LastIsLast
<1> QED
  BY <1>4, <1>5, <1>6, <1>7 DEF StoreInv

LEMMA SaveUnresolvedKeeps ==
  ASSUME StoreInv, NEW h \in Upserters, SaveUnresolved(h)
  PROVE  StoreInv'
<1>t. StoreTypeOK
  BY DEF StoreInv
<1>1. /\ upsert[h].at = "unresolved" /\ OthersKeep(h, NoUpsert)
      /\ unresolved' \cup dropped' = unresolved \cup dropped \cup {upsert[h].message}
      /\ unresolved \subseteq unresolved' /\ dropped \subseteq dropped'
      /\ came' = came \cup {upsert[h].message}
      /\ UNCHANGED <<known, chatLast, stored, upserts, backwards>>
      /\ upsertFailures' \in {upsertFailures, upsertFailures + 1}
  BY DEF SaveUnresolved, OthersKeep
<1>f. upsertFailures' \in Nat /\ (upsertFailures' = 0 => upsertFailures = 0)
  BY <1>t, <1>1 DEF StoreTypeOK
<1>2. NoUpsert.at = "idle" /\ NoUpsert.message = 0
  BY DEF NoUpsert
<1>3. upsert'[h] = NoUpsert /\ \A g \in Upserters : g # h => upsert'[g] = upsert[g]
  BY <1>t, <1>1, UpsertsAre
<1>m. upsert[h].message \in Timestamps
  BY <1>1 DEF StoreInv, UpsertsUnderWay
<1>4. StoreTypeOK'
  <2>1. NoUpsert \in [at : {"idle", "unresolved", "chat", "message"}, message : 0..MaxTimestamp]
    BY StoreAssumption DEF NoUpsert
  <2>2. upsert' \in [Upserters -> [at : {"idle", "unresolved", "chat", "message"},
                                   message : 0..MaxTimestamp]]
    BY <1>t, <1>1, <2>1 DEF OthersKeep, StoreTypeOK
  <2> QED
    BY <1>t, <1>f, <1>m, <1>1, <2>2 DEF StoreTypeOK
<1>5. HandledIsKept'
  BY <1>1 DEF StoreInv, HandledIsKept
<1>6. UpsertsUnderWay'
  BY <1>1, <1>2, <1>3 DEF StoreInv, UpsertsUnderWay
<1>7. LastIsLast'
  <2> SUFFICES ASSUME ~backwards, upsertFailures = 0 PROVE LastIsLast'
    BY <1>1, <1>f DEF LastIsLast
  <2>1. \A g \in Upserters : upsert'[g].at # "idle" =>
          g # h /\ upsert'[g] = upsert[g] /\ upsert[g].message = upsert[h].message
    BY <1>1, <1>2, <1>3 DEF StoreInv, LastIsLast
  <2>2. upsert[h].message <= upsert[h].message
    BY <1>t, <1>m, UpsertKinds
  <2> QED
    BY <1>1, <2>1, <2>2 DEF StoreInv, LastIsLast
<1> QED
  BY <1>4, <1>5, <1>6, <1>7 DEF StoreInv

LEMMA StoreMessageKeeps ==
  ASSUME StoreInv, NEW h \in Upserters, StoreMessage(h)
  PROVE  StoreInv'
<1>t. StoreTypeOK /\ upsert[h] \in [at : {"idle", "unresolved", "chat", "message"},
                                    message : 0..MaxTimestamp]
  BY DEF StoreInv, StoreTypeOK
<1>u. UNCHANGED <<known, unresolved, upserts, upsertFailures, backwards, dropped>>
  BY DEF StoreMessage
<1>m. upsert[h].at \in {"chat", "message"} /\ upsert[h].message \in Timestamps
  BY DEF StoreMessage, StoreInv, UpsertsUnderWay
<1>n. upsert[h].message # 0 /\ upsert[h].message <= upsert[h].message
  BY <1>t, <1>m, UpsertKinds
<1>1. ASSUME upsert[h].at = "chat", chatLast' = upsert[h].message,
             upsert' = [upsert EXCEPT ![h].at = "message"], UNCHANGED <<stored, came>>
      PROVE  StoreInv'
  <2> DEFINE r == [upsert[h] EXCEPT !.at = "message"]
  <2>1. OthersKeep(h, r)
    BY <1>1, <1>t DEF OthersKeep
  <2>2. r.at = "message" /\ r.message = upsert[h].message
        /\ r \in [at : {"idle", "unresolved", "chat", "message"}, message : 0..MaxTimestamp]
    BY <1>t
  <2> HIDE DEF r
  <2>3. upsert'[h] = r /\ \A g \in Upserters : g # h => upsert'[g] = upsert[g]
    BY <1>t, <2>1, UpsertsAre
  <2>4. StoreTypeOK'
    <3>1. upsert' \in [Upserters -> [at : {"idle", "unresolved", "chat", "message"},
                                     message : 0..MaxTimestamp]]
      BY <1>t, <2>1, <2>2 DEF OthersKeep, StoreTypeOK
    <3>2. chatLast' \in 0..MaxTimestamp
      BY <1>t, <1>1
    <3> QED
      BY <1>t, <1>1, <1>u, <3>1, <3>2 DEF StoreTypeOK
  <2>5. HandledIsKept' /\ UpsertsUnderWay'
    BY <1>1, <1>u, <1>m, <1>n, <2>2, <2>3 DEF StoreInv, HandledIsKept, UpsertsUnderWay
  <2>6. LastIsLast'
    <3> SUFFICES ASSUME ~backwards, upsertFailures = 0 PROVE LastIsLast'
      BY <1>u DEF LastIsLast
    <3>1. \A g \in Upserters : upsert'[g].at # "idle" => upsert'[g].message = upsert[h].message
      BY <1>1, <2>2, <2>3 DEF StoreInv, LastIsLast
    <3>2. \A k \in came : k <= upsert[h].message
      BY <1>1 DEF StoreInv, LastIsLast
    <3>3. \A k \in stored : k <= upsert[h].message
      BY <3>2 DEF StoreInv, UpsertsUnderWay
    <3> QED
      BY <1>1, <3>1, <3>2, <3>3 DEF LastIsLast
  <2> QED
    BY <2>4, <2>5, <2>6 DEF StoreInv
<1>2. ASSUME upsert[h].at = "message", stored' = stored \cup {upsert[h].message},
             came' = came \cup {upsert[h].message},
             upsert' = [upsert EXCEPT ![h] = NoUpsert], UNCHANGED chatLast
      PROVE  StoreInv'
  <2>1. OthersKeep(h, NoUpsert)
    BY <1>2 DEF OthersKeep
  <2>2. NoUpsert.at = "idle" /\ NoUpsert.message = 0
        /\ NoUpsert \in [at : {"idle", "unresolved", "chat", "message"}, message : 0..MaxTimestamp]
    BY StoreAssumption DEF NoUpsert
  <2>3. upsert'[h] = NoUpsert /\ \A g \in Upserters : g # h => upsert'[g] = upsert[g]
    BY <1>t, <2>1, UpsertsAre
  <2>4. StoreTypeOK'
    <3>1. upsert' \in [Upserters -> [at : {"idle", "unresolved", "chat", "message"},
                                     message : 0..MaxTimestamp]]
      BY <1>t, <2>1, <2>2 DEF OthersKeep, StoreTypeOK
    <3> QED
      BY <1>t, <1>2, <1>u, <1>m, <3>1 DEF StoreTypeOK
  <2>5. HandledIsKept' /\ UpsertsUnderWay'
    BY <1>2, <1>u, <1>m, <1>n, <2>2, <2>3 DEF StoreInv, HandledIsKept, UpsertsUnderWay
  <2>6. LastIsLast'
    <3> SUFFICES ASSUME ~backwards, upsertFailures = 0 PROVE LastIsLast'
      BY <1>u DEF LastIsLast
    <3>1. \A g \in Upserters : upsert'[g].at # "idle" =>
            g # h /\ upsert'[g] = upsert[g] /\ upsert[g].message = upsert[h].message
      BY <1>2, <2>2, <2>3 DEF StoreInv, LastIsLast
    <3>2. chatLast = upsert[h].message
      BY <1>2 DEF StoreInv, LastIsLast
    <3> QED
      BY <1>2, <1>n, <3>1, <3>2 DEF StoreInv, LastIsLast
  <2> QED
    BY <2>4, <2>5, <2>6 DEF StoreInv
<1> QED
  BY <1>1, <1>2 DEF StoreMessage, NewLast, UpsertTo

LEMMA LoseUpsertKeeps ==
  ASSUME StoreInv, NEW h \in Upserters, LoseUpsert(h)
  PROVE  StoreInv'
<1>t. StoreTypeOK
  BY DEF StoreInv
<1>1. /\ OthersKeep(h, NoUpsert) /\ upsertFailures' = upsertFailures + 1
      /\ UNCHANGED <<known, chatLast, stored, unresolved, came, upserts, backwards, dropped>>
  BY DEF LoseUpsert, OthersKeep, storeDb
<1>2. NoUpsert.at = "idle" /\ NoUpsert.message = 0
      /\ NoUpsert \in [at : {"idle", "unresolved", "chat", "message"}, message : 0..MaxTimestamp]
  BY StoreAssumption DEF NoUpsert
<1>3. upsert'[h] = NoUpsert /\ \A g \in Upserters : g # h => upsert'[g] = upsert[g]
  BY <1>t, <1>1, UpsertsAre
<1>4. upsertFailures' \in Nat /\ upsertFailures' # 0
  BY <1>t, <1>1 DEF StoreTypeOK
<1>5. upsert' \in [Upserters -> [at : {"idle", "unresolved", "chat", "message"},
                                 message : 0..MaxTimestamp]]
  BY <1>t, <1>1, <1>2 DEF OthersKeep, StoreTypeOK
<1>6. StoreTypeOK'
  BY <1>t, <1>1, <1>4, <1>5 DEF StoreTypeOK
<1>7. HandledIsKept' /\ UpsertsUnderWay'
  BY <1>1, <1>2, <1>3 DEF StoreInv, HandledIsKept, UpsertsUnderWay
<1> QED
  BY <1>4, <1>6, <1>7 DEF StoreInv, LastIsLast

\* No message that was handled is lost, and the chat shows its last one, for any number
\* of messages, handlers and failures.
THEOREM StoreIsCorrect == StoreSpec => []StoreCorrect
<1>1. StoreInit => StoreInv
  <2> SUFFICES ASSUME StoreInit PROVE StoreInv
    OBVIOUS
  <2>1. /\ NoUpsert.at = "idle" /\ NoUpsert.message = 0
        /\ NoUpsert \in [at : {"idle", "unresolved", "chat", "message"}, message : 0..MaxTimestamp]
        /\ 0 \in 0..MaxTimestamp
    BY StoreAssumption DEF NoUpsert
  <2>2. \A h \in Upserters : upsert[h] = NoUpsert
    BY DEF StoreInit
  <2>3. StoreTypeOK
    <3>1. upsert \in [Upserters -> [at : {"idle", "unresolved", "chat", "message"},
                                    message : 0..MaxTimestamp]]
      BY <2>1 DEF StoreInit
    <3>2. 0 \in Nat
      OBVIOUS
    <3> QED
      BY <2>1, <3>1, <3>2 DEF StoreInit, StoreTypeOK
  <2>4. UpsertsUnderWay /\ HandledIsKept
    BY <2>1, <2>2 DEF StoreInit, UpsertsUnderWay, HandledIsKept
  <2>5. LastIsLast
    BY <2>1, <2>2 DEF StoreInit, LastIsLast
  <2> QED
    BY <2>3, <2>4, <2>5 DEF StoreInv
<1>2. StoreInv /\ [StoreNext]_storeVars => StoreInv'
  <2> SUFFICES ASSUME StoreInv, [StoreNext]_storeVars PROVE StoreInv'
    OBVIOUS
  <2>1. ASSUME NEW h \in Upserters, NEW m \in Timestamps, TakeEvent(h, m) \/ TakeMeta(h, m)
        PROVE  StoreInv'
    BY <2>1, BeginKeeps DEF TakeEvent, TakeMeta
  <2>2. ASSUME NEW h \in Upserters, SaveUnresolved(h) \/ StoreMessage(h) \/ LoseUpsert(h)
        PROVE  StoreInv'
    BY <2>2, SaveUnresolvedKeeps, StoreMessageKeeps, LoseUpsertKeeps
  <2>3. CASE BecomeKnown
    BY <2>3 DEF BecomeKnown, StoreInv, StoreTypeOK, HandledIsKept, UpsertsUnderWay, LastIsLast
  <2>4. CASE UNCHANGED storeVars
    BY <2>4 DEF storeVars, storeDb, StoreInv, StoreTypeOK, HandledIsKept, UpsertsUnderWay,
       LastIsLast
  <2> QED
    BY <2>1, <2>2, <2>3, <2>4 DEF StoreNext
<1>3. StoreInv => StoreCorrect
  BY DEF StoreInv, StoreCorrect, LastIsLast, ChatShowsLatest
<1> QED
  BY <1>1, <1>2, <1>3, PTL DEF StoreSpec

-----------------------------------------------------------------------------
(* The reply to a campaign                                                   *)

RepliedPlaces == {"advance", "answer", "chat", "save"}

\* A reply that has been read goes on with the seller in memory, who was the customer's
\* once, and is logged before the recipient is saved; a customer who has a seller keeps one.
ReplyUnderWay ==
  /\ \A h \in Repliers :
       /\ Busy(h) => reply[h].message \in Replies
       /\ reply[h].assigned # NoSeller => client.assigned # NoSeller
       /\ reply[h].at = "save" => chat # {}
       /\ (/\ reply[h].at \in RepliedPlaces /\ campaign.type = "recovery_potential"
           /\ ~nobodyPicked
           /\ reply[h].outcome \in {"reply_logged", "assigned_ventor", "reassigned_ventor"})
            => client.assigned # NoSeller

\* As long as writers of the customer do not overlap, one reply is under way, and has in
\* memory the seller in charge; ...
ReplyIsAlone ==
  ~rivalled =>
    /\ \A g, h \in Repliers : Busy(g) /\ Busy(h) => g = h
    /\ \A h \in Repliers : reply[h].at \in RepliedPlaces \cup {"assign"} =>
         reply[h].assigned = client.assigned

\* ... and what it has done is done, once, before the recipient counts as handled.
ReplyActsThenSaves ==
  (~rivalled /\ replyCrashes = 0 /\ replyFailures = 0) =>
    /\ \A h \in Repliers : Busy(h) => ~recipient.handled
    /\ takings <= 1
    /\ takings = 1 => recipient.handled \/ \E h \in Repliers : reply[h].at \in RepliedPlaces
    /\ answered = {} \/ \E a \in answered : answered = {a}
    /\ answered # {} => recipient.handled \/ \E h \in Repliers : reply[h].at \in {"chat", "save"}

ReplyInv ==
  /\ ReplyTypeOK /\ AnswerNamesTheOwner /\ HandledIsInChat /\ RecoveryHasSeller
  /\ ReplyUnderWay /\ ReplyIsAlone /\ ReplyActsThenSaves

ReplyPlaces == {"idle", "read", "assign", "advance", "answer", "chat", "save"}
ReplyOutcomes ==
  {"reply_logged", "preserved_assignee", "assigned_ventor", "reassigned_ventor", "step_advanced"}
ReplyRecords ==
  [at : ReplyPlaces, message : Replies \cup {0}, assigned : Sellers \cup {NoSeller},
   step : ReplySteps, kind : {"none", "preserve", "assign"}, outcome : ReplyOutcomes]
ClientDocs == [assigned : Sellers \cup {NoSeller}, step : ReplySteps]

LEMMA ReplyTypes ==
  ASSUME ReplyTypeOK
  PROVE  /\ reply \in [Repliers -> ReplyRecords] /\ client \in ClientDocs
         /\ \A h \in Repliers : reply[h] \in ReplyRecords
         /\ client.assigned \in Sellers \cup {NoSeller} /\ client.step \in ReplySteps
         /\ campaign.type \in {"standard", "recovery_potential"} /\ campaign.advances \in BOOLEAN
         /\ recipient.handled \in BOOLEAN
         /\ takings \in Nat /\ managed \in Nat /\ replyFailures \in Nat /\ replyCrashes \in Nat
         /\ rivalled \in BOOLEAN /\ nobodyPicked \in BOOLEAN
BY DEF ReplyTypeOK, ReplyRecords, ReplyPlaces, ReplyOutcomes, ClientDocs

LEMMA NoReplyIs ==
  /\ NoReply \in ReplyRecords /\ NoReply.at = "idle" /\ NoReply.assigned = NoSeller
  /\ NoReply.outcome = "reply_logged"
BY DEF NoReply, ReplyRecords, ReplyPlaces, ReplyOutcomes, ReplySteps

\* What a handler has in hand is another thing.
ReplyIs(h, r) ==
  /\ reply' \in [Repliers -> ReplyRecords]
  /\ reply'[h] = r /\ \A g \in Repliers : g # h => reply'[g] = reply[g]

LEMMA ReplySet ==
  ASSUME ReplyTypeOK, NEW h \in Repliers, NEW r \in ReplyRecords,
         reply' = [reply EXCEPT ![h] = r]
  PROVE  ReplyIs(h, r)
BY ReplyTypes DEF ReplyIs

LEMMA ReplyTypeStep ==
  ASSUME ReplyTypeOK, UNCHANGED campaign, client' \in ClientDocs,
         reply' \in [Repliers -> ReplyRecords],
         recipient' = recipient
           \/ \E o \in ReplyOutcomes : recipient' = [handled |-> TRUE, outcome |-> o],
         chat' \subseteq Replies,
         answered' \subseteq [by : Replies \cup {0}, kind : {"preserve", "assign"},
                              named : Sellers, owner : Sellers \cup {NoSeller}],
         rivalled' \in BOOLEAN, nobodyPicked' \in BOOLEAN, takings' \in Nat, managed' \in Nat,
         replyFailures' \in Nat, replyCrashes' \in Nat
  PROVE  ReplyTypeOK'
<1>1. recipient' \in [handled : BOOLEAN,
       outcome : {"none", "reply_logged", "preserved_assignee", "assigned_ventor",
                  "reassigned_ventor", "step_advanced"}]
  <2>1. CASE recipient' = recipient
    BY <2>1 DEF ReplyTypeOK
  <2>2. ASSUME NEW o \in ReplyOutcomes, recipient' = [handled |-> TRUE, outcome |-> o]
        PROVE  recipient' \in [handled : BOOLEAN,
                 outcome : {"none", "reply_logged", "preserved_assignee", "assigned_ventor",
                            "reassigned_ventor", "step_advanced"}]
    BY <2>2 DEF ReplyOutcomes
  <2> QED
    BY <2>1, <2>2
<1> QED
  BY <1>1 DEF ReplyTypeOK, ClientDocs, ReplyRecords, ReplyPlaces, ReplyOutcomes

\* The handlers: a request is taken, and whoever is at work goes on, or lets go.
LEMMA TakeReplyKeeps ==
  ASSUME ReplyInv, NEW h \in Repliers, NEW m \in Replies, TakeReply(h, m)
  PROVE  ReplyInv'
<1> DEFINE r == [NoReply EXCEPT !.at = "read", !.message = m]
<1>t. ReplyTypeOK
  BY DEF ReplyInv
<1>u. /\ ~Busy(h) /\ UNCHANGED <<campaign, client, recipient, chat, answered, takings,
                                 nobodyPicked, managed, replyFailures, replyCrashes>>
      /\ rivalled' = (rivalled \/ (~recipient.handled /\ \E g \in Repliers : Busy(g)))
  BY DEF TakeReply, replyDb, Fresh
<1>1. CASE recipient.handled
  <2>1. reply' = reply /\ rivalled' = rivalled
    BY <1>1, <1>u, <1>t, ReplyTypes DEF TakeReply, Fresh
  <2> QED
    BY <1>t, <1>u, <2>1 DEF ReplyInv, ReplyTypeOK, AnswerNamesTheOwner, HandledIsInChat,
      RecoveryHasSeller, ReplyUnderWay, ReplyIsAlone, ReplyActsThenSaves, Busy
<1>2. CASE ~recipient.handled
  <2>1. reply' = [reply EXCEPT ![h] = r]
    BY <1>2 DEF TakeReply, Fresh
  <2>2. r \in ReplyRecords /\ r.at = "read" /\ r.assigned = NoSeller /\ r.message = m
    BY NoReplyIs DEF ReplyRecords, ReplyPlaces
  <2> HIDE DEF r
  <2>3. ReplyIs(h, r)
    BY <1>t, <2>1, <2>2, ReplySet
  <2>4. ReplyTypeOK'
    <3>1. rivalled' \in BOOLEAN
      BY <1>t, <1>u, ReplyTypes
    <3> QED
      BY <1>t, <1>u, <2>3, <3>1, ReplyTypes, ReplyTypeStep DEF ReplyIs, ReplyTypeOK
  <2>5. rivalled => rivalled'
    BY <1>u
  <2>6. AnswerNamesTheOwner' /\ HandledIsInChat' /\ RecoveryHasSeller'
    BY <1>u, <2>5 DEF ReplyInv, AnswerNamesTheOwner, HandledIsInChat, RecoveryHasSeller
  <2>7. ReplyUnderWay'
    BY <1>u, <2>2, <2>3 DEF ReplyInv, ReplyUnderWay, ReplyIs, RepliedPlaces, Busy
  <2>8. ~rivalled' => ~rivalled /\ \A g \in Repliers : g # h => ~Busy(g) /\ reply'[g] = reply[g]
    BY <1>u, <1>2, <2>3 DEF ReplyIs
  <2>9. ReplyIsAlone'
    BY <2>2, <2>3, <2>8 DEF ReplyIsAlone, ReplyIs, Busy, RepliedPlaces
  <2>10. ReplyActsThenSaves'
    <3> SUFFICES ASSUME ~rivalled', replyCrashes = 0, replyFailures = 0 PROVE ReplyActsThenSaves'
      BY <1>u DEF ReplyActsThenSaves
    <3>1. \A g \in Repliers : reply[g].at = "idle"
      BY <1>u, <2>8 DEF Busy
    <3>2. takings # 1 /\ answered = {} /\ takings <= 1
      BY <1>2, <2>8, <3>1 DEF ReplyInv, ReplyActsThenSaves, RepliedPlaces
    <3> QED
      BY <1>u, <1>2, <3>2 DEF ReplyActsThenSaves
  <2> QED
    BY <2>4, <2>6, <2>7, <2>9, <2>10 DEF ReplyInv
<1> QED
  BY <1>1, <1>2

LEMMA ReadClientKeeps ==
  ASSUME ReplyInv, NEW h \in Repliers, ReadClient(h)
  PROVE  ReplyInv'
<1> DEFINE kept == campaign.type = "recovery_potential" /\ Preserves(client.step)
           place == IF campaign.type = "standard" THEN "chat"
                    ELSE IF kept THEN "advance" ELSE "assign"
           kind == IF kept THEN "preserve" ELSE "none"
           outcome == IF kept THEN "preserved_assignee" ELSE "reply_logged"
           r == [reply[h] EXCEPT !.at = place, !.assigned = client.assigned, !.step = client.step,
                                 !.kind = kind, !.outcome = outcome]
<1>t. ReplyTypeOK /\ reply \in [Repliers -> ReplyRecords] /\ reply[h] \in ReplyRecords
  BY ReplyTypes DEF ReplyInv
<1>u. /\ reply[h].at = "read"
      /\ UNCHANGED <<campaign, client, recipient, chat, answered, takings, rivalled,
                     nobodyPicked, managed, replyFailures, replyCrashes>>
  BY DEF ReadClient, replyDb, replyHistory
<1>1. /\ place \in ReplyPlaces /\ kind \in {"none", "preserve", "assign"} /\ outcome \in ReplyOutcomes
      /\ place \in {"chat", "advance", "assign"}
      /\ (place # "assign" /\ campaign.type = "recovery_potential") => outcome = "preserved_assignee"
  BY DEF ReplyPlaces, ReplyOutcomes
<1>2. reply' = [reply EXCEPT ![h].at = place, ![h].assigned = client.assigned,
                             ![h].step = client.step, ![h].kind = kind, ![h].outcome = outcome]
  BY DEF ReadClient
<1> HIDE DEF place, kind, outcome
<1>3. reply' = [reply EXCEPT ![h] = r]
  BY <1>2, <1>t
<1>4. /\ r \in ReplyRecords /\ r.at = place /\ r.assigned = client.assigned /\ r.outcome = outcome
      /\ r.message = reply[h].message
  BY <1>t, <1>1, ReplyTypes DEF ReplyRecords
<1> HIDE DEF r
<1>5. ReplyIs(h, r)
  BY <1>t, <1>3, <1>4, ReplySet
<1>6. ReplyTypeOK'
  BY <1>t, <1>u, <1>5, ReplyTypes, ReplyTypeStep DEF ReplyIs, ReplyTypeOK
<1>7. AnswerNamesTheOwner' /\ HandledIsInChat' /\ RecoveryHasSeller'
  BY <1>u DEF ReplyInv, AnswerNamesTheOwner, HandledIsInChat, RecoveryHasSeller
<1>8. ReplyUnderWay'
  BY <1>u, <1>1, <1>4, <1>5 DEF ReplyInv, ReplyUnderWay, ReplyIs, RepliedPlaces, Busy
<1>9. ReplyIsAlone'
  BY <1>u, <1>1, <1>4, <1>5 DEF ReplyInv, ReplyIsAlone, ReplyIs, Busy
<1>10. ReplyActsThenSaves'
  <2> SUFFICES ASSUME ~rivalled, replyCrashes = 0, replyFailures = 0 PROVE ReplyActsThenSaves'
    BY <1>u DEF ReplyActsThenSaves
  <2>1. Busy(h) /\ ~recipient.handled
    BY <1>u DEF ReplyInv, ReplyActsThenSaves, Busy
  <2>2. \A g \in Repliers : g # h => reply[g].at = "idle"
    BY <2>1 DEF ReplyInv, ReplyIsAlone, Busy
  <2>3. takings # 1 /\ answered = {} /\ takings <= 1
    BY <1>u, <2>1, <2>2 DEF ReplyInv, ReplyActsThenSaves, RepliedPlaces
  <2> QED
    BY <1>u, <2>1, <2>3 DEF ReplyActsThenSaves
<1> QED
  BY <1>6, <1>7, <1>8, <1>9, <1>10 DEF ReplyInv

LEMMA AssignSellerKeeps ==
  ASSUME ReplyInv, NEW h \in Repliers, AssignSeller(h)
  PROVE  ReplyInv'
<1>t. ReplyTypeOK /\ reply \in [Repliers -> ReplyRecords] /\ reply[h] \in ReplyRecords
      /\ client \in ClientDocs /\ takings \in Nat
  BY ReplyTypes DEF ReplyInv
<1>u. /\ reply[h].at = "assign"
      /\ UNCHANGED <<campaign, recipient, chat, answered, rivalled, managed, replyFailures,
                     replyCrashes>>
  BY DEF AssignSeller
<1>s. reply[h].assigned # NoSeller => client.assigned # NoSeller
  BY DEF ReplyInv, ReplyUnderWay
<1>m. reply[h].message \in Replies
  BY <1>u DEF ReplyInv, ReplyUnderWay, Busy
<1>1. ASSUME NEW c \in ClientDocs, NEW r \in ReplyRecords, client' = c,
             reply' = [reply EXCEPT ![h] = r],
             r.at = "advance", r.message = reply[h].message,
             client.assigned # NoSeller => c.assigned # NoSeller,
             r.assigned # NoSeller => c.assigned # NoSeller,
             c.assigned # NoSeller \/ nobodyPicked',
             ~rivalled => r.assigned = c.assigned,
             nobodyPicked => nobodyPicked', nobodyPicked' \in BOOLEAN,
             takings' = takings \/ takings' = takings + 1
      PROVE  ReplyInv'
  <2>1. ReplyIs(h, r)
    BY <1>t, <1>1, ReplySet
  <2>2. ReplyTypeOK'
    <3>1. takings' \in Nat
      BY <1>t, <1>1
    <3> QED
      BY <1>t, <1>u, <1>1, <2>1, <3>1, ReplyTypes, ReplyTypeStep DEF ReplyIs, ReplyTypeOK
  <2>3. AnswerNamesTheOwner' /\ HandledIsInChat'
    BY <1>u DEF ReplyInv, AnswerNamesTheOwner, HandledIsInChat
  <2>4. RecoveryHasSeller'
    BY <1>u, <1>1 DEF ReplyInv, RecoveryHasSeller
  <2>5. ReplyUnderWay'
    <3>1. ASSUME NEW g \in Repliers
          PROVE  /\ Busy(g)' => reply'[g].message \in Replies
                 /\ reply'[g].assigned # NoSeller => c.assigned # NoSeller
                 /\ reply'[g].at = "save" => chat # {}
                 /\ (/\ reply'[g].at \in RepliedPlaces /\ campaign.type = "recovery_potential"
                     /\ ~nobodyPicked'
                     /\ reply'[g].outcome \in {"reply_logged", "assigned_ventor", "reassigned_ventor"})
                      => c.assigned # NoSeller
      <4>1. CASE g = h
        BY <4>1, <1>1, <1>m, <2>1 DEF ReplyIs
      <4>2. CASE g # h
        BY <4>2, <1>1, <2>1 DEF ReplyInv, ReplyUnderWay, ReplyIs, Busy
      <4> QED
        BY <4>1, <4>2
    <3> QED
      BY <1>u, <1>1, <3>1 DEF ReplyUnderWay
  <2>6. ReplyIsAlone'
    <3> SUFFICES ASSUME ~rivalled PROVE ReplyIsAlone'
      BY <1>u DEF ReplyIsAlone
    <3>1. \A g \in Repliers : g # h => ~Busy(g)
      BY <1>u DEF ReplyInv, ReplyIsAlone, Busy
    <3>2. \A g \in Repliers : g # h => reply'[g].at = "idle"
      BY <3>1, <2>1 DEF ReplyIs, Busy
    <3>3. reply'[h].assigned = client'.assigned
      BY <1>1, <2>1 DEF ReplyIs
    <3> QED
      BY <3>2, <3>3 DEF ReplyIsAlone, Busy, RepliedPlaces
  <2>7. ReplyActsThenSaves'
    <3> SUFFICES ASSUME ~rivalled, replyCrashes = 0, replyFailures = 0 PROVE ReplyActsThenSaves'
      BY <1>u DEF ReplyActsThenSaves
    <3>1. Busy(h) /\ ~recipient.handled
      BY <1>u DEF ReplyInv, ReplyActsThenSaves, Busy
    <3>2. \A g \in Repliers : g # h => reply[g].at = "idle"
      BY <3>1 DEF ReplyInv, ReplyIsAlone, Busy
    <3>3. takings # 1 /\ answered = {} /\ takings <= 1
      BY <1>u, <3>1, <3>2 DEF ReplyInv, ReplyActsThenSaves, RepliedPlaces
    <3>4. takings = 0
      BY <1>t, <3>3
    <3>5. takings' <= 1
      <4>1. takings' = 0 \/ takings' = 0 + 1
        BY <1>1, <3>4
      <4> QED
        BY <4>1
    <3>6. reply'[h].at \in RepliedPlaces
      BY <1>1, <2>1 DEF ReplyIs, RepliedPlaces
    <3> QED
      BY <1>u, <3>1, <3>3, <3>5, <3>6 DEF ReplyActsThenSaves
  <2> QED
    BY <2>2, <2>3, <2>4, <2>5, <2>6, <2>7 DEF ReplyInv
<1>2. ASSUME NEW v \in Eligible(reply[h].assigned), client' = SavedClient(h, v),
             reply' = [reply EXCEPT ![h].at = "advance", ![h].assigned = v, ![h].kind = "assign",
                 ![h].outcome = IF reply[h].assigned = NoSeller THEN "assigned_ventor"
                                ELSE "reassigned_ventor"],
             takings' = takings + 1, UNCHANGED nobodyPicked
      PROVE  ReplyInv'
  <2> DEFINE c == [client EXCEPT !.assigned = IF v = reply[h].assigned THEN client.assigned ELSE v]
             outcome == IF reply[h].assigned = NoSeller THEN "assigned_ventor"
                        ELSE "reassigned_ventor"
             r == [reply[h] EXCEPT !.at = "advance", !.assigned = v, !.kind = "assign",
                                   !.outcome = outcome]
  <2>1. v \in Sellers /\ v # NoSeller
    BY <1>2, ReplyAssumption DEF Eligible
  <2>2. client' = c
    BY <1>2 DEF SavedClient
  <2>3. /\ c \in ClientDocs /\ c.assigned = (IF v = reply[h].assigned THEN client.assigned ELSE v)
    BY <1>t, <2>1 DEF ClientDocs
  <2> HIDE DEF c
  <2>4. c.assigned # NoSeller
    BY <1>s, <2>1, <2>3
  <2>5. outcome \in ReplyOutcomes
    BY DEF ReplyOutcomes
  <2>6. reply' = [reply EXCEPT ![h].at = "advance", ![h].assigned = v, ![h].kind = "assign",
                               ![h].outcome = outcome]
    BY <1>2
  <2> HIDE DEF outcome
  <2>7. reply' = [reply EXCEPT ![h] = r]
    BY <1>t, <2>6
  <2>8. r \in ReplyRecords /\ r.at = "advance" /\ r.message = reply[h].message /\ r.assigned = v
    BY <1>t, <2>1, <2>5 DEF ReplyRecords, ReplyPlaces
  <2> HIDE DEF r
  <2>9. ~rivalled => r.assigned = c.assigned
    <3>1. ~rivalled => reply[h].assigned = client.assigned
      BY <1>u DEF ReplyInv, ReplyIsAlone
    <3> QED
      BY <2>3, <2>8, <3>1
  <2>10. nobodyPicked' \in BOOLEAN /\ (nobodyPicked => nobodyPicked')
    BY <1>t, <1>2, ReplyTypes
  <2> QED
    BY <1>1, <1>2, <2>2, <2>3, <2>4, <2>7, <2>8, <2>9, <2>10
<1>3. ASSUME nobodyPicked' = TRUE, ReplyTo(h, "advance"), UNCHANGED <<client, takings>>
      PROVE  ReplyInv'
  <2> DEFINE r == [reply[h] EXCEPT !.at = "advance"]
  <2>1. reply' = [reply EXCEPT ![h] = r]
    BY <1>t, <1>3 DEF ReplyTo
  <2>2. r \in ReplyRecords /\ r.at = "advance" /\ r.message = reply[h].message
        /\ r.assigned = reply[h].assigned
    BY <1>t DEF ReplyRecords, ReplyPlaces
  <2> HIDE DEF r
  <2>3. ~rivalled => r.assigned = client.assigned
    BY <1>u, <2>2 DEF ReplyInv, ReplyIsAlone
  <2> QED
    BY <1>1, <1>3, <1>t, <1>s, <2>1, <2>2, <2>3
<1> QED
  BY <1>2, <1>3 DEF AssignSeller

\* A handler that has done its part goes on; the customer keeps his assignee.
LEMMA GoOnKeeps ==
  ASSUME ReplyInv, NEW h \in Repliers, NEW place \in {"answer", "chat", "save"},
         NEW r \in ReplyRecords, reply' = [reply EXCEPT ![h] = r],
         r.at = place, r.message = reply[h].message, r.assigned = reply[h].assigned,
         r.outcome = reply[h].outcome \/ r.outcome = "step_advanced",
         reply[h].at \in RepliedPlaces, client' \in ClientDocs,
         client'.assigned = client.assigned,
         UNCHANGED <<campaign, recipient, takings, rivalled, nobodyPicked, managed,
                     replyFailures, replyCrashes>>,
         chat' = chat \/ chat' = chat \cup {reply[h].message},
         place = "save" => chat' # {},
         reply[h].at \in {"chat", "save"} => place \in {"chat", "save"},
         answered' = answered
           \/ \E k \in {"preserve", "assign"} :
                /\ reply[h].assigned # NoSeller /\ reply[h].at = "answer" /\ place = "chat"
                /\ answered' = answered \cup
                     {[by |-> reply[h].message, kind |-> k,
                       named |-> reply[h].assigned, owner |-> client.assigned]}
  PROVE  ReplyInv'
<1>t. ReplyTypeOK /\ reply \in [Repliers -> ReplyRecords] /\ reply[h] \in ReplyRecords
      /\ reply[h].assigned \in Sellers \cup {NoSeller} /\ client.assigned \in Sellers \cup {NoSeller}
  BY ReplyTypes DEF ReplyInv, ReplyRecords
<1>m. Busy(h) /\ reply[h].message \in Replies
  BY DEF ReplyInv, ReplyUnderWay, Busy, RepliedPlaces
<1>1. ReplyIs(h, r)
  BY <1>t, ReplySet
<1>p. place \in RepliedPlaces /\ place # "idle"
  BY DEF RepliedPlaces
<1>o. ~rivalled => reply[h].assigned = client.assigned
  BY DEF ReplyInv, ReplyIsAlone
<1>a. answered' = answered
      \/ \E a : /\ answered' = answered \cup {a} /\ reply[h].at = "answer" /\ place = "chat"
                /\ a \in [by : Replies \cup {0}, kind : {"preserve", "assign"},
                          named : Sellers, owner : Sellers \cup {NoSeller}]
                /\ ~rivalled => a.named = a.owner
  <2>1. CASE answered' = answered
    BY <2>1
  <2>2. ASSUME NEW k \in {"preserve", "assign"}, reply[h].assigned # NoSeller,
               reply[h].at = "answer", place = "chat",
               answered' = answered \cup {[by |-> reply[h].message, kind |-> k,
                               named |-> reply[h].assigned, owner |-> client.assigned]}
        PROVE  \E a : /\ answered' = answered \cup {a} /\ reply[h].at = "answer" /\ place = "chat"
                      /\ a \in [by : Replies \cup {0}, kind : {"preserve", "assign"},
                                named : Sellers, owner : Sellers \cup {NoSeller}]
                      /\ ~rivalled => a.named = a.owner
    <3> DEFINE a == [by |-> reply[h].message, kind |-> k, named |-> reply[h].assigned,
                     owner |-> client.assigned]
    <3>1. /\ a \in [by : Replies \cup {0}, kind : {"preserve", "assign"},
                    named : Sellers, owner : Sellers \cup {NoSeller}]
          /\ a.named = reply[h].assigned /\ a.owner = client.assigned
      BY <1>t, <1>m, <2>2
    <3>2. answered' = answered \cup {a}
      BY <2>2
    <3> HIDE DEF a
    <3> QED
      BY <1>o, <2>2, <3>1, <3>2
  <2> QED
    BY <2>1, <2>2
<1>2. ReplyTypeOK'
  <2>1. chat' \subseteq Replies
    BY <1>t, <1>m DEF ReplyTypeOK
  <2>2. answered' \subseteq [by : Replies \cup {0}, kind : {"preserve", "assign"},
                             named : Sellers, owner : Sellers \cup {NoSeller}]
    BY <1>t, <1>a DEF ReplyTypeOK
  <2> QED
    BY <1>t, <1>1, <2>1, <2>2, ReplyTypes, ReplyTypeStep DEF ReplyIs
<1>3. AnswerNamesTheOwner'
  BY <1>a DEF ReplyInv, AnswerNamesTheOwner
<1>4. HandledIsInChat' /\ RecoveryHasSeller'
  BY DEF ReplyInv, HandledIsInChat, RecoveryHasSeller
<1>5. ReplyUnderWay'
  <2>1. ASSUME NEW g \in Repliers
        PROVE  /\ Busy(g)' => reply'[g].message \in Replies
               /\ reply'[g].assigned # NoSeller => client.assigned # NoSeller
               /\ reply'[g].at = "save" => chat' # {}
               /\ (/\ reply'[g].at \in RepliedPlaces /\ campaign.type = "recovery_potential"
                   /\ ~nobodyPicked
                   /\ reply'[g].outcome \in {"reply_logged", "assigned_ventor", "reassigned_ventor"})
                    => client.assigned # NoSeller
    <3>1. CASE g = h
      <4>1. reply'[g] = r
        BY <3>1, <1>1 DEF ReplyIs
      <4> QED
        BY <3>1, <4>1, <1>m DEF ReplyInv, ReplyUnderWay
    <3>2. CASE g # h
      BY <3>2, <1>1 DEF ReplyInv, ReplyUnderWay, ReplyIs, Busy
    <3> QED
      BY <3>1, <3>2
  <2> QED
    BY <2>1 DEF ReplyUnderWay
<1>6. ReplyIsAlone'
  <2> SUFFICES ASSUME ~rivalled PROVE ReplyIsAlone'
    BY DEF ReplyIsAlone
  <2>1. \A g \in Repliers : g # h => ~Busy(g)
    BY <1>m DEF ReplyInv, ReplyIsAlone
  <2>2. \A g \in Repliers : g # h => reply'[g].at = "idle"
    BY <2>1, <1>1 DEF ReplyIs, Busy
  <2>3. reply'[h].assigned = client'.assigned
    BY <1>1, <1>o DEF ReplyIs
  <2> QED
    BY <2>2, <2>3 DEF ReplyIsAlone, Busy, RepliedPlaces
<1>7. ReplyActsThenSaves'
  <2> SUFFICES ASSUME ~rivalled, replyCrashes = 0, replyFailures = 0 PROVE ReplyActsThenSaves'
    BY DEF ReplyActsThenSaves
  <2>1. ~recipient.handled /\ \A g \in Repliers : g # h => reply[g].at = "idle"
    BY <1>m DEF ReplyInv, ReplyActsThenSaves, ReplyIsAlone, Busy
  <2>2. takings <= 1 /\ reply'[h].at = place
    BY <1>1 DEF ReplyInv, ReplyActsThenSaves, ReplyIs
  <2>3. answered # {} => place \in {"chat", "save"}
    BY <2>1 DEF ReplyInv, ReplyActsThenSaves
  <2>4. reply[h].at = "answer" => answered = {}
    BY <2>1 DEF ReplyInv, ReplyActsThenSaves
  <2>5. answered' = {} \/ \E a \in answered' : answered' = {a}
    BY <1>a, <2>4 DEF ReplyInv, ReplyActsThenSaves
  <2>6. answered' # {} => reply'[h].at \in {"chat", "save"}
    BY <1>a, <2>2, <2>3
  <2> QED
    BY <1>p, <2>1, <2>2, <2>5, <2>6 DEF ReplyActsThenSaves
<1> QED
  BY <1>2, <1>3, <1>4, <1>5, <1>6, <1>7 DEF ReplyInv

LEMMA AdvanceStepKeeps ==
  ASSUME ReplyInv, NEW h \in Repliers, AdvanceStep(h)
  PROVE  ReplyInv'
<1> DEFINE outcome == IF campaign.advances THEN "step_advanced" ELSE reply[h].outcome
           r == [reply[h] EXCEPT !.at = "answer", !.outcome = outcome]
<1>t. ReplyTypeOK /\ reply \in [Repliers -> ReplyRecords] /\ reply[h] \in ReplyRecords
      /\ client \in ClientDocs
  BY ReplyTypes DEF ReplyInv
<1>u. /\ reply[h].at = "advance" /\ reply[h].at \in RepliedPlaces
      /\ UNCHANGED <<campaign, recipient, chat, answered, takings, rivalled,
                     nobodyPicked, managed, replyFailures, replyCrashes>>
  BY DEF AdvanceStep, replyHistory, RepliedPlaces
<1>1. reply' = [reply EXCEPT ![h].at = "answer", ![h].outcome = outcome]
  BY DEF AdvanceStep
<1>2. outcome \in ReplyOutcomes /\ (outcome = reply[h].outcome \/ outcome = "step_advanced")
  BY <1>t DEF ReplyOutcomes, ReplyRecords
<1> HIDE DEF outcome
<1>3. reply' = [reply EXCEPT ![h] = r]
  BY <1>t, <1>1
<1>4. r \in ReplyRecords /\ r.at = "answer" /\ r.message = reply[h].message
      /\ r.assigned = reply[h].assigned /\ r.outcome = outcome
  BY <1>t, <1>2 DEF ReplyRecords, ReplyPlaces
<1> HIDE DEF r
<1>5. client' \in ClientDocs /\ client'.assigned = client.assigned
  <2>1. client' = IF campaign.advances THEN [client EXCEPT !.step = "advanced"] ELSE client
    BY DEF AdvanceStep
  <2> QED
    BY <1>t, <2>1 DEF ClientDocs, ReplySteps
<1> QED
  BY <1>u, <1>2, <1>3, <1>4, <1>5, GoOnKeeps

LEMMA AnswerKeeps ==
  ASSUME ReplyInv, NEW h \in Repliers, Answer(h)
  PROVE  ReplyInv'
<1> DEFINE r == [reply[h] EXCEPT !.at = "chat"]
<1>t. ReplyTypeOK /\ reply \in [Repliers -> ReplyRecords] /\ reply[h] \in ReplyRecords
      /\ client \in ClientDocs
  BY ReplyTypes DEF ReplyInv
<1>u. /\ reply[h].at = "answer" /\ reply[h].at \in RepliedPlaces
      /\ UNCHANGED <<campaign, client, recipient, chat, takings, rivalled,
                     nobodyPicked, managed, replyFailures, replyCrashes>>
  BY DEF Answer, replyDb, RepliedPlaces
<1>1. reply' = [reply EXCEPT ![h] = r]
  BY <1>t DEF Answer, ReplyTo
<1>2. r \in ReplyRecords /\ r.at = "chat" /\ r.message = reply[h].message
      /\ r.assigned = reply[h].assigned /\ r.outcome = reply[h].outcome
  BY <1>t DEF ReplyRecords, ReplyPlaces
<1> HIDE DEF r
<1>3. answered' = answered
      \/ \E k \in {"preserve", "assign"} :
           /\ reply[h].assigned # NoSeller
           /\ answered' = answered \cup
                {[by |-> reply[h].message, kind |-> k,
                  named |-> reply[h].assigned, owner |-> client.assigned]}
  <2>1. CASE Speaks(h)
    <3>1. reply[h].kind \in {"preserve", "assign"} /\ reply[h].assigned # NoSeller
      BY <1>t, <2>1 DEF Speaks, ReplyRecords
    <3>2. answered' = answered \cup
            {[by |-> reply[h].message, kind |-> reply[h].kind,
              named |-> reply[h].assigned, owner |-> client.assigned]}
      BY <2>1 DEF Answer
    <3> QED
      BY <3>1, <3>2
  <2>2. CASE ~Speaks(h)
    BY <2>2 DEF Answer
  <2> QED
    BY <2>1, <2>2
<1> QED
  BY <1>t, <1>u, <1>1, <1>2, <1>3, GoOnKeeps

LEMMA CloseReplyKeeps ==
  ASSUME ReplyInv, NEW h \in Repliers, CloseReply(h)
  PROVE  ReplyInv'
<1>t. ReplyTypeOK /\ reply \in [Repliers -> ReplyRecords] /\ reply[h] \in ReplyRecords
      /\ client \in ClientDocs
  BY ReplyTypes DEF ReplyInv
<1>1. CASE /\ reply[h].at = "chat" /\ chat' = chat \cup {reply[h].message}
           /\ ReplyTo(h, "save") /\ UNCHANGED recipient
           /\ UNCHANGED <<campaign, client, replyHistory>>
  <2> DEFINE r == [reply[h] EXCEPT !.at = "save"]
  <2>1. reply' = [reply EXCEPT ![h] = r]
    BY <1>t, <1>1 DEF ReplyTo
  <2>2. r \in ReplyRecords /\ r.at = "save" /\ r.message = reply[h].message
        /\ r.assigned = reply[h].assigned /\ r.outcome = reply[h].outcome
    BY <1>t DEF ReplyRecords, ReplyPlaces
  <2> HIDE DEF r
  <2>3. reply[h].at \in RepliedPlaces /\ chat' # {}
    BY <1>1 DEF RepliedPlaces
  <2>4. UNCHANGED <<campaign, client, recipient, answered, takings, rivalled, nobodyPicked,
                    managed, replyFailures, replyCrashes>>
    BY <1>1 DEF replyHistory
  <2> QED
    BY <1>t, <1>1, <2>1, <2>2, <2>3, <2>4, GoOnKeeps
<1>2. CASE /\ reply[h].at = "save"
           /\ recipient' = [handled |-> TRUE, outcome |-> reply[h].outcome]
           /\ reply' = [reply EXCEPT ![h] = NoReply] /\ UNCHANGED chat
           /\ UNCHANGED <<campaign, client, replyHistory>>
  <2>1. ReplyIs(h, NoReply)
    BY <1>t, <1>2, NoReplyIs, ReplySet
  <2>2. UNCHANGED <<campaign, client, chat, answered, takings, rivalled, nobodyPicked,
                    managed, replyFailures, replyCrashes>>
    BY <1>2 DEF replyHistory
  <2>3. recipient'.handled = TRUE /\ recipient'.outcome = reply[h].outcome
        /\ reply[h].outcome \in ReplyOutcomes
    BY <1>t, <1>2 DEF ReplyRecords
  <2>4. ReplyTypeOK'
    BY <1>t, <1>2, <2>1, <2>2, <2>3, ReplyTypes, ReplyTypeStep DEF ReplyIs, ReplyTypeOK
  <2>5. AnswerNamesTheOwner' /\ HandledIsInChat' /\ RecoveryHasSeller'
    BY <1>2, <2>2, <2>3 DEF ReplyInv, AnswerNamesTheOwner, HandledIsInChat, RecoveryHasSeller,
      ReplyUnderWay, RepliedPlaces
  <2>6. ReplyUnderWay'
    BY <2>1, <2>2, NoReplyIs DEF ReplyInv, ReplyUnderWay, ReplyIs, Busy, RepliedPlaces
  <2>7. ReplyIsAlone'
    BY <2>1, <2>2, NoReplyIs DEF ReplyInv, ReplyIsAlone, ReplyIs, Busy, RepliedPlaces
  <2>8. ReplyActsThenSaves'
    <3> SUFFICES ASSUME ~rivalled, replyCrashes = 0, replyFailures = 0 PROVE ReplyActsThenSaves'
      BY <2>2 DEF ReplyActsThenSaves
    <3>1. \A g \in Repliers : ~Busy(g)'
      BY <1>2, <2>1, NoReplyIs DEF ReplyInv, ReplyIsAlone, ReplyIs, Busy
    <3> QED
      BY <2>2, <2>3, <3>1 DEF ReplyInv, ReplyActsThenSaves
  <2> QED
    BY <2>4, <2>5, <2>6, <2>7, <2>8 DEF ReplyInv
<1> QED
  BY <1>1, <1>2 DEF CloseReply

LEMMA FailReplyKeeps ==
  ASSUME ReplyInv, NEW h \in Repliers, FailReply(h)
  PROVE  ReplyInv'
<1>t. ReplyTypeOK
  BY DEF ReplyInv
<1>u. /\ replyFailures' = replyFailures + 1 /\ reply' = [reply EXCEPT ![h] = NoReply]
      /\ UNCHANGED <<campaign, client, recipient, chat, answered, takings, rivalled,
                     nobodyPicked, managed, replyCrashes>>
  BY DEF FailReply, replyDb
<1>1. ReplyIs(h, NoReply)
  BY <1>t, <1>u, NoReplyIs, ReplySet
<1>2. replyFailures' \in Nat /\ replyFailures' # 0
  BY <1>t, <1>u, ReplyTypes
<1>3. ReplyTypeOK'
  BY <1>t, <1>u, <1>1, <1>2, ReplyTypes, ReplyTypeStep DEF ReplyIs, ReplyTypeOK
<1>4. AnswerNamesTheOwner' /\ HandledIsInChat' /\ RecoveryHasSeller'
  BY <1>u DEF ReplyInv, AnswerNamesTheOwner, HandledIsInChat, RecoveryHasSeller
<1>5. ReplyUnderWay'
  BY <1>u, <1>1, NoReplyIs DEF ReplyInv, ReplyUnderWay, ReplyIs, Busy, RepliedPlaces
<1>6. ReplyIsAlone'
  BY <1>u, <1>1, NoReplyIs DEF ReplyInv, ReplyIsAlone, ReplyIs, Busy, RepliedPlaces
<1>7. ReplyActsThenSaves'
  BY <1>2 DEF ReplyActsThenSaves
<1> QED
  BY <1>3, <1>4, <1>5, <1>6, <1>7 DEF ReplyInv

LEMMA ManageKeeps ==
  ASSUME ReplyInv, Manage
  PROVE  ReplyInv'
<1>t. ReplyTypeOK /\ client \in ClientDocs /\ managed \in Nat /\ rivalled \in BOOLEAN
  BY ReplyTypes DEF ReplyInv
<1>u. /\ managed' = managed + 1
      /\ rivalled' = (rivalled \/ \E h \in Repliers : Busy(h))
      /\ UNCHANGED <<campaign, recipient, chat, reply, answered, takings, nobodyPicked,
                     replyFailures, replyCrashes>>
  BY DEF Manage
<1>1. /\ client' \in ClientDocs
      /\ client.assigned # NoSeller => client'.assigned # NoSeller
  <2>1. ASSUME NEW v \in Sellers, client' = [client EXCEPT !.assigned = v]
        PROVE  client' \in ClientDocs /\ client'.assigned # NoSeller
    BY <1>t, <2>1, ReplyAssumption DEF ClientDocs
  <2>2. ASSUME NEW s \in ReplySteps, client' = [client EXCEPT !.step = s]
        PROVE  client' \in ClientDocs /\ client'.assigned = client.assigned
    BY <1>t, <2>2 DEF ClientDocs
  <2> QED
    BY <2>1, <2>2 DEF Manage
<1>2. ReplyTypeOK'
  <2>1. managed' \in Nat /\ rivalled' \in BOOLEAN
    BY <1>t, <1>u
  <2> QED
    BY <1>t, <1>u, <1>1, <2>1, ReplyTypes, ReplyTypeStep DEF ReplyTypeOK
<1>3. ~rivalled' => ~rivalled /\ \A h \in Repliers : ~Busy(h)
  BY <1>u
<1>4. AnswerNamesTheOwner' /\ HandledIsInChat' /\ RecoveryHasSeller'
  BY <1>u, <1>1, <1>3 DEF ReplyInv, AnswerNamesTheOwner, HandledIsInChat, RecoveryHasSeller
<1>5. ReplyUnderWay'
  BY <1>u, <1>1 DEF ReplyInv, ReplyUnderWay, Busy
<1>6. ReplyIsAlone'
  BY <1>u, <1>3 DEF ReplyInv, ReplyIsAlone, Busy, RepliedPlaces
<1>7. ReplyActsThenSaves'
  BY <1>u, <1>3 DEF ReplyInv, ReplyActsThenSaves, Busy
<1> QED
  BY <1>2, <1>4, <1>5, <1>6, <1>7 DEF ReplyInv

LEMMA ReplyCrashKeeps ==
  ASSUME ReplyInv, ReplyCrash
  PROVE  ReplyInv'
<1>t. ReplyTypeOK
  BY DEF ReplyInv
<1>u. /\ replyCrashes' = replyCrashes + 1 /\ reply' = [h \in Repliers |-> NoReply]
      /\ UNCHANGED <<campaign, client, recipient, chat, answered, takings, rivalled,
                     nobodyPicked, managed, replyFailures>>
  BY DEF ReplyCrash, replyDb
<1>1. reply' \in [Repliers -> ReplyRecords] /\ \A h \in Repliers : reply'[h] = NoReply
  BY <1>u, NoReplyIs
<1>2. replyCrashes' \in Nat /\ replyCrashes' # 0
  BY <1>t, <1>u, ReplyTypes
<1>3. ReplyTypeOK'
  BY <1>t, <1>u, <1>1, <1>2, ReplyTypes, ReplyTypeStep DEF ReplyTypeOK
<1>4. AnswerNamesTheOwner' /\ HandledIsInChat' /\ RecoveryHasSeller'
  BY <1>u DEF ReplyInv, AnswerNamesTheOwner, HandledIsInChat, RecoveryHasSeller
<1>5. ReplyUnderWay' /\ ReplyIsAlone'
  BY <1>u, <1>1, NoReplyIs DEF ReplyUnderWay, ReplyIsAlone, Busy, RepliedPlaces
<1>6. ReplyActsThenSaves'
  BY <1>2 DEF ReplyActsThenSaves
<1> QED
  BY <1>3, <1>4, <1>5, <1>6 DEF ReplyInv

\* A reply acts once, names the seller in charge, and is handled only when all is done,
\* for any number of replies, handlers, sellers and crashes.
THEOREM ReplyIsCorrect == ReplySpec => []ReplyCorrect
<1>1. ReplyInit => ReplyInv
  <2> SUFFICES ASSUME ReplyInit PROVE ReplyInv
    OBVIOUS
  <2>1. reply \in [Repliers -> ReplyRecords] /\ \A h \in Repliers : reply[h] = NoReply
    BY NoReplyIs DEF ReplyInit
  <2>2. ReplyTypeOK
    <3>1. 0 \in Nat
      OBVIOUS
    <3>2. /\ campaign \in [type : {"standard", "recovery_potential"}, advances : BOOLEAN]
          /\ client \in [assigned : Sellers \cup {NoSeller}, step : ReplySteps]
          /\ recipient \in [handled : BOOLEAN,
               outcome : {"none", "reply_logged", "preserved_assignee", "assigned_ventor",
                          "reassigned_ventor", "step_advanced"}]
      BY DEF ReplyInit, ReplySteps
    <3>3. reply \in [Repliers ->
            [at : {"idle", "read", "assign", "advance", "answer", "chat", "save"},
             message : Replies \cup {0}, assigned : Sellers \cup {NoSeller}, step : ReplySteps,
             kind : {"none", "preserve", "assign"},
             outcome : {"reply_logged", "preserved_assignee", "assigned_ventor",
                        "reassigned_ventor", "step_advanced"}]]
      BY <2>1 DEF ReplyRecords, ReplyPlaces, ReplyOutcomes
    <3>4. chat = {} /\ answered = {} /\ takings = 0 /\ rivalled = FALSE /\ nobodyPicked = FALSE
          /\ managed = 0 /\ replyFailures = 0 /\ replyCrashes = 0
      BY DEF ReplyInit
    <3> QED
      BY <3>1, <3>2, <3>3, <3>4 DEF ReplyTypeOK
  <2>3. AnswerNamesTheOwner /\ HandledIsInChat /\ RecoveryHasSeller
    BY DEF ReplyInit, AnswerNamesTheOwner, HandledIsInChat, RecoveryHasSeller
  <2>4. ReplyUnderWay /\ ReplyIsAlone /\ ReplyActsThenSaves
    BY <2>1, NoReplyIs DEF ReplyInit, ReplyUnderWay, ReplyIsAlone, ReplyActsThenSaves, Busy,
       RepliedPlaces
  <2> QED
    BY <2>2, <2>3, <2>4 DEF ReplyInv
<1>2. ReplyInv /\ [ReplyNext]_replyVars => ReplyInv'
  <2> SUFFICES ASSUME ReplyInv, [ReplyNext]_replyVars PROVE ReplyInv'
    OBVIOUS
  <2>1. CASE UNCHANGED replyVars
    BY <2>1 DEF replyVars, replyDb, replyHistory, ReplyInv, ReplyTypeOK, AnswerNamesTheOwner,
      HandledIsInChat, RecoveryHasSeller, ReplyUnderWay, ReplyIsAlone, ReplyActsThenSaves, Busy
  <2> QED
    BY <2>1, TakeReplyKeeps, ReadClientKeeps, AssignSellerKeeps, AdvanceStepKeeps, AnswerKeeps,
      CloseReplyKeeps, FailReplyKeeps, ManageKeeps, ReplyCrashKeeps DEF ReplyNext
<1>3. ReplyInv => ReplyCorrect
  <2> SUFFICES ASSUME ReplyInv PROVE ReplyCorrect
    OBVIOUS
  <2>1. ReplyActsOnce
    <3> SUFFICES ASSUME ~rivalled, replyCrashes + replyFailures = 0
                 PROVE  takings <= 1 /\ Cardinality(answered) <= 1
      BY DEF ReplyActsOnce
    <3>1. replyCrashes \in Nat /\ replyFailures \in Nat
      BY ReplyTypes DEF ReplyInv
    <3>2. replyCrashes = 0 /\ replyFailures = 0
      BY <3>1
    <3>3. takings <= 1 /\ (answered = {} \/ \E a \in answered : answered = {a})
      BY <3>2 DEF ReplyInv, ReplyActsThenSaves
    <3>4. Cardinality(answered) = 0 \/ Cardinality(answered) = 1
      BY <3>3, FS_EmptySet, FS_Singleton
    <3> QED
      BY <3>3, <3>4
  <2> QED
    BY <2>1 DEF ReplyInv, ReplyCorrect
<1> QED
  BY <1>1, <1>2, <1>3, PTL DEF ReplySpec

-----------------------------------------------------------------------------
(* The staff report: rows that were true of the moment they were made at     *)

StaffPhases == {"idle", "customers", "calls", "attendance", "done"}
CallCountType == [totalCalls : Nat, answered : Nat, dontAnswered : Nat, failed : Nat]
AttendanceType ==
  [attendedCount : Nat, unattendedCount : Nat,
   timesToAttend : SUBSET {a - l : a \in Times, l \in Times}]
StaffRowType ==
  [user : Staff, customers : SUBSET Clients,
   steps : UNION {[columns -> Nat] : columns \in SUBSET Stages},
   calls : CallCountType, attendance : AttendanceType]
ReportType ==
  [at : StaffPhases, staff : Seq(Staff), columns : SUBSET Stages,
   rows : Seq(StaffRowType), shaken : BOOLEAN]
ListType ==
  [to : Staff \cup {NoMember}, open : SUBSET {"page", "total", "summary"},
   items : Nat, total : Nat, attended : Nat, shaken : BOOLEAN]

\* Where the report is.  Each member is in it once, the one it is about has a row
\* already or has a row to come.
ReportStands ==
  /\ report \in ReportType
  /\ report.at = "idle" => report.rows = <<>>
  /\ report.at = "customers" => Len(report.rows) < Len(report.staff)
  /\ report.at \in {"calls", "attendance"} => report.rows # <<>>
  /\ \A i, j \in DOMAIN report.staff : report.staff[i] = report.staff[j] => i = j
  /\ IsFiniteSet(report.columns)

\* The attendance of a row has been looked up.
Attended(i) == i < Len(report.rows) \/ report.at \notin {"calls", "attendance"}

\* What a row says adds up; and as long as nothing changes it goes on being true.
RowFits(i) ==
  LET row == report.rows[i] IN
  /\ row.user = report.staff[i]
  /\ IsFiniteSet(row.customers)
  /\ row.steps \in [report.columns -> Nat]
  /\ SumOver(row.steps, report.columns) <= Cardinality(row.customers)
  /\ row.calls.totalCalls = row.calls.answered + row.calls.dontAnswered + row.calls.failed
  /\ ~report.shaken => row.customers = AssignedCustomers(row.user)
  /\ (~report.shaken /\ Attended(i)) => row.attendance = Attendance(row.user)

\* Whoever has a customer was given him, at the time the customer says unless that
\* was renewed.
Backs(i, c) ==
  /\ changeLog[i].client = c /\ changeLog[i].to = holding[c].to
  /\ ~refreshed => changeLog[i].saved = holding[c].since
HoldingsBacked ==
  \A c \in Clients : holding[c].to # NoMember => \E i \in DOMAIN changeLog : Backs(i, c)

\* Each answer that the list has is still the answer, as long as nothing changes.
ListFits ==
  /\ list \in ListType
  /\ list.to = NoMember => list = NoList
  /\ (list.to # NoMember /\ ~list.shaken) =>
       /\ "page" \notin list.open => list.items = Cardinality(RowsOf(list.to))
       /\ "total" \notin list.open => list.total = Cardinality(RowsOf(list.to))
       /\ "summary" \notin list.open => list.attended = Cardinality(AttendedOf(list.to))

StaffInv ==
  /\ StaffTypeOK /\ ReportStands
  /\ \A i \in DOMAIN report.rows : RowFits(i)
  /\ HoldingsBacked /\ ListFits

\* Two members of the staff, or one who is named twice.
Firsts(out, id) == IF id \in {out[i] : i \in DOMAIN out} THEN out ELSE Append(out, id)
Biggest(S) == CHOOSE x \in S : \A y \in S : x >= y

LEMMA StaffMembersAre ==
  ASSUME NEW u, NEW v
  PROVE  StaffMembers(<<u, v>>) = IF u = v THEN <<u>> ELSE <<u, v>>
  <1> DEFINE f == <<u, v>>
             Step(F, s) == IF s = {} THEN <<>>
                           ELSE Firsts(F[s \ {Biggest(s)}], f[Biggest(s)])
             Both == IF u = v THEN <<u>> ELSE <<u, v>>
             W == [s \in SUBSET {1, 2} |->
                     IF s = {} THEN <<>> ELSE IF s = {1} THEN <<u>>
                     ELSE IF s = {2} THEN <<v>> ELSE Both]
             F == CHOOSE F : F = [s \in SUBSET {1, 2} |-> Step(F, s)]
  <1>1. StaffMembers(f) = F[{1, 2}]
    <2>1. DOMAIN f = {1, 2}
      OBVIOUS
    <2>2. StaffMembers(f) = (CHOOSE G : G = [s \in SUBSET DOMAIN f |-> Step(G, s)])[DOMAIN f]
      BY DEF StaffMembers, Seqs!FoldLeft, Seqs!MapThenFoldSet, Seqs!ToSet, Seqs!Max,
        Firsts, Biggest
    <2> QED
      BY <2>1, <2>2
  <1>2. /\ {1, 2} # {} /\ {1} # {} /\ {2} # {} /\ {1, 2} # {1} /\ {1, 2} # {2} /\ {1} # {2}
        /\ Biggest({1, 2}) = 2 /\ Biggest({1}) = 1 /\ Biggest({2}) = 2
        /\ {1, 2} \ {2} = {1} /\ {1} \ {1} = {} /\ {2} \ {2} = {}
        /\ \A s \in SUBSET {1, 2} : s \in {{}, {1}, {2}, {1, 2}}
    <2>1. Biggest({1, 2}) = 2
      BY DEF Biggest
    <2>2. Biggest({1}) = 1 /\ Biggest({2}) = 2
      BY DEF Biggest
    <2>3. /\ {1, 2} # {} /\ {1} # {} /\ {2} # {} /\ {1, 2} # {1} /\ {1, 2} # {2} /\ {1} # {2}
      OBVIOUS
    <2>4. {1, 2} \ {2} = {1} /\ {1} \ {1} = {} /\ {2} \ {2} = {}
      OBVIOUS
    <2>5. ASSUME NEW s \in SUBSET {1, 2} PROVE s \in {{}, {1}, {2}, {1, 2}}
      <3>1. CASE 1 \in s
        <4>1. CASE 2 \in s
          BY <3>1, <4>1
        <4>2. CASE 2 \notin s
          <5>1. s = {1}
            BY <3>1, <4>2
          <5> QED
            BY <5>1
        <4> QED
          BY <4>1, <4>2
      <3>2. CASE 1 \notin s
        <4>1. CASE 2 \in s
          <5>1. s = {2}
            BY <3>2, <4>1
          <5> QED
            BY <5>1
        <4>2. CASE 2 \notin s
          <5>1. s = {}
            BY <3>2, <4>2
          <5> QED
            BY <5>1
        <4> QED
          BY <4>1, <4>2
      <3> QED
        BY <3>1, <3>2
    <2> QED
      BY <2>1, <2>2, <2>3, <2>4, <2>5
  <1>3. \A x : Firsts(<<>>, x) = <<x>>
    BY DEF Firsts
  <1>4. Firsts(<<u>>, v) = Both
    <2> DEFINE out == <<u>>
    <2>1. DOMAIN out = {1} /\ out[1] = u
      OBVIOUS
    <2>2. Append(out, v) = <<u, v>>
      <3>1. out \in Seq({u, v}) /\ <<u, v>> \in Seq({u, v}) /\ v \in {u, v} /\ Len(out) = 1
        OBVIOUS
      <3>2. /\ Append(out, v) \in Seq({u, v}) /\ Len(Append(out, v)) = 2
            /\ Append(out, v)[1] = u /\ Append(out, v)[2] = v
        <4> DEFINE Pair == {u, v}
        <4> HIDE DEF out
        <4>1. out \in Seq(Pair) /\ v \in Pair
          BY <3>1
        <4> HIDE DEF Pair
        <4>2. /\ Append(out, v) \in Seq(Pair) /\ Len(Append(out, v)) = Len(out) + 1
              /\ \A i \in 1..Len(out) : Append(out, v)[i] = out[i]
              /\ Append(out, v)[Len(out) + 1] = v
          BY <4>1, AppendProperties
        <4>3. Append(out, v) \in Seq({u, v})
          BY <4>2 DEF Pair
        <4> QED
          BY <4>2, <4>3, <2>1, <3>1
      <3> DEFINE both == <<u, v>>
      <3>3. Len(both) = 2 /\ both[1] = u /\ both[2] = v
        OBVIOUS
      <3> HIDE DEF both, out
      <3>4. both \in Seq({u, v})
        BY <3>1 DEF both
      <3>5. \A i \in 1..2 : Append(out, v)[i] = both[i]
        BY <3>2, <3>3
      <3>6. Append(out, v) = both
        BY <3>2, <3>3, <3>4, <3>5, SeqEqual
      <3> QED
        BY <3>6 DEF both
    <2> HIDE DEF out
    <2>3. {out[i] : i \in DOMAIN out} = {u}
      BY <2>1
    <2>4. Firsts(out, v) = IF v = u THEN out ELSE <<u, v>>
      BY <2>2, <2>3 DEF Firsts
    <2> QED
      BY <2>4 DEF out
  <1>5. f[1] = u /\ f[2] = v
    OBVIOUS
  <1> HIDE DEF f, Both
  <1>6. /\ W[{}] = <<>> /\ W[{1}] = <<u>> /\ W[{2}] = <<v>> /\ W[{1, 2}] = Both
    BY <1>2
  <1>7. \A s \in SUBSET {1, 2} : W[s] = Step(W, s)
    <2> SUFFICES ASSUME NEW s \in SUBSET {1, 2} PROVE W[s] = Step(W, s)
      OBVIOUS
    <2> HIDE DEF W
    <2>1. CASE s = {}
      BY <2>1, <1>6
    <2>2. CASE s = {1}
      <3>1. Step(W, {1}) = Firsts(W[{}], f[1])
        BY <1>2
      <3>2. Firsts(W[{}], f[1]) = W[{1}]
        BY <1>3, <1>5, <1>6
      <3> QED
        BY <2>2, <3>1, <3>2
    <2>3. CASE s = {2}
      <3>1. Step(W, {2}) = Firsts(W[{}], f[2])
        BY <1>2
      <3>2. Firsts(W[{}], f[2]) = W[{2}]
        BY <1>3, <1>5, <1>6
      <3> QED
        BY <2>3, <3>1, <3>2
    <2>4. CASE s = {1, 2}
      <3>1. Step(W, {1, 2}) = Firsts(W[{1}], f[2])
        BY <1>2
      <3>2. Firsts(W[{1}], f[2]) = W[{1, 2}]
        BY <1>4, <1>5, <1>6
      <3> QED
        BY <2>4, <3>1, <3>2
    <2> QED
      BY <2>1, <2>2, <2>3, <2>4, <1>2
  <1>8. W = [s \in SUBSET {1, 2} |-> Step(W, s)]
    <2> HIDE DEF Step
    <2> QED
      BY <1>7
  <1>9. F = [s \in SUBSET {1, 2} |-> Step(F, s)]
    <2> HIDE DEF W, Step
    <2> QED
      BY <1>8
  <1> HIDE DEF F, W
  <1>10. \A s \in SUBSET {1, 2} : F[s] = Step(F, s)
    <2> HIDE DEF Step
    <2> QED
      BY <1>9
  <1>11. F[{}] = <<>>
    BY <1>10
  <1>12. F[{1}] = <<u>>
    BY <1>2, <1>3, <1>5, <1>10, <1>11
  <1>13. F[{1, 2}] = Both
    BY <1>2, <1>4, <1>5, <1>10, <1>12
  <1> QED
    BY <1>1, <1>13 DEF f, Both

\* The columns of a row count customers of the row, and each of them once.
LEMMA StepsWithin ==
  ASSUME NEW columns, IsFiniteSet(columns), NEW customers, IsFiniteSet(customers)
  PROVE  /\ StepCounts(columns, customers) \in [columns -> Nat]
         /\ SumOver(StepCounts(columns, customers), columns) <= Cardinality(customers)
  <1> DEFINE v == StepCounts(columns, customers)
             With(T) == {c \in customers : holding[c].stage \in T}
             Of(s) == {c \in customers : holding[c].stage = s}
             B == {T \in SUBSET columns : ~ (SumOver(v, T) <= Cardinality(With(T)))}
  <1>1. /\ \A s : IsFiniteSet(Of(s)) /\ Cardinality(Of(s)) \in Nat
        /\ \A T : IsFiniteSet(With(T)) /\ Cardinality(With(T)) \in Nat
                  /\ Cardinality(With(T)) <= Cardinality(customers)
    BY FS_Subset, FS_CardinalityType
  <1>2. /\ v \in [columns -> Nat]
        /\ \A s \in columns : v[s] = Cardinality(Of(s))
    BY <1>1 DEF StepCounts
  <1> HIDE DEF v
  <1>3. ASSUME NEW T \in SUBSET columns
        PROVE  /\ IsFiniteSet(T) /\ SumOver(v, T) \in Nat
               /\ T = {} => SumOver(v, T) = 0
               /\ \A x \in T : SumOver(v, T) = v[x] + SumOver(v, T \ {x})
    <2>1. IsFiniteSet(T)
      BY FS_Subset
    <2>2. \A x \in T : v[x] \in Nat
      BY <1>2
    <2> QED
      BY <2>1, <2>2, SumFacts
  <1>4. ASSUME B # {} PROVE FALSE
    <2>1. PICK T \in B : \A x \in T : T \ {x} \notin B
      <3> HIDE DEF B
      <3>1. B \subseteq SUBSET columns
        BY DEF B
      <3> QED
        BY <1>4, <3>1, LeastSubset
    <2>2. T # {}
      BY <1>1, <1>3, <2>1
    <2>3. PICK x \in T : TRUE
      BY <2>2
    <2> DEFINE R == T \ {x}
    <2>4. R \in SUBSET columns /\ SumOver(v, R) <= Cardinality(With(R))
      BY <2>1, <2>3
    <2>5. Cardinality(With(T)) = Cardinality(With(R)) + Cardinality(Of(x))
      <3>1. With(T) = With(R) \cup Of(x) /\ With(R) \cap Of(x) = {}
        BY <2>3
      <3>2. Cardinality(With(R) \cup Of(x))
              = Cardinality(With(R)) + Cardinality(Of(x)) - Cardinality(With(R) \cap Of(x))
        BY <1>1, FS_Union
      <3>3. Cardinality(With(R) \cap Of(x)) = 0
        BY <3>1, FS_EmptySet
      <3> HIDE DEF With, Of, R
      <3> QED
        BY <3>1, <3>2, <3>3, <1>1
    <2>6. SumOver(v, T) = v[x] + SumOver(v, R) /\ v[x] = Cardinality(Of(x))
      BY <1>2, <1>3, <2>1, <2>3
    <2>7. ~ (SumOver(v, T) <= Cardinality(With(T)))
      BY <2>1
    <2>8. SumOver(v, R) \in Nat
      BY <1>3, <2>4
    <2> HIDE DEF With, Of, R
    <2> QED
      BY <1>1, <2>4, <2>5, <2>6, <2>7, <2>8
  <1>5. SumOver(v, columns) <= Cardinality(With(columns))
    <2>1. columns \in SUBSET columns
      OBVIOUS
    <2> QED
      BY <1>4, <2>1
  <1>6. SumOver(v, columns) \in Nat
    BY <1>3
  <1>7. SumOver(v, columns) <= Cardinality(customers)
    <2>1. Cardinality(With(columns)) \in Nat /\ Cardinality(With(columns)) <= Cardinality(customers)
      BY <1>1
    <2>2. Cardinality(customers) \in Nat
      BY FS_CardinalityType
    <2> HIDE DEF With
    <2> QED
      BY <2>1, <2>2, <1>5, <1>6
  <1> QED
    BY <1>2, <1>7 DEF v

\* What MapThenSumSet adds up for a row.
LEMMA ColumnsAreSum ==
  ASSUME NEW v, NEW S
  PROVE  MapThenSumSet(LAMBDA s : v[s], S) = SumOver(v, S)
  <1> DEFINE Step(F, s) == IF s = {} THEN 0 ELSE v[CHOOSE r \in s : TRUE]
                                                 + F[s \ {CHOOSE r \in s : TRUE}]
  <1>1. MapThenSumSet(LAMBDA s : v[s], S) = (CHOOSE F : F = [s \in SUBSET S |-> Step(F, s)])[S]
    BY DEF MapThenSumSet, MapThenFoldSet
  <1>2. SumOver(v, S) = (CHOOSE F : F = [s \in SUBSET S |-> Step(F, s)])[S]
    BY DEF SumOver, Sums, One
  <1> QED
    BY <1>1, <1>2

-----------------------------------------------------------------------------
(* What a member of the staff is asked about                                 *)

\* A row of the log of assignments, and a call.
AssignmentRow ==
  [client : Clients, to : Staff \cup {NoMember}, saved : Times, logged : Times, attended : Times]
CallRow == [by : Staff, time : Times, outcome : Outcomes]

LEMMA SeqIs ==
  ASSUME NEW S, NEW s \in Seq(S)
  PROVE  /\ Len(s) \in Nat /\ DOMAIN s = 1..Len(s) /\ s \in [1..Len(s) -> S]
         /\ \A i \in DOMAIN s : s[i] \in S
  OBVIOUS

LEMMA LogsAre ==
  ASSUME StaffTypeOK
  PROVE  /\ changeLog \in Seq(AssignmentRow) /\ callLog \in Seq(CallRow)
         /\ \A i \in DOMAIN changeLog : changeLog[i] \in AssignmentRow
         /\ \A i \in DOMAIN callLog : callLog[i] \in CallRow
  <1>1. changeLog \in Seq(AssignmentRow) /\ callLog \in Seq(CallRow)
    BY DEF StaffTypeOK, AssignmentRow, CallRow
  <1> QED
    BY <1>1, SeqIs

\* The sets that are counted are finite.
LEMMA CountsAreFinite ==
  ASSUME StaffTypeOK, HoldingsBacked
  PROVE  /\ \A u \in Staff : IsFiniteSet(AssignedCustomers(u))
         /\ \A u : /\ IsFiniteSet(RowsOf(u)) /\ IsFiniteSet(AttendedOf(u))
                   /\ IsFiniteSet(CallsOf(u)) /\ AttendedOf(u) \subseteq RowsOf(u)
  <1> DEFINE n == Len(changeLog)
             Given == {changeLog[i].client : i \in 1..n}
  <1>1. /\ n \in Nat /\ DOMAIN changeLog = 1..n
        /\ Len(callLog) \in Nat /\ DOMAIN callLog = 1..Len(callLog)
    BY DEF StaffTypeOK
  <1>2. IsFiniteSet(1..n) /\ IsFiniteSet(1..Len(callLog))
    BY <1>1, FS_Interval
  <1>3. IsFiniteSet(Given)
    <2> DEFINE f == [i \in 1..n |-> changeLog[i].client]
    <2>1. f \in Surjection(1..n, Given)
      BY DEF Surjection
    <2> QED
      BY <1>2, <2>1, FS_Surjection
  <1>4. ASSUME NEW u \in Staff PROVE IsFiniteSet(AssignedCustomers(u))
    <2>1. u # NoMember
      BY StaffAssumption
    <2>2. AssignedCustomers(u) \subseteq Given
      BY <2>1, <1>1 DEF AssignedCustomers, HoldingsBacked, Backs
    <2> QED
      BY <1>3, <2>2, FS_Subset
  <1>5. ASSUME NEW u
        PROVE  /\ IsFiniteSet(RowsOf(u)) /\ IsFiniteSet(AttendedOf(u))
               /\ IsFiniteSet(CallsOf(u)) /\ AttendedOf(u) \subseteq RowsOf(u)
    <2>1. RowsOf(u) \subseteq 1..n /\ AttendedOf(u) \subseteq 1..n /\ CallsOf(u) \subseteq 1..Len(callLog)
      BY <1>1 DEF RowsOf, AttendedOf, CallsOf
    <2>2. AttendedOf(u) \subseteq RowsOf(u)
      BY DEF AttendedOf
    <2> QED
      BY <1>2, <2>1, <2>2, FS_Subset
  <1> QED
    BY <1>4, <1>5

\* A call has one of the outcomes, and each of them is under one count.
LEMMA CallsAre ==
  ASSUME StaffTypeOK, HoldingsBacked, NEW u
  PROVE  LET calls == CallCounts(u)
         IN /\ calls \in CallCountType
            /\ calls.totalCalls = calls.answered + calls.dontAnswered + calls.failed
  <1> DEFINE S == CallsOf(u)
             Of(outcomes) == {i \in S : callLog[i].outcome \in outcomes}
             A == Of({"answered"})
             D == Of(DontAnswered)
             F == Of({"failed"})
  <1>1. IsFiniteSet(S)
    BY CountsAreFinite
  <1>2. A \in SUBSET S /\ D \in SUBSET S /\ F \in SUBSET S
    OBVIOUS
  <1>3. ASSUME NEW i \in S PROVE callLog[i].outcome \in Outcomes
    <2>1. i \in DOMAIN callLog
      BY DEF CallsOf
    <2> QED
      BY <2>1, LogsAre DEF CallRow
  <1>4. Outcomes = {"answered"} \cup DontAnswered \cup {"failed"}
        /\ "answered" \notin DontAnswered /\ "failed" \notin DontAnswered
    BY DEF Outcomes, DontAnswered
  <1>5. S = (A \cup D) \cup F /\ A \cap D = {} /\ (A \cup D) \cap F = {}
    BY <1>3, <1>4
  <1>6. CallCounts(u) = [totalCalls |-> Cardinality(S), answered |-> Cardinality(A),
                         dontAnswered |-> Cardinality(D), failed |-> Cardinality(F)]
    BY DEF CallCounts
  <1> HIDE DEF S, A, D, F
  <1>7. IsFiniteSet(A) /\ IsFiniteSet(D) /\ IsFiniteSet(F)
    BY <1>1, <1>2, FS_Subset
  <1>8. IsFiniteSet(A \cup D) /\ Cardinality(A \cup D) = Cardinality(A) + Cardinality(D) - Cardinality(A \cap D)
    BY <1>7, FS_Union
  <1>9. Cardinality(S) = Cardinality(A \cup D) + Cardinality(F) - Cardinality((A \cup D) \cap F)
    BY <1>5, <1>7, <1>8, FS_Union
  <1>10. Cardinality(A \cap D) = 0 /\ Cardinality((A \cup D) \cap F) = 0
    BY <1>5, FS_EmptySet
  <1>11. /\ Cardinality(S) \in Nat /\ Cardinality(A) \in Nat
         /\ Cardinality(D) \in Nat /\ Cardinality(F) \in Nat
    BY <1>1, <1>7, FS_CardinalityType
  <1> QED
    BY <1>6, <1>8, <1>9, <1>10, <1>11 DEF CallCountType

\* A row of the log is attended or not.
LEMMA AttendanceIs ==
  ASSUME StaffTypeOK, HoldingsBacked, NEW u
  PROVE  /\ Attendance(u) \in AttendanceType
         /\ Attendance(u).attendedCount + Attendance(u).unattendedCount = Cardinality(RowsOf(u))
  <1> DEFINE R == RowsOf(u)
             A == AttendedOf(u)
             times == {changeLog[i].attended - changeLog[i].logged : i \in A}
  <1>1. IsFiniteSet(R) /\ IsFiniteSet(A) /\ A \subseteq R
    BY CountsAreFinite
  <1>2. times \subseteq {a - l : a \in Times, l \in Times}
    <2>1. ASSUME NEW i \in A
          PROVE  changeLog[i].attended \in Times /\ changeLog[i].logged \in Times
      <3>1. i \in DOMAIN changeLog
        BY DEF AttendedOf, RowsOf
      <3> QED
        BY <3>1, LogsAre DEF AssignmentRow
    <2> QED
      BY <2>1
  <1>3. Attendance(u) = [attendedCount |-> Cardinality(A), unattendedCount |-> Cardinality(R \ A),
                         timesToAttend |-> times]
    BY DEF Attendance
  <1> HIDE DEF R, A, times
  <1>4. IsFiniteSet(R \ A) /\ Cardinality(R \ A) = Cardinality(R) - Cardinality(R \cap A)
    BY <1>1, FS_Difference
  <1>5. R \cap A = A
    BY <1>1
  <1>6. Cardinality(R) \in Nat /\ Cardinality(A) \in Nat /\ Cardinality(R \ A) \in Nat
    BY <1>1, <1>4, FS_CardinalityType
  <1>7. Attendance(u) \in AttendanceType
    BY <1>2, <1>3, <1>6 DEF AttendanceType
  <1>8. Cardinality(A) + Cardinality(R \ A) = Cardinality(R)
    <2>1. Cardinality(R \cap A) = Cardinality(A)
      BY <1>5
    <2> QED
      BY <1>4, <1>6, <2>1
  <1> QED
    BY <1>3, <1>7, <1>8 DEF R

-----------------------------------------------------------------------------
(* One lemma per kind of step                                                *)

LEMMA StaffStarts == StaffInit => StaffInv
  <1> SUFFICES ASSUME StaffInit PROVE StaffInv
    OBVIOUS
  <1>1. LastTime \in Nat /\ LastTime > 0
    BY StaffAssumption
  <1>2. 0 \in Times /\ 1 \in Times
    BY <1>1 DEF Times
  <1>3. report = NoReport /\ list = NoList
    BY DEF StaffInit
  <1>4. StaffTypeOK
    <2>1. holding \in [Clients -> [to : Staff \cup {NoMember}, since : Times,
                                   stage : Stages \cup {NoMember}, enabled : BOOLEAN]]
      BY <1>2 DEF StaffInit
    <2>2. time \in Times /\ changeLog = <<>> /\ callLog = <<>> /\ refreshed = FALSE /\ changed = 0
      BY <1>2 DEF StaffInit
    <2>3. /\ report.at = "idle" /\ report.staff = <<>> /\ report.columns = {} /\ report.rows = <<>>
          /\ report.shaken = FALSE /\ list.to = NoMember /\ list.items = 0 /\ list.total = 0
          /\ list.attended = 0 /\ list.shaken = FALSE
      BY <1>3 DEF NoReport, NoList
    <2>4. changeLog \in Seq(AssignmentRow) /\ callLog \in Seq(CallRow) /\ report.staff \in Seq(Staff)
      BY <2>2, <2>3, EmptySeq
    <2>5. Len(report.rows) <= Len(report.staff)
      BY <2>3
    <2>6. /\ report.at \in {"idle", "customers", "calls", "attendance", "done"}
          /\ report.columns \subseteq Stages
          /\ list.to \in Staff \cup {NoMember} /\ {list.items, list.total, list.attended} \subseteq Nat
          /\ changed \in Nat
      BY <2>2, <2>3
    <2>8. {report.shaken, list.shaken, refreshed} \subseteq BOOLEAN
      BY <2>2, <2>3
    <2>7. time \in Times
      BY <2>2
    <2> QED
      BY <2>1, <2>4, <2>5, <2>6, <2>7, <2>8 DEF StaffTypeOK, AssignmentRow, CallRow
  <1>5. ReportStands
    BY <1>3, FS_EmptySet DEF ReportStands, ReportType, NoReport, StaffPhases
  <1>6. \A i \in DOMAIN report.rows : RowFits(i)
    BY <1>3 DEF NoReport
  <1>7. HoldingsBacked
    BY DEF StaffInit, HoldingsBacked
  <1>8. ListFits
    BY <1>3 DEF ListFits, ListType, NoList
  <1> QED
    BY <1>4, <1>5, <1>6, <1>7, <1>8 DEF StaffInv

\* Something changes: what is reported of it is not true any more, but it is marked.
LEMMA DisturbedKeeps ==
  ASSUME StaffInv, Awaited, HoldingsBacked',
         time' \in Times,
         holding' \in [Clients -> [to : Staff \cup {NoMember}, since : Times,
                                   stage : Stages \cup {NoMember}, enabled : BOOLEAN]],
         changeLog' \in Seq(AssignmentRow),
         callLog' \in Seq(CallRow),
         refreshed' \in BOOLEAN, changed' \in Nat,
         report' = [report EXCEPT !.shaken = @ \/ Reporting],
         list' = [list EXCEPT !.shaken = @ \/ list.open # {}]
  PROVE  StaffInv'
  <1>1. StaffTypeOK /\ ReportStands /\ ListFits /\ (\A i \in DOMAIN report.rows : RowFits(i))
    BY DEF StaffInv
  <1>2. report \in ReportType /\ list \in ListType
    BY <1>1 DEF ReportStands, ListFits
  <1>3. /\ report' \in ReportType /\ report'.at = report.at /\ report'.staff = report.staff
        /\ report'.columns = report.columns /\ report'.rows = report.rows
        /\ report'.shaken = (report.shaken \/ Reporting)
    BY <1>2 DEF ReportType, Reporting
  <1>4. /\ list' \in ListType /\ list'.to = list.to /\ list'.open = list.open
        /\ list'.items = list.items /\ list'.total = list.total /\ list'.attended = list.attended
        /\ list'.shaken = (list.shaken \/ list.open # {})
    BY <1>2 DEF ListType
  <1>5. StaffTypeOK'
    <2>1. {report'.shaken, list'.shaken, refreshed'} \subseteq BOOLEAN
      BY <1>3, <1>4 DEF ReportType, ListType
    <2>2. list'.to \in Staff \cup {NoMember} /\ {list'.items, list'.total, list'.attended} \subseteq Nat
      BY <1>4 DEF ListType
    <2> QED
      BY <1>1, <1>3, <2>1, <2>2 DEF StaffTypeOK, Times, AssignmentRow, CallRow
  <1>6. ReportStands'
    BY <1>1, <1>3 DEF ReportStands
  <1>7. ASSUME NEW i \in DOMAIN report'.rows PROVE RowFits(i)'
    <2>1. report.rows # <<>>
      BY <1>3, <1>7
    <2>2. Reporting
      BY <1>1, <2>1 DEF Reporting, Awaited, ReportStands
    <2>3. report'.shaken /\ RowFits(i)
      BY <1>1, <1>3, <2>2
    <2> QED
      BY <1>3, <2>3 DEF RowFits
  <1>8. ListFits'
    <2>1. ASSUME list.to = NoMember PROVE list' = NoList
      <3>1. list = NoList /\ list.open = {} /\ list.shaken = FALSE
        BY <1>1, <2>1 DEF ListFits, NoList
      <3> QED
        BY <3>1 DEF NoList
    <2>2. ASSUME list.to # NoMember PROVE list'.shaken
      BY <2>2, <1>4 DEF Awaited
    <2> QED
      BY <1>4, <2>1, <2>2 DEF ListFits
  <1> QED
    BY <1>5, <1>6, <1>7, <1>8 DEF StaffInv

\* The types of what there is.
LEMMA StaffDbTypes ==
  ASSUME StaffInv
  PROVE  /\ time \in Times
         /\ holding \in [Clients -> [to : Staff \cup {NoMember}, since : Times,
                                     stage : Stages \cup {NoMember}, enabled : BOOLEAN]]
         /\ changeLog \in Seq(AssignmentRow)
         /\ callLog \in Seq(CallRow)
         /\ refreshed \in BOOLEAN /\ changed \in Nat /\ 0 \in Times
         /\ HoldingsBacked
  BY StaffAssumption DEF StaffInv, StaffTypeOK, Times, AssignmentRow, CallRow

\* A change counts, and marks what is under way.
LEMMA ChangeKeeps ==
  ASSUME StaffInv, Change, HoldingsBacked', time' = time,
         holding' \in [Clients -> [to : Staff \cup {NoMember}, since : Times,
                                   stage : Stages \cup {NoMember}, enabled : BOOLEAN]],
         changeLog' \in Seq(AssignmentRow),
         callLog' \in Seq(CallRow),
         refreshed' \in BOOLEAN
  PROVE  StaffInv'
  <1>1. changed' \in Nat /\ time' \in Times
    BY StaffDbTypes DEF Change
  <1>2. /\ Awaited /\ report' = [report EXCEPT !.shaken = @ \/ Reporting]
        /\ list' = [list EXCEPT !.shaken = @ \/ list.open # {}]
    BY DEF Change
  <1> QED
    BY <1>1, <1>2, DisturbedKeeps

LEMMA HandOverKeeps ==
  ASSUME StaffInv, NEW c \in Clients, NEW u \in Staff \cup {NoMember}, HandOver(c, u)
  PROVE  StaffInv'
  <1> DEFINE row == [client |-> c, to |-> u, saved |-> time, logged |-> 0, attended |-> 0]
  <1>1. Change /\ holding' = [holding EXCEPT ![c].to = u, ![c].since = time]
        /\ changeLog' = Append(changeLog, row) /\ time' = time /\ callLog' = callLog
        /\ refreshed' = refreshed
    BY DEF HandOver
  <1>2. holding' \in [Clients -> [to : Staff \cup {NoMember}, since : Times,
                                  stage : Stages \cup {NoMember}, enabled : BOOLEAN]]
    BY <1>1, StaffDbTypes
  <1>3. row \in AssignmentRow /\ changeLog \in Seq(AssignmentRow)
    BY StaffDbTypes DEF AssignmentRow
  <1> DEFINE n == Len(changeLog)
  <1>4. /\ changeLog' \in Seq(AssignmentRow) /\ n \in Nat /\ DOMAIN changeLog = 1..n
        /\ DOMAIN changeLog' = 1..(n + 1)
        /\ \A i \in 1..n : changeLog'[i] = changeLog[i]
        /\ changeLog'[n + 1] = row
    <2> HIDE DEF row
    <2> QED
      BY <1>1, <1>3, AppendProperties
  <1>5. HoldingsBacked'
    <2> SUFFICES ASSUME NEW d \in Clients, holding'[d].to # NoMember
                 PROVE  \E i \in DOMAIN changeLog' : Backs(i, d)'
      BY DEF HoldingsBacked
    <2>1. CASE d = c
      <3>1. holding'[d].to = u /\ holding'[d].since = time
        BY <1>1, <2>1, StaffDbTypes
      <3>2. n + 1 \in DOMAIN changeLog'
        BY <1>4
      <3> QED
        BY <1>4, <2>1, <3>1, <3>2 DEF Backs
    <2>2. CASE d # c
      <3>1. holding'[d] = holding[d]
        BY <1>1, <2>2, StaffDbTypes
      <3>2. PICK i \in DOMAIN changeLog : Backs(i, d)
        BY <3>1, StaffDbTypes DEF HoldingsBacked
      <3>3. i \in DOMAIN changeLog' /\ changeLog'[i] = changeLog[i]
        BY <1>4, <3>2
      <3> QED
        BY <1>1, <3>1, <3>2, <3>3 DEF Backs
    <2> QED
      BY <2>1, <2>2
  <1> QED
    BY <1>1, <1>2, <1>4, <1>5, StaffDbTypes, ChangeKeeps

\* The log keeps its rows, up to when they were logged and attended.
LEMMA BackedStaysSo ==
  ASSUME HoldingsBacked,
         DOMAIN changeLog' = DOMAIN changeLog,
         \A i \in DOMAIN changeLog : /\ changeLog'[i].client = changeLog[i].client
                                     /\ changeLog'[i].to = changeLog[i].to
                                     /\ changeLog'[i].saved = changeLog[i].saved,
         \A c \in Clients : /\ holding'[c].to = holding[c].to
                            /\ refreshed' \/ holding'[c].since = holding[c].since,
         refreshed => refreshed'
  PROVE  HoldingsBacked'
  BY DEF HoldingsBacked, Backs

LEMMA RowMarkedKeeps ==
  ASSUME StaffInv, NEW i \in DOMAIN changeLog, HookLogs(i) \/ MarkRow(i)
  PROVE  StaffInv'
  <1>1. /\ \/ changeLog' = [changeLog EXCEPT ![i].logged = time]
           \/ changeLog' = [changeLog EXCEPT ![i].attended = time]
        /\ UNCHANGED <<time, holding, callLog, refreshed>>
    BY DEF HookLogs, MarkRow
  <1>2. changeLog \in Seq(AssignmentRow) /\ time \in Times
    BY StaffDbTypes
  <1>3. /\ changeLog' \in Seq(AssignmentRow) /\ DOMAIN changeLog' = DOMAIN changeLog
        /\ \A k \in DOMAIN changeLog : /\ changeLog'[k].client = changeLog[k].client
                                       /\ changeLog'[k].to = changeLog[k].to
                                       /\ changeLog'[k].saved = changeLog[k].saved
    <2>1. changeLog[i] \in AssignmentRow /\ changeLog \in [1..Len(changeLog) -> AssignmentRow]
          /\ Len(changeLog) \in Nat /\ DOMAIN changeLog = 1..Len(changeLog)
      BY <1>2, SeqIs
    <2>2. PICK row \in AssignmentRow :
             /\ changeLog' = [changeLog EXCEPT ![i] = row]
             /\ row.client = changeLog[i].client /\ row.to = changeLog[i].to
             /\ row.saved = changeLog[i].saved
      <3>1. CASE changeLog' = [changeLog EXCEPT ![i].logged = time]
        <4> DEFINE row == [changeLog[i] EXCEPT !.logged = time]
        <4>1. row \in AssignmentRow /\ row.client = changeLog[i].client /\ row.to = changeLog[i].to
              /\ row.saved = changeLog[i].saved
          BY <1>2, <2>1 DEF AssignmentRow
        <4>2. changeLog' = [changeLog EXCEPT ![i] = row]
          BY <3>1
        <4> QED
          BY <4>1, <4>2
      <3>2. CASE changeLog' = [changeLog EXCEPT ![i].attended = time]
        <4> DEFINE row == [changeLog[i] EXCEPT !.attended = time]
        <4>1. row \in AssignmentRow /\ row.client = changeLog[i].client /\ row.to = changeLog[i].to
              /\ row.saved = changeLog[i].saved
          BY <1>2, <2>1 DEF AssignmentRow
        <4>2. changeLog' = [changeLog EXCEPT ![i] = row]
          BY <3>2
        <4> QED
          BY <4>1, <4>2
      <3> QED
        BY <1>1, <3>1, <3>2
    <2>3. changeLog' \in [1..Len(changeLog) -> AssignmentRow]
      BY <2>1, <2>2
    <2>4. changeLog' \in Seq(AssignmentRow)
      BY <2>1, <2>3
    <2> QED
      BY <2>1, <2>2, <2>4
  <1>4. HoldingsBacked'
    BY <1>1, <1>3, StaffDbTypes, BackedStaysSo
  <1>5. CASE MarkRow(i)
    BY <1>1, <1>3, <1>4, <1>5, StaffDbTypes, ChangeKeeps DEF MarkRow
  <1>6. CASE HookLogs(i)
    <2>1. /\ Awaited /\ report' = [report EXCEPT !.shaken = @ \/ Reporting]
          /\ list' = [list EXCEPT !.shaken = @ \/ list.open # {}] /\ changed' = changed
      BY <1>6 DEF HookLogs
    <2> QED
      BY <1>1, <1>3, <1>4, <2>1, StaffDbTypes, DisturbedKeeps
  <1> QED
    BY <1>5, <1>6

\* The date, the step or the switch of a customer, with the same ventor.
LEMMA CustomerChangedKeeps ==
  ASSUME StaffInv, NEW c \in Clients,
         RefreshDate(c) \/ DisableClient(c) \/ \E s \in Stages : MoveStage(c, s)
  PROVE  StaffInv'
  <1>1. /\ holding' \in [Clients -> [to : Staff \cup {NoMember}, since : Times,
                                     stage : Stages \cup {NoMember}, enabled : BOOLEAN]]
        /\ \A d \in Clients : /\ holding'[d].to = holding[d].to
                              /\ refreshed' \/ holding'[d].since = holding[d].since
        /\ refreshed' \in BOOLEAN /\ (refreshed => refreshed')
        /\ Change /\ UNCHANGED <<time, changeLog, callLog>>
    <2>1. CASE RefreshDate(c)
      BY <2>1, StaffDbTypes DEF RefreshDate
    <2>2. CASE DisableClient(c)
      BY <2>2, StaffDbTypes DEF DisableClient
    <2>3. ASSUME NEW s \in Stages, MoveStage(c, s)
          PROVE  /\ holding' \in [Clients -> [to : Staff \cup {NoMember}, since : Times,
                                     stage : Stages \cup {NoMember}, enabled : BOOLEAN]]
                 /\ \A d \in Clients : /\ holding'[d].to = holding[d].to
                                       /\ refreshed' \/ holding'[d].since = holding[d].since
                 /\ refreshed' \in BOOLEAN /\ (refreshed => refreshed')
                 /\ Change /\ UNCHANGED <<time, changeLog, callLog>>
      BY <2>3, StaffDbTypes DEF MoveStage
    <2> QED
      BY <2>1, <2>2, <2>3
  <1>2. HoldingsBacked'
    BY <1>1, StaffDbTypes, BackedStaysSo
  <1> QED
    BY <1>1, <1>2, StaffDbTypes, ChangeKeeps

LEMMA PlaceCallKeeps ==
  ASSUME StaffInv, NEW u \in Staff, NEW outcome \in Outcomes, PlaceCall(u, outcome)
  PROVE  StaffInv'
  <1> DEFINE call == [by |-> u, time |-> time, outcome |-> outcome]
  <1>1. callLog \in Seq(CallRow) /\ call \in CallRow /\ callLog' = Append(callLog, call)
    BY StaffDbTypes DEF PlaceCall, CallRow
  <1>2. callLog' \in Seq(CallRow)
    <2> HIDE DEF call
    <2> QED
      BY <1>1, AppendProperties
  <1>3. Change /\ UNCHANGED <<time, holding, changeLog, refreshed>>
    BY DEF PlaceCall
  <1>4. HoldingsBacked'
    BY <1>3, StaffDbTypes, BackedStaysSo
  <1> QED
    BY <1>2, <1>3, <1>4, StaffDbTypes, ChangeKeeps

\* The clock goes on.
LEMMA PassKeeps ==
  ASSUME StaffInv, Pass
  PROVE  StaffInv'
  <1>1. UNCHANGED <<holding, changeLog, callLog, report, list, refreshed, changed>>
        /\ time < LastTime /\ time' = time + 1
    BY DEF Pass, staffDb
  <1>2. time' \in Times
    BY <1>1, StaffDbTypes, StaffAssumption DEF Times
  <1>3. StaffTypeOK'
    BY <1>1, <1>2 DEF StaffInv, StaffTypeOK, Times
  <1>4. ReportStands'
    BY <1>1 DEF StaffInv, ReportStands
  <1>5. \A i \in DOMAIN report'.rows : RowFits(i)'
    BY <1>1 DEF StaffInv, RowFits, Attended, AssignedCustomers, Attendance, RowsOf, AttendedOf
  <1>6. HoldingsBacked'
    BY <1>1 DEF StaffInv, HoldingsBacked, Backs
  <1>7. ListFits'
    BY <1>1 DEF StaffInv, ListFits, RowsOf, AttendedOf
  <1> QED
    BY <1>3, <1>4, <1>5, <1>6, <1>7 DEF StaffInv

\* The report goes on, and nothing else.
LEMMA ReportGoesOn ==
  ASSUME StaffInv, UNCHANGED <<time, staffDb, list, refreshed, changed>>,
         ReportStands', Len(report'.rows) <= Len(report'.staff),
         \A i \in DOMAIN report'.rows : RowFits(i)'
  PROVE  StaffInv'
  <1>1. UNCHANGED <<time, holding, changeLog, callLog, list, refreshed, changed>>
    BY DEF staffDb
  <1>2. StaffTypeOK'
    <2>1. report'.at \in StaffPhases /\ report'.staff \in Seq(Staff)
          /\ report'.columns \subseteq Stages /\ report'.shaken \in BOOLEAN
      BY DEF ReportStands, ReportType
    <2> QED
      BY <1>1, <2>1 DEF StaffInv, StaffTypeOK, StaffPhases, Times
  <1>3. HoldingsBacked'
    BY <1>1 DEF StaffInv, HoldingsBacked, Backs
  <1>4. ListFits'
    BY <1>1 DEF StaffInv, ListFits, RowsOf, AttendedOf
  <1> QED
    BY <1>2, <1>3, <1>4 DEF StaffInv

\* What is asked is answered from what the readers do not change.
LEMMA AnswersStay ==
  ASSUME UNCHANGED <<time, staffDb, list, refreshed, changed>>
  PROVE  \A u : /\ AssignedCustomers(u)' = AssignedCustomers(u)
                /\ Attendance(u)' = Attendance(u)
  BY DEF staffDb, AssignedCustomers, Attendance, RowsOf, AttendedOf

LEMMA StartReportKeeps ==
  ASSUME StaffInv, NEW u \in Staff, NEW v \in Staff, NEW columns \in Catalogues,
         StartReport(<<u, v>>, columns)
  PROVE  StaffInv'
  <1> DEFINE members == StaffMembers(<<u, v>>)
  <1>1. members = IF u = v THEN <<u>> ELSE <<u, v>>
    BY StaffMembersAre
  <1>2. /\ members \in Seq(Staff) /\ 0 < Len(members)
        /\ \A i, j \in DOMAIN members : members[i] = members[j] => i = j
    <2>1. CASE u = v
      <3>1. members = <<u>>
        BY <1>1, <2>1
      <3> HIDE DEF members
      <3>2. members \in Seq(Staff) /\ Len(members) = 1 /\ DOMAIN members = 1..1
        BY <3>1
      <3> QED
        BY <3>2
    <2>2. CASE u # v
      <3>1. members = <<u, v>>
        BY <1>1, <2>2
      <3> HIDE DEF members
      <3>2. /\ members \in Seq(Staff) /\ Len(members) = 2 /\ DOMAIN members = 1..2
            /\ members[1] = u /\ members[2] = v
        BY <3>1
      <3> QED
        BY <2>2, <3>2
    <2> QED
      BY <2>1, <2>2
  <1> HIDE DEF members
  <1>3. UNCHANGED <<time, staffDb, list, refreshed, changed>>
        /\ report' = [at |-> "customers", staff |-> members, columns |-> columns,
                      rows |-> <<>>, shaken |-> Unlogged # {}]
    BY DEF StartReport, NoReport, members
  <1>4. columns \in SUBSET Stages /\ IsFiniteSet(columns)
    BY StaffAssumption
  <1>5. /\ report'.at = "customers" /\ report'.staff = members /\ report'.columns = columns
        /\ report'.rows = <<>>
    BY <1>3
  <1>6. report' \in ReportType
    <2>1. <<>> \in Seq(StaffRowType) /\ (Unlogged # {}) \in BOOLEAN
      BY EmptySeq
    <2> QED
      BY <1>2, <1>3, <1>4, <2>1 DEF ReportType, StaffPhases
  <1>7. ReportStands'
    BY <1>2, <1>4, <1>5, <1>6 DEF ReportStands
  <1>8. Len(report'.rows) <= Len(report'.staff)
    BY <1>2, <1>5
  <1>9. \A i \in DOMAIN report'.rows : RowFits(i)'
    BY <1>5
  <1> QED
    BY <1>3, <1>7, <1>8, <1>9, ReportGoesOn

\* What is known of a report that goes on.
LEMMA ReportIs ==
  ASSUME StaffInv
  PROVE  /\ report \in ReportType /\ ReportStands
         /\ report.rows \in Seq(StaffRowType) /\ report.staff \in Seq(Staff)
         /\ Len(report.rows) \in Nat /\ Len(report.staff) \in Nat
         /\ Len(report.rows) <= Len(report.staff)
         /\ DOMAIN report.rows = 1..Len(report.rows)
         /\ DOMAIN report.staff = 1..Len(report.staff)
         /\ report.columns \in SUBSET Stages /\ report.shaken \in BOOLEAN
         /\ \A i \in DOMAIN report.rows : RowFits(i) /\ report.rows[i] \in StaffRowType
         /\ \A i \in DOMAIN report.staff : report.staff[i] \in Staff
  <1>1. ReportStands /\ StaffTypeOK /\ report \in ReportType
    BY DEF StaffInv, ReportStands
  <1>2. report.rows \in Seq(StaffRowType) /\ report.staff \in Seq(Staff)
        /\ report.columns \in SUBSET Stages /\ report.shaken \in BOOLEAN
    BY <1>1 DEF ReportType
  <1>3. /\ Len(report.rows) \in Nat /\ DOMAIN report.rows = 1..Len(report.rows)
        /\ \A i \in DOMAIN report.rows : report.rows[i] \in StaffRowType
    BY <1>2, SeqIs
  <1>4. /\ Len(report.staff) \in Nat /\ DOMAIN report.staff = 1..Len(report.staff)
        /\ \A i \in DOMAIN report.staff : report.staff[i] \in Staff
    BY <1>2, SeqIs
  <1>5. Len(report.rows) <= Len(report.staff)
    BY <1>1 DEF StaffTypeOK
  <1> QED
    BY <1>1, <1>2, <1>3, <1>4, <1>5 DEF StaffInv

LEMMA LookCustomersKeeps ==
  ASSUME StaffInv, LookCustomers
  PROVE  StaffInv'
  <1> DEFINE n == Len(report.rows)
             u == Member
             customers == AssignedCustomers(u)
             row == [user |-> u, customers |-> customers,
                     steps |-> StepCounts(report.columns, customers),
                     calls |-> NoCalls, attendance |-> NoAttendance]
  <1>1. /\ report.at = "customers" /\ UNCHANGED <<time, staffDb, list, refreshed, changed>>
        /\ report' = [report EXCEPT !.at = "calls", !.rows = Append(@, row)]
    BY DEF LookCustomers
  <1>2. n \in Nat /\ n < Len(report.staff) /\ n + 1 \in DOMAIN report.staff
    BY <1>1, ReportIs DEF ReportStands
  <1>3. u = report.staff[n + 1] /\ u \in Staff
    BY <1>2, ReportIs DEF Member
  <1>4. customers \subseteq Clients /\ IsFiniteSet(customers) /\ IsFiniteSet(report.columns)
    <2>1. StaffTypeOK /\ HoldingsBacked
      BY DEF StaffInv
    <2>2. IsFiniteSet(customers)
      BY <1>3, <2>1, CountsAreFinite
    <2> QED
      BY <2>2, ReportIs DEF AssignedCustomers, ReportStands
  <1>5. /\ row.steps \in [report.columns -> Nat]
        /\ SumOver(row.steps, report.columns) <= Cardinality(row.customers)
    <2> HIDE DEF customers
    <2>1. row.steps = StepCounts(report.columns, customers) /\ row.customers = customers
      OBVIOUS
    <2> HIDE DEF row
    <2> QED
      BY <1>4, <2>1, StepsWithin
  <1>6. row \in StaffRowType
    <2>1. row.steps \in UNION {[columns -> Nat] : columns \in SUBSET Stages}
      BY <1>5, ReportIs
    <2>2. NoCalls \in CallCountType /\ NoAttendance \in AttendanceType
      BY DEF NoCalls, NoAttendance, CallCountType, AttendanceType
    <2> HIDE DEF customers, u
    <2> QED
      BY <1>3, <1>4, <2>1, <2>2 DEF StaffRowType
  <1>7. /\ row.user = u /\ row.customers = customers
        /\ row.calls.totalCalls = row.calls.answered + row.calls.dontAnswered + row.calls.failed
    BY DEF NoCalls
  <1> HIDE DEF row, customers, u
  <1>8. /\ Append(report.rows, row) \in Seq(StaffRowType)
        /\ Len(Append(report.rows, row)) = n + 1
        /\ \A i \in 1..n : Append(report.rows, row)[i] = report.rows[i]
        /\ Append(report.rows, row)[n + 1] = row
    BY <1>6, ReportIs, AppendProperties
  <1> DEFINE grown == Append(report.rows, row)
  <1>9. /\ report' \in ReportType /\ report'.at = "calls" /\ report'.staff = report.staff
        /\ report'.columns = report.columns /\ report'.shaken = report.shaken
        /\ report'.rows = grown
    <2> HIDE DEF grown
    <2>1. grown \in Seq(StaffRowType)
      BY <1>8 DEF grown
    <2>2. report' = [report EXCEPT !.at = "calls", !.rows = grown]
      BY <1>1, ReportIs DEF ReportType, grown
    <2> QED
      BY <2>1, <2>2, ReportIs DEF ReportType, StaffPhases
  <1>10. DOMAIN grown = 1..(n + 1) /\ Len(grown) = n + 1
    BY <1>2, <1>8, SeqIs
  <1>11. ReportStands'
    <2>1. grown # <<>>
      BY <1>2, <1>10
    <2> HIDE DEF grown
    <2> QED
      BY <1>9, <2>1, ReportIs DEF ReportStands
  <1>12. ASSUME NEW i \in DOMAIN report'.rows PROVE RowFits(i)'
    <2>1. CASE i = n + 1
      <3>1. report'.rows[i] = row
        BY <1>8, <1>9, <2>1
      <3>2. ~Attended(i)'
        BY <1>2, <1>9, <1>10, <2>1 DEF Attended
      <3>3. report'.rows[i].customers = AssignedCustomers(report.rows[i].user)'
        <4>1. report'.rows[i].customers = AssignedCustomers(report'.rows[i].user)
          BY <1>7, <3>1 DEF customers
        <4>2. holding' = holding
          BY <1>1 DEF staffDb
        <4> QED
          BY <4>1, <4>2 DEF AssignedCustomers
      <3>4. report'.rows[i].user = report'.staff[i]
        BY <1>3, <1>7, <1>9, <2>1, <3>1
      <3>5. IsFiniteSet(row.customers)
        BY <1>4, <1>7
      <3> HIDE DEF grown
      <3> QED
        BY <1>5, <1>7, <1>9, <2>1, <3>1, <3>2, <3>3, <3>4, <3>5 DEF RowFits
    <2>2. CASE i \in 1..n
      <3>1. report'.rows[i] = report.rows[i] /\ RowFits(i) /\ Attended(i)
        BY <1>1, <1>8, <1>9, <2>2, ReportIs DEF Attended
      <3> HIDE DEF grown
      <3> QED
        BY <1>1, <1>9, <3>1, AnswersStay DEF RowFits
    <2> QED
      BY <1>2, <1>9, <1>10, <2>1, <2>2
  <1>13. Len(report'.rows) <= Len(report'.staff)
    BY <1>2, <1>9, <1>10, ReportIs
  <1> QED
    BY <1>1, <1>11, <1>12, <1>13, ReportGoesOn

\* The last row gets an answer more.
LEMMA RowCompleted ==
  ASSUME StaffInv, UNCHANGED <<time, staffDb, list, refreshed, changed>>,
         NEW at \in StaffPhases \ {"idle"}, NEW row \in StaffRowType, report.rows # <<>>,
         at = "customers" => Len(report.rows) < Len(report.staff),
         report' = [report EXCEPT !.at = at, !.rows[Len(report.rows)] = row],
         report.at \in {"calls", "attendance"},
         RowFits(Len(report.rows))'
  PROVE  StaffInv'
  <1> DEFINE n == Len(report.rows)
             grown == [report.rows EXCEPT ![n] = row]
  <1>1. n \in Nat /\ n > 0 /\ n \in DOMAIN report.rows /\ DOMAIN report.rows = 1..n
    <2>1. n # 0
      BY ReportIs
    <2> QED
      BY <2>1, ReportIs
  <1>2. grown \in Seq(StaffRowType) /\ Len(grown) = n /\ DOMAIN grown = 1..n
        /\ \A i \in 1..n : grown[i] = IF i = n THEN row ELSE report.rows[i]
    BY <1>1, ReportIs, ExceptSeq
  <1>3. report' = [report EXCEPT !.at = at, !.rows = grown]
    BY ReportIs DEF ReportType
  <1> HIDE DEF grown
  <1>4. /\ report' \in ReportType /\ report'.at = at /\ report'.staff = report.staff
        /\ report'.columns = report.columns /\ report'.shaken = report.shaken
        /\ report'.rows = grown
    BY <1>2, <1>3, ReportIs DEF ReportType
  <1>5. ReportStands'
    <2>1. grown # <<>>
      BY <1>1, <1>2
    <2> QED
      BY <1>2, <1>4, <2>1, ReportIs DEF ReportStands
  <1>6. ASSUME NEW i \in DOMAIN report'.rows PROVE RowFits(i)'
    <2>1. CASE i = n
      BY <2>1
    <2>2. CASE i # n
      <3>1. report'.rows[i] = report.rows[i] /\ RowFits(i) /\ Attended(i)
        BY <1>1, <1>2, <1>4, <2>2, ReportIs DEF Attended
      <3> QED
        BY <1>4, <3>1, AnswersStay DEF RowFits
    <2> QED
      BY <2>1, <2>2
  <1>7. Len(report'.rows) <= Len(report'.staff)
    BY <1>2, <1>4, ReportIs
  <1> QED
    BY <1>5, <1>6, <1>7, ReportGoesOn

LEMMA LookCallsKeeps ==
  ASSUME StaffInv, LookCalls
  PROVE  StaffInv'
  <1> DEFINE n == Len(report.rows)
             calls == CallCounts(LastRow.user)
             row == [report.rows[n] EXCEPT !.calls = calls]
  <1>1. /\ report.at = "calls" /\ UNCHANGED <<time, staffDb, list, refreshed, changed>>
        /\ report' = [report EXCEPT !.at = "attendance", !.rows[n].calls = calls]
    BY DEF LookCalls
  <1>2. report.rows # <<>> /\ n \in DOMAIN report.rows
    <2>1. report.rows # <<>>
      BY <1>1, ReportIs DEF ReportStands
    <2>2. n # 0
      BY <2>1, ReportIs
    <2> QED
      BY <2>1, <2>2, ReportIs
  <1>3. calls \in CallCountType /\ calls.totalCalls = calls.answered + calls.dontAnswered + calls.failed
    BY CallsAre DEF StaffInv
  <1> HIDE DEF calls
  <1>4. report.rows[n] \in StaffRowType /\ RowFits(n)
    BY <1>2, ReportIs
  <1>5. /\ row \in StaffRowType /\ row.user = report.rows[n].user
        /\ row.customers = report.rows[n].customers /\ row.steps = report.rows[n].steps
        /\ row.calls = calls /\ row.attendance = report.rows[n].attendance
    BY <1>3, <1>4 DEF StaffRowType
  <1>6. report' = [report EXCEPT !.at = "attendance", !.rows[n] = row]
    BY <1>1, <1>2, ReportIs DEF ReportType
  <1> HIDE DEF row
  <1>7. report'.rows[n] = row /\ Len(report'.rows) = n /\ report'.at = "attendance"
        /\ report'.staff = report.staff /\ report'.columns = report.columns
        /\ report'.shaken = report.shaken
    <2> DEFINE grown == [report.rows EXCEPT ![n] = row]
    <2>1. report' = [report EXCEPT !.at = "attendance", !.rows = grown]
      BY <1>6, ReportIs DEF ReportType
    <2>2. Len(grown) = n /\ grown[n] = row
      BY <1>2, <1>5, ReportIs, ExceptSeq
    <2> HIDE DEF grown
    <2> QED
      BY <2>1, <2>2, ReportIs DEF ReportType
  <1>8. RowFits(n)'
    <2>1. ~Attended(n)'
      BY <1>7, ReportIs DEF Attended
    <2>2. ~report.shaken => row.customers = AssignedCustomers(row.user)
      BY <1>4, <1>5 DEF RowFits
    <2>3. ~report'.shaken => report'.rows[n].customers = AssignedCustomers(report.rows[n].user)'
      <3>1. holding' = holding
        BY <1>1 DEF staffDb
      <3> QED
        BY <1>7, <2>2, <3>1 DEF AssignedCustomers
    <2>4. n' = n
      BY <1>7
    <2> QED
      BY <1>3, <1>4, <1>5, <1>7, <2>1, <2>3, <2>4 DEF RowFits
  <1> DEFINE at == "attendance"
  <1>9. at \in StaffPhases \ {"idle"} /\ (at = "customers" => Len(report.rows) < Len(report.staff))
    BY DEF StaffPhases
  <1>10. report' = [report EXCEPT !.at = at, !.rows[n] = row]
    BY <1>6
  <1> HIDE DEF at
  <1> QED
    BY <1>1, <1>2, <1>5, <1>8, <1>9, <1>10, RowCompleted

LEMMA LookAttendanceKeeps ==
  ASSUME StaffInv, LookAttendance
  PROVE  StaffInv'
  <1> DEFINE n == Len(report.rows)
             at == IF n = Len(report.staff) THEN "done" ELSE "customers"
             attendance == Attendance(LastRow.user)
             row == [report.rows[n] EXCEPT !.attendance = attendance]
  <1>1. /\ report.at = "attendance" /\ UNCHANGED <<time, staffDb, list, refreshed, changed>>
        /\ report' = [report EXCEPT !.rows[n].attendance = attendance, !.at = at]
    BY DEF LookAttendance
  <1>2. report.rows # <<>> /\ n \in DOMAIN report.rows
    <2>1. report.rows # <<>>
      BY <1>1, ReportIs DEF ReportStands
    <2>2. n # 0
      BY <2>1, ReportIs
    <2> QED
      BY <2>1, <2>2, ReportIs
  <1>3. attendance \in AttendanceType
    BY AttendanceIs DEF StaffInv
  <1>4. report.rows[n] \in StaffRowType /\ RowFits(n)
    BY <1>2, ReportIs
  <1>5. /\ row \in StaffRowType /\ row.user = report.rows[n].user
        /\ row.customers = report.rows[n].customers /\ row.steps = report.rows[n].steps
        /\ row.calls = report.rows[n].calls /\ row.attendance = attendance
    <2> HIDE DEF attendance
    <2> QED
      BY <1>3, <1>4 DEF StaffRowType
  <1>6. at \in StaffPhases \ {"idle"} /\ (at = "customers" => Len(report.rows) < Len(report.staff))
    BY ReportIs DEF StaffPhases
  <1> HIDE DEF at
  <1>7. report' = [report EXCEPT !.at = at, !.rows[n] = row]
    <2> HIDE DEF attendance
    <2> QED
      BY <1>1, <1>2, ReportIs DEF ReportType
  <1> HIDE DEF row
  <1>8. report'.rows[n] = row /\ Len(report'.rows) = n
        /\ report'.staff = report.staff /\ report'.columns = report.columns
        /\ report'.shaken = report.shaken
    <2> DEFINE grown == [report.rows EXCEPT ![n] = row]
    <2>1. report' = [report EXCEPT !.at = at, !.rows = grown]
      BY <1>7, ReportIs DEF ReportType
    <2>2. Len(grown) = n /\ grown[n] = row
      BY <1>2, <1>5, ReportIs, ExceptSeq
    <2> HIDE DEF grown
    <2> QED
      BY <2>1, <2>2, ReportIs DEF ReportType
  <1>9. RowFits(n)'
    <2>1. ~report.shaken => row.customers = AssignedCustomers(row.user)
      BY <1>4, <1>5 DEF RowFits
    <2>2. holding' = holding /\ changeLog' = changeLog
      BY <1>1 DEF staffDb
    <2>3. ~report'.shaken => report'.rows[n].customers = AssignedCustomers(report.rows[n].user)'
      BY <1>8, <2>1, <2>2 DEF AssignedCustomers
    <2>4. report'.rows[n].attendance = Attendance(report.rows[n].user)'
      <3>1. row.attendance = Attendance(row.user)
        BY <1>5 DEF attendance, LastRow
      <3> QED
        BY <1>8, <2>2, <3>1 DEF Attendance, RowsOf, AttendedOf
    <2>5. n' = n
      BY <1>8
    <2> HIDE DEF attendance
    <2> QED
      BY <1>4, <1>5, <1>8, <2>3, <2>4, <2>5 DEF RowFits
  <1> QED
    BY <1>1, <1>2, <1>5, <1>6, <1>7, <1>9, RowCompleted

-----------------------------------------------------------------------------
(* The list                                                                  *)

LEMMA ListGoesOn ==
  ASSUME StaffInv, UNCHANGED <<time, staffDb, report, refreshed, changed>>, ListFits'
  PROVE  StaffInv'
  <1>1. UNCHANGED <<time, holding, changeLog, callLog, report, refreshed, changed>>
    BY DEF staffDb
  <1>2. StaffTypeOK'
    <2>1. list'.to \in Staff \cup {NoMember} /\ list'.shaken \in BOOLEAN
          /\ {list'.items, list'.total, list'.attended} \subseteq Nat
      BY DEF ListFits, ListType
    <2> QED
      BY <1>1, <2>1 DEF StaffInv, StaffTypeOK, Times
  <1>3. ReportStands'
    BY <1>1 DEF StaffInv, ReportStands
  <1>4. ASSUME NEW i \in DOMAIN report'.rows PROVE RowFits(i)'
    <2>1. RowFits(i) /\ report' = report
      BY <1>1 DEF StaffInv
    <2>2. /\ AssignedCustomers(report.rows[i].user)' = AssignedCustomers(report.rows[i].user)
          /\ Attendance(report.rows[i].user)' = Attendance(report.rows[i].user)
      BY <1>1 DEF AssignedCustomers, Attendance, RowsOf, AttendedOf
    <2> QED
      BY <2>1, <2>2 DEF RowFits, Attended
  <1>5. HoldingsBacked'
    BY <1>1 DEF StaffInv, HoldingsBacked, Backs
  <1> QED
    BY <1>2, <1>3, <1>4, <1>5 DEF StaffInv

LEMMA StartListKeeps ==
  ASSUME StaffInv, NEW u \in Staff, StartList(u)
  PROVE  StaffInv'
  <1>1. /\ UNCHANGED <<time, staffDb, report, refreshed, changed>>
        /\ list' = [to |-> u, open |-> {"page", "total", "summary"}, items |-> 0, total |-> 0,
                    attended |-> 0, shaken |-> FALSE]
    BY DEF StartList, NoList
  <1>2. u # NoMember
    BY StaffAssumption
  <1>3. ListFits'
    <2>1. list' \in ListType
      BY <1>1 DEF ListType
    <2>2. list'.to = u /\ list'.open = {"page", "total", "summary"}
      BY <1>1
    <2> QED
      BY <1>2, <2>1, <2>2 DEF ListFits
  <1> QED
    BY <1>1, <1>3, ListGoesOn

LEMMA ListQueryKeeps ==
  ASSUME StaffInv, ListQuery
  PROVE  StaffInv'
  <1>1. UNCHANGED <<time, staffDb, report, refreshed, changed>>
    BY DEF ListQuery
  <1>2. changeLog' = changeLog
    BY <1>1 DEF staffDb
  <1>3. ListFits /\ list \in ListType /\ list.open # {}
    BY DEF StaffInv, ListFits, ListQuery
  <1>4. list.to # NoMember
    BY <1>3 DEF ListFits, NoList
  <1> DEFINE assigned == Cardinality(RowsOf(list.to))
             attended == Cardinality(AttendedOf(list.to))
  <1>5. assigned \in Nat /\ attended \in Nat
    BY CountsAreFinite, FS_CardinalityType DEF StaffInv
  <1>6. \A u : RowsOf(u)' = RowsOf(u) /\ AttendedOf(u)' = AttendedOf(u)
    BY <1>2 DEF RowsOf, AttendedOf
  <1>7. ASSUME list'.to = list.to
        PROVE  /\ Cardinality(RowsOf(list.to))' = assigned
               /\ Cardinality(AttendedOf(list.to))' = attended
    BY <1>2, <1>7 DEF RowsOf, AttendedOf
  <1>8. \/ "page" \in list.open
           /\ list' = [list EXCEPT !.items = assigned, !.open = @ \ {"page"}]
        \/ "total" \in list.open
           /\ list' = [list EXCEPT !.total = assigned, !.open = @ \ {"total"}]
        \/ "summary" \in list.open
           /\ list' = [list EXCEPT !.attended = attended, !.open = @ \ {"summary"}]
    BY DEF ListQuery
  <1>9. ListFits'
    <2>1. list'.to = list.to /\ list' \in ListType
      <3> HIDE DEF assigned, attended
      <3> QED
        BY <1>3, <1>5, <1>8 DEF ListType
    <2>2. ASSUME ~list'.shaken
          PROVE  /\ "page" \notin list'.open => list'.items = assigned
                 /\ "total" \notin list'.open => list'.total = assigned
                 /\ "summary" \notin list'.open => list'.attended = attended
      <3>1. ~list.shaken
        BY <1>3, <1>8, <2>2 DEF ListType
      <3>2. /\ "page" \notin list.open => list.items = assigned
            /\ "total" \notin list.open => list.total = assigned
            /\ "summary" \notin list.open => list.attended = attended
        BY <1>3, <1>4, <3>1 DEF ListFits
      <3> HIDE DEF assigned, attended
      <3> QED
        BY <1>3, <1>8, <3>2 DEF ListType
    <2> HIDE DEF assigned, attended
    <2>3. list'.to # NoMember
      BY <1>4, <2>1
    <2> QED
      BY <1>7, <2>1, <2>2, <2>3 DEF ListFits
  <1> QED
    BY <1>1, <1>9, ListGoesOn

-----------------------------------------------------------------------------

LEMMA StaffStep == StaffInv /\ [StaffNext]_staffVars => StaffInv'
  <1> SUFFICES ASSUME StaffInv, [StaffNext]_staffVars PROVE StaffInv'
    OBVIOUS
  <1>1. CASE StaffNext
    <2>1. ASSUME NEW c \in Clients, NEW u \in Staff \cup {NoMember}, HandOver(c, u)
          PROVE  StaffInv'
      BY <2>1, HandOverKeeps
    <2>2. ASSUME NEW c \in Clients,
                 RefreshDate(c) \/ DisableClient(c) \/ \E s \in Stages : MoveStage(c, s)
          PROVE  StaffInv'
      BY <2>2, CustomerChangedKeeps
    <2>3. ASSUME NEW i \in DOMAIN changeLog, HookLogs(i) \/ MarkRow(i)
          PROVE  StaffInv'
      BY <2>3, RowMarkedKeeps
    <2>4. ASSUME NEW u \in Staff, NEW outcome \in Outcomes, PlaceCall(u, outcome)
          PROVE  StaffInv'
      BY <2>4, PlaceCallKeeps
    <2>5. ASSUME NEW u \in Staff, StartList(u) PROVE StaffInv'
      BY <2>5, StartListKeeps
    <2>6. ASSUME NEW u \in Staff, NEW v \in Staff, NEW columns \in Catalogues,
                 StartReport(<<u, v>>, columns)
          PROVE  StaffInv'
      BY <2>6, StartReportKeeps
    <2> QED
      BY <1>1, <2>1, <2>2, <2>3, <2>4, <2>5, <2>6, PassKeeps, LookCustomersKeeps,
        LookCallsKeeps, LookAttendanceKeeps, ListQueryKeeps DEF StaffNext
  <1>2. CASE UNCHANGED staffVars
    <2>1. UNCHANGED <<time, staffDb, report, refreshed, changed, list>>
      BY <1>2 DEF staffVars
    <2>2. changeLog' = changeLog
      BY <2>1 DEF staffDb
    <2>3. ListFits'
      BY <2>1, <2>2 DEF StaffInv, ListFits, RowsOf, AttendedOf
    <2> QED
      BY <2>1, <2>3, ListGoesOn
  <1> QED
    BY <1>1, <1>2

\* Each customer that a row counts is in a row of the log that is its member's.
LEMMA CountedHasRow ==
  ASSUME StaffInv, ~refreshed, NEW u \in Staff,
         \A i \in DOMAIN changeLog : changeLog[i].logged = changeLog[i].saved
  PROVE  Cardinality(AssignedCustomers(u)) <= Cardinality(RowsOf(u))
  <1> DEFINE S == AssignedCustomers(u)
             f == [c \in S |-> CHOOSE i \in RowsOf(u) : changeLog[i].client = c]
  <1>1. ASSUME NEW c \in S PROVE \E i \in RowsOf(u) : changeLog[i].client = c
    <2>1. c \in Clients /\ holding[c].to = u /\ holding[c].since \in Period /\ u # NoMember
      BY StaffAssumption DEF AssignedCustomers
    <2>2. PICK i \in DOMAIN changeLog : Backs(i, c)
      BY <2>1 DEF StaffInv, HoldingsBacked
    <2>3. changeLog[i].client = c /\ changeLog[i].to = u /\ changeLog[i].logged \in Period
      BY <2>1, <2>2 DEF Backs
    <2> QED
      BY <2>2, <2>3 DEF RowsOf
  <1>2. \A c \in S : f[c] \in RowsOf(u) /\ changeLog[f[c]].client = c
    BY <1>1
  <1>3. f \in [S -> RowsOf(u)]
    BY <1>2
  <1>4. f \in Injection(S, RowsOf(u))
    BY <1>2, <1>3 DEF Injection, IsInjective
  <1>5. IsFiniteSet(RowsOf(u))
    BY CountsAreFinite DEF StaffInv
  <1> QED
    BY <1>4, <1>5, FS_Injection

\* The invariant says what the report and the list promise.
LEMMA StaffShows == StaffInv => ReportCorrect
  <1> SUFFICES ASSUME StaffInv PROVE ReportCorrect
    OBVIOUS
  <1>1. \A i \in Finished : i \in DOMAIN report.rows /\ report.at = "done"
    BY DEF Finished
  <1>2. ASSUME NEW i \in Finished
        PROVE  /\ RowFits(i) /\ report.rows[i].user \in Staff /\ Attended(i)
               /\ report.rows[i].user = report.staff[i] /\ i \in DOMAIN report.staff
    <2>1. i \in DOMAIN report.staff /\ RowFits(i)
      BY <1>1, ReportIs
    <2> QED
      BY <1>1, <2>1, ReportIs DEF RowFits, Attended
  <1>3. CallsAddUp
    BY <1>2 DEF CallsAddUp, RowFits
  <1>4. StepsWithinTotal
    <2> SUFFICES ASSUME NEW i \in Finished
                 PROVE  LET row == report.rows[i]
                        IN MapThenSumSet(LAMBDA s : row.steps[s], report.columns)
                             <= Cardinality(row.customers)
      BY DEF StepsWithinTotal, MapThenSumSet, MapThenFoldSet
    <2> DEFINE steps == report.rows[i].steps
    <2>1. SumOver(steps, report.columns) <= Cardinality(report.rows[i].customers)
      BY <1>2 DEF RowFits
    <2>2. MapThenSumSet(LAMBDA s : steps[s], report.columns) = SumOver(steps, report.columns)
      <3> HIDE DEF steps
      <3> QED
        BY ColumnsAreSum DEF MapThenSumSet, MapThenFoldSet
    <2> QED
      BY <2>1, <2>2 DEF MapThenSumSet, MapThenFoldSet
  <1>5. CountedOnce
    <2> SUFFICES ASSUME ~report.shaken, NEW i \in Finished, NEW j \in Finished, i # j
                 PROVE  report.rows[i].customers \cap report.rows[j].customers = {}
      BY DEF CountedOnce
    <2>1. report.rows[i].user # report.rows[j].user
      BY <1>2, ReportIs DEF ReportStands
    <2>2. /\ report.rows[i].customers = AssignedCustomers(report.rows[i].user)
          /\ report.rows[j].customers = AssignedCustomers(report.rows[j].user)
      BY <1>2 DEF RowFits
    <2> QED
      BY <2>1, <2>2 DEF AssignedCustomers
  <1>6. CountedIsAwaited
    <2> SUFFICES ASSUME ~report.shaken, ~refreshed, NEW i \in Finished,
                        \A k \in DOMAIN changeLog : changeLog[k].logged = changeLog[k].saved
                 PROVE  LET seen == report.rows[i].attendance
                        IN Cardinality(report.rows[i].customers)
                             <= seen.attendedCount + seen.unattendedCount
      BY DEF CountedIsAwaited
    <2> DEFINE u == report.rows[i].user
    <2>1. /\ u \in Staff /\ report.rows[i].customers = AssignedCustomers(u)
          /\ report.rows[i].attendance = Attendance(u)
      BY <1>2 DEF RowFits
    <2>2. Cardinality(AssignedCustomers(u)) <= Cardinality(RowsOf(u))
      BY <2>1, CountedHasRow
    <2>3. Attendance(u).attendedCount + Attendance(u).unattendedCount = Cardinality(RowsOf(u))
      BY AttendanceIs DEF StaffInv
    <2> HIDE DEF u
    <2> QED
      BY <2>1, <2>2, <2>3
  <1>7. ListAgrees
    <2> SUFFICES ASSUME list.open = {}, ~list.shaken
                 PROVE  list.items = list.total /\ list.attended <= list.total
      BY DEF ListAgrees
    <2>1. CASE list.to = NoMember
      <3>1. list = NoList
        BY <2>1 DEF StaffInv, ListFits
      <3> QED
        BY <3>1 DEF NoList
    <2>2. CASE list.to # NoMember
      <3>1. /\ list.items = Cardinality(RowsOf(list.to)) /\ list.total = Cardinality(RowsOf(list.to))
            /\ list.attended = Cardinality(AttendedOf(list.to))
        BY <2>2 DEF StaffInv, ListFits
      <3>2. IsFiniteSet(RowsOf(list.to)) /\ AttendedOf(list.to) \subseteq RowsOf(list.to)
        BY CountsAreFinite DEF StaffInv
      <3>3. Cardinality(AttendedOf(list.to)) <= Cardinality(RowsOf(list.to))
        BY <3>2, FS_Subset
      <3> QED
        BY <3>1, <3>3
    <2> QED
      BY <2>1, <2>2
  <1> QED
    BY <1>3, <1>4, <1>5, <1>6, <1>7 DEF ReportCorrect, StaffInv

\* What is reported of the staff adds up, and is true of one moment if there was one,
\* for any customers, members and pipelines.
THEOREM ReportIsCorrect == StaffSpec => []ReportCorrect
  <1>1. StaffInit => StaffInv
    BY StaffStarts
  <1>2. StaffInv /\ [StaffNext]_staffVars => StaffInv'
    BY StaffStep
  <1>3. StaffInv => ReportCorrect
    BY StaffShows
  <1> QED
    BY <1>1, <1>2, <1>3, PTL DEF StaffSpec
=============================================================================
