----------------------------- MODULE MeetVisit -----------------------------
(***************************************************************************)
(* A virtual visit: its Meet, the subscription through which Google tells   *)
(* that a recording or a transcript is there, and the log of the call that  *)
(* the syncs fill.  Syncs overlap; a step boundary is an await.  Hours are  *)
(* counted, and the sweep that subscribes runs in each of them.             *)
(***************************************************************************)
EXTENDS CallOutcome, FiniteSets

CONSTANTS
  Syncs,                \* syncs under way at once
  Ttl,                  \* life of a subscription in hours, also the horizon of the sweep
  VisitHours,           \* the hours for which the visit may be scheduled
  LastHour, MaxSyncs, MaxMeetFailures, MaxMeetCrashes      \* bounds for TLC

ASSUME MeetAssumption ==
  /\ Ttl \in Nat \ {0} /\ VisitHours \subseteq Nat
  /\ {LastHour, MaxSyncs, MaxMeetFailures, MaxMeetCrashes} \subseteq Nat

VARIABLES
  hour, meetAt,         \* now, scheduledAt
  booking,              \* where createVirtualMeetSchedule is
  draft,                \* the meetSubscriptionStatus it has yet to save
  linked,               \* the schedule event has its Meet URL and space
  subscription,         \* meetSubscriptionStatus
  until, live,          \* expiry of the last subscription; subscriptions made at Google
  sweep,                \* where the hourly job is
  ended,                \* the hour in which the conference ended, 0 without one
  signals, version,        \* the events of the call log and its __v, <<>> without a log
  attendance, meetText, \* its status, and whether a transcript is stored
  sync,                 \* the state of each sync
  told,                 \* history: attendances that were saved
  syncRaced, byClient,  \* history: two syncs overlapped; a client told the attendance
  tryFailed,            \* history: an attempt to subscribe failed in this hour
  syncsMade, meetFailures, meetCrashes          \* bounds

bookingVars == <<booking, draft, linked>>
subscriptionVars == <<subscription, until, live, sweep, tryFailed>>
logVars == <<signals, version, attendance, meetText>>
syncVars == <<sync, told, syncRaced, byClient, syncsMade>>
boundVars == <<meetFailures, meetCrashes>>
meetVars == <<hour, meetAt, ended, bookingVars, subscriptionVars, logVars, syncVars, boundVars>>

NoSync == [at |-> "idle", answer |-> "none", text |-> FALSE, time |-> 0, seen |-> {}, v |-> 0]

MeetInit ==
  /\ hour = 1 /\ meetAt \in VisitHours /\ ended = 0
  /\ booking = "none" /\ draft = "pending" /\ linked = FALSE
  /\ subscription = "pending" /\ until = 0 /\ live = 0 /\ sweep = "due" /\ tryFailed = FALSE
  /\ signals = <<>> /\ version = 0 /\ attendance = "scheduled" /\ meetText = FALSE
  /\ sync = [h \in Syncs |-> NoSync]
  /\ told = {} /\ syncRaced = FALSE /\ byClient = FALSE /\ syncsMade = 0
  /\ meetFailures = 0 /\ meetCrashes = 0

MeetFails == meetFailures < MaxMeetFailures /\ meetFailures' = meetFailures + 1

\* The next hour comes when the sweep of this one is over; a booking takes seconds.
Tick ==
  /\ hour < LastHour /\ sweep = "swept"
  /\ booking \in {"none", "done", "failed"}
  /\ hour' = hour + 1 /\ sweep' = "due" /\ tryFailed' = FALSE
  /\ UNCHANGED <<meetAt, ended, bookingVars, subscription, until, live, logVars, syncVars,
                 boundVars>>

\* The conference is held, whenever that may be.
Confer ==
  /\ linked /\ ended = 0
  /\ ended' = hour
  /\ UNCHANGED <<hour, meetAt, bookingVars, subscriptionVars, logVars, syncVars, boundVars>>

-----------------------------------------------------------------------------
\* createVirtualMeetSchedule: the placeholder ...
Place ==
  /\ booking = "none"
  /\ booking' = "placed"
  /\ UNCHANGED <<hour, meetAt, ended, draft, linked, subscriptionVars, logVars, syncVars,
                 boundVars>>

\* ... the calendar entry with its Meet: an error, or an entry without a Meet URL or
\* a space, throws and leaves the placeholder; the invitation of the auditors does not ...
InsertEntry ==
  /\ booking = "placed"
  /\ \/ booking' = "met" /\ UNCHANGED meetFailures
     \/ booking' = "failed" /\ MeetFails
  /\ UNCHANGED <<hour, meetAt, ended, draft, linked, subscriptionVars, logVars, syncVars,
                 meetCrashes>>

\* maybeSubscribeMeetSpace leaves a visit beyond the horizon to the sweep.
Near == meetAt <= hour + Ttl

\* An attempt at Google: `keep` receives the status; the answer to a request that
\* succeeded may be lost.
Attempt(keep(_)) ==
  \/ /\ keep("active") /\ until' = hour + Ttl /\ live' = live + 1
     /\ UNCHANGED <<meetFailures, tryFailed>>
  \/ /\ MeetFails /\ keep("failed") /\ tryFailed' = TRUE
     /\ live' \in {live, live + 1} /\ UNCHANGED until

\* ... the subscription, when the visit is near ...
SubscribeNow ==
  /\ booking = "met"
  /\ booking' = "subscribed"
  /\ IF Near THEN Attempt(LAMBDA s : draft' = s)
     ELSE draft' = "pending" /\ UNCHANGED <<until, live, tryFailed, meetFailures>>
  /\ UNCHANGED <<hour, meetAt, ended, linked, subscription, sweep, logVars, syncVars,
                 meetCrashes>>

\* ... the visit with its link ...
SaveVisit ==
  /\ booking = "subscribed"
  /\ booking' = "saved" /\ linked' = TRUE /\ subscription' = draft
  /\ UNCHANGED <<hour, meetAt, ended, draft, until, live, sweep, tryFailed, logVars,
                 syncVars, boundVars>>

\* ... and createGoogleMeetScheduleLog.
LogVisit ==
  /\ booking = "saved"
  /\ booking' = "done"
  /\ signals' = <<[type |-> "scheduled", time |-> meetAt, status |-> "scheduled"]>>
  /\ UNCHANGED <<hour, meetAt, ended, draft, linked, subscriptionVars, version, attendance,
                 meetText, syncVars, boundVars>>

-----------------------------------------------------------------------------
\* Fault: a subscription that failed is not tried again.
SweepsPending == subscription = "pending"

Sweeps == subscription \in {"pending", "failed", "expired"}

\* executeSubscribePendingMeetSpaces looks for the visits of the next Ttl hours ...
SweepLook ==
  /\ sweep = "due"
  /\ sweep' = IF linked /\ Sweeps /\ hour <= meetAt /\ Near THEN "found" ELSE "mark"
  /\ UNCHANGED <<hour, meetAt, ended, bookingVars, subscription, until, live, tryFailed,
                 logVars, syncVars, boundVars>>

\* ... subscribes, saving what came of it (`sweep` keeps it till then) ...
SweepSubscribe ==
  /\ sweep = "found"
  /\ Attempt(LAMBDA s : sweep' = s)
  /\ UNCHANGED <<hour, meetAt, ended, bookingVars, subscription, logVars, syncVars,
                 meetCrashes>>

SweepSave ==
  /\ sweep \in {"active", "failed"}
  /\ subscription' = sweep /\ sweep' = "mark"
  /\ UNCHANGED <<hour, meetAt, ended, bookingVars, until, live, tryFailed, logVars, syncVars,
                 boundVars>>

\* ... and then marks the active ones that have expired.
SweepMark ==
  /\ sweep = "mark"
  /\ sweep' = "swept"
  /\ subscription' =
       IF subscription = "active" /\ until <= hour THEN "expired" ELSE subscription
  /\ UNCHANGED <<hour, meetAt, ended, bookingVars, until, live, tryFailed, logVars, syncVars,
                 boundVars>>

-----------------------------------------------------------------------------
SyncGoto(h, state) == sync' = [sync EXCEPT ![h] = state]

StartSync(h, state) ==
  /\ linked /\ sync[h] = NoSync /\ syncsMade < MaxSyncs
  /\ syncsMade' = syncsMade + 1
  /\ syncRaced' = (syncRaced \/ \E g \in Syncs : sync[g] # NoSync)
  /\ SyncGoto(h, state)

\* A notification of Google, the ventor who refreshes, the administrator who fetches again.
FetchArtifacts(h) ==
  /\ StartSync(h, [NoSync EXCEPT !.at = "fetch"])
  /\ UNCHANGED <<hour, meetAt, ended, bookingVars, subscriptionVars, logVars, told, byClient,
                 boundVars>>

\* syncMeetCall takes the word of the client, and its transcript.
ToldByClient(h) ==
  /\ \E answer \in {"completed", "no-answer"} : \E t \in BOOLEAN :
       StartSync(h, [NoSync EXCEPT !.at = "look", !.answer = answer, !.text = t, !.time = hour])
  /\ byClient' = TRUE
  /\ UNCHANGED <<hour, meetAt, ended, bookingVars, subscriptionVars, logVars, told, boundVars>>

\* Fault: an error of the Meet API counts as a visit nobody came to.
ErrorIsNoAnswer(h) ==
  SyncGoto(h, [NoSync EXCEPT !.at = "look", !.answer = "no-answer", !.time = hour])

\* An error of the Meet API ends the sync: the webhook logs it and says ok.
FetchError(h) == SyncGoto(h, NoSync)

\* fetchArtifactsByMeetUrl: without a conference nobody answered; errors about the
\* recording or the transcript only leave them out.
Fetched(h) ==
  /\ sync[h].at = "fetch"
  /\ \/ /\ ended = 0 /\ UNCHANGED meetFailures
        /\ SyncGoto(h, [NoSync EXCEPT !.at = "look", !.answer = "no-answer", !.time = hour])
     \/ /\ ended > 0 /\ UNCHANGED meetFailures
        /\ \E t \in BOOLEAN :
             SyncGoto(h, [NoSync EXCEPT !.at = "look", !.answer = "completed",
                                        !.text = t, !.time = ended])
     \/ MeetFails /\ FetchError(h)
  /\ UNCHANGED <<hour, meetAt, ended, bookingVars, subscriptionVars, logVars, told, syncRaced,
                 byClient, syncsMade, meetCrashes>>

TypesOf(r) == {r[i].type : i \in DOMAIN r}

\* applyGoogleMeetSync reads the log; without one it throws ...
LookLog(h) ==
  /\ sync[h].at = "look"
  /\ SyncGoto(h, IF signals = <<>> THEN NoSync
                 ELSE [sync[h] EXCEPT !.at = "save", !.seen = TypesOf(signals),
                                      !.v = version])
  /\ UNCHANGED <<hour, meetAt, ended, bookingVars, subscriptionVars, logVars, told, syncRaced,
                 byClient, syncsMade, boundVars>>

Row(s, type) ==
  [type |-> type, time |-> s.time,
   status |-> IF type = "answered" THEN type ELSE s.answer]

\* The first of the two signals of an attendance; the other is 'completed'.
Verdict(answer) == IF answer = "completed" THEN "answered" ELSE "no-answer"

\* Those of them that the log had when it was read, and the rows of those it had not.
Old(s) == {Verdict(s.answer), "completed"} \cap s.seen
Pushed(s, type) == IF type \in s.seen THEN <<>> ELSE <<Row(s, type)>>
New(s) == Pushed(s, Verdict(s.answer)) \o Pushed(s, "completed")

\* pushUniqueEvent: a signal the log has is replaced in its place, another is added.
Merged(s) ==
  [i \in DOMAIN signals |->
     IF signals[i].type \in Old(s) THEN Row(s, signals[i].type) ELSE signals[i]]
    \o New(s)

TextAfter(s) == meetText \/ (s.answer = "completed" /\ s.text)

\* ... and saves it.  What only adds signals is a $push, which no version guards;
\* one that replaces a signal fails if the version is not the one that was read.
SaveSync(h) ==
  LET s == sync[h] IN
  /\ s.at = "save"
  /\ SyncGoto(h, NoSync)
  /\ IF Old(s) = {} \/ s.v = version
     THEN /\ signals' = Merged(s)
          /\ version' = IF New(s) = <<>> THEN version ELSE version + 1
          /\ attendance' = s.answer
          /\ meetText' = TextAfter(s)
          /\ told' = told \cup {s.answer}
     ELSE UNCHANGED <<logVars, told>>
  /\ UNCHANGED <<hour, meetAt, ended, bookingVars, subscriptionVars, syncRaced, byClient,
                 syncsMade, boundVars>>

\* The service dies and is up again before the hour is over.
MeetCrash ==
  /\ meetCrashes < MaxMeetCrashes
  /\ meetCrashes' = meetCrashes + 1
  /\ booking' = IF booking \in {"none", "done"} THEN booking ELSE "failed"
  /\ sweep' = "swept"
  /\ sync' = [h \in Syncs |-> NoSync]
  /\ UNCHANGED <<hour, meetAt, ended, draft, linked, subscription, until, live, tryFailed,
                 logVars, told, syncRaced, byClient, syncsMade, meetFailures>>

MeetNext ==
  \/ Tick \/ Confer
  \/ Place \/ InsertEntry \/ SubscribeNow \/ SaveVisit \/ LogVisit
  \/ SweepLook \/ SweepSubscribe \/ SweepSave \/ SweepMark
  \/ \E h \in Syncs :
       FetchArtifacts(h) \/ ToldByClient(h) \/ Fetched(h) \/ LookLog(h) \/ SaveSync(h)
  \/ MeetCrash

MeetSpec == MeetInit /\ [][MeetNext]_meetVars

-----------------------------------------------------------------------------
(* Properties                                                                *)

\* Every variable has its type.
MeetTypeOK ==
  /\ hour \in Nat /\ meetAt \in VisitHours /\ ended \in Nat
  /\ booking \in {"none", "placed", "met", "subscribed", "saved", "done", "failed"}
  /\ {draft, subscription} \subseteq {"pending", "active", "failed", "expired"}
  /\ sweep \in {"due", "found", "active", "failed", "mark", "swept"}
  /\ until \in Nat /\ live \in Nat /\ version \in Nat
  /\ \A i \in DOMAIN signals :
       /\ signals[i].type \in {"scheduled", "answered", "no-answer", "completed"}
       /\ signals[i].status \in {"scheduled", "answered", "no-answer", "completed"}
       /\ signals[i].time \in Nat
  /\ attendance \in {"scheduled", "completed", "no-answer"}
  /\ {linked, meetText, syncRaced, byClient, tryFailed} \subseteq BOOLEAN
  /\ \A h \in Syncs : sync[h].at \in {"idle", "fetch", "look", "save"}

\* Unless two syncs overlap, the log has one row per signal.
OneRowPerSignal ==
  syncRaced \/ \A i, j \in DOMAIN signals : signals[i].type = signals[j].type => i = j

\* However often the log is synced, and whichever syncs overlap: as long as all found
\* the same, the call is shown as what they found.
OneMindIsShown ==
  /\ told = {"completed"} => Resolved(signals, attendance) = "answered"
  /\ told = {"no-answer"} => Resolved(signals, attendance) = "no_answer"

\* A visit whose last sync found that the customer came is shown as answered.
AttendedIsShown ==
  (attendance = "completed" /\ ~syncRaced) => Resolved(signals, attendance) = "answered"

\* What Google says of a visit does not turn from attended to not attended: neither an
\* error of the API nor a late notification undoes it, unless syncs overlap.
AttendedStays ==
  [][attendance = "completed" => attendance' = "completed" \/ byClient \/ syncRaced]_attendance

\* No sync takes the transcript away, overlapping syncs and those that find none included.
TranscriptStays == [][meetText => meetText']_meetText

\* When the visit begins and the sweep of that hour is over, Google has a subscription
\* that lasts until then, unless an attempt of that very hour failed or the service died:
\* the sweeps have made up for earlier failures.
CoveredAtStart ==
  (linked /\ hour = meetAt /\ sweep = "swept" /\ ~tryFailed /\ meetCrashes = 0)
    => until >= meetAt

\* Without failures and crashes no visit is subscribed to twice.
OneSubscription == (meetFailures = 0 /\ meetCrashes = 0) => live <= 1

\* A visit is covered when it begins, and its log has each signal once and one answer.
MeetCorrect ==
  MeetTypeOK /\ OneRowPerSignal /\ OneMindIsShown /\ CoveredAtStart /\ OneSubscription

\* No sync takes back the attendance or the transcript.
SyncKeeps == AttendedStays /\ TranscriptStays
=============================================================================
