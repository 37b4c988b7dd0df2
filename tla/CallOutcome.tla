---------------------------- MODULE CallOutcome ----------------------------
(***************************************************************************)
(* What the list of calls shows of a call, from the signals stored for it   *)
(* and the status in its header, and what the staff report counts it as,    *)
(* which is a second program for the same thing, run by the database.       *)
(***************************************************************************)
EXTENDS Naturals, Sequences, FiniteSets

\* The signals of Twilio, of the Meet synchronisation and of the transcription.
EventTypes ==
  {"initiated", "created", "scheduled", "ringing", "answered", "busy", "no-answer",
   "failed", "canceled", "completed", "transcription-updated"}

Outcomes == {"answered", "busy", "no_answer", "failed", "canceled", "ringing",
             "in_progress", "unknown"}

\* mapTwilioStatusString; "none" stands for a status that is not there, "empty" for an
\* empty one.
StatusOutcome(status) ==
  CASE status = "no-answer" -> "no_answer"
    [] status \in {"busy", "failed", "canceled", "ringing", "answered"} -> status
    [] status = "completed" -> "answered"
    [] status \in {"in-progress", "queued", "initiated"} -> "in_progress"
    [] OTHER -> "unknown"

\* eventTypeToOutcome
EventOutcome(type, status) ==
  CASE type \in {"completed", "transcription-updated"} -> StatusOutcome(status)
    [] type \in {"answered", "busy", "failed", "canceled", "ringing", "no-answer"} ->
         StatusOutcome(type)
    [] type \in {"initiated", "created"} -> "in_progress"
    [] OTHER -> "unknown"

\* Fault: the signals are taken in the order in which they were stored.
EarlierByArrival(evts, i, j) == i < j

\* The stable sort by timestamp puts signal i before signal j.
Earlier(evts, i, j) ==
  \/ evts[i].time < evts[j].time
  \/ evts[i].time = evts[j].time /\ i < j

LatestOf(evts, S) == CHOOSE i \in S : \A j \in S \ {i} : Earlier(evts, j, i)

\* The signals before the last 'completed', or all of them without one.
Preceding(evts) ==
  LET done == {i \in DOMAIN evts : evts[i].type = "completed"}
  IN IF done = {} THEN DOMAIN evts
     ELSE {i \in DOMAIN evts : Earlier(evts, i, LatestOf(evts, done))}

\* deriveResolvedCallOutcome: the last signal that precedes the end of the call.
Resolved(evts, header) ==
  IF Preceding(evts) = {} THEN StatusOutcome(header)
  ELSE LET last == evts[LatestOf(evts, Preceding(evts))]
       IN EventOutcome(last.type, IF last.status = "none" THEN header ELSE last.status)

\* The signals in the order of their timestamps.
Sorted(evts) ==
  [n \in DOMAIN evts |->
     evts[CHOOSE i \in DOMAIN evts :
            Cardinality({j \in DOMAIN evts : Earlier(evts, j, i)}) = n - 1]]

\* RESOLVE_CALL_OUTCOME_FUNCTION: sorted, the signal at the place before that of the
\* last 'completed', or before the end of the list.  It takes an empty status for none
\* ('||'), which the list does not ('??').
ReportedOutcome(evts, header) ==
  LET ends == {n \in DOMAIN evts : Sorted(evts)[n].type = "completed"}
      end == IF ends = {} THEN Len(evts) + 1
             ELSE CHOOSE n \in ends : \A k \in ends : k <= n
  IN IF end = 1 THEN StatusOutcome(header)
     ELSE LET before == Sorted(evts)[end - 1]
          IN EventOutcome(before.type,
                          IF before.status \in {"none", "empty"} THEN header ELSE before.status)
=============================================================================
