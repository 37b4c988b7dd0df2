---------------------------- MODULE CallHistory ----------------------------
(***************************************************************************)
(* What the log of a call promises: the signals reported for the call are a *)
(* set that only grows, and a message leaves the queue only when its signal *)
(* is in that set.  How often and in which order messages come, and what    *)
(* dies meanwhile, is none of its business.  CallLog implements it.         *)
(***************************************************************************)
CONSTANT Signals        \* the types of signal a call may have

VARIABLES
  reported,             \* the signals in the log
  taken                 \* the signals whose message has left the queue

History == <<reported, taken>>

HistoryInit == reported = {} /\ taken = {}

Report(t) == reported' = reported \cup {t} /\ taken' \in {taken, taken \cup {t}}

Take(t) == t \in reported /\ taken' = taken \cup {t} /\ UNCHANGED reported

HistoryNext == \E t \in Signals : Report(t) \/ Take(t)

HistorySpec == HistoryInit /\ [][HistoryNext]_History
=============================================================================
