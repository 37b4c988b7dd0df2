-------------------------- MODULE MCLeadCallSlots --------------------------
(* Symmetry for TLC: every set of LeadCallSlots is interchangeable.           *)
EXTENDS LeadCallSlots, TLC

Symmetry ==
  Permutations(Users) \cup Permutations(Slots) \cup Permutations(Sessions)
    \cup Permutations(Calls) \cup Permutations(Bookers) \cup Permutations(Admins)

\* Three instances in one: a booking at a time with an administrator, two calls and
\* a call that is closed; the same with a visit instead; or two bookings at once,
\* with three calls or a visit.
AtMostCalls(n) == Cardinality({c \in Calls : call[c] # NoCall}) <= n
Quiet == visits = {} /\ \A p \in Procs : job[p].late = {}

OneBooker ==
  /\ \E b \in Bookers : pc[b] = "idle"
  /\ AtMostCalls(2)
  /\ closes = 0 \/ ~disturbed
  /\ Quiet \/ (Cardinality(visits) <= 1 /\ closes = 0 /\ ~disturbed)

NoAdmin ==
  /\ Quiet \/ (Cardinality(visits) <= 1 /\ AtMostCalls(2))
  /\ \A a \in Admins : pc[a] = "idle"
  /\ closes = 0
  /\ \A s \in Sessions : mirror[s] = None /\ date[s] = None

OneInstance == OneBooker \/ NoAdmin

=============================================================================
