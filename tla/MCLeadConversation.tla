------------------------- MODULE MCLeadConversation -------------------------
(* Values and symmetry for TLC: the messages, the handlers and the slots are  *)
(* interchangeable in LeadConversation.                                       *)
EXTENDS LeadConversation, TLC

Symmetry ==
  Permutations(Messages) \cup Permutations(Handlers) \cup Permutations(Slots)

Written == {m \in Messages : said[m] # None}
Picks(m) == said[m].says \in Slots

\* Two instances in one: two messages, each delivered once, that answer or pick a
\* slot in a session nobody administers; or one message delivered twice, with a
\* send that fails and an administrator.
TwoAnswers ==
  /\ \A m \in Messages : deliveries[m] <= 1
  /\ \A m \in Written : said[m].says \in {"payment", "other"} \/ Picks(m)
  /\ failures = 0 /\ commands = 0
  /\ offered \cap {"payment", "slot"} # {}

OneAnswer ==
  /\ Cardinality(Written) <= 1
  /\ aborts + failures + commands <= 2
  /\ \A m \in Written : said[m].says \in {"all", "yes", "no"} \/ Picks(m)
  /\ "payment" \notin offered

OneInstance == TwoAnswers \/ OneAnswer

=============================================================================
