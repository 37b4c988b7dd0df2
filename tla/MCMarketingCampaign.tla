------------------------ MODULE MCMarketingCampaign ------------------------
(* Instances of MarketingCampaign small enough for TLC. *)
EXTENDS MarketingCampaign, TLC

\* Recipients are interchangeable, and so are the processes of one kind.
Symmetry == Permutations(Recipients) \cup Permutations(Workers)
              \cup Permutations(Hooks)

\* Two instances in one: three recipients with a cancellation and a crash,
\* or with a claim that lapses; or two recipients with a retry and receipts.
CancelsAndCrashes ==
  /\ lapses = 0 \/ cancels + aborts = 0
  /\ \A r \in Recipients : retries[r] = 0
  /\ \A p \in Retriers \cup Hooks : pc[p] = "idle"

RetriesAndReceipts ==
  /\ cancels = 0 /\ aborts = 0 /\ lapses = 0
  /\ \A p \in Cancellers : pc[p] = "idle"
  /\ \/ \A p \in Hooks : pc[p] = "idle"
     \/ \A p \in Retriers : pc[p] = "idle"
  /\ \E r \in Recipients :
       /\ recipient[r] = "absent"
       /\ \A p \in Procs : r \notin todo[p]

OneInstance == CancelsAndCrashes \/ RetriesAndReceipts
=============================================================================
