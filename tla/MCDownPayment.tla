---------------------------- MODULE MCDownPayment ----------------------------
(* Symmetry for TLC: creations are interchangeable, and so are payments.      *)
EXTENDS DownPayment, TLC

Symmetry == Permutations(Creators) \cup Permutations(Payers)

=============================================================================
