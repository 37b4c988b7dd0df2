---------------------------- MODULE VentorBalance ----------------------------
(***************************************************************************)
(* The choice of a ventor for a customer: the assignments of each are       *)
(* counted in the database, one query after the other, and whoever has the  *)
(* fewest gets the customer, while other requests count and save.  Within   *)
(* one window: no assignment grows too old to count, and none is moved.     *)
(***************************************************************************)
EXTENDS Naturals, FiniteSets

CONSTANTS
  Office,               \* the ventors of the office
  Pickers               \* requests that assign a customer

ASSUME BalanceAssumption == IsFiniteSet(Pickers)

VARIABLES
  load,                 \* the assignments of each ventor in the window
  picking,              \* requests under way
  uncounted, counted    \* the ventors each has yet to count, countsByVentorId of the others

balanceVars == <<load, picking, uncounted, counted>>

BalanceInit ==
  /\ load = [v \in Office |-> 0]
  /\ picking = {}
  /\ uncounted = [p \in Pickers |-> {}]
  /\ counted = [p \in Pickers |-> [v \in Office |-> 0]]

\* executePickVentorByLoadBalance, for a customer without assignee.
StartPick(p) ==
  /\ p \notin picking
  /\ picking' = picking \cup {p}
  /\ uncounted' = [uncounted EXCEPT ![p] = Office]
  /\ UNCHANGED <<load, counted>>

\* The assignments of the next ventor are counted.
Count(p, v) ==
  /\ p \in picking /\ v \in uncounted[p]
  /\ counted' = [counted EXCEPT ![p][v] = load[v]]
  /\ uncounted' = [uncounted EXCEPT ![p] = @ \ {v}]
  /\ UNCHANGED <<load, picking>>

\* Fault: the greatest count wins.
Busiest(p, v) == \A w \in Office : counted[p][w] <= counted[p][v]

Fewest(p, v) == \A w \in Office : counted[p][v] <= counted[p][w]

\* Whoever has the fewest is saved as the assignee, the date of the assignment with him.
AssignTo(p, v) ==
  /\ p \in picking /\ uncounted[p] = {}
  /\ Fewest(p, v)
  /\ load' = [load EXCEPT ![v] = @ + 1]
  /\ picking' = picking \ {p}
  /\ UNCHANGED <<uncounted, counted>>

BalanceNext ==
  \E p \in Pickers : StartPick(p) \/ \E v \in Office : Count(p, v) \/ AssignTo(p, v)

BalanceSpec == BalanceInit /\ [][BalanceNext]_balanceVars

-----------------------------------------------------------------------------
(* Properties                                                                *)

\* Every variable has its type.
BalanceTypeOK ==
  /\ load \in [Office -> Nat]
  /\ picking \subseteq Pickers
  /\ uncounted \in [Pickers -> SUBSET Office] /\ counted \in [Pickers -> [Office -> Nat]]

\* No ventor ever has more assignments over another than requests can be under way,
\* however stale the counts are that each of them goes by.
EvenLoad == \A v, w \in Office : load[v] <= load[w] + Cardinality(Pickers)
=============================================================================
