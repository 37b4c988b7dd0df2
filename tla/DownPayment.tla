----------------------------- MODULE DownPayment -----------------------------
(***************************************************************************)
(* CustomerDownPaymentService: the down payment of one customer for one     *)
(* project, and its fees.  A request is a sequence of awaited statements on *)
(* two collections without a transaction: the creation inserts the document,*)
(* stores the contract, inserts the first fee and writes the totals, with a *)
(* rollback in its catch; a payment reads the document, inserts a fee and   *)
(* saves the totals it computed from what it read.                          *)
(*                                                                          *)
(* Every request is made once, so a creation names the document it inserts  *)
(* and a request the fee it inserts.  save() writes the fields that differ  *)
(* from the document the request holds, each as an absolute value.          *)
(***************************************************************************)
EXTENDS Naturals, FiniteSets, FiniteSetsExt

CONSTANTS
  Creators,   \* requests that create the down payment
  Payers,     \* requests that add a fee to it
  Expected,   \* values agreed for a down payment
  Amounts,    \* values of a fee
  None,
  MaxAborts   \* bound for TLC

ASSUME RequestsAssumption ==
  Creators \cap Payers = {} /\ IsFiniteSet(Creators \cup Payers)
ASSUME ExpectedAssumption == Expected \subseteq Nat \ {0}
ASSUME AmountsAssumption == Amounts \subseteq Nat \ {0}

Requests == Creators \cup Payers

RowType ==
  [expected : Expected, paid : Nat, count : Nat, status : {"pending", "completed"},
   contract : BOOLEAN]
FeeType == [of : Creators, value : Amounts]

ASSUME NoneAssumption == None \notin RowType \cup FeeType \cup Creators

VARIABLES
  rows,      \* customer_down_payments, by the creation that inserted each
  fees,      \* customer_payment_fees, by the request that inserted each
  request,   \* the requests, with the document each one holds in memory
  overlapped,\* history: a payment began while another request for its document
             \* was under way
  aborts     \* history, bounded for TLC

history == <<overlapped, aborts>>
vars == <<rows, fees, request, history>>

Status(paid, expected) == IF paid >= expected THEN "completed" ELSE "pending"

\* The document as inserted: its status already counts the first payment in.
NewRow(expected, first) ==
  [expected |-> expected, paid |-> 0, count |-> 0, status |-> Status(first, expected),
   contract |-> FALSE]
Untouched == [at |-> "idle", dead |-> FALSE, of |-> None, expected |-> 0, value |-> 0,
              seen |-> None]

Init ==
  /\ rows = [c \in Creators |-> None]
  /\ fees = [r \in Requests |-> None]
  /\ request = [r \in Requests |-> Untouched]
  /\ overlapped = FALSE /\ aborts = 0

Ends == {"idle", "done", "failed"}
At(r, at) == request[r].at = at /\ ~request[r].dead
Goto(r, at) == request' = [request EXCEPT ![r].at = at]
UnderWay(r) == request[r].at \notin Ends /\ ~request[r].dead

FeesOf(c) == {r \in Requests : fees[r] # None /\ fees[r].of = c}
SumOf(R) == MapThenSumSet(LAMBDA r : fees[r].value, R)

-----------------------------------------------------------------------------
(* createDownPaymentWithFiles                                                *)

\* The values are checked and an existing document looked for.
CreateLook(c) ==
  /\ At(c, "idle")
  /\ \E expected \in Expected : \E first \in Amounts :
       /\ first <= expected
       /\ request' = [request EXCEPT ![c] =
            [Untouched EXCEPT !.at = IF \A d \in Creators : rows[d] = None
                                     THEN "create" ELSE "done",
                              !.of = c, !.expected = expected, !.value = first]]
  /\ UNCHANGED <<rows, fees, history>>

\* The unique index on customer and project admits one document.
CreateRow(c) ==
  /\ At(c, "create")
  /\ \/ /\ \A d \in Creators : rows[d] = None
        /\ rows' = [rows EXCEPT ![c] = NewRow(request[c].expected, request[c].value)]
        /\ Goto(c, "contract")
     \/ /\ \E d \in Creators : rows[d] # None
        /\ Goto(c, "done")
        /\ rows' = rows
  /\ UNCHANGED <<fees, history>>

SaveContract(c) ==
  /\ At(c, "contract")
  /\ rows' = [rows EXCEPT ![c].contract = TRUE]
  /\ Goto(c, "fee")
  /\ UNCHANGED <<fees, history>>

CreateFee(c) ==
  /\ At(c, "fee")
  /\ fees' = [fees EXCEPT ![c] = [of |-> c, value |-> request[c].value]]
  /\ Goto(c, "totals")
  /\ UNCHANGED <<rows, history>>

\* The evidence is stored and the totals saved; the status is what it was.
CreateTotals(c) ==
  /\ At(c, "totals")
  /\ rows' = [rows EXCEPT ![c].paid = request[c].value, ![c].count = 1]
  /\ Goto(c, "done")
  /\ UNCHANGED <<fees, history>>

\* A file or a document cannot be written: the catch rolls the creation back.
CreateFails(c) ==
  /\ \E at \in {"contract", "fee", "totals"} : At(c, at)
  /\ Goto(c, "undo")
  /\ UNCHANGED <<rows, fees, history>>

\* Fault: the rollback deletes the document and keeps its fees.
UndoFeesKeepsThem(c) ==
  /\ At(c, "undo")
  /\ Goto(c, "undoRow")
  /\ UNCHANGED <<rows, fees, history>>

UndoFees(c) ==
  /\ At(c, "undo")
  /\ fees' = [r \in Requests |-> IF r \in FeesOf(c) THEN None ELSE fees[r]]
  /\ Goto(c, "undoRow")
  /\ UNCHANGED <<rows, history>>

UndoRow(c) ==
  /\ At(c, "undoRow")
  /\ rows' = [rows EXCEPT ![c] = None]
  /\ Goto(c, "failed")
  /\ UNCHANGED <<fees, history>>

CreateNext == \E c \in Creators :
  \/ CreateLook(c) \/ CreateRow(c) \/ SaveContract(c) \/ CreateFee(c)
  \/ CreateTotals(c) \/ CreateFails(c) \/ UndoFees(c) \/ UndoRow(c)

-----------------------------------------------------------------------------
(* addFeeWithOptionalEvidence                                                *)

Remaining(row) == IF row.paid >= row.expected THEN 0 ELSE row.expected - row.paid

Free(c) == \A r \in Requests : request[r].of = c => ~UnderWay(r)

\* The document is read, and the payment held against what remains of it.
PayRead(p) ==
  /\ At(p, "idle")
  /\ \E c \in Creators : \E value \in Amounts :
       /\ rows[c] # None
       /\ value <= Remaining(rows[c])
       /\ overlapped' = (overlapped \/ ~Free(c))
       /\ request' = [request EXCEPT ![p] =
            [Untouched EXCEPT !.at = "fee", !.of = c, !.value = value, !.seen = rows[c]]]
  /\ UNCHANGED <<rows, fees, aborts>>

PayFee(p) ==
  /\ At(p, "fee")
  /\ fees' = [fees EXCEPT ![p] = [of |-> request[p].of, value |-> request[p].value]]
  /\ Goto(p, "save")
  /\ UNCHANGED <<rows, history>>

\* Its evidence cannot be stored: the fee is deleted again.
PayEvidenceFails(p) ==
  /\ At(p, "save")
  /\ fees' = [fees EXCEPT ![p] = None]
  /\ Goto(p, "failed")
  /\ UNCHANGED <<rows, history>>

\* Fault: the status is left as it was read.
PaidKeepsStatus(seen, value) ==
  [paid |-> seen.paid + value, count |-> seen.count + 1, status |-> seen.status]

\* The totals of the document in memory, after the payment.
Paid(seen, value) ==
  [paid |-> seen.paid + value, count |-> seen.count + 1,
   status |-> Status(seen.paid + value, seen.expected)]

\* save() overwrites the totals, and the status if it differs from the one
\* read; a document that is gone makes it throw, and the fee stays.
PaySave(p) ==
  LET c == request[p].of
      seen == request[p].seen
      paid == Paid(seen, request[p].value)
  IN
  /\ At(p, "save")
  /\ \/ /\ rows[c] # None
        /\ rows' = [rows EXCEPT ![c].paid = paid.paid, ![c].count = paid.count,
                      ![c].status = IF paid.status = seen.status THEN @ ELSE paid.status]
        /\ Goto(p, "done")
     \/ /\ rows[c] = None
        /\ Goto(p, "failed")
        /\ rows' = rows
  /\ UNCHANGED <<fees, history>>

PayNext == \E p \in Payers :
  PayRead(p) \/ PayFee(p) \/ PayEvidenceFails(p) \/ PaySave(p)

-----------------------------------------------------------------------------

\* A crash, or a database error outside the try: the request goes no further.
Abort(r) ==
  /\ UnderWay(r) /\ aborts < MaxAborts
  /\ aborts' = aborts + 1
  /\ request' = [request EXCEPT ![r].dead = TRUE]
  /\ UNCHANGED <<rows, fees, overlapped>>

Next == CreateNext \/ PayNext \/ \E r \in Requests : Abort(r)

Spec == Init /\ [][Next]_vars

-----------------------------------------------------------------------------
(* Properties                                                                *)

\* Types: what the totals, the fees and the documents held by requests are.
TypeOK ==
  /\ rows \in [Creators -> RowType \cup {None}]
  /\ fees \in [Requests -> FeeType \cup {None}]
  /\ request \in [Requests ->
       [at : {"idle", "create", "contract", "fee", "totals", "undo", "undoRow", "save",
              "done", "failed"},
        dead : BOOLEAN, of : Creators \cup {None}, expected : Expected \cup {0},
        value : Amounts \cup {0}, seen : RowType \cup {None}]]
  /\ overlapped \in BOOLEAN /\ aborts \in Nat

\* Two creations at once look and both find nothing: one document is left.
OneDownPayment ==
  \A c, d \in Creators : rows[c] # None /\ rows[d] # None => c = d

\* However payments and the creation overlap, the total that is recorded never
\* exceeds the value agreed: each total written was computed from one document
\* that the payment fitted in.
PaidWithinExpected ==
  \A c \in Creators : rows[c] # None => rows[c].paid <= rows[c].expected

\* Nothing is recorded as paid that has no fee behind it, whichever payments
\* failed or overtook each other, unless its creation is being rolled back.
PaidIsBacked ==
  \A c \in Creators :
    rows[c] # None /\ request[c].at # "undoRow" => rows[c].paid <= SumOf(FeesOf(c))

\* Payments that wait for the creation leave no fee without its down payment,
\* even if the creation fails half way or dies in its own rollback.
FeeHasItsDownPayment ==
  ~overlapped => \A r \in Requests : fees[r] # None => rows[fees[r].of] # None

\* Requests made one at a time leave an exact ledger: the totals are those of
\* the fees, those of the requests that died before saving them left out, the
\* status is that of the totals, and the contract is on file.
LedgerIsExact ==
  ~overlapped => \A c \in Creators :
    rows[c] # None /\ Free(c) /\ ~request[c].dead =>
      LET recorded == {r \in FeesOf(c) : ~request[r].dead} IN
      /\ rows[c].paid = SumOf(recorded)
      /\ rows[c].count = Cardinality(recorded)
      /\ rows[c].status = Status(rows[c].paid, rows[c].expected)
      /\ rows[c].contract

-----------------------------------------------------------------------------
(* What the service's own words promise, and overlapping payments break      *)

\* Fees are added until the expected value is reached ("Only fee payments can
\* be added until the expected value is reached.").
FeesWithinExpected ==
  \A c \in Creators : rows[c] # None => SumOf(FeesOf(c)) <= rows[c].expected

\* One document at most, within the value agreed, and no fee without its document.
DownPaymentSafe == TypeOK /\ OneDownPayment /\ PaidWithinExpected /\ FeeHasItsDownPayment

\* What is recorded as paid is backed by fees, and exactly so without overlap.
FeesBackTotals == PaidIsBacked /\ LedgerIsExact
=============================================================================
