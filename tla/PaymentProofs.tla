---------------------------- MODULE PaymentProofs ----------------------------
(***************************************************************************)
(* What holds of payments for every number of requests and every set of     *)
(* values.  The totals of a down payment are written from what a request    *)
(* read earlier, so the inductive invariant says what a request in hand     *)
(* knows: that its document was inserted, with the value agreed it read,    *)
(* and that its payment fitted in what it read.  Of those who record        *)
(* payments it says what was true of them when they were asked; of single   *)
(* payments, that each is confirmed, under way, or left by a failure.       *)
(***************************************************************************)
EXTENDS DownPayment, PaymentReceipts, PaymentAccess, FiniteSetTheorems, TLAPS

Ats == {"idle", "create", "contract", "fee", "totals", "undo", "undoRow", "save",
        "done", "failed"}
RequestType ==
  [at : Ats, dead : BOOLEAN, of : Creators \cup {None}, expected : Expected \cup {0},
   value : Amounts \cup {0}, seen : RowType \cup {None}]

Inserted == {"contract", "fee", "totals", "undo", "undoRow"}

\* A creation holds checked values; its document is there from the insertion
\* until the creation ends, and never before.
CreatorKnows(c) ==
  /\ request[c].at \in {"create"} \cup Inserted =>
       /\ request[c].expected \in Expected /\ request[c].value \in Amounts
       /\ request[c].value <= request[c].expected
  /\ request[c].at \in Inserted =>
       rows[c] # None /\ rows[c].expected = request[c].expected
  /\ request[c].at \in {"idle", "create"} => rows[c] = None

\* A payment holds a document that was inserted, and fits in it.
PayerKnows(p) ==
  request[p].at \in {"fee", "save"} =>
    /\ request[p].of \in Creators /\ request[p].value \in Amounts
    /\ request[p].seen \in RowType
    /\ request[p].seen.paid + request[p].value <= request[p].seen.expected
    /\ request[request[p].of].at \notin {"idle", "create"}
    /\ rows[request[p].of] # None =>
         rows[request[p].of].expected = request[p].seen.expected

IInv ==
  /\ TypeOK
  /\ \A c \in Creators : CreatorKnows(c)
  /\ \A p \in Payers : PayerKnows(p)
  /\ PaidWithinExpected
  /\ OneDownPayment

\* What the type invariant says of a single document, fee and request.
LEMMA Typing ==
  ASSUME TypeOK
  PROVE  /\ \A c \in Creators : rows[c] # None => rows[c] \in RowType
         /\ \A r \in Requests : request[r] \in RequestType
         /\ \A r \in Requests : fees[r] # None => fees[r] \in FeeType
  BY DEF TypeOK, RequestType, Ats

\* Amounts and agreed values are positive numbers.
LEMMA Numbers ==
  /\ \A v \in Amounts : v \in Nat /\ v > 0
  /\ \A e \in Expected : e \in Nat /\ e > 0
  BY ExpectedAssumption, AmountsAssumption

\* A new document is a document.
LEMMA NewRowType ==
  ASSUME NEW e \in Expected, NEW v \in Amounts
  PROVE  /\ NewRow(e, v) \in RowType /\ NewRow(e, v) # None
         /\ NewRow(e, v).expected = e /\ NewRow(e, v).paid = 0
  <1>1. Status(v, e) \in {"pending", "completed"}
    BY DEF Status
  <1>2. NewRow(e, v) \in RowType
    BY <1>1 DEF NewRow, RowType
  <1>3. NewRow(e, v) # None
    BY <1>2, NoneAssumption
  <1> QED
    BY <1>2, <1>3 DEF NewRow

\* What is left of a document whose total is within the value agreed.
LEMMA RemainingFits ==
  ASSUME NEW row \in RowType, NEW v \in Amounts, v <= Remaining(row)
  PROVE  row.paid + v <= row.expected
  BY Numbers DEF Remaining, RowType

\* The invariant of the initial states.
LEMMA InitIInv == Init => IInv
  <1> SUFFICES ASSUME Init PROVE IInv
    OBVIOUS
  <1>1. TypeOK
    BY DEF Init, TypeOK, Untouched
  <1>2. \A r \in Requests : request[r].at = "idle"
    BY DEF Init, Untouched
  <1> QED
    BY <1>1, <1>2 DEF Init, IInv, CreatorKnows, PayerKnows, PaidWithinExpected,
      OneDownPayment, Inserted, Requests

-----------------------------------------------------------------------------
(* One lemma per kind of step                                                *)

\* A request goes on without changing a document: the creation keeps knowing
\* what it knew, unless it has just been inserted or ends.
LEMMA OthersKeepKnowing ==
  ASSUME IInv, TypeOK', NEW c \in Creators,
         \A r \in Requests \ {c} : request'[r] = request[r],
         \A d \in Creators \ {c} : rows'[d] = rows[d],
         rows[c] # None /\ rows'[c] # None => rows'[c].expected = rows[c].expected,
         rows[c] = None /\ rows'[c] # None => request[c].at \in {"idle", "create"},
         request'[c].at \in {"idle", "create"} => request[c].at \in {"idle", "create"}
  PROVE  /\ \A d \in Creators \ {c} : CreatorKnows(d)'
         /\ \A p \in Payers : PayerKnows(p)'
  <1>1. \A d \in Creators \ {c} : CreatorKnows(d)'
    BY DEF IInv, CreatorKnows, Requests
  <1>2. ASSUME NEW p \in Payers PROVE PayerKnows(p)'
    <2>1. PayerKnows(p) /\ request'[p] = request[p] /\ p \in Requests
      BY RequestsAssumption DEF IInv, Requests
    <2>2. SUFFICES ASSUME request[p].at \in {"fee", "save"} PROVE PayerKnows(p)'
      BY <2>1 DEF PayerKnows
    <2> DEFINE d == request[p].of
    <2>3. /\ d \in Creators /\ request[p].value \in Amounts /\ request[p].seen \in RowType
          /\ request[p].seen.paid + request[p].value <= request[p].seen.expected
          /\ request[d].at \notin {"idle", "create"}
          /\ rows[d] # None => rows[d].expected = request[p].seen.expected
      BY <2>1, <2>2 DEF PayerKnows
    <2>4. request'[d].at \notin {"idle", "create"}
      BY <2>3 DEF Requests
    <2>5. rows'[d] # None => rows'[d].expected = request[p].seen.expected
      BY <2>3
    <2> QED
      BY <2>1, <2>3, <2>4, <2>5 DEF PayerKnows
  <1> QED
    BY <1>1, <1>2

\* The steps of the creation keep the invariant.
LEMMA CreateKeeps ==
  ASSUME IInv, NEW c \in Creators,
         \/ CreateLook(c) \/ CreateRow(c) \/ SaveContract(c) \/ CreateFee(c)
         \/ CreateTotals(c) \/ CreateFails(c) \/ UndoFees(c) \/ UndoRow(c)
  PROVE  IInv'
  <1>0. c \in Requests /\ c \notin Payers /\ TypeOK /\ CreatorKnows(c)
        /\ PaidWithinExpected /\ OneDownPayment
    BY RequestsAssumption DEF IInv, Requests
  <1>n. request[c] \in RequestType
    BY <1>0, Typing
  <1>1. CASE CreateLook(c)
    <2> PICK expected \in Expected, first \in Amounts :
         /\ first <= expected
         /\ request' = [request EXCEPT ![c] =
              [Untouched EXCEPT !.at = IF \A d \in Creators : rows[d] = None
                                       THEN "create" ELSE "done",
                                !.of = c, !.expected = expected, !.value = first]]
      BY <1>1 DEF CreateLook
    <2>1. request[c].at = "idle" /\ UNCHANGED <<rows, fees, overlapped, aborts>>
      BY <1>1 DEF CreateLook, At, history
    <2>2. TypeOK'
      BY <1>0, <2>1 DEF TypeOK, Untouched
    <2>3. request'[c].at \in {"create", "done"} /\ request'[c].expected = expected
          /\ request'[c].value = first
      BY <1>0 DEF TypeOK, Untouched
    <2>4. \A r \in Requests \ {c} : request'[r] = request[r]
      BY <1>0 DEF TypeOK
    <2>5. CreatorKnows(c)'
      BY <1>0, <2>1, <2>3 DEF CreatorKnows, Inserted
    <2> QED
      BY <1>0, <2>1, <2>2, <2>4, <2>5, OthersKeepKnowing
        DEF IInv, PaidWithinExpected, OneDownPayment
  <1>2. CASE CreateRow(c)
    <2>1. request[c].at = "create" /\ UNCHANGED <<fees, overlapped, aborts>>
      BY <1>2 DEF CreateRow, At, history
    <2>2. /\ request[c].expected \in Expected /\ request[c].value \in Amounts
          /\ request[c].value <= request[c].expected /\ rows[c] = None
      BY <1>0, <2>1 DEF CreatorKnows
    <2> DEFINE row == NewRow(request[c].expected, request[c].value)
    <2>3. row \in RowType /\ row # None /\ row.expected = request[c].expected
          /\ row.paid = 0
      BY <2>2, NewRowType
    <2> HIDE DEF row
    <2>4. CASE /\ \A d \in Creators : rows[d] = None
               /\ rows' = [rows EXCEPT ![c] = row]
               /\ Goto(c, "contract")
      <3>1. TypeOK'
        BY <1>0, <2>1, <2>3, <2>4 DEF TypeOK, Goto
      <3>2. /\ request'[c] = [request[c] EXCEPT !.at = "contract"] /\ rows'[c] = row
            /\ \A r \in Requests \ {c} : request'[r] = request[r]
            /\ \A d \in Creators \ {c} : rows'[d] = None
        BY <1>0, <2>4 DEF TypeOK, Goto
      <3>3. request'[c].at = "contract" /\ request'[c].expected = request[c].expected
            /\ request'[c].value = request[c].value
        BY <1>n, <3>2 DEF RequestType
      <3>4. CreatorKnows(c)'
        BY <2>2, <2>3, <3>2, <3>3 DEF CreatorKnows, Inserted
      <3>5. OneDownPayment'
        BY <3>2 DEF OneDownPayment
      <3>6. PaidWithinExpected'
        BY <2>2, <2>3, <3>2, Numbers DEF PaidWithinExpected
      <3> QED
        BY <2>1, <2>2, <2>4, <3>1, <3>2, <3>3, <3>4, <3>5, <3>6, OthersKeepKnowing
          DEF IInv
    <2>5. CASE Goto(c, "done") /\ rows' = rows
      <3>1. TypeOK'
        BY <1>0, <2>1, <2>5 DEF TypeOK, Goto
      <3>2. request'[c].at = "done" /\ \A r \in Requests \ {c} : request'[r] = request[r]
        BY <1>0, <2>5 DEF TypeOK, Goto
      <3>3. CreatorKnows(c)'
        BY <3>2 DEF CreatorKnows, Inserted
      <3> QED
        BY <1>0, <2>1, <2>5, <3>1, <3>2, <3>3, OthersKeepKnowing
          DEF IInv, PaidWithinExpected, OneDownPayment
    <2> QED
      BY <1>2, <2>4, <2>5 DEF CreateRow, row
  <1>3. CASE SaveContract(c) \/ CreateTotals(c)
    <2>1. request[c].at \in {"contract", "totals"} /\ UNCHANGED <<fees, overlapped, aborts>>
      BY <1>3 DEF SaveContract, CreateTotals, At, history
    <2>2. /\ request[c].expected \in Expected /\ request[c].value \in Amounts
          /\ request[c].value <= request[c].expected
          /\ rows[c] # None /\ rows[c].expected = request[c].expected
      BY <1>0, <2>1 DEF CreatorKnows, Inserted
    <2>3. rows[c] \in RowType
      BY <1>0, <2>2, Typing
    <2>4. PICK row \in RowType :
            /\ rows' = [rows EXCEPT ![c] = row]
            /\ row.expected = rows[c].expected
            /\ row.paid \in {rows[c].paid, request[c].value}
      <3>1. CASE SaveContract(c)
        <4>1. [rows[c] EXCEPT !.contract = TRUE] \in RowType
          BY <2>3 DEF RowType
        <4> WITNESS [rows[c] EXCEPT !.contract = TRUE] \in RowType
        <4> QED
          BY <1>0, <2>3, <3>1, <4>1 DEF SaveContract, RowType, TypeOK
      <3>2. CASE CreateTotals(c)
        <4>1. [rows[c] EXCEPT !.paid = request[c].value, !.count = 1] \in RowType
          BY <2>2, <2>3, Numbers DEF RowType
        <4> WITNESS [rows[c] EXCEPT !.paid = request[c].value, !.count = 1] \in RowType
        <4> QED
          BY <1>0, <2>3, <3>2 DEF CreateTotals, RowType, TypeOK
      <3> QED
        BY <1>3, <3>1, <3>2
    <2>5. PICK at \in {"fee", "done"} : Goto(c, at)
      BY <1>3 DEF SaveContract, CreateTotals
    <2>6. TypeOK'
      BY <1>0, <2>1, <2>4, <2>5 DEF TypeOK, Goto
    <2>7. /\ request'[c] = [request[c] EXCEPT !.at = at] /\ rows'[c] = row
          /\ \A r \in Requests \ {c} : request'[r] = request[r]
          /\ \A d \in Creators \ {c} : rows'[d] = rows[d]
      BY <1>0, <2>4, <2>5 DEF TypeOK, Goto
    <2>8. request'[c].at = at /\ request'[c].expected = request[c].expected
          /\ request'[c].value = request[c].value /\ row # None
      BY <1>n, <2>7, NoneAssumption DEF RequestType
    <2>9. CreatorKnows(c)'
      BY <2>2, <2>4, <2>7, <2>8 DEF CreatorKnows, Inserted
    <2>10. PaidWithinExpected'
      BY <1>0, <2>2, <2>4, <2>7 DEF PaidWithinExpected
    <2>11. OneDownPayment'
      BY <1>0, <2>2, <2>7, <2>8 DEF OneDownPayment
    <2> QED
      BY <2>2, <2>4, <2>6, <2>7, <2>8, <2>9, <2>10, <2>11, OthersKeepKnowing DEF IInv
  <1>4. CASE CreateFee(c) \/ CreateFails(c) \/ UndoFees(c)
    <2>1. request[c].at \in Inserted /\ UNCHANGED <<rows, overlapped, aborts>>
      BY <1>4 DEF CreateFee, CreateFails, UndoFees, At, Inserted, history
    <2>2. /\ request[c].expected \in Expected /\ request[c].value \in Amounts
          /\ request[c].value <= request[c].expected
          /\ rows[c] # None /\ rows[c].expected = request[c].expected
      BY <1>0, <2>1 DEF CreatorKnows
    <2>3. PICK at \in {"totals", "undo", "undoRow"} : Goto(c, at)
      BY <1>4 DEF CreateFee, CreateFails, UndoFees
    <2>4. fees' \in [Requests -> FeeType \cup {None}]
      <3>1. CASE CreateFee(c)
        <4>1. [of |-> c, value |-> request[c].value] \in FeeType
          BY <2>2 DEF FeeType
        <4> QED
          BY <1>0, <3>1, <4>1 DEF CreateFee, TypeOK
      <3>2. CASE CreateFails(c)
        BY <1>0, <3>2 DEF CreateFails, TypeOK
      <3>3. CASE UndoFees(c)
        BY <1>0, <3>3 DEF UndoFees, TypeOK
      <3> QED
        BY <1>4, <3>1, <3>2, <3>3
    <2>5. TypeOK'
      <3>1. request' \in [Requests ->
              [at : Ats, dead : BOOLEAN, of : Creators \cup {None},
               expected : Expected \cup {0}, value : Amounts \cup {0},
               seen : RowType \cup {None}]]
        BY <1>0, <2>3 DEF TypeOK, Goto, Ats
      <3> QED
        BY <1>0, <2>1, <2>4, <3>1 DEF TypeOK, Ats
    <2>6. /\ request'[c] = [request[c] EXCEPT !.at = at]
          /\ \A r \in Requests \ {c} : request'[r] = request[r]
      BY <1>0, <2>3 DEF TypeOK, Goto
    <2>7. request'[c].at = at /\ request'[c].expected = request[c].expected
          /\ request'[c].value = request[c].value
      BY <1>n, <2>6 DEF RequestType
    <2>8. CreatorKnows(c)'
      BY <2>1, <2>2, <2>7 DEF CreatorKnows, Inserted
    <2> QED
      BY <1>0, <2>1, <2>2, <2>5, <2>6, <2>7, <2>8, OthersKeepKnowing
        DEF IInv, PaidWithinExpected, OneDownPayment
  <1>5. CASE UndoRow(c)
    <2>1. request[c].at = "undoRow" /\ UNCHANGED <<fees, overlapped, aborts>>
          /\ rows' = [rows EXCEPT ![c] = None] /\ Goto(c, "failed")
      BY <1>5 DEF UndoRow, At, history
    <2>2. TypeOK'
      BY <1>0, <2>1 DEF TypeOK, Goto
    <2>3. /\ request'[c].at = "failed" /\ rows'[c] = None
          /\ \A r \in Requests \ {c} : request'[r] = request[r]
          /\ \A d \in Creators \ {c} : rows'[d] = rows[d]
      BY <1>0, <2>1 DEF TypeOK, Goto
    <2>4. CreatorKnows(c)'
      BY <2>3 DEF CreatorKnows, Inserted
    <2>5. PaidWithinExpected' /\ OneDownPayment'
      BY <1>0, <2>3 DEF PaidWithinExpected, OneDownPayment
    <2> QED
      BY <2>2, <2>3, <2>4, <2>5, OthersKeepKnowing DEF IInv
  <1> QED
    BY <1>1, <1>2, <1>3, <1>4, <1>5

\* The steps of a payment keep the invariant.
LEMMA PayKeeps ==
  ASSUME IInv, NEW p \in Payers,
         PayRead(p) \/ PayFee(p) \/ PayEvidenceFails(p) \/ PaySave(p)
  PROVE  IInv'
  <1>0. p \in Requests /\ p \notin Creators /\ TypeOK /\ PayerKnows(p)
        /\ PaidWithinExpected /\ OneDownPayment
    BY RequestsAssumption DEF IInv, Requests
  <1>n. request[p] \in RequestType
    BY <1>0, Typing
  <1>1. CASE PayRead(p)
    <2> PICK c \in Creators, value \in Amounts :
         /\ rows[c] # None /\ value <= Remaining(rows[c])
         /\ request' = [request EXCEPT ![p] =
              [Untouched EXCEPT !.at = "fee", !.of = c, !.value = value,
                                !.seen = rows[c]]]
      BY <1>1 DEF PayRead
    <2>1. UNCHANGED <<rows, fees, aborts>> /\ overlapped' \in BOOLEAN
      BY <1>0, <1>1 DEF PayRead, TypeOK
    <2>2. rows[c] \in RowType
      BY <1>0, Typing
    <2>3. TypeOK'
      BY <1>0, <2>1, <2>2 DEF TypeOK, Untouched
    <2>4. /\ request'[p].at = "fee" /\ request'[p].of = c /\ request'[p].value = value
          /\ request'[p].seen = rows[c]
          /\ \A r \in Requests \ {p} : request'[r] = request[r]
      BY <1>0 DEF TypeOK, Untouched
    <2>5. rows[c].paid + value <= rows[c].expected
      BY <2>2, RemainingFits
    <2>6. request[c].at \notin {"idle", "create"}
      BY DEF IInv, CreatorKnows
    <2>7. request'[c] = request[c]
      BY <1>0, <2>4 DEF Requests
    <2>8. PayerKnows(p)'
      BY <2>1, <2>2, <2>4, <2>5, <2>6, <2>7 DEF PayerKnows
    <2>9. \A d \in Creators : CreatorKnows(d)'
      BY <1>0, <2>1, <2>4 DEF IInv, CreatorKnows, Requests
    <2>10. ASSUME NEW q \in Payers \ {p} PROVE PayerKnows(q)'
      <3>1. PayerKnows(q) /\ request'[q] = request[q]
        BY <2>4 DEF IInv, Requests
      <3>2. \A d \in Creators : request'[d] = request[d]
        BY <1>0, <2>4 DEF Requests
      <3> QED
        BY <2>1, <3>1, <3>2 DEF PayerKnows
    <2> QED
      BY <1>0, <2>1, <2>3, <2>8, <2>9, <2>10
        DEF IInv, PaidWithinExpected, OneDownPayment
  <1>2. CASE PayFee(p) \/ PayEvidenceFails(p) \/ PaySave(p)
    <2>1. request[p].at \in {"fee", "save"} /\ UNCHANGED history
      BY <1>2 DEF PayFee, PayEvidenceFails, PaySave, At
    <2> DEFINE c == request[p].of
               seen == request[p].seen
    <2>2. /\ c \in Creators /\ request[p].value \in Amounts /\ seen \in RowType
          /\ seen.paid + request[p].value <= seen.expected
          /\ request[c].at \notin {"idle", "create"}
          /\ rows[c] # None => rows[c].expected = seen.expected
      BY <1>0, <2>1 DEF PayerKnows
    <2>3. PICK at \in {"save", "failed", "done"} : Goto(p, at)
      BY <1>2 DEF PayFee, PayEvidenceFails, PaySave
    <2>4. /\ request'[p] = [request[p] EXCEPT !.at = at]
          /\ \A r \in Requests \ {p} : request'[r] = request[r]
      BY <1>0, <2>3 DEF TypeOK, Goto
    <2>5. /\ request'[p].of = c /\ request'[p].value = request[p].value
          /\ request'[p].seen = seen
      BY <1>n, <2>4 DEF RequestType
    <2>6. request' \in [Requests -> RequestType]
      BY <1>0, <2>3 DEF TypeOK, Goto, RequestType, Ats
    <2>7. fees' \in [Requests -> FeeType \cup {None}]
      <3>1. CASE PayFee(p)
        <4>1. [of |-> request[p].of, value |-> request[p].value] \in FeeType
          BY <2>2 DEF FeeType
        <4> QED
          BY <1>0, <3>1, <4>1 DEF PayFee, TypeOK
      <3>2. CASE PayEvidenceFails(p)
        BY <1>0, <3>2 DEF PayEvidenceFails, TypeOK
      <3>3. CASE PaySave(p)
        BY <1>0, <3>3 DEF PaySave, TypeOK
      <3> QED
        BY <1>2, <3>1, <3>2, <3>3
    <2>8. \/ rows' = rows
          \/ /\ rows[c] # None
             /\ \E row \in RowType : /\ rows' = [rows EXCEPT ![c] = row]
                                     /\ row.expected = rows[c].expected
                                     /\ row.paid = seen.paid + request[p].value
      <3>1. CASE PayFee(p) \/ PayEvidenceFails(p)
        BY <3>1 DEF PayFee, PayEvidenceFails
      <3>2. CASE PaySave(p) /\ rows[c] = None
        BY <3>2 DEF PaySave
      <3>3. CASE PaySave(p) /\ rows[c] # None
        <4> DEFINE paid == Paid(seen, request[p].value)
        <4> DEFINE row == [rows[c] EXCEPT !.paid = paid.paid, !.count = paid.count,
                 !.status = IF paid.status = seen.status THEN @ ELSE paid.status]
        <4>1. rows[c] \in RowType
          BY <1>0, <2>2, <3>3, Typing
        <4>2. /\ paid.paid = seen.paid + request[p].value /\ paid.paid \in Nat
              /\ paid.count \in Nat /\ paid.status \in {"pending", "completed"}
          BY <2>2, Numbers DEF Paid, RowType, Status
        <4> HIDE DEF paid
        <4>3. row \in RowType /\ row.expected = rows[c].expected /\ row.paid = paid.paid
          BY <4>1, <4>2 DEF RowType
        <4>4. rows' = [rows EXCEPT ![c] = row]
          <5>1. rows' = [rows EXCEPT ![c].paid = paid.paid, ![c].count = paid.count,
                  ![c].status = IF paid.status = seen.status THEN @ ELSE paid.status]
            BY <3>3 DEF PaySave, paid
          <5> QED
            BY <1>0, <2>2, <4>1, <5>1 DEF TypeOK, RowType
        <4> QED
          BY <3>3, <4>2, <4>3, <4>4
      <3> QED
        BY <1>2, <3>1, <3>2, <3>3
    <2>9. /\ rows' \in [Creators -> RowType \cup {None}]
          /\ \A d \in Creators : /\ rows[d] = None <=> rows'[d] = None
                                 /\ rows[d] # None => rows'[d].expected = rows[d].expected
          /\ PaidWithinExpected'
      <3>1. CASE rows' = rows
        BY <1>0, <3>1 DEF TypeOK, PaidWithinExpected
      <3>2. CASE rows[c] # None /\ \E row \in RowType :
                    /\ rows' = [rows EXCEPT ![c] = row]
                    /\ row.expected = rows[c].expected
                    /\ row.paid = seen.paid + request[p].value
        <4> PICK row \in RowType : /\ rows' = [rows EXCEPT ![c] = row]
                                   /\ row.expected = rows[c].expected
                                   /\ row.paid = seen.paid + request[p].value
          BY <3>2
        <4>1. row # None
          BY NoneAssumption
        <4>2. row.paid <= row.expected
          BY <2>2, <3>2
        <4> QED
          BY <1>0, <2>2, <3>2, <4>1, <4>2 DEF TypeOK, PaidWithinExpected
      <3> QED
        BY <2>8, <3>1, <3>2
    <2>10. TypeOK'
      BY <1>0, <2>1, <2>6, <2>7, <2>9 DEF TypeOK, RequestType, Ats, history
    <2>11. \A d \in Creators : request'[d] = request[d]
      BY <1>0, <2>4 DEF Requests
    <2>12. \A d \in Creators : CreatorKnows(d)'
      BY <2>9, <2>11 DEF IInv, CreatorKnows, Inserted
    <2>13. PayerKnows(p)'
      BY <2>2, <2>5, <2>9, <2>11 DEF PayerKnows
    <2>14. ASSUME NEW q \in Payers \ {p} PROVE PayerKnows(q)'
      <3>1. PayerKnows(q) /\ request'[q] = request[q]
        BY <2>4 DEF IInv, Requests
      <3> QED
        BY <2>9, <2>11, <3>1 DEF PayerKnows
    <2> QED
      BY <1>0, <2>9, <2>10, <2>12, <2>13, <2>14 DEF IInv, OneDownPayment
  <1> QED
    BY <1>1, <1>2

\* A request that dies keeps the invariant.
LEMMA AbortKeeps ==
  ASSUME IInv, NEW r \in Requests, Abort(r)
  PROVE  IInv'
  <1>1. TypeOK /\ request[r] \in RequestType
    BY Typing DEF IInv
  <1>2. UNCHANGED <<rows, fees, overlapped>> /\ request' = [request EXCEPT ![r].dead = TRUE]
        /\ aborts' = aborts + 1
    BY DEF Abort
  <1>3. TypeOK'
    <2>1. request' \in [Requests -> RequestType]
      BY <1>1, <1>2 DEF TypeOK, RequestType, Ats
    <2> QED
      BY <1>1, <1>2, <2>1 DEF TypeOK, RequestType, Ats
  <1>4. \A q \in Requests :
          /\ request'[q].at = request[q].at /\ request'[q].of = request[q].of
          /\ request'[q].expected = request[q].expected
          /\ request'[q].value = request[q].value /\ request'[q].seen = request[q].seen
    BY <1>1, <1>2 DEF TypeOK
  <1>5. \A c \in Creators : CreatorKnows(c)'
    BY <1>2, <1>4 DEF IInv, CreatorKnows, Requests
  <1>6. ASSUME NEW p \in Payers PROVE PayerKnows(p)'
    BY <1>2, <1>4 DEF IInv, PayerKnows, Requests
  <1> QED
    BY <1>2, <1>3, <1>5, <1>6 DEF IInv, PaidWithinExpected, OneDownPayment

\* A step that changes nothing keeps the invariant.
LEMMA StutterKeeps ==
  ASSUME IInv, UNCHANGED vars
  PROVE  IInv'
  BY DEF vars, history, IInv, TypeOK, CreatorKnows, PayerKnows, PaidWithinExpected,
    OneDownPayment

\* Every step keeps the invariant.
LEMMA NextKeeps == IInv /\ [Next]_vars => IInv'
  <1> SUFFICES ASSUME IInv, [Next]_vars PROVE IInv'
    OBVIOUS
  <1>1. CASE CreateNext
    BY <1>1, CreateKeeps DEF CreateNext
  <1>2. CASE PayNext
    BY <1>2, PayKeeps DEF PayNext
  <1>3. CASE \E r \in Requests : Abort(r)
    BY <1>3, AbortKeeps
  <1>4. CASE UNCHANGED vars
    BY <1>4, StutterKeeps
  <1> QED
    BY <1>1, <1>2, <1>3, <1>4 DEF Next

\* The inductive invariant holds in every reachable state.
LEMMA Invariant == Spec => []IInv
  BY InitIInv, NextKeeps, PTL DEF Spec

\* The totals, fees and documents of requests always have their types.
THEOREM TypeCorrect == Spec => []TypeOK
  <1>1. IInv => TypeOK
    BY DEF IInv
  <1> QED
    BY <1>1, Invariant, PTL

\* However many creations run at once, one down payment is left.
THEOREM OneDownPaymentCorrect == Spec => []OneDownPayment
  <1>1. IInv => OneDownPayment
    BY DEF IInv
  <1> QED
    BY <1>1, Invariant, PTL

\* However many payments overlap, no total recorded exceeds the value agreed.
THEOREM PaidWithinExpectedCorrect == Spec => []PaidWithinExpected
  <1>1. IInv => PaidWithinExpected
    BY DEF IInv
  <1> QED
    BY <1>1, Invariant, PTL

-----------------------------------------------------------------------------
(* Requests that wait for each other                                         *)

\* What a request under way may rely on when nobody overlaps it: a payment has
\* its document and no creation to undo it; a document about to be deleted by
\* its rollback has no fee left.
Alone ==
  /\ \A c \in Creators : UnderWay(c) => request[c].of = c
  /\ \A c \in Creators : At(c, "undoRow") => FeesOf(c) = {}
  /\ \A p \in Payers : request[p].at \in {"idle", "fee", "save", "done", "failed"}
  /\ \A p \in Payers :
       UnderWay(p) => rows[request[p].of] # None /\ ~UnderWay(request[p].of)

\* Every fee has its document.
Placed == \A r \in Requests : fees[r] # None => rows[fees[r].of] # None

SerialInv == Alone /\ Placed

\* The invariant of the initial states, when requests wait for each other.
LEMMA InitSerial == Init => SerialInv
  BY DEF Init, SerialInv, Alone, Placed, UnderWay, At, Ends, Untouched,
    Requests

\* The steps of a creation keep it: the only document deleted is one whose fees
\* are gone and that no payment has in hand.
LEMMA CreateSerial ==
  ASSUME IInv, SerialInv, NEW c \in Creators,
         \/ CreateLook(c) \/ CreateRow(c) \/ SaveContract(c) \/ CreateFee(c)
         \/ CreateTotals(c) \/ CreateFails(c) \/ UndoFees(c) \/ UndoRow(c)
  PROVE  SerialInv'
  <1>0. /\ c \in Requests /\ c \notin Payers /\ TypeOK /\ CreatorKnows(c)
        /\ \A p \in Payers : PayerKnows(p)
    BY RequestsAssumption DEF IInv, Requests
  <1>n. request[c] \in RequestType /\ rows \in [Creators -> RowType \cup {None}]
        /\ fees \in [Requests -> FeeType \cup {None}] /\ DOMAIN request = Requests
    BY <1>0, Typing DEF TypeOK
  <1>1. /\ ~request[c].dead
        /\ \A r \in Requests \ {c} : request'[r] = request[r]
    BY <1>n DEF CreateLook, CreateRow, SaveContract, CreateFee, CreateTotals, CreateFails,
      UndoFees, UndoRow, Goto, At
  <1>2. /\ request[c].at # "idle" => request'[c].of = c /\ UnderWay(c)
        /\ request[c].at = "idle" => request'[c].of = c /\ rows[c] = None
    <2>1. CASE CreateLook(c)
      BY <1>0, <1>n, <2>1 DEF CreateLook, At, CreatorKnows, Untouched
    <2>2. CASE ~CreateLook(c)
      <3>1. PICK at : Goto(c, at)
        BY <2>2 DEF CreateRow, SaveContract, CreateFee, CreateTotals, CreateFails,
          UndoFees, UndoRow
      <3>2. request'[c].of = request[c].of
        BY <1>n, <3>1 DEF Goto, RequestType
      <3>3. request[c].at \notin Ends
        BY <2>2 DEF CreateRow, SaveContract, CreateFee, CreateTotals, CreateFails,
          UndoFees, UndoRow, At, Ends
      <3>4. UnderWay(c)
        BY <1>1, <3>3 DEF UnderWay
      <3> QED
        BY <3>2, <3>3, <3>4 DEF SerialInv, Alone, Ends
    <2> QED
      BY <2>1, <2>2
  <1>3. \A p \in Payers : UnderWay(p) => request[p].of \in Creators \ {c}
    <2> SUFFICES ASSUME NEW p \in Payers, UnderWay(p) PROVE request[p].of \in Creators \ {c}
      OBVIOUS
    <2>1. request[p].of \in Creators
      BY <1>0 DEF SerialInv, Alone, UnderWay, Ends, PayerKnows
    <2>2. rows[request[p].of] # None /\ ~UnderWay(request[p].of)
      BY DEF SerialInv, Alone
    <2> QED
      BY <1>2, <2>1, <2>2
  <1>4. /\ \A d \in Creators \ {c} : rows'[d] = rows[d]
        /\ rows'[c] = None /\ rows[c] # None => FeesOf(c) = {} /\ fees' = fees
    <2>1. CASE UndoRow(c)
      BY <1>n, <2>1 DEF UndoRow, SerialInv, Alone
    <2>2. CASE CreateRow(c)
      <3>1. rows[c] = None
        BY <1>0, <2>2 DEF CreateRow, At, CreatorKnows
      <3> QED
        BY <1>n, <2>2, <3>1 DEF CreateRow
    <2>3. CASE SaveContract(c) \/ CreateTotals(c)
      <3>1. rows[c] \in RowType
        BY <1>0, <2>3, Typing DEF SaveContract, CreateTotals, At, CreatorKnows, Inserted
      <3>2. PICK row \in RowType : rows' = [rows EXCEPT ![c] = row]
        <4>1. [rows[c] EXCEPT !.contract = TRUE] \in RowType
          BY <3>1 DEF RowType
        <4>2. CASE SaveContract(c)
          BY <1>n, <4>1, <4>2 DEF SaveContract
        <4>3. CASE CreateTotals(c)
          <5>1. request[c].value \in Nat
            BY <1>0, <4>3, Numbers DEF CreateTotals, At, CreatorKnows, Inserted
          <5>2. [rows[c] EXCEPT !.paid = request[c].value, !.count = 1] \in RowType
            BY <3>1, <5>1 DEF RowType
          <5>3. rows' = [rows EXCEPT ![c] =
                           [rows[c] EXCEPT !.paid = request[c].value, !.count = 1]]
            BY <1>n, <3>1, <4>3 DEF CreateTotals, RowType
          <5> QED
            BY <5>2, <5>3
        <4> QED
          BY <2>3, <4>2, <4>3
      <3> QED
        BY <1>n, <3>2, NoneAssumption
    <2>4. CASE rows' = rows
      BY <2>4
    <2> QED
      BY <2>1, <2>2, <2>3, <2>4 DEF CreateLook, CreateFee, CreateFails, UndoFees
  <1>5. /\ \A r \in Requests : fees'[r] # None =>
             \/ fees'[r] = fees[r]
             \/ fees'[r].of = c /\ rows'[c] # None
        /\ At(c, "undoRow")' => FeesOf(c)' = {}
        /\ \A d \in Creators \ {c} : FeesOf(d) = {} => FeesOf(d)' = {}
    <2>1. CASE CreateFee(c)
      <3>1. rows[c] # None
        BY <1>0, <2>1 DEF CreateFee, At, CreatorKnows, Inserted
      <3>2. request'[c].at = "totals"
        BY <1>0, <1>n, <2>1 DEF CreateFee, Goto, RequestType
      <3>3. fees' = [fees EXCEPT ![c] = [of |-> c, value |-> request[c].value]]
            /\ rows' = rows
        BY <2>1 DEF CreateFee
      <3> QED
        BY <1>0, <1>n, <3>1, <3>2, <3>3 DEF FeesOf, At
    <2>2. CASE UndoFees(c)
      <3>1. fees' = [r \in Requests |-> IF r \in FeesOf(c) THEN None ELSE fees[r]]
        BY <2>2 DEF UndoFees
      <3>2. \A r \in Requests : fees'[r] # None => fees'[r] = fees[r] /\ r \notin FeesOf(c)
        BY <3>1
      <3> QED
        BY <3>2 DEF FeesOf
    <2>3. CASE fees' = fees /\ ~UndoFees(c) /\ ~CreateFee(c)
      <3>1. request'[c].at # "undoRow"
        <4>1. CASE CreateLook(c)
          BY <1>0, <1>n, <4>1 DEF CreateLook, Untouched
        <4>2. CASE ~CreateLook(c)
          <5>1. PICK at \in Ats \ {"undoRow"} : Goto(c, at)
            BY <2>3, <4>2 DEF CreateRow, SaveContract, CreateTotals, CreateFails, UndoRow,
              Ats
          <5> QED
            BY <1>0, <1>n, <5>1 DEF Goto, RequestType
        <4> QED
          BY <4>1, <4>2
      <3> QED
        BY <2>3, <3>1 DEF FeesOf, At
    <2> QED
      BY <2>1, <2>2, <2>3 DEF CreateLook, CreateRow, SaveContract, CreateTotals,
        CreateFails, UndoRow
  <1>6. Alone'
    <2>1. \A d \in Creators : UnderWay(d)' => request'[d].of = d
      BY <1>1, <1>2 DEF SerialInv, Alone, UnderWay, Requests
    <2>2. \A d \in Creators : At(d, "undoRow")' => FeesOf(d)' = {}
      BY <1>1, <1>5 DEF SerialInv, Alone, At, Requests
    <2>3. \A p \in Payers : request'[p] = request[p]
      BY <1>0, <1>1 DEF Requests
    <2>4. ASSUME NEW p \in Payers, UnderWay(p)'
          PROVE  (rows[request[p].of] # None /\ ~UnderWay(request[p].of))'
      <3>1. UnderWay(p) /\ request'[p] = request[p]
        BY <2>3, <2>4 DEF UnderWay
      <3>2. request[p].of \in Creators \ {c}
            /\ rows[request[p].of] # None /\ ~UnderWay(request[p].of)
        BY <1>3, <3>1 DEF SerialInv, Alone
      <3> QED
        BY <1>1, <1>4, <3>1, <3>2 DEF UnderWay, Requests
    <2> QED
      BY <2>1, <2>2, <2>3, <2>4 DEF SerialInv, Alone
  <1>7. Placed'
    <2> SUFFICES ASSUME NEW r \in Requests, fees'[r] # None PROVE rows'[fees'[r].of] # None
      BY DEF Placed
    <2>1. CASE fees'[r] = fees[r]
      <3>1. rows[fees[r].of] # None /\ fees[r].of \in Creators
        BY <1>0, <2>1, Typing DEF SerialInv, Placed, FeeType
      <3>2. fees[r].of = c => c \in Creators /\ r \in FeesOf(c)
        BY <2>1 DEF FeesOf
      <3> QED
        BY <1>4, <2>1, <3>1, <3>2
    <2> QED
      BY <1>5, <2>1
  <1> QED
    BY <1>6, <1>7 DEF SerialInv

\* The steps of a payment keep it: it starts when nobody else is under way.
LEMMA PaySerial ==
  ASSUME ~overlapped', IInv, SerialInv, NEW p \in Payers,
         PayRead(p) \/ PayFee(p) \/ PayEvidenceFails(p) \/ PaySave(p)
  PROVE  SerialInv'
  <1>0. /\ p \in Requests /\ p \notin Creators /\ TypeOK /\ PayerKnows(p)
    BY RequestsAssumption DEF IInv, Requests
  <1>n. request[p] \in RequestType /\ rows \in [Creators -> RowType \cup {None}]
        /\ fees \in [Requests -> FeeType \cup {None}] /\ DOMAIN request = Requests
    BY <1>0, Typing DEF TypeOK
  <1>1. /\ ~request[p].dead
        /\ \A r \in Requests \ {p} : request'[r] = request[r]
    BY <1>n DEF PayRead, PayFee, PayEvidenceFails, PaySave, Goto, At
  <1>2. \A d \in Creators : request'[d] = request[d]
    BY <1>0, <1>1 DEF Requests
  <1>3. CASE PayRead(p)
    <2> PICK c \in Creators, value \in Amounts :
         /\ rows[c] # None /\ overlapped' = (overlapped \/ ~Free(c))
         /\ request' = [request EXCEPT ![p] =
              [Untouched EXCEPT !.at = "fee", !.of = c, !.value = value,
                                !.seen = rows[c]]]
      BY <1>3 DEF PayRead
    <2>1. UNCHANGED <<rows, fees>>
      BY <1>3 DEF PayRead
    <2>2. request'[p].at = "fee" /\ request'[p].of = c
      BY <1>0, <1>n DEF Untouched
    <2>3. ~UnderWay(c)
      <3>1. Free(c)
        OBVIOUS
      <3> QED
        BY <3>1 DEF Free, SerialInv, Alone, Requests
    <2>4. \A q \in Payers \ {p} : request'[q] = request[q]
      BY <1>1 DEF Requests
    <2>5. ASSUME NEW q \in Payers, UnderWay(q)'
          PROVE  (rows[request[q].of] # None /\ ~UnderWay(request[q].of))'
      <3>1. CASE q = p
        BY <1>2, <2>1, <2>2, <2>3, <3>1 DEF UnderWay
      <3>2. CASE q # p
        <4>1. UnderWay(q) /\ request'[q] = request[q]
          BY <2>4, <2>5, <3>2 DEF UnderWay
        <4>2. request[q].of \in Creators
          BY <4>1 DEF SerialInv, Alone, IInv, PayerKnows, UnderWay, Ends
        <4> QED
          BY <1>2, <2>1, <4>1, <4>2 DEF SerialInv, Alone, UnderWay
      <3> QED
        BY <3>1, <3>2
    <2>6. Alone'
      <3>1. \A d \in Creators : UnderWay(d)' => request'[d].of = d
        BY <1>2 DEF SerialInv, Alone, UnderWay
      <3>2. \A d \in Creators : At(d, "undoRow")' => FeesOf(d)' = {}
        <4> TAKE d \in Creators
        <4>1. At(d, "undoRow") => FeesOf(d) = {}
          BY DEF SerialInv, Alone
        <4>2. FeesOf(d)' = FeesOf(d)
          BY <2>1 DEF FeesOf
        <4>3. At(d, "undoRow")' => At(d, "undoRow")
          BY <1>2 DEF At
        <4> QED
          BY <4>1, <4>2, <4>3
      <3>3. \A q \in Payers :
              UnderWay(q)' => (rows[request[q].of] # None /\ ~UnderWay(request[q].of))'
        <4> TAKE q \in Payers
        <4> QED
          BY <2>5
      <3>4. \A q \in Payers : request'[q].at \in {"idle", "fee", "save", "done", "failed"}
        BY <2>2, <2>4 DEF SerialInv, Alone
      <3> QED
        BY <3>1, <3>2, <3>3, <3>4 DEF Alone
    <2> QED
      BY <2>1, <2>6 DEF SerialInv, Placed
  <1>4. CASE PayFee(p) \/ PayEvidenceFails(p) \/ PaySave(p)
    <2>1. request[p].at \in {"fee", "save"} /\ UnderWay(p)
      BY <1>1, <1>4 DEF PayFee, PayEvidenceFails, PaySave, At, UnderWay, Ends
    <2> DEFINE c == request[p].of
    <2>2. c \in Creators /\ rows[c] # None /\ ~UnderWay(c) /\ request[p].seen \in RowType
          /\ request[p].value \in Amounts
      BY <1>0, <2>1 DEF PayerKnows, SerialInv, Alone
    <2>3. PICK at \in {"save", "failed", "done"} : Goto(p, at)
      BY <1>4 DEF PayFee, PayEvidenceFails, PaySave
    <2>4. request'[p].at = at /\ request'[p].of = c
      BY <1>0, <1>n, <2>3 DEF Goto, RequestType
    <2>5. \A d \in Creators : rows[d] # None => rows'[d] # None
      <3>1. CASE PayFee(p) \/ PayEvidenceFails(p)
        BY <3>1 DEF PayFee, PayEvidenceFails
      <3>2. CASE PaySave(p)
        <4>1. \A d \in Creators \ {c} : rows'[d] = rows[d]
          BY <1>n, <3>2 DEF PaySave
        <4>2. rows'[c] # None
          <5> DEFINE paid == Paid(request[p].seen, request[p].value)
          <5> DEFINE row == [rows[c] EXCEPT !.paid = paid.paid, !.count = paid.count,
                 !.status = IF paid.status = request[p].seen.status THEN @ ELSE paid.status]
          <5>1. rows[c] \in RowType
            BY <1>0, <2>2, Typing
          <5>2. /\ paid.paid \in Nat /\ paid.count \in Nat
                /\ paid.status \in {"pending", "completed"}
            BY <2>2, Numbers DEF Paid, RowType, Status
          <5>3. rows' = [rows EXCEPT ![c].paid = paid.paid, ![c].count = paid.count,
                  ![c].status = IF paid.status = request[p].seen.status THEN @
                                ELSE paid.status]
            BY <2>2, <3>2 DEF PaySave
          <5> HIDE DEF paid
          <5>4. row \in RowType
            BY <5>1, <5>2 DEF RowType
          <5>5. rows'[c] = row
            BY <1>n, <2>2, <5>1, <5>3 DEF RowType
          <5> QED
            BY <5>4, <5>5, NoneAssumption
        <4> QED
          BY <4>1, <4>2
      <3> QED
        BY <1>4, <3>1, <3>2
    <2>6. \A r \in Requests : fees'[r] # None =>
            \/ fees'[r] = fees[r]
            \/ fees'[r].of = c
      BY <1>n, <1>4 DEF PayFee, PayEvidenceFails, PaySave
    <2>7. \A q \in Payers \ {p} : request'[q] = request[q]
      BY <1>1 DEF Requests
    <2>8. ASSUME NEW q \in Payers, UnderWay(q)'
          PROVE  (rows[request[q].of] # None /\ ~UnderWay(request[q].of))'
      <3>1. UnderWay(q) /\ request'[q].of = request[q].of
        BY <2>1, <2>4, <2>7, <2>8 DEF UnderWay
      <3>2. request[q].of \in Creators
        BY <3>1 DEF SerialInv, Alone, IInv, PayerKnows, UnderWay, Ends
      <3> QED
        BY <1>2, <2>5, <3>1, <3>2 DEF SerialInv, Alone, UnderWay
    <2>9. \A d \in Creators : At(d, "undoRow")' => FeesOf(d)' = {}
      <3> SUFFICES ASSUME NEW d \in Creators, At(d, "undoRow")' PROVE FeesOf(d)' = {}
        OBVIOUS
      <3>1. At(d, "undoRow") /\ UnderWay(d)
        BY <1>2 DEF At, UnderWay, Ends
      <3>2. FeesOf(d) = {} /\ d # c
        BY <2>2, <3>1 DEF SerialInv, Alone
      <3> QED
        BY <2>6, <3>2 DEF FeesOf
    <2>10. Alone'
      BY <1>2, <2>4, <2>7, <2>8, <2>9 DEF SerialInv, Alone, UnderWay
    <2>11. Placed'
      <3> SUFFICES ASSUME NEW r \in Requests, fees'[r] # None
                   PROVE  rows'[fees'[r].of] # None
        BY DEF Placed
      <3>1. CASE fees'[r] = fees[r]
        BY <1>0, <2>5, <3>1, Typing DEF SerialInv, Placed, FeeType
      <3>2. CASE fees'[r].of = c
        BY <2>2, <2>5, <3>2
      <3> QED
        BY <2>6, <3>1, <3>2
    <2> QED
      BY <2>10, <2>11 DEF SerialInv
  <1> QED
    BY <1>3, <1>4

\* A request that dies keeps it: it is no longer under way.
LEMMA AbortSerial ==
  ASSUME IInv, SerialInv, NEW r \in Requests, Abort(r)
  PROVE  SerialInv'
  <1>1. TypeOK /\ request[r] \in RequestType
    BY Typing DEF IInv
  <1>2. UNCHANGED <<rows, fees>> /\ request' = [request EXCEPT ![r].dead = TRUE]
    BY DEF Abort
  <1>3. \A q \in Requests :
          /\ request'[q].at = request[q].at /\ request'[q].of = request[q].of
          /\ request[q].dead => request'[q].dead
    BY <1>1, <1>2 DEF TypeOK
  <1>4. \A q \in Requests : UnderWay(q)' => UnderWay(q)
    BY <1>1, <1>3, Typing DEF UnderWay
  <1>5. \A c \in Creators : At(c, "undoRow")' => At(c, "undoRow")
    BY <1>3 DEF At, Requests
  <1>6. \A c \in Creators : FeesOf(c)' = FeesOf(c)
    BY <1>2 DEF FeesOf
  <1>7. ASSUME NEW p \in Payers, UnderWay(p)'
        PROVE  (rows[request[p].of] # None /\ ~UnderWay(request[p].of))'
    <2>1. UnderWay(p) /\ p \in Requests
      BY <1>4, <1>7 DEF Requests
    <2>2. request[p].of \in Creators /\ rows[request[p].of] # None
          /\ ~UnderWay(request[p].of)
      BY <2>1 DEF SerialInv, Alone, IInv, PayerKnows, UnderWay, Ends
    <2> QED
      BY <1>2, <1>3, <1>4, <2>1, <2>2 DEF Requests
  <1>8. Alone'
    BY <1>3, <1>4, <1>5, <1>6, <1>7 DEF SerialInv, Alone, Requests
  <1> QED
    BY <1>2, <1>8 DEF SerialInv, Placed

\* Every step keeps it, unless it is a payment that overlaps another request.
LEMMA NextSerial ==
  IInv /\ (~overlapped => SerialInv) /\ [Next]_vars => (~overlapped' => SerialInv')
  <1> SUFFICES ASSUME IInv, ~overlapped => SerialInv, [Next]_vars, ~overlapped'
               PROVE  SerialInv'
    OBVIOUS
  <1>1. CASE CreateNext
    <2>1. overlapped' = overlapped
      BY <1>1 DEF CreateNext, CreateLook, CreateRow, SaveContract, CreateFee,
        CreateTotals, CreateFails, UndoFees, UndoRow, history
    <2> QED
      BY <1>1, <2>1, CreateSerial DEF CreateNext
  <1>2. CASE PayNext
    <2>1. overlapped => overlapped'
      BY <1>2 DEF PayNext, PayRead, PayFee, PayEvidenceFails, PaySave, history
    <2> QED
      BY <1>2, <2>1, PaySerial DEF PayNext
  <1>3. CASE \E r \in Requests : Abort(r)
    <2>1. overlapped' = overlapped
      BY <1>3 DEF Abort
    <2> QED
      BY <1>3, <2>1, AbortSerial
  <1>4. CASE UNCHANGED vars
    BY <1>4 DEF vars, history, SerialInv, Alone, Placed, UnderWay, At, FeesOf
  <1> QED
    BY <1>1, <1>2, <1>3, <1>4 DEF Next

\* While requests for one down payment wait for each other, no fee is ever
\* without its down payment, wherever a creation failed or died.
THEOREM FeeHasItsDownPaymentCorrect == Spec => []FeeHasItsDownPayment
  <1> DEFINE Inv == ~overlapped => SerialInv
  <1>1. Init => Inv
    BY InitSerial
  <1>2. IInv /\ Inv /\ [Next]_vars => Inv'
    BY NextSerial
  <1>3. Inv => FeeHasItsDownPayment
    BY DEF SerialInv, Placed, FeeHasItsDownPayment
  <1> HIDE DEF Inv
  <1> QED
    BY <1>1, <1>2, <1>3, Invariant, PTL DEF Spec

\* The run's conjunction of all four, for any requests, amounts and crashes.
THEOREM DownPaymentSafeCorrect == Spec => []DownPaymentSafe
  BY TypeCorrect, OneDownPaymentCorrect, PaidWithinExpectedCorrect,
     FeeHasItsDownPaymentCorrect, PTL DEF DownPaymentSafe

-----------------------------------------------------------------------------
(* Who may record a payment                                                  *)

SlipPlaces == {"idle", "office", "customer", "events", "record", "recorded", "refused"}
SlipType ==
  [at : SlipPlaces, by : Recorders, admin : BOOLEAN, unheard : BOOLEAN,
   once : SUBSET Facts, always : SUBSET Facts]

\* What the history of a request says of its user, and what the answers so far do.
Grounds(r) ==
  /\ slip[r].at # "idle" =>
       slip[r].always \subseteq TrueOf(By(r)) /\ TrueOf(By(r)) \subseteq slip[r].once
  /\ slip[r].at \in {"customer", "events"} => "physical" \in slip[r].once
  /\ slip[r].at = "events" => "having" \notin slip[r].always
  /\ slip[r].at \in {"record", "recorded"} =>
       \/ slip[r].admin
       \/ "physical" \in slip[r].once /\ slip[r].once \cap {"having", "guiding"} # {}
  /\ slip[r].at = "refused" /\ ~slip[r].unheard =>
       ~("physical" \in slip[r].always /\ slip[r].always \cap {"having", "guiding"} # {})

\* Nobody has a customer who is not there, or is his guide.
NobodysIfMissing == ~exists => is["having"] = {} /\ is["guiding"] = {}

AccessInv == AccessTypeOK /\ NobodysIfMissing /\ \A r \in Slips : Grounds(r)

LEMMA InitAccess == AccessInit => AccessInv
<1> SUFFICES ASSUME AccessInit PROVE AccessInv
  OBVIOUS
<1>1. is \in [Facts -> SUBSET Recorders] /\ Cardinality(is["having"]) <= 1 /\ transfers \in Nat
  BY FS_EmptySet DEF AccessInit
<1>2. ASSUME NEW r \in Slips PROVE slip[r] \in SlipType /\ slip[r].at = "idle"
  <2>1. PICK u \in Recorders : slip[r] = NoSlip(u)
    BY DEF AccessInit
  <2> QED
    BY <2>1 DEF NoSlip, SlipType, SlipPlaces
<1>3. slip \in [Slips -> SlipType]
  BY <1>2 DEF AccessInit
<1>4. AccessTypeOK
  BY <1>1, <1>3 DEF AccessInit, AccessTypeOK, SlipType, SlipPlaces
<1>5. NobodysIfMissing
  BY DEF AccessInit, NobodysIfMissing
<1> QED
  BY <1>2, <1>4, <1>5 DEF AccessInv, Grounds

\* The office changes.
LEMMA TransferStep ==
  ASSUME AccessInv, NEW fact \in Facts, NEW users \in SUBSET Recorders, Transfer(fact, users),
         fact = "having" => Cardinality(users) <= 1
  PROVE  AccessInv'
<1>1. is \in [Facts -> SUBSET Recorders] /\ slip \in [Slips -> SlipType]
  BY DEF AccessInv, AccessTypeOK, SlipType, SlipPlaces
<1>2. /\ is' \in [Facts -> SUBSET Recorders] /\ is'[fact] = users
      /\ \A f \in Facts \ {fact} : is'[f] = is[f]
  BY <1>1 DEF Transfer
<1>3. Cardinality(is'["having"]) <= 1
  BY <1>2 DEF AccessInv, AccessTypeOK, Facts
<1>4. transfers' \in Nat
  <2>1. transfers \in Nat /\ transfers' = transfers + 1
    BY DEF AccessInv, AccessTypeOK, Transfer
  <2> QED
    BY <2>1
<1>5. ASSUME NEW r \in Slips
      PROVE  /\ slip'[r] \in SlipType
             /\ slip'[r].at = slip[r].at /\ slip'[r].by = slip[r].by
             /\ slip'[r].admin = slip[r].admin /\ slip'[r].unheard = slip[r].unheard
             /\ slip[r].at # "idle" =>
                  /\ slip'[r].once = IF By(r) \in users THEN slip[r].once \cup {fact}
                                     ELSE slip[r].once
                  /\ slip'[r].always = IF By(r) \in users THEN slip[r].always
                                       ELSE slip[r].always \ {fact}
             /\ slip[r].at = "idle" => slip'[r] = slip[r]
  <2> DEFINE still == By(r) \in users
             new == [slip[r] EXCEPT !.once = IF still THEN @ \cup {fact} ELSE @,
                                    !.always = IF still THEN @ ELSE @ \ {fact}]
  <2>1. slip[r] \in SlipType
    BY <1>1
  <2>2. slip'[r] = IF slip[r].at = "idle" THEN slip[r] ELSE new
    BY DEF Transfer
  <2>3. /\ new \in SlipType
        /\ new.at = slip[r].at /\ new.by = slip[r].by
        /\ new.admin = slip[r].admin /\ new.unheard = slip[r].unheard
        /\ new.once = IF still THEN slip[r].once \cup {fact} ELSE slip[r].once
        /\ new.always = IF still THEN slip[r].always ELSE slip[r].always \ {fact}
    BY <2>1 DEF SlipType
  <2> HIDE DEF new
  <2>4. CASE slip[r].at = "idle"
    BY <2>1, <2>2, <2>4
  <2>5. CASE slip[r].at # "idle"
    <3>1. slip'[r] = new
      BY <2>2, <2>5
    <3> QED
      BY <2>3, <2>5, <3>1
  <2> QED
    BY <2>4, <2>5
<1>6. slip' \in [Slips -> SlipType]
  BY <1>5 DEF Transfer
<1>7. AccessTypeOK'
  BY <1>2, <1>3, <1>4, <1>6 DEF AccessInv, Transfer, AccessTypeOK, SlipType, SlipPlaces
<1>9. NobodysIfMissing'
  BY <1>2 DEF AccessInv, NobodysIfMissing, Transfer, Facts
<1>8. ASSUME NEW r \in Slips PROVE Grounds(r)'
  <2>1. Grounds(r) /\ By(r)' = By(r)
    BY <1>5 DEF AccessInv, By
  <2>2. CASE slip[r].at = "idle"
    BY <1>5, <2>1, <2>2 DEF Grounds
  <2>3. CASE slip[r].at # "idle"
    <3>1. slip'[r].always \subseteq slip[r].always /\ slip[r].once \subseteq slip'[r].once
      BY <1>5, <2>3
    <3>2. /\ slip'[r].always \subseteq TrueOf(By(r))'
          /\ TrueOf(By(r))' \subseteq slip'[r].once
      <4>1. /\ slip[r].always \subseteq TrueOf(By(r))
            /\ TrueOf(By(r)) \subseteq slip[r].once
        BY <2>1, <2>3 DEF Grounds
      <4>2. \A f \in Facts : f \in TrueOf(By(r))' <=> By(r) \in is'[f]
        BY <2>1 DEF TrueOf
      <4>3. \A f \in Facts : f \in TrueOf(By(r)) <=> By(r) \in is[f]
        BY DEF TrueOf
      <4>4. TrueOf(By(r)) \subseteq Facts /\ TrueOf(By(r))' \subseteq Facts
        BY DEF TrueOf
      <4>5. CASE By(r) \in users
        BY <1>2, <1>5, <2>3, <4>1, <4>2, <4>3, <4>4, <4>5
      <4>6. CASE By(r) \notin users
        BY <1>2, <1>5, <2>3, <4>1, <4>2, <4>3, <4>4, <4>6
      <4> QED
        BY <4>5, <4>6
    <3> QED
      BY <1>5, <2>1, <2>3, <3>1, <3>2 DEF Grounds
  <2> QED
    BY <2>2, <2>3
<1> QED
  BY <1>7, <1>8, <1>9 DEF AccessInv

\* A request goes on by what is true of its user now.
LEMMA SlipStep ==
  ASSUME AccessInv, NEW r \in Slips,
         \/ \E admin \in BOOLEAN : AskToRecord(r, admin)
         \/ AskOffice(r) \/ LookCustomer(r) \/ LookEvents(r) \/ RecordPayment(r)
  PROVE  AccessInv'
<1>1. slip \in [Slips -> SlipType] /\ Grounds(r)
  BY DEF AccessInv, AccessTypeOK, SlipType, SlipPlaces
<1>2. UNCHANGED <<is, exists, transfers>>
  BY DEF AskToRecord, AskOffice, LookCustomer, LookEvents, RecordPayment, office
<1>3. ASSUME NEW new, slip' = [slip EXCEPT ![r] = new], new \in SlipType, Grounds(r)'
      PROVE  AccessInv'
  <2>1. slip' \in [Slips -> SlipType]
    BY <1>1, <1>3
  <2>2. AccessTypeOK'
    BY <1>2, <2>1 DEF AccessInv, AccessTypeOK, SlipType, SlipPlaces
  <2>3. \A q \in Slips \ {r} : slip'[q] = slip[q]
    BY <1>1, <1>3
  <2>4. \A q \in Slips \ {r} : Grounds(q)'
    BY <1>2, <2>3 DEF AccessInv, Grounds, TrueOf, By
  <2> QED
    BY <1>2, <1>3, <2>2, <2>4 DEF AccessInv, NobodysIfMissing
<1>4. ASSUME NEW admin \in BOOLEAN, AskToRecord(r, admin) PROVE AccessInv'
  <2> DEFINE new == [NoSlip(By(r)) EXCEPT !.at = IF admin THEN "record" ELSE "office",
                       !.admin = admin, !.once = TrueOf(By(r)), !.always = TrueOf(By(r))]
  <2>1. slip' = [slip EXCEPT ![r] = new]
    BY <1>4 DEF AskToRecord
  <2>2. By(r) \in Recorders /\ TrueOf(By(r)) \in SUBSET Facts
    BY <1>1 DEF SlipType, By, TrueOf
  <2>3. /\ new \in SlipType /\ new.by = By(r) /\ new.admin = admin
        /\ new.at = IF admin THEN "record" ELSE "office"
        /\ new.once = TrueOf(By(r)) /\ new.always = TrueOf(By(r))
    BY <2>2 DEF NoSlip, SlipType, SlipPlaces
  <2> HIDE DEF new
  <2>4. slip'[r] = new
    BY <1>1, <2>1
  <2>5. TrueOf(By(r))' = TrueOf(By(r))
    BY <1>2, <2>3, <2>4 DEF TrueOf, By
  <2>6. Grounds(r)'
    BY <2>3, <2>4, <2>5 DEF Grounds
  <2> QED
    BY <1>3, <2>1, <2>3, <2>6
<1>5. ASSUME NEW place \in SlipPlaces, NEW deaf \in BOOLEAN,
             slip' = [slip EXCEPT ![r].at = place, ![r].unheard = deaf],
             \/ /\ place = "customer" /\ slip[r].at = "office" /\ By(r) \in is["physical"]
             \/ /\ place = "events" /\ slip[r].at = "customer" /\ By(r) \notin is["having"]
             \/ /\ place = "record" /\ slip[r].at \in {"customer", "events"}
                /\ By(r) \in is["having"] \cup is["guiding"]
             \/ /\ place = "recorded" /\ slip[r].at = "record"
             \/ /\ place = "refused" /\ deaf /\ slip[r].at = "office"
             \/ /\ place = "refused" /\ slip[r].at = "office" /\ By(r) \notin is["physical"]
             \/ /\ place = "refused" /\ slip[r].at \in {"customer", "events"}
                /\ By(r) \notin is["guiding"]
                /\ slip[r].at = "customer" => By(r) \notin is["having"]
      PROVE  AccessInv'
  <2> DEFINE new == [slip[r] EXCEPT !.at = place, !.unheard = deaf]
  <2>1. slip' = [slip EXCEPT ![r] = new] /\ slip'[r] = new
    BY <1>1, <1>5
  <2>2. /\ new \in SlipType /\ new.at = place /\ new.unheard = deaf /\ new.by = slip[r].by
        /\ new.admin = slip[r].admin
        /\ new.once = slip[r].once /\ new.always = slip[r].always
    BY <1>1 DEF SlipType
  <2> HIDE DEF new
  <2>3. By(r)' = By(r) /\ TrueOf(By(r))' = TrueOf(By(r))
    BY <1>2, <2>1, <2>2 DEF By, TrueOf
  <2>4. \A f \in Facts : f \in TrueOf(By(r)) <=> By(r) \in is[f]
    BY DEF TrueOf
  <2>5. slip[r].always \subseteq TrueOf(By(r)) /\ TrueOf(By(r)) \subseteq slip[r].once
    BY <1>1, <1>5 DEF Grounds
  <2>6. Grounds(r)'
    BY <1>1, <1>5, <2>1, <2>2, <2>3, <2>4, <2>5 DEF Grounds, Facts
  <2> QED
    BY <1>3, <2>1, <2>2, <2>6
<1>6. ASSUME NEW place \in SlipPlaces, SlipTo(r, place)
      PROVE  slip' = [slip EXCEPT ![r].at = place, ![r].unheard = slip[r].unheard]
             /\ slip[r].unheard \in BOOLEAN
  <2>1. slip[r] \in SlipType
    BY <1>1
  <2>2. [slip[r] EXCEPT !.at = place] =
          [[slip[r] EXCEPT !.at = place] EXCEPT !.unheard = slip[r].unheard]
    BY <2>1 DEF SlipType
  <2> QED
    BY <1>1, <1>6, <2>1, <2>2 DEF SlipTo, SlipType
<1>7. CASE AskOffice(r)
  <2>1. CASE SlipTo(r, "customer") /\ By(r) \in is["physical"]
    BY <1>5, <1>6, <1>7, <2>1 DEF AskOffice, SlipPlaces
  <2>2. CASE SlipTo(r, "refused") /\ By(r) \notin is["physical"]
    BY <1>5, <1>6, <1>7, <2>2 DEF AskOffice, SlipPlaces
  <2>3. CASE slip' = [slip EXCEPT ![r].at = "refused", ![r].unheard = TRUE]
    BY <1>5, <1>7, <2>3 DEF AskOffice, SlipPlaces
  <2> QED
    BY <1>7, <2>1, <2>2, <2>3 DEF AskOffice
<1>8. CASE LookCustomer(r)
  <2>3. CASE SlipTo(r, "refused") /\ ~exists
    <3>1. By(r) \notin is["having"] /\ By(r) \notin is["guiding"]
      BY <2>3 DEF AccessInv, NobodysIfMissing
    <3> QED
      BY <1>5, <1>6, <1>8, <2>3, <3>1 DEF LookCustomer, SlipPlaces
  <2>1. CASE SlipTo(r, "record") /\ By(r) \in is["having"]
    BY <1>5, <1>6, <1>8, <2>1 DEF LookCustomer, SlipPlaces
  <2>2. CASE SlipTo(r, "events") /\ By(r) \notin is["having"]
    BY <1>5, <1>6, <1>8, <2>2 DEF LookCustomer, SlipPlaces
  <2> QED
    BY <1>8, <2>1, <2>2, <2>3 DEF LookCustomer
<1>9. CASE LookEvents(r)
  <2>1. CASE SlipTo(r, "record") /\ By(r) \in is["guiding"]
    BY <1>5, <1>6, <1>9, <2>1 DEF LookEvents, SlipPlaces
  <2>2. CASE SlipTo(r, "refused") /\ By(r) \notin is["guiding"]
    BY <1>5, <1>6, <1>9, <2>2 DEF LookEvents, SlipPlaces
  <2> QED
    BY <1>9, <2>1, <2>2 DEF LookEvents
<1>10. CASE RecordPayment(r)
  BY <1>5, <1>6, <1>10 DEF RecordPayment, SlipPlaces
<1> QED
  BY <1>4, <1>7, <1>8, <1>9, <1>10

\* However ventors and guides change while a request is being asked about: whoever
\* recorded a payment had the right to at some time since, and whoever had it all the
\* time is not refused.
THEOREM AccessIsCorrect == AccessSpec => []AccessCorrect
<1>1. AccessInv /\ [AccessNext]_accessVars => AccessInv'
  <2> SUFFICES ASSUME AccessInv, [AccessNext]_accessVars PROVE AccessInv'
    OBVIOUS
  <2>1. ASSUME NEW users \in SUBSET Recorders,
               \/ \E fact \in {"physical", "guiding"} : Transfer(fact, users)
               \/ Cardinality(users) <= 1 /\ Transfer("having", users)
        PROVE  AccessInv'
    BY <2>1, TransferStep DEF Facts
  <2>2. CASE UNCHANGED accessVars
    BY <2>2 DEF accessVars, office, AccessInv, AccessTypeOK, NobodysIfMissing, Grounds,
                TrueOf, By
  <2> QED
    BY <2>1, <2>2, SlipStep DEF AccessNext
<1>2. AccessInv => AccessCorrect
  BY DEF AccessInv, AccessCorrect, Grounds, RecordedByTheirVentor, VentorIsNotRefused
<1> QED
  BY <1>1, <1>2, InitAccess, PTL DEF AccessSpec

-----------------------------------------------------------------
(* Sums over finite sets                                                     *)

One(S) == CHOOSE x \in S : TRUE

\* F is the sum of v over each subset of S, its elements taken as CHOOSE takes them;
\* SumOver is the one over S, which is what MapThenSumSet stands for.
Sums(F, v, S) ==
  F = [T \in SUBSET S |-> IF T = {} THEN 0 ELSE v[One(T)] + F[T \ {One(T)}]]
SumOver(v, S) == (CHOOSE F : Sums(F, v, S))[S]

\* Among some subsets of a finite set there is a least one.
LEMMA LeastSubset ==
  ASSUME NEW S, IsFiniteSet(S), NEW B, B \subseteq SUBSET S, B # {}
  PROVE  \E T \in B : \A x \in T : T \ {x} \notin B
  <1>1. B \subseteq FiniteSubsetsOf(S)
    BY FS_FiniteSubsetsOfFinite
  <1>2. PICK T \in B : \A U \in B : <<U, T>> \notin StrictSubsetOrdering(S)
    BY <1>1, FS_StrictSubsetOrderingWellFounded, WFMin
  <1>3. ASSUME NEW x \in T, T \ {x} \in B PROVE FALSE
    <2>1. T \in SUBSET S /\ T \ {x} \in SUBSET S
      OBVIOUS
    <2>2. <<T \ {x}, T>> \in (SUBSET S) \X (SUBSET S)
      BY <2>1
    <2>3. T \ {x} \subseteq T /\ T \ {x} # T
      OBVIOUS
    <2>4. <<T \ {x}, T>> \in StrictSubsetOrdering(S)
      BY <2>2, <2>3 DEF StrictSubsetOrdering
    <2> QED
      BY <1>2, <1>3, <2>4
  <1> QED
    BY <1>2, <1>3

\* There is a sum.
LEMMA SumsExist ==
  ASSUME NEW S, IsFiniteSet(S), NEW v
  PROVE  \E F : Sums(F, v, S)
  <1> DEFINE Step(F, T) == IF T = {} THEN 0 ELSE v[One(T)] + F[T \ {One(T)}]
             Fixed(F, T) == \A U \in SUBSET S :
                              Cardinality(U) <= Cardinality(T) => F[U] = Step(F, U)
             B == {T \in SUBSET S : ~ \E F : DOMAIN F = SUBSET S /\ F = [U \in SUBSET S |-> F[U]] /\ Fixed(F, T)}
  <1>1. ASSUME B # {} PROVE FALSE
    <2>1. PICK T \in B : \A x \in T : T \ {x} \notin B
      <3> HIDE DEF B
      <3>1. B \subseteq SUBSET S
        BY DEF B
      <3> QED
        BY <1>1, <3>1, LeastSubset
    <2>2. T \in SUBSET S /\ IsFiniteSet(T)
      BY <2>1, FS_Subset
    <2>3. \A U \in SUBSET S : IsFiniteSet(U) /\ Cardinality(U) \in Nat
      BY FS_Subset, FS_CardinalityType
    <2>4. CASE T = {}
      <3> DEFINE F == [U \in SUBSET S |-> 0]
      <3>1. ASSUME NEW U \in SUBSET S, Cardinality(U) <= Cardinality(T)
            PROVE  F[U] = Step(F, U)
        <4>1. U = {}
          BY <2>3, <2>4, <3>1, FS_EmptySet
        <4> QED
          BY <4>1
      <3>2. DOMAIN F = SUBSET S /\ F = [U \in SUBSET S |-> F[U]] /\ Fixed(F, T)
        BY <3>1
      <3> QED
        BY <2>1, <3>2
    <2>5. CASE T # {}
      <3>1. PICK x \in T : TRUE
        BY <2>5
      <3>2. PICK F : DOMAIN F = SUBSET S /\ F = [U \in SUBSET S |-> F[U]]
                     /\ Fixed(F, T \ {x})
        BY <2>1, <2>2, <3>1
      <3> DEFINE H == [U \in SUBSET S |-> Step(F, U)]
      <3>3. Cardinality(T \ {x}) = Cardinality(T) - 1
        BY <2>2, <3>1, FS_RemoveElement
      <3>4. ASSUME NEW U \in SUBSET S, Cardinality(U) <= Cardinality(T)
            PROVE  H[U] = Step(H, U)
        <4>1. CASE U = {}
          BY <4>1
        <4>2. CASE U # {}
          <5> DEFINE W == U \ {One(U)}
          <5>1. One(U) \in U
            BY <4>2 DEF One
          <5>2. W \in SUBSET S /\ Cardinality(W) = Cardinality(U) - 1
            BY <5>1, <2>3, FS_RemoveElement
          <5>3. Cardinality(W) <= Cardinality(T \ {x})
            BY <2>2, <2>3, <3>3, <3>4, <5>2
          <5>4. F[W] = Step(F, W)
            BY <3>2, <5>2, <5>3
          <5>5. H[W] = F[W]
            BY <5>2, <5>4
          <5> QED
            BY <4>2, <5>5
        <4> QED
          BY <4>1, <4>2
      <3>5. DOMAIN H = SUBSET S /\ H = [U \in SUBSET S |-> H[U]]
        OBVIOUS
      <3> HIDE DEF H
      <3>6. Fixed(H, T)
        BY <3>4
      <3> QED
        BY <2>1, <3>5, <3>6
    <2> QED
      BY <2>4, <2>5
  <1>2. PICK F : DOMAIN F = SUBSET S /\ F = [U \in SUBSET S |-> F[U]] /\ Fixed(F, S)
    BY <1>1
  <1>3. ASSUME NEW U \in SUBSET S PROVE F[U] = Step(F, U)
    BY <1>2, FS_Subset
  <1>4. F = [U \in SUBSET S |-> Step(F, U)]
    BY <1>2, <1>3
  <1> QED
    BY <1>4 DEF Sums

\* The sum of the same values is the same, of whatever set they are subsets.
LEMMA SumsAgree ==
  ASSUME NEW S, IsFiniteSet(S), NEW R, S \subseteq R, NEW v, NEW w,
         \A x \in S : v[x] = w[x], NEW F, NEW H, Sums(F, v, S), Sums(H, w, R)
  PROVE  \A T \in SUBSET S : F[T] = H[T]
  <1> DEFINE B == {T \in SUBSET S : F[T] # H[T]}
  <1> SUFFICES ASSUME B # {} PROVE FALSE
    OBVIOUS
  <1>1. PICK T \in B : \A x \in T : T \ {x} \notin B
    <2> HIDE DEF B
    <2>1. B \subseteq SUBSET S
      BY DEF B
    <2> QED
      BY <2>1, LeastSubset
  <1>2. /\ F[T] = IF T = {} THEN 0 ELSE v[One(T)] + F[T \ {One(T)}]
        /\ H[T] = IF T = {} THEN 0 ELSE w[One(T)] + H[T \ {One(T)}]
    <2>1. T \in SUBSET S /\ T \in SUBSET R
      OBVIOUS
    <2> QED
      BY <2>1 DEF Sums
  <1>3. T # {}
    BY <1>2
  <1>4. One(T) \in T
    BY <1>3 DEF One
  <1>5. F[T \ {One(T)}] = H[T \ {One(T)}] /\ v[One(T)] = w[One(T)]
    BY <1>1, <1>4
  <1> QED
    BY <1>1, <1>2, <1>5

\* A sum of numbers is a number.
LEMMA SumsType ==
  ASSUME NEW S, IsFiniteSet(S), NEW v, \A x \in S : v[x] \in Nat, NEW F, Sums(F, v, S)
  PROVE  /\ F[{}] = 0
         /\ \A T \in SUBSET S : F[T] \in Nat
  <1>1. \A T \in SUBSET S :
          F[T] = IF T = {} THEN 0 ELSE v[One(T)] + F[T \ {One(T)}]
    BY DEF Sums
  <1> DEFINE B == {T \in SUBSET S : F[T] \notin Nat}
  <1>2. ASSUME B # {} PROVE FALSE
    <2>1. PICK T \in B : \A x \in T : T \ {x} \notin B
      <3> HIDE DEF B
      <3>1. B \subseteq SUBSET S
        BY DEF B
      <3> QED
        BY <1>2, <3>1, LeastSubset
    <2>2. T # {}
      BY <1>1, <2>1
    <2>3. One(T) \in T
      BY <2>2 DEF One
    <2>4. F[T] = v[One(T)] + F[T \ {One(T)}]
      BY <1>1, <2>1, <2>2
    <2>5. F[T \ {One(T)}] \in Nat /\ v[One(T)] \in Nat
      BY <2>1, <2>3
    <2> QED
      BY <2>1, <2>4, <2>5
  <1> QED
    BY <1>1, <1>2

\* Any of its elements may be taken out of a sum first.
LEMMA SumsSplit ==
  ASSUME NEW S, IsFiniteSet(S), NEW v, \A x \in S : v[x] \in Nat, NEW F, Sums(F, v, S)
  PROVE  \A T \in SUBSET S : \A x \in T : F[T] = v[x] + F[T \ {x}]
  <1>1. \A T \in SUBSET S :
          F[T] = IF T = {} THEN 0 ELSE v[One(T)] + F[T \ {One(T)}]
    BY DEF Sums
  <1>2. \A T \in SUBSET S : F[T] \in Nat
    BY SumsType
  <1> DEFINE Splits(T) == \A x \in T : F[T] = v[x] + F[T \ {x}]
             B == {T \in SUBSET S : ~ Splits(T)}
  <1>3. ASSUME B # {} PROVE FALSE
    <2>1. PICK T \in B : \A x \in T : T \ {x} \notin B
      <3> HIDE DEF B
      <3>1. B \subseteq SUBSET S
        BY DEF B
      <3> QED
        BY <1>3, <3>1, LeastSubset
    <2>2. PICK x \in T : F[T] # v[x] + F[T \ {x}]
      BY <2>1
    <2> DEFINE y == One(T)
    <2>3. y \in T
      BY <2>2 DEF One
    <2>4. F[T] = v[y] + F[T \ {y}]
      BY <1>1, <2>1, <2>2
    <2>5. x # y
      BY <2>2, <2>4
    <2> HIDE DEF y
    <2>6. /\ T \ {x} \in SUBSET S /\ T \ {y} \in SUBSET S /\ x \in T \ {y} /\ y \in T \ {x}
          /\ (T \ {y}) \ {x} \in SUBSET S
      BY <2>1, <2>2, <2>3, <2>5
    <2>7. Splits(T \ {x}) /\ Splits(T \ {y})
      BY <2>1, <2>2, <2>3, <2>6
    <2>8. (T \ {x}) \ {y} = (T \ {y}) \ {x}
      OBVIOUS
    <2> DEFINE a == v[x]
               b == v[y]
               c == F[(T \ {y}) \ {x}]
    <2>9. F[T \ {y}] = a + c
      BY <2>6, <2>7
    <2>10. F[T \ {x}] = b + F[(T \ {x}) \ {y}]
      BY <2>6, <2>7
    <2>11. F[T \ {x}] = b + c
      BY <2>10, <2>8
    <2>12. a \in Nat /\ b \in Nat /\ c \in Nat
      BY <1>2, <2>1, <2>2, <2>3, <2>6
    <2> HIDE DEF a, b, c
    <2>13. b + (a + c) = a + (b + c)
      BY <2>12
    <2> QED
      BY <2>2, <2>4, <2>9, <2>11, <2>13 DEF a, b
  <1> QED
    BY <1>3

\* The same of SumOver: what a sum of nothing is, its type, one element taken out of it.
LEMMA SumFacts ==
  ASSUME NEW S, IsFiniteSet(S), NEW v, \A x \in S : v[x] \in Nat
  PROVE  /\ SumOver(v, S) \in Nat
         /\ S = {} => SumOver(v, S) = 0
         /\ \A x \in S : SumOver(v, S) = v[x] + SumOver(v, S \ {x})
  <1> DEFINE F == CHOOSE F : Sums(F, v, S)
  <1>1. Sums(F, v, S) /\ SumOver(v, S) = F[S]
    BY SumsExist DEF SumOver
  <1> HIDE DEF F
  <1>2. SumOver(v, S) \in Nat /\ (S = {} => SumOver(v, S) = 0)
    BY <1>1, SumsType
  <1>3. ASSUME NEW x \in S PROVE SumOver(v, S) = v[x] + SumOver(v, S \ {x})
    <2> DEFINE R == S \ {x}
               H == CHOOSE H : Sums(H, v, R)
    <2>1. IsFiniteSet(R) /\ R \subseteq S
      BY FS_Subset
    <2>2. Sums(H, v, R) /\ SumOver(v, R) = H[R]
      BY <2>1, SumsExist DEF SumOver
    <2> HIDE DEF H
    <2>3. H[R] = F[R]
      BY <1>1, <2>1, <2>2, SumsAgree
    <2>4. F[S] = v[x] + F[R]
      BY <1>1, SumsSplit
    <2> QED
      BY <1>1, <2>2, <2>3, <2>4
  <1> QED
    BY <1>2, <1>3

\* Values that agree have the same sum.
LEMMA SumSame ==
  ASSUME NEW S, IsFiniteSet(S), NEW v, NEW w, \A x \in S : v[x] = w[x]
  PROVE  SumOver(v, S) = SumOver(w, S)
  <1> DEFINE F == CHOOSE F : Sums(F, v, S)
             H == CHOOSE H : Sums(H, w, S)
  <1>1. Sums(F, v, S) /\ Sums(H, w, S) /\ SumOver(v, S) = F[S] /\ SumOver(w, S) = H[S]
    BY SumsExist DEF SumOver
  <1> HIDE DEF F, H
  <1>2. \A T \in SUBSET S : F[T] = H[T]
    <2>1. S \subseteq S /\ Sums(F, v, S) /\ Sums(H, w, S)
      BY <1>1
    <2> QED
      BY <2>1, SumsAgree
  <1>3. F[S] = H[S]
    BY <1>2
  <1> QED
    BY <1>1, <1>3

\* A sum grows with its set.
LEMMA SumGrows ==
  ASSUME NEW S, IsFiniteSet(S), NEW R, R \subseteq S, NEW v, \A x \in S : v[x] \in Nat
  PROVE  SumOver(v, R) <= SumOver(v, S)
  <1> DEFINE B == {T \in SUBSET S : R \subseteq T /\ ~ (SumOver(v, R) <= SumOver(v, T))}
  <1>0. IsFiniteSet(R) /\ \A T \in SUBSET S : IsFiniteSet(T)
    BY FS_Subset
  <1>1. ASSUME B # {} PROVE FALSE
    <2>1. PICK T \in B : \A x \in T : T \ {x} \notin B
      <3> HIDE DEF B
      <3>1. B \subseteq SUBSET S
        BY DEF B
      <3> QED
        BY <1>1, <3>1, LeastSubset
    <2>2. SumOver(v, R) \in Nat /\ SumOver(v, T) \in Nat
      BY <1>0, <2>1, SumFacts
    <2>3. R # T
      BY <2>1, <2>2
    <2>4. PICK x \in T : x \notin R
      BY <2>1, <2>3
    <2>5. T \ {x} \in SUBSET S /\ R \subseteq T \ {x}
      BY <2>1, <2>4
    <2>6. SumOver(v, R) <= SumOver(v, T \ {x})
      BY <2>1, <2>4, <2>5
    <2>7. SumOver(v, T) = v[x] + SumOver(v, T \ {x}) /\ v[x] \in Nat
      BY <1>0, <2>1, SumFacts
    <2>8. SumOver(v, T \ {x}) \in Nat
      BY <1>0, <2>5, SumFacts
    <2>9. ~ (SumOver(v, R) <= SumOver(v, T))
      BY <2>1
    <2> QED
      BY <2>2, <2>6, <2>7, <2>8, <2>9
  <1>2. S \in SUBSET S
    OBVIOUS
  <1> QED
    BY <1>1, <1>2

\* Elements renamed one to one keep their sum.
LEMMA SumRenamed ==
  ASSUME NEW S, IsFiniteSet(S), NEW v, NEW w, NEW g, \A x \in S : v[x] \in Nat,
         \A x \in S : w[g[x]] = v[x],
         \A x, y \in S : g[x] = g[y] => x = y
  PROVE  SumOver(v, S) = SumOver(w, {g[x] : x \in S})
  <1> DEFINE Im(T) == {g[x] : x \in T}
             B == {T \in SUBSET S : SumOver(v, T) # SumOver(w, Im(T))}
  <1>0. \A T \in SUBSET S : IsFiniteSet(T) /\ IsFiniteSet(Im(T))
    <2> TAKE T \in SUBSET S
    <2>1. IsFiniteSet(T)
      BY FS_Subset
    <2> DEFINE f == [x \in T |-> g[x]]
    <2>2. f \in Surjection(T, Im(T))
      BY DEF Surjection
    <2> HIDE DEF f
    <2> QED
      BY <2>1, <2>2, FS_Surjection
  <1>1. ASSUME B # {} PROVE FALSE
    <2>1. PICK T \in B : \A x \in T : T \ {x} \notin B
      <3> HIDE DEF B
      <3>1. B \subseteq SUBSET S
        BY DEF B
      <3> QED
        BY <1>1, <3>1, LeastSubset
    <2>2. \A x \in T : v[x] \in Nat
      BY <2>1
    <2>3. \A y \in Im(T) : w[y] \in Nat
      BY <2>1
    <2>4. T # {}
      <3>1. ASSUME T = {} PROVE FALSE
        <4>1. Im(T) = {}
          BY <3>1
        <4>2. SumOver(v, T) = 0 /\ SumOver(w, Im(T)) = 0
          BY <1>0, <2>1, <2>2, <2>3, <3>1, <4>1, SumFacts
        <4> QED
          BY <2>1, <4>2
      <3> QED
        BY <3>1
    <2>5. PICK x \in T : TRUE
      BY <2>4
    <2>6. Im(T) \ {g[x]} = Im(T \ {x})
      BY <2>1, <2>5
    <2>7. SumOver(v, T) = v[x] + SumOver(v, T \ {x})
      BY <1>0, <2>1, <2>2, <2>5, SumFacts
    <2>8. SumOver(w, Im(T)) = w[g[x]] + SumOver(w, Im(T) \ {g[x]})
      <3>1. g[x] \in Im(T) /\ IsFiniteSet(Im(T))
        BY <1>0, <2>1, <2>5
      <3> HIDE DEF Im
      <3> QED
        BY <2>3, <3>1, SumFacts
    <2>9. SumOver(v, T \ {x}) = SumOver(w, Im(T \ {x}))
      BY <2>1, <2>5
    <2>10. w[g[x]] = v[x] /\ SumOver(v, T) # SumOver(w, Im(T))
      BY <2>1, <2>5
    <2> HIDE DEF Im, B
    <2> QED
      BY <2>6, <2>7, <2>8, <2>9, <2>10
  <1>2. S \in SUBSET S
    OBVIOUS
  <1> QED
    BY <1>1, <1>2

\* What the summary totals is such a sum.
LEMMA TotalIsSum ==
  ASSUME NEW S
  PROVE  TotalOf(S) = SumOver([p \in S |-> p.value], S)
  <1> DEFINE v == [p \in S |-> p.value]
             Step(F, s) == IF s = {} THEN 0 ELSE (CHOOSE p \in s : TRUE).value
                                                 + F[s \ {CHOOSE p \in s : TRUE}]
  <1>1. TotalOf(S) = (CHOOSE F : F = [s \in SUBSET S |-> Step(F, s)])[S]
    BY DEF TotalOf, MapThenSumSet, MapThenFoldSet
  <1>2. ASSUME NEW F, NEW s \in SUBSET S
        PROVE  Step(F, s) = IF s = {} THEN 0 ELSE v[One(s)] + F[s \ {One(s)}]
    <2>1. s # {} => One(s) \in S
      BY DEF One
    <2> QED
      BY <2>1 DEF One
  <1>3. ASSUME NEW F PROVE (F = [s \in SUBSET S |-> Step(F, s)]) <=> Sums(F, v, S)
    <2> DEFINE Taking(s) == IF s = {} THEN 0 ELSE v[One(s)] + F[s \ {One(s)}]
    <2>1. \A s \in SUBSET S : Step(F, s) = Taking(s)
      BY <1>2
    <2>2. Sums(F, v, S) <=> F = [s \in SUBSET S |-> Taking(s)]
      BY DEF Sums
    <2> HIDE DEF Step, Taking
    <2> QED
      BY <2>1, <2>2
  <1>4. (CHOOSE F : F = [s \in SUBSET S |-> Step(F, s)]) = (CHOOSE F : Sums(F, v, S))
    <2> HIDE DEF Step, v
    <2> QED
      BY <1>3
  <1> QED
    BY <1>1, <1>4 DEF SumOver

-----------------------------------------------------------------------------
(* Single payments                                                           *)

Stored == {[id |-> p.id, value |-> p.value] : p \in receipts}
Open == {p \in Stored \ confirmed : p.id \notin Underhand}
Occupied(h) == cashier[h].at # "idle"

\* Every payment has a number of its own, no higher than the last one given.
NumbersInv ==
  /\ receiptCount <= MaxReceipts
  /\ \A p \in receipts : p.id <= receiptCount
  /\ \A p, q \in receipts : p.id = q.id => p = q
  /\ \A p \in refused : p.id <= receiptCount

\* A request under way has a payment of its own, stored without its evidence and not
\* answered, and at the naming its file is there.
CashiersInv ==
  \A h \in Cashiers :
    Occupied(h) =>
      /\ [id |-> cashier[h].id, value |-> cashier[h].value, evidence |-> FALSE] \in receipts
      /\ PaymentOf(h) \notin confirmed
      /\ cashier[h].at = "name" => cashier[h].id \in files
      /\ \A k \in Cashiers : Occupied(k) /\ cashier[k].id = cashier[h].id => k = h

\* What was answered holds, in terms of the numbers; a refused number is gone.
AnswersInv ==
  /\ confirmed \subseteq Stored
  /\ \A p \in refused, q \in receipts : p.id # q.id
  /\ Cardinality(Open) <= receiptFailures + receiptCrashes * Cardinality(Cashiers)

ReceiptsInv ==
  /\ ReceiptsTypeOK
  /\ EvidenceIsThere
  /\ NumbersInv
  /\ CashiersInv
  /\ AnswersInv
  /\ SummaryCounts

\* The payments stored are finitely many, for their numbers are.
LEMMA StoredIsFinite ==
  ASSUME ReceiptsTypeOK, NumbersInv
  PROVE  IsFiniteSet(receipts) /\ IsFiniteSet(Stored)
  <1>1. \A p \in receipts : p.id \in 1..MaxReceipts
    BY DEF ReceiptsTypeOK, ReceiptIds
  <1>2. IsFiniteSet(1..MaxReceipts)
    <2>1. 1 \in Int /\ MaxReceipts \in Int
      BY ReceiptsAssumption
    <2> QED
      BY <2>1, FS_Interval
  <1> DEFINE f == [p \in receipts |-> p.id]
             g == [p \in receipts |-> [id |-> p.id, value |-> p.value]]
  <1>3. f \in Injection(receipts, 1..MaxReceipts)
    BY <1>1 DEF Injection, NumbersInv, IsInjective
  <1>4. IsFiniteSet(receipts)
    <2> HIDE DEF f
    <2> QED
      BY <1>2, <1>3, FS_Injection
  <1>5. g \in Surjection(receipts, Stored)
    BY DEF Surjection, Stored
  <1> QED
    <2> HIDE DEF g
    <2> QED
      BY <1>4, <1>5, FS_Surjection

\* AnswersHold, with its sets named.
LEMMA AnswersMeans ==
  AnswersHold <=>
    /\ confirmed \subseteq Stored /\ refused \cap Stored = {}
    /\ Cardinality(Open) <= receiptFailures + receiptCrashes * Cardinality(Cashiers)
  BY DEF AnswersHold, Stored, Open

LEMMA ReceiptsInvMeans ==
  ASSUME ReceiptsInv
  PROVE  ReceiptsCorrect
  <1>1. refused \cap Stored = {}
    <2>1. ASSUME NEW p \in refused, p \in Stored PROVE FALSE
      <3>1. PICK q \in receipts : p = [id |-> q.id, value |-> q.value]
        BY <2>1 DEF Stored
      <3>2. p.id = q.id
        BY <3>1
      <3> QED
        BY <3>2 DEF ReceiptsInv, AnswersInv
    <2> QED
      BY <2>1
  <1>2. AnswersHold
    BY <1>1, AnswersMeans DEF ReceiptsInv, AnswersInv
  <1> QED
    BY <1>2 DEF ReceiptsInv, ReceiptsCorrect

\* The invariant of the initial states.
LEMMA InitReceipts == ReceiptsInit => ReceiptsInv
  <1> SUFFICES ASSUME ReceiptsInit PROVE ReceiptsInv
    OBVIOUS
  <1>1. \A h \in Cashiers : ~ Occupied(h)
    BY DEF ReceiptsInit, Occupied, Unoccupied
  <1>2. ReceiptsTypeOK
    BY ReceiptsAssumption DEF ReceiptsInit, ReceiptsTypeOK, Unoccupied
  <1>3. Stored = {} /\ Open = {}
    BY DEF ReceiptsInit, Stored, Open
  <1>4. Cardinality(Cashiers) \in Nat /\ Cardinality(Open) = 0
    BY <1>3, ReceiptsAssumption, FS_CardinalityType, FS_EmptySet
  <1>5. AnswersInv
    BY <1>3, <1>4 DEF ReceiptsInit, AnswersInv
  <1>6. NumbersInv
    BY ReceiptsAssumption DEF ReceiptsInit, NumbersInv
  <1> QED
    BY <1>1, <1>2, <1>5, <1>6 DEF ReceiptsInit, ReceiptsInv, EvidenceIsThere, CashiersInv,
      SummaryCounts

\* No more payments are open than were, but for those of X.
LEMMA OpenGrows ==
  ASSUME ReceiptsTypeOK, NumbersInv, NEW X, IsFiniteSet(X),
         NEW O, O \subseteq Open \cup X
  PROVE  /\ Cardinality(Open) \in Nat /\ Cardinality(X) \in Nat /\ Cardinality(O) \in Nat
         /\ Cardinality(O) <= Cardinality(Open) + Cardinality(X)
  <1>1. IsFiniteSet(Open)
    BY StoredIsFinite, FS_Subset DEF Open
  <1> HIDE DEF Open
  <1> DEFINE U == Open \cup X
  <1>2. IsFiniteSet(U) /\ IsFiniteSet(Open \cap X)
    BY <1>1, FS_Union, FS_Intersection
  <1>3. Cardinality(U) = Cardinality(Open) + Cardinality(X) - Cardinality(Open \cap X)
    BY <1>1, FS_Union
  <1>4. IsFiniteSet(O) /\ Cardinality(O) <= Cardinality(U)
    <2> O \in SUBSET U
      OBVIOUS
    <2> HIDE DEF U
    <2> QED
      BY <1>2, FS_Subset
  <1> DEFINE a == Cardinality(Open)
             b == Cardinality(X)
             c == Cardinality(Open \cap X)
             d == Cardinality(O)
             e == Cardinality(U)
  <1>5. a \in Nat /\ b \in Nat /\ c \in Nat /\ d \in Nat /\ e \in Nat
    BY <1>1, <1>2, <1>4, FS_CardinalityType
  <1>6. e = a + b - c /\ d <= e
    BY <1>3, <1>4
  <1> HIDE DEF a, b, c, d, e
  <1>7. d <= a + b
    BY <1>5, <1>6
  <1> QED
    BY <1>5, <1>7 DEF a, b, d

\* A failure leaves one payment open at most, a crash one of each cashier.
LEMMA CountKeeps ==
  ASSUME ReceiptsInv, NEW X, IsFiniteSet(X), Open' \subseteq Open \cup X,
         \/ X = {} /\ UNCHANGED <<receiptFailures, receiptCrashes>>
         \/ /\ Cardinality(X) = 1 /\ receiptFailures' = receiptFailures + 1
            /\ UNCHANGED receiptCrashes
         \/ /\ Cardinality(X) <= Cardinality(Cashiers) /\ UNCHANGED receiptFailures
            /\ receiptCrashes' = receiptCrashes + 1
  PROVE  Cardinality(Open')
           <= receiptFailures' + receiptCrashes' * Cardinality(Cashiers)
  <1> DEFINE a == Cardinality(Open)
             b == Cardinality(Open')
             x == Cardinality(X)
             f == receiptFailures
             c == receiptCrashes
             n == Cardinality(Cashiers)
  <1>1. a \in Nat /\ x \in Nat /\ b \in Nat /\ b <= a + x
    BY OpenGrows DEF ReceiptsInv
  <1>2. f \in Nat /\ c \in Nat /\ n \in Nat
    BY ReceiptsAssumption, FS_CardinalityType DEF ReceiptsInv, ReceiptsTypeOK
  <1>3. a <= f + c * n
    BY DEF ReceiptsInv, AnswersInv
  <1>4. X = {} => x = 0
    BY FS_EmptySet
  <1>5. c * n \in Nat /\ (c + 1) * n = c * n + n
    <2> HIDE DEF c, n
    <2> QED
      BY <1>2
  <1>6. CASE X = {} /\ UNCHANGED <<receiptFailures, receiptCrashes>>
    <2> DEFINE m == c * n
    <2>1. receiptFailures' + receiptCrashes' * n = f + m
      BY <1>6
    <2> HIDE DEF a, b, x, f, c, n, m
    <2>2. b <= f + m
      BY <1>1, <1>2, <1>3, <1>4, <1>5, <1>6 DEF m
    <2> QED
      BY <2>1, <2>2 DEF b, n
  <1>7. CASE /\ x = 1 /\ receiptFailures' = receiptFailures + 1
             /\ UNCHANGED receiptCrashes
    <2> DEFINE m == c * n
    <2>1. receiptFailures' + receiptCrashes' * n = (f + 1) + m
      BY <1>7
    <2>2. m \in Nat /\ a <= f + m
      BY <1>3, <1>5
    <2> HIDE DEF a, b, x, f, c, n, m
    <2>3. b <= (f + 1) + m
      BY <1>1, <1>2, <1>7, <2>2
    <2> QED
      BY <2>1, <2>3 DEF b, n
  <1>8. CASE /\ x <= n /\ UNCHANGED receiptFailures
             /\ receiptCrashes' = receiptCrashes + 1
    <2> DEFINE m == c * n
    <2>1. receiptFailures' + receiptCrashes' * n = f + (m + n)
      BY <1>8, <1>5
    <2>2. m \in Nat /\ a <= f + m
      BY <1>3, <1>5
    <2> HIDE DEF a, b, x, f, c, n, m
    <2>3. b <= f + (m + n)
      BY <1>1, <1>2, <1>8, <2>2
    <2> QED
      BY <2>1, <2>3 DEF b, n
  <1> QED
    BY <1>6, <1>7, <1>8

\* Every step keeps the types.
LEMMA ReceiptsKeepTypes ==
  ASSUME ReceiptsInv, [ReceiptsNext]_receiptVars
  PROVE  ReceiptsTypeOK'
  <1> DEFINE CashierType == [at : {"idle", "answer", "write", "undo", "name"},
                             id : 0..MaxReceipts, value : Values \cup {0}]
  <1>0. /\ receipts \subseteq [id : ReceiptIds, value : Values, evidence : BOOLEAN]
        /\ files \subseteq ReceiptIds
        /\ cashier \in [Cashiers -> CashierType]
        /\ summary \in [total : Nat, paid : Nat, whole : BOOLEAN]
        /\ confirmed \subseteq Payments /\ refused \subseteq Payments
        /\ receiptCount \in Nat /\ receiptFailures \in Nat /\ receiptCrashes \in Nat
    BY DEF ReceiptsInv, ReceiptsTypeOK
  <1>1. \A h \in Cashiers :
          Occupied(h) => cashier[h].id \in ReceiptIds /\ PaymentOf(h) \in Payments
    <2> TAKE h \in Cashiers
    <2> HAVE Occupied(h)
    <2>1. [id |-> cashier[h].id, value |-> cashier[h].value, evidence |-> FALSE]
            \in [id : ReceiptIds, value : Values, evidence : BOOLEAN]
      BY <1>0 DEF ReceiptsInv, CashiersInv
    <2>2. cashier[h].id \in ReceiptIds /\ cashier[h].value \in Values
      BY <2>1
    <2> QED
      BY <2>2 DEF PaymentOf, Payments
  <1>2. Unoccupied \in CashierType
    BY ReceiptsAssumption DEF Unoccupied
  <1>3. ASSUME NEW h \in Cashiers, NEW v \in Values, NEW place \in {"answer", "write", "undo"},
               InsertReceipt(h, v, place)
        PROVE  ReceiptsTypeOK'
    <2>1. receiptCount' \in Nat /\ receiptCount' \in ReceiptIds /\ receiptCount' \in 0..MaxReceipts
      BY <1>0, <1>3, ReceiptsAssumption DEF InsertReceipt, ReceiptIds
    <2>2. [id |-> receiptCount', value |-> v, evidence |-> FALSE]
            \in [id : ReceiptIds, value : Values, evidence : BOOLEAN]
      BY <2>1
    <2>3. [at |-> place, id |-> receiptCount', value |-> v] \in CashierType
      BY <2>1
    <2>4. cashier' \in [Cashiers -> CashierType]
      BY <1>0, <1>3, <2>3 DEF InsertReceipt
    <2> QED
      BY <1>0, <1>3, <2>1, <2>2, <2>4 DEF InsertReceipt, ReceiptsTypeOK
  <1>4. ASSUME NEW h \in Cashiers, Dismiss(h) PROVE cashier' \in [Cashiers -> CashierType]
    BY <1>0, <1>2, <1>4 DEF Dismiss
  <1>5. ASSUME NEW h \in Cashiers, ConfirmReceipt(h) PROVE ReceiptsTypeOK'
    <2>1. Occupied(h)
      BY <1>5 DEF ConfirmReceipt, Occupied
    <2> QED
      BY <1>0, <1>1, <1>4, <1>5, <2>1 DEF ConfirmReceipt, ReceiptsTypeOK, receiptDb
  <1>6. ASSUME NEW h \in Cashiers, WriteEvidence(h) PROVE ReceiptsTypeOK'
    <2>1. Occupied(h)
      BY <1>6 DEF WriteEvidence, Occupied
    <2>2. ASSUME NEW place \in {"name", "undo"}, CashierTo(h, place)
          PROVE  cashier' \in [Cashiers -> CashierType]
      BY <1>0, <2>2 DEF CashierTo
    <2>3. cashier' \in [Cashiers -> CashierType] /\ files' \subseteq ReceiptIds
          /\ receiptFailures' \in Nat
      BY <1>0, <1>1, <1>6, <2>1, <2>2 DEF WriteEvidence, ReceiptFails
    <2> QED
      BY <1>0, <1>6, <2>3 DEF WriteEvidence, ReceiptsTypeOK
  <1>7. ASSUME NEW h \in Cashiers, UndoReceipt(h) PROVE ReceiptsTypeOK'
    <2>1. Occupied(h)
      BY <1>7 DEF UndoReceipt, Occupied
    <2>2. /\ receipts' \subseteq [id : ReceiptIds, value : Values, evidence : BOOLEAN]
          /\ refused' \subseteq Payments /\ receiptFailures' \in Nat
      BY <1>0, <1>1, <1>7, <2>1 DEF UndoReceipt, ReceiptFails
    <2> QED
      BY <1>0, <1>4, <1>7, <2>2 DEF UndoReceipt, ReceiptsTypeOK
  <1>8. ASSUME NEW h \in Cashiers, NameEvidence(h) PROVE ReceiptsTypeOK'
    <2>1. Occupied(h)
      BY <1>8 DEF NameEvidence, Occupied
    <2>2. \A p \in receipts :
            [p EXCEPT !.evidence = TRUE] \in [id : ReceiptIds, value : Values, evidence : BOOLEAN]
      BY <1>0
    <2>3. /\ receipts' \subseteq [id : ReceiptIds, value : Values, evidence : BOOLEAN]
          /\ confirmed' \subseteq Payments /\ receiptFailures' \in Nat
      BY <1>0, <1>1, <1>8, <2>1, <2>2 DEF NameEvidence, ReceiptFails
    <2> QED
      BY <1>0, <1>4, <1>8, <2>3 DEF NameEvidence, ReceiptsTypeOK
  <1>9. ASSUME Summarise PROVE ReceiptsTypeOK'
    <2>1. IsFiniteSet(receipts) /\ IsFiniteSet(confirmed)
      BY StoredIsFinite, FS_Subset DEF ReceiptsInv, AnswersInv
    <2>2. \A p \in receipts : p.value \in Nat
      BY <1>0, ReceiptsAssumption
    <2>3. \A p \in confirmed : p.value \in Nat
      BY <1>0, ReceiptsAssumption DEF Payments
    <2>4. TotalOf(receipts) \in Nat /\ TotalOf(confirmed) \in Nat
      BY <2>1, <2>2, <2>3, SumFacts, TotalIsSum
    <2> DEFINE whole == Underhand = {} /\ receiptFailures + receiptCrashes = 0
    <2>5. whole \in BOOLEAN
      OBVIOUS
    <2>6. summary' = [total |-> TotalOf(receipts), paid |-> TotalOf(confirmed),
                      whole |-> whole]
      BY <1>9 DEF Summarise
    <2> HIDE DEF whole
    <2>7. summary' \in [total : Nat, paid : Nat, whole : BOOLEAN]
      BY <2>4, <2>5, <2>6
    <2>8. UNCHANGED <<receipts, files, cashier, confirmed, refused, receiptCount,
                      receiptFailures, receiptCrashes>>
      BY <1>9 DEF Summarise, receiptHistory
    <2> QED
      BY <1>0, <2>7, <2>8 DEF ReceiptsTypeOK
  <1>10. ASSUME ReceiptCrash PROVE ReceiptsTypeOK'
    <2>1. cashier' \in [Cashiers -> CashierType] /\ receiptCrashes' \in Nat
      BY <1>0, <1>2, <1>10 DEF ReceiptCrash
    <2> QED
      BY <1>0, <1>10, <2>1 DEF ReceiptCrash, ReceiptsTypeOK, receiptDb
  <1>11. ASSUME UNCHANGED receiptVars PROVE ReceiptsTypeOK'
    BY <1>0, <1>11 DEF receiptVars, receiptDb, receiptHistory, ReceiptsTypeOK
  <1> QED
    BY <1>3, <1>5, <1>6, <1>7, <1>8, <1>9, <1>10, <1>11 DEF ReceiptsNext

\* A payment under way is one of those stored, and its number is its own.
LEMMA BusyFacts ==
  ASSUME ReceiptsInv, NEW h \in Cashiers, Occupied(h)
  PROVE  /\ [id |-> cashier[h].id, value |-> cashier[h].value, evidence |-> FALSE] \in receipts
         /\ PaymentOf(h) \in Stored \ confirmed
         /\ \A p \in Stored : p.id = cashier[h].id => p = PaymentOf(h)
         /\ cashier[h].id <= receiptCount
  <1> DEFINE mine == [id |-> cashier[h].id, value |-> cashier[h].value, evidence |-> FALSE]
  <1>1. mine \in receipts /\ PaymentOf(h) \notin confirmed
    BY DEF ReceiptsInv, CashiersInv
  <1>2. mine.id = cashier[h].id /\ mine.value = cashier[h].value
    OBVIOUS
  <1> HIDE DEF mine
  <1>3. PaymentOf(h) \in Stored
    BY <1>1, <1>2 DEF PaymentOf, Stored
  <1>4. ASSUME NEW p \in Stored, p.id = cashier[h].id PROVE p = PaymentOf(h)
    <2>1. PICK q \in receipts : p = [id |-> q.id, value |-> q.value]
      BY <1>4 DEF Stored
    <2>2. q.id = mine.id
      BY <1>2, <1>4, <2>1
    <2>3. q = mine
      BY <1>1, <2>2 DEF ReceiptsInv, NumbersInv
    <2> QED
      BY <1>2, <2>1, <2>3 DEF PaymentOf
  <1>5. cashier[h].id <= receiptCount
    BY <1>1, <1>2 DEF ReceiptsInv, NumbersInv
  <1> QED
    BY <1>1, <1>3, <1>4, <1>5 DEF mine

\* The insertion of a payment keeps the invariant.
LEMMA InsertKeeps ==
  ASSUME ReceiptsInv, NEW h \in Cashiers, NEW v \in Values,
         NEW place \in {"answer", "write", "undo"}, InsertReceipt(h, v, place)
  PROVE  NumbersInv' /\ CashiersInv' /\ AnswersInv' /\ EvidenceIsThere' /\ SummaryCounts'
  <1> DEFINE new == [id |-> receiptCount', value |-> v, evidence |-> FALSE]
             mine == [at |-> place, id |-> receiptCount', value |-> v]
  <1>1. /\ cashier[h].at = "idle" /\ receiptCount < MaxReceipts
        /\ receiptCount' = receiptCount + 1
        /\ receipts' = receipts \cup {new}
        /\ cashier' = [cashier EXCEPT ![h] = mine]
        /\ files' = files /\ summary' = summary /\ confirmed' = confirmed /\ refused' = refused
        /\ receiptFailures' = receiptFailures /\ receiptCrashes' = receiptCrashes
    BY DEF InsertReceipt
  <1>2. /\ new.id = receiptCount' /\ new.value = v /\ ~ new.evidence
        /\ mine.id = receiptCount' /\ mine.value = v /\ mine.at # "idle" /\ mine.at # "name"
    OBVIOUS
  <1>3. receiptCount \in Nat /\ MaxReceipts \in Nat /\ receiptCount' \in Nat
    BY <1>1, ReceiptsAssumption DEF ReceiptsInv, ReceiptsTypeOK
  <1>4. DOMAIN cashier = Cashiers
    BY DEF ReceiptsInv, ReceiptsTypeOK
  <1>5. /\ \A p \in receipts : p.id \in Nat /\ p.id <= receiptCount
        /\ \A p \in refused : p.id \in Nat /\ p.id <= receiptCount
    BY DEF ReceiptsInv, ReceiptsTypeOK, NumbersInv, ReceiptIds, Payments
  <1>6. /\ \A p \in receipts : p.id # receiptCount' /\ p.id <= receiptCount'
        /\ \A p \in refused : p.id # receiptCount' /\ p.id <= receiptCount'
    BY <1>1, <1>3, <1>5
  <1>7. \A p \in Stored : p.id # receiptCount'
    BY <1>6 DEF Stored
  <1>8. cashier'[h] = mine /\ \A k \in Cashiers : k # h => cashier'[k] = cashier[k]
    BY <1>1, <1>4
  <1>p. PaymentOf(h)' = [id |-> receiptCount', value |-> v]
    BY <1>2, <1>8 DEF PaymentOf
  <1>f. new = [id |-> cashier'[h].id, value |-> cashier'[h].value, evidence |-> FALSE]
    BY <1>2, <1>8
  <1> HIDE DEF new, mine
  <1>9. NumbersInv'
    <2>1. receiptCount' <= MaxReceipts
      BY <1>1, <1>3
    <2>2. \A p \in receipts' : p.id <= receiptCount'
      BY <1>1, <1>2, <1>3, <1>6
    <2>3. \A p, q \in receipts' : p.id = q.id => p = q
      BY <1>1, <1>2, <1>6 DEF ReceiptsInv, NumbersInv
    <2> QED
      BY <1>1, <1>6, <2>1, <2>2, <2>3 DEF NumbersInv
  <1>10. Stored' = Stored \cup {PaymentOf(h)'}
    BY <1>1, <1>2, <1>p DEF Stored
  <1>11. \A k \in Cashiers : k # h =>
           /\ Occupied(k)' <=> Occupied(k)
           /\ PaymentOf(k)' = PaymentOf(k)
           /\ Occupied(k) => cashier'[k].id # receiptCount'
    <2> TAKE k \in Cashiers
    <2> HAVE k # h
    <2>1. cashier'[k] = cashier[k]
      BY <1>8
    <2>2. Occupied(k) => cashier[k].id # receiptCount'
      BY <1>6 DEF ReceiptsInv, CashiersInv
    <2> QED
      BY <2>1, <2>2 DEF Occupied, PaymentOf
  <1>12. PaymentOf(h)' \notin confirmed
    <2>1. PaymentOf(h)'.id = receiptCount'
      BY <1>p
    <2>2. confirmed \subseteq Stored
      BY DEF ReceiptsInv, AnswersInv
    <2> QED
      BY <1>7, <2>1, <2>2
  <1>13. CashiersInv'
    <2> SUFFICES ASSUME NEW k \in Cashiers, Occupied(k)'
        PROVE  /\ [id |-> cashier'[k].id, value |-> cashier'[k].value, evidence |-> FALSE]
                    \in receipts'
               /\ PaymentOf(k)' \notin confirmed'
               /\ cashier'[k].at = "name" => cashier'[k].id \in files'
               /\ \A j \in Cashiers : Occupied(j)' /\ cashier'[j].id = cashier'[k].id => j = k
      BY DEF CashiersInv
    <2>1. CASE k = h
      <3>1. new \in receipts'
        BY <1>1
      <3>2. PaymentOf(k)' \notin confirmed'
        BY <1>1, <1>12, <2>1
      <3>3. cashier'[k].at # "name"
        BY <1>2, <1>8, <2>1
      <3>4. \A j \in Cashiers : Occupied(j)' /\ cashier'[j].id = cashier'[k].id => j = k
        BY <1>2, <1>8, <1>11, <2>1
      <3> QED
        BY <1>f, <2>1, <3>1, <3>2, <3>3, <3>4
    <2>2. CASE k # h
      <3>1. Occupied(k) /\ cashier'[k] = cashier[k]
        BY <1>8, <1>11, <2>2
      <3>2. cashier[k].id # receiptCount'
        BY <1>11, <2>2, <3>1
      <3>3. /\ [id |-> cashier[k].id, value |-> cashier[k].value, evidence |-> FALSE] \in receipts
            /\ PaymentOf(k) \notin confirmed
            /\ cashier[k].at = "name" => cashier[k].id \in files
            /\ \A j \in Cashiers : Occupied(j) /\ cashier[j].id = cashier[k].id => j = k
        BY <3>1 DEF ReceiptsInv, CashiersInv
      <3> QED
        BY <1>1, <1>2, <1>8, <1>11, <2>2, <3>1, <3>2, <3>3
    <2> QED
      BY <2>1, <2>2
  <1>14. Open' \subseteq Open
    <2> SUFFICES ASSUME NEW p \in Open' PROVE p \in Open
      OBVIOUS
    <2>1. p \in Stored' /\ p \notin confirmed /\ p.id \notin Underhand'
      BY <1>1 DEF Open
    <2>2. receiptCount' \in Underhand'
      BY <1>2, <1>8 DEF Underhand
    <2>3. p \in Stored
      BY <1>10, <1>p, <2>1, <2>2
    <2>4. p.id \notin Underhand
      <3>1. ASSUME NEW k \in Cashiers, Occupied(k) PROVE cashier[k].id \in Underhand'
        <4>1. k # h /\ cashier'[k] = cashier[k]
          BY <1>1, <1>8, <3>1 DEF Occupied
        <4> QED
          BY <4>1, <3>1 DEF Underhand, Occupied
      <3> QED
        BY <2>1, <3>1 DEF Underhand, Occupied
    <2> QED
      BY <2>1, <2>3, <2>4 DEF Open
  <1>15. AnswersInv'
    <2>1. confirmed' \subseteq Stored'
      BY <1>1, <1>10 DEF ReceiptsInv, AnswersInv
    <2>2. \A p \in refused', q \in receipts' : p.id # q.id
      BY <1>1, <1>2, <1>6 DEF ReceiptsInv, AnswersInv
    <2>3. Cardinality(Open') <= receiptFailures' + receiptCrashes' * Cardinality(Cashiers)
      <3>1. IsFiniteSet({}) /\ Open' \subseteq Open \cup {}
        BY <1>14, FS_EmptySet
      <3> QED
        BY <1>1, <3>1, CountKeeps
    <2> QED
      BY <2>1, <2>2, <2>3 DEF AnswersInv
  <1>16. EvidenceIsThere'
    BY <1>1, <1>2 DEF ReceiptsInv, EvidenceIsThere
  <1>17. SummaryCounts'
    BY <1>1 DEF ReceiptsInv, SummaryCounts
  <1> QED
    BY <1>9, <1>13, <1>15, <1>16, <1>17

\* A request that ends leaves the others as they were.
LEMMA DismissLeaves ==
  ASSUME ReceiptsInv, NEW h \in Cashiers, Occupied(h), Dismiss(h)
  PROVE  /\ \A k \in Cashiers : Occupied(k)' <=> Occupied(k) /\ k # h
         /\ \A k \in Cashiers : k # h => cashier'[k] = cashier[k]
         /\ Underhand' = Underhand \ {cashier[h].id}
  <1>1. DOMAIN cashier = Cashiers
    BY DEF ReceiptsInv, ReceiptsTypeOK
  <1>2. cashier'[h] = Unoccupied /\ \A k \in Cashiers : k # h => cashier'[k] = cashier[k]
    BY <1>1 DEF Dismiss
  <1>3. \A k \in Cashiers : Occupied(k)' <=> Occupied(k) /\ k # h
    BY <1>2 DEF Occupied, Unoccupied
  <1>4. \A k \in Cashiers : Occupied(k) /\ cashier[k].id = cashier[h].id => k = h
    BY DEF ReceiptsInv, CashiersInv
  <1>5. Underhand' = {cashier'[k].id : k \in {j \in Cashiers : Occupied(j)'}}
    BY DEF Underhand, Occupied
  <1>6. Underhand = {cashier[k].id : k \in {j \in Cashiers : Occupied(j)}}
    BY DEF Underhand, Occupied
  <1> QED
    BY <1>2, <1>3, <1>4, <1>5, <1>6

\* A request that ends with its payment answered, deleted or forgotten keeps what
\* the others know.
LEMMA DismissKeepsCashiers ==
  ASSUME ReceiptsInv, NEW h \in Cashiers, Occupied(h), Dismiss(h), files \subseteq files',
         confirmed' \subseteq confirmed \cup {PaymentOf(h)},
         \A p \in receipts : p.id # cashier[h].id => p \in receipts'
  PROVE  CashiersInv'
  <1>1. /\ \A k \in Cashiers : Occupied(k)' <=> Occupied(k) /\ k # h
        /\ \A k \in Cashiers : k # h => cashier'[k] = cashier[k]
    BY DismissLeaves
  <1> SUFFICES ASSUME NEW k \in Cashiers, Occupied(k)'
      PROVE  /\ [id |-> cashier'[k].id, value |-> cashier'[k].value, evidence |-> FALSE]
                  \in receipts'
             /\ PaymentOf(k)' \notin confirmed'
             /\ cashier'[k].at = "name" => cashier'[k].id \in files'
             /\ \A j \in Cashiers : Occupied(j)' /\ cashier'[j].id = cashier'[k].id => j = k
    BY DEF CashiersInv
  <1>2. k # h /\ Occupied(k) /\ cashier'[k] = cashier[k]
    BY <1>1
  <1> DEFINE mine == [id |-> cashier[k].id, value |-> cashier[k].value, evidence |-> FALSE]
  <1>3. /\ mine \in receipts /\ PaymentOf(k) \notin confirmed
        /\ cashier[k].at = "name" => cashier[k].id \in files
        /\ \A j \in Cashiers : Occupied(j) /\ cashier[j].id = cashier[k].id => j = k
    BY <1>2 DEF ReceiptsInv, CashiersInv
  <1>4. cashier[k].id # cashier[h].id
    BY <1>2, <1>3
  <1>5. mine \in receipts'
    <2>1. mine.id = cashier[k].id
      OBVIOUS
    <2> HIDE DEF mine
    <2> QED
      BY <1>3, <1>4, <2>1
  <1>6. PaymentOf(k)' = PaymentOf(k) /\ PaymentOf(k) # PaymentOf(h)
    <2>1. PaymentOf(k).id = cashier[k].id /\ PaymentOf(h).id = cashier[h].id
      BY DEF PaymentOf
    <2> QED
      BY <1>2, <1>4, <2>1 DEF PaymentOf
  <1>7. PaymentOf(k)' \notin confirmed'
    BY <1>3, <1>6
  <1>8. \A j \in Cashiers : Occupied(j)' /\ cashier'[j].id = cashier'[k].id => j = k
    BY <1>1, <1>2, <1>3
  <1> QED
    BY <1>2, <1>3, <1>5, <1>7, <1>8

\* A request that fails with its payment stored leaves one open.
LEMMA LeftOpen ==
  ASSUME ReceiptsInv, NEW h \in Cashiers, Occupied(h), Dismiss(h),
         receiptFailures' = receiptFailures + 1,
         UNCHANGED <<receipts, files, confirmed, refused, receiptCount, receiptCrashes>>
  PROVE  NumbersInv' /\ CashiersInv' /\ AnswersInv'
  <1>1. Underhand' = Underhand \ {cashier[h].id}
    BY DismissLeaves
  <1>2. \A p \in Stored : p.id = cashier[h].id => p = PaymentOf(h)
    BY BusyFacts
  <1>3. Stored' = Stored
    BY DEF Stored
  <1>4. Open' \subseteq Open \cup {PaymentOf(h)}
    BY <1>1, <1>2, <1>3 DEF Open
  <1>5. Cardinality(Open') <= receiptFailures' + receiptCrashes' * Cardinality(Cashiers)
    <2>1. IsFiniteSet({PaymentOf(h)}) /\ Cardinality({PaymentOf(h)}) = 1
      BY FS_Singleton
    <2> QED
      BY <1>4, <2>1, CountKeeps
  <1>6. CashiersInv'
    BY DismissKeepsCashiers
  <1> QED
    BY <1>3, <1>5, <1>6 DEF ReceiptsInv, NumbersInv, AnswersInv

\* The answer to a payment without a file keeps the invariant.
LEMMA ConfirmKeeps ==
  ASSUME ReceiptsInv, NEW h \in Cashiers, ConfirmReceipt(h)
  PROVE  NumbersInv' /\ CashiersInv' /\ AnswersInv' /\ EvidenceIsThere' /\ SummaryCounts'
  <1>1. /\ Occupied(h) /\ Dismiss(h)
        /\ confirmed' = confirmed \cup {PaymentOf(h)}
        /\ UNCHANGED <<receipts, files, summary, refused, receiptCount,
                       receiptFailures, receiptCrashes>>
    BY DEF ConfirmReceipt, Occupied, receiptDb
  <1>2. /\ PaymentOf(h) \in Stored \ confirmed
        /\ \A p \in Stored : p.id = cashier[h].id => p = PaymentOf(h)
    BY <1>1, BusyFacts
  <1>3. Underhand' = Underhand \ {cashier[h].id}
    BY <1>1, DismissLeaves
  <1>4. Stored' = Stored
    BY <1>1 DEF Stored
  <1>5. Open' \subseteq Open
    BY <1>1, <1>2, <1>3, <1>4 DEF Open
  <1>6. Cardinality(Open') <= receiptFailures' + receiptCrashes' * Cardinality(Cashiers)
    <2>1. IsFiniteSet({}) /\ Open' \subseteq Open \cup {}
      BY <1>5, FS_EmptySet
    <2> QED
      BY <1>1, <2>1, CountKeeps
  <1>7. AnswersInv'
    BY <1>1, <1>2, <1>4, <1>6 DEF ReceiptsInv, AnswersInv
  <1>8. CashiersInv'
    BY <1>1, DismissKeepsCashiers
  <1> QED
    BY <1>1, <1>7, <1>8 DEF ReceiptsInv, NumbersInv, EvidenceIsThere, SummaryCounts

\* The writing of the file keeps the invariant.
LEMMA WriteKeeps ==
  ASSUME ReceiptsInv, NEW h \in Cashiers, WriteEvidence(h)
  PROVE  NumbersInv' /\ CashiersInv' /\ AnswersInv' /\ EvidenceIsThere' /\ SummaryCounts'
  <1>1. PICK place \in {"name", "undo"} :
          /\ CashierTo(h, place) /\ files \subseteq files'
          /\ place = "name" => cashier[h].id \in files'
          /\ receiptFailures' \in {receiptFailures, receiptFailures + 1}
    BY DEF WriteEvidence, ReceiptFails
  <1>2. /\ Occupied(h)
        /\ UNCHANGED <<receipts, summary, confirmed, refused, receiptCount, receiptCrashes>>
    BY DEF WriteEvidence, Occupied
  <1>3. \A k \in Cashiers :
          /\ cashier'[k].id = cashier[k].id /\ cashier'[k].value = cashier[k].value
          /\ k # h => cashier'[k] = cashier[k]
          /\ cashier'[h].at = place
    BY <1>1 DEF CashierTo, ReceiptsInv, ReceiptsTypeOK
  <1>4. \A k \in Cashiers : (Occupied(k)' <=> Occupied(k)) /\ PaymentOf(k)' = PaymentOf(k)
    BY <1>2, <1>3 DEF Occupied, PaymentOf
  <1>5. CashiersInv'
    <2> SUFFICES ASSUME NEW k \in Cashiers, Occupied(k)'
        PROVE  /\ [id |-> cashier'[k].id, value |-> cashier'[k].value, evidence |-> FALSE]
                    \in receipts'
               /\ PaymentOf(k)' \notin confirmed'
               /\ cashier'[k].at = "name" => cashier'[k].id \in files'
               /\ \A j \in Cashiers : Occupied(j)' /\ cashier'[j].id = cashier'[k].id => j = k
      BY DEF CashiersInv
    <2>1. Occupied(k)
      BY <1>4
    <2>2. /\ [id |-> cashier[k].id, value |-> cashier[k].value, evidence |-> FALSE] \in receipts
          /\ PaymentOf(k) \notin confirmed
          /\ cashier[k].at = "name" => cashier[k].id \in files
          /\ \A j \in Cashiers : Occupied(j) /\ cashier[j].id = cashier[k].id => j = k
      BY <2>1 DEF ReceiptsInv, CashiersInv
    <2>3. cashier'[k].at = "name" => cashier'[k].id \in files'
      BY <1>1, <1>3, <2>2
    <2> QED
      BY <1>2, <1>3, <1>4, <2>2, <2>3
  <1>6. Underhand' = Underhand
    <2>1. Underhand' = {cashier'[k].id : k \in {j \in Cashiers : Occupied(j)'}}
      BY DEF Underhand, Occupied
    <2>2. Underhand = {cashier[k].id : k \in {j \in Cashiers : Occupied(j)}}
      BY DEF Underhand, Occupied
    <2> QED
      BY <1>3, <1>4, <2>1, <2>2
  <1>7. Stored' = Stored
    BY <1>2 DEF Stored
  <1>8. Open' = Open
    BY <1>2, <1>6, <1>7 DEF Open
  <1>9. Cardinality(Open') <= receiptFailures' + receiptCrashes' * Cardinality(Cashiers)
    <2>1. CASE receiptFailures' = receiptFailures
      <3>1. IsFiniteSet({}) /\ Open' \subseteq Open \cup {}
        BY <1>8, FS_EmptySet
      <3> QED
        BY <1>2, <2>1, <3>1, CountKeeps
    <2>2. CASE receiptFailures' = receiptFailures + 1
      <3>1. IsFiniteSet({h}) /\ Cardinality({h}) = 1 /\ Open' \subseteq Open \cup {h}
        BY <1>8, FS_Singleton
      <3> QED
        BY <1>2, <2>2, <3>1, CountKeeps
    <2> QED
      BY <1>1, <2>1, <2>2
  <1>10. AnswersInv'
    BY <1>2, <1>7, <1>9 DEF ReceiptsInv, AnswersInv
  <1> QED
    BY <1>1, <1>2, <1>5, <1>10 DEF ReceiptsInv, NumbersInv, EvidenceIsThere, SummaryCounts

\* The deletion of a payment whose file could not be written keeps the invariant.
LEMMA UndoKeeps ==
  ASSUME ReceiptsInv, NEW h \in Cashiers, UndoReceipt(h)
  PROVE  NumbersInv' /\ CashiersInv' /\ AnswersInv' /\ EvidenceIsThere' /\ SummaryCounts'
  <1>1. /\ Occupied(h) /\ Dismiss(h)
        /\ UNCHANGED <<files, summary, confirmed, receiptCount, receiptCrashes>>
    BY DEF UndoReceipt, Occupied
  <1>2. /\ PaymentOf(h) \in Stored \ confirmed
        /\ \A p \in Stored : p.id = cashier[h].id => p = PaymentOf(h)
        /\ cashier[h].id <= receiptCount
    BY <1>1, BusyFacts
  <1>3. Underhand' = Underhand \ {cashier[h].id}
    BY <1>1, DismissLeaves
  <1>4. PaymentOf(h).id = cashier[h].id
    BY DEF PaymentOf
  <1>5. ASSUME receipts' = {p \in receipts : p.id # cashier[h].id},
               refused' = refused \cup {PaymentOf(h)}, UNCHANGED receiptFailures
        PROVE  NumbersInv' /\ CashiersInv' /\ AnswersInv'
    <2>1. NumbersInv'
      BY <1>1, <1>2, <1>4, <1>5 DEF ReceiptsInv, NumbersInv
    <2>2. CashiersInv'
      BY <1>1, <1>5, DismissKeepsCashiers
    <2>3. Stored' = {p \in Stored : p.id # cashier[h].id}
      BY <1>5 DEF Stored
    <2>4. confirmed' \subseteq Stored'
      <3>1. \A p \in confirmed : p \in Stored /\ p # PaymentOf(h)
        BY <1>2 DEF ReceiptsInv, AnswersInv
      <3> QED
        BY <1>1, <1>2, <2>3, <3>1
    <2>5. \A p \in refused', q \in receipts' : p.id # q.id
      BY <1>4, <1>5 DEF ReceiptsInv, AnswersInv
    <2>6. Open' \subseteq Open
      BY <1>1, <1>3, <2>3 DEF Open
    <2>7. Cardinality(Open') <= receiptFailures' + receiptCrashes' * Cardinality(Cashiers)
      <3>1. IsFiniteSet({}) /\ Open' \subseteq Open \cup {}
        BY <2>6, FS_EmptySet
      <3> QED
        BY <1>1, <1>5, <3>1, CountKeeps
    <2> QED
      BY <2>1, <2>2, <2>4, <2>5, <2>7 DEF AnswersInv
  <1>6. ASSUME receiptFailures' = receiptFailures + 1, UNCHANGED <<receipts, refused>>
        PROVE  NumbersInv' /\ CashiersInv' /\ AnswersInv'
    BY <1>1, <1>6, LeftOpen
  <1>7. EvidenceIsThere'
    BY <1>1 DEF UndoReceipt, ReceiptsInv, EvidenceIsThere
  <1>8. SummaryCounts'
    BY <1>1 DEF ReceiptsInv, SummaryCounts
  <1> QED
    BY <1>5, <1>6, <1>7, <1>8 DEF UndoReceipt, ReceiptFails

\* The naming of the file keeps the invariant.
LEMMA NameKeeps ==
  ASSUME ReceiptsInv, NEW h \in Cashiers, NameEvidence(h)
  PROVE  NumbersInv' /\ CashiersInv' /\ AnswersInv' /\ EvidenceIsThere' /\ SummaryCounts'
  <1>1. /\ Occupied(h) /\ Dismiss(h) /\ cashier[h].at = "name"
        /\ UNCHANGED <<files, summary, refused, receiptCount, receiptCrashes>>
    BY DEF NameEvidence, Occupied
  <1>2. /\ PaymentOf(h) \in Stored \ confirmed
        /\ \A p \in Stored : p.id = cashier[h].id => p = PaymentOf(h)
    BY <1>1, BusyFacts
  <1>3. Underhand' = Underhand \ {cashier[h].id}
    BY <1>1, DismissLeaves
  <1>4. cashier[h].id \in files
    BY <1>1 DEF ReceiptsInv, CashiersInv
  <1> DEFINE named(p) == IF p.id = cashier[h].id THEN [p EXCEPT !.evidence = TRUE] ELSE p
  <1>5. ASSUME receipts' = {named(p) : p \in receipts},
               confirmed' = confirmed \cup {PaymentOf(h)}, UNCHANGED receiptFailures
        PROVE  NumbersInv' /\ CashiersInv' /\ AnswersInv' /\ EvidenceIsThere'
    <2>1. \A p \in receipts :
            /\ named(p).id = p.id /\ named(p).value = p.value
            /\ p.id # cashier[h].id => named(p) = p
      BY DEF ReceiptsInv, ReceiptsTypeOK
    <2>2. EvidenceIsThere'
      <3>1. \A p \in receipts : named(p).evidence => p.id \in files
        BY <1>4 DEF ReceiptsInv, EvidenceIsThere
      <3> HIDE DEF named
      <3> QED
        BY <1>1, <1>5, <2>1, <3>1 DEF EvidenceIsThere
    <2> HIDE DEF named
    <2>3. NumbersInv'
      BY <1>1, <1>5, <2>1 DEF ReceiptsInv, NumbersInv
    <2>4. \A p \in receipts : p.id # cashier[h].id => p \in receipts'
      BY <1>5, <2>1
    <2>5. CashiersInv'
      BY <1>1, <1>5, <2>4, DismissKeepsCashiers
    <2>6. Stored' = Stored
      BY <1>5, <2>1 DEF Stored
    <2>7. \A p \in refused', q \in receipts' : p.id # q.id
      BY <1>1, <1>5, <2>1 DEF ReceiptsInv, AnswersInv
    <2>8. Open' \subseteq Open
      BY <1>2, <1>3, <1>5, <2>6 DEF Open
    <2>9. Cardinality(Open') <= receiptFailures' + receiptCrashes' * Cardinality(Cashiers)
      <3>1. IsFiniteSet({}) /\ Open' \subseteq Open \cup {}
        BY <2>8, FS_EmptySet
      <3> QED
        BY <1>1, <1>5, <3>1, CountKeeps
    <2>10. confirmed' \subseteq Stored'
      BY <1>2, <1>5, <2>6 DEF ReceiptsInv, AnswersInv
    <2> QED
      BY <2>2, <2>3, <2>5, <2>7, <2>9, <2>10 DEF AnswersInv
  <1>6. ASSUME receiptFailures' = receiptFailures + 1, UNCHANGED <<receipts, confirmed>>
        PROVE  NumbersInv' /\ CashiersInv' /\ AnswersInv' /\ EvidenceIsThere'
    <2>1. NumbersInv' /\ CashiersInv' /\ AnswersInv'
      BY <1>1, <1>6, LeftOpen
    <2> QED
      BY <1>1, <1>6, <2>1 DEF ReceiptsInv, EvidenceIsThere
  <1>7. SummaryCounts'
    BY <1>1 DEF ReceiptsInv, SummaryCounts
  <1> QED
    BY <1>5, <1>6, <1>7 DEF NameEvidence, ReceiptFails

\* Whoever asks for the summary when nothing is under way and nothing has failed sees
\* what was confirmed, for then the payments stored are the payments confirmed.
LEMMA SummariseKeeps ==
  ASSUME ReceiptsInv, Summarise
  PROVE  NumbersInv' /\ CashiersInv' /\ AnswersInv' /\ EvidenceIsThere' /\ SummaryCounts'
  <1> DEFINE whole == Underhand = {} /\ receiptFailures + receiptCrashes = 0
  <1>1. /\ summary' = [total |-> TotalOf(receipts), paid |-> TotalOf(confirmed),
                       whole |-> whole]
        /\ UNCHANGED <<receipts, files, cashier, confirmed, refused, receiptCount,
                       receiptFailures, receiptCrashes>>
    BY DEF Summarise, receiptHistory
  <1>2. IsFiniteSet(receipts) /\ IsFiniteSet(Stored) /\ IsFiniteSet(confirmed)
    BY StoredIsFinite, FS_Subset DEF ReceiptsInv, AnswersInv
  <1>3. \A p \in receipts : p.value \in Nat
    BY ReceiptsAssumption DEF ReceiptsInv, ReceiptsTypeOK
  <1>4. \A p \in Stored : p.value \in Nat
    BY <1>3 DEF Stored
  <1>5. TotalOf(receipts) = TotalOf(Stored)
    <2> DEFINE v == [p \in receipts |-> p.value]
               w == [p \in Stored |-> p.value]
               g == [p \in receipts |-> [id |-> p.id, value |-> p.value]]
    <2>1. \A p \in receipts : v[p] \in Nat
      BY <1>3
    <2>2. \A p \in receipts : w[g[p]] = v[p]
      BY DEF Stored
    <2>3. \A p, q \in receipts : g[p] = g[q] => p = q
      <3> TAKE p, q \in receipts
      <3> HAVE g[p] = g[q]
      <3>1. g[p].id = p.id /\ g[q].id = q.id
        OBVIOUS
      <3>2. p.id = q.id
        BY <3>1
      <3> QED
        BY <3>2 DEF ReceiptsInv, NumbersInv
    <2>4. {g[p] : p \in receipts} = Stored
      BY DEF Stored
    <2> HIDE DEF v, w, g
    <2>5. SumOver(v, receipts) = SumOver(w, Stored)
      BY <1>2, <2>1, <2>2, <2>3, <2>4, SumRenamed
    <2> QED
      BY <2>5, TotalIsSum DEF v, w
  <1>6. TotalOf(confirmed) \in Nat /\ TotalOf(receipts) \in Nat
        /\ TotalOf(receipts) >= TotalOf(confirmed)
    <2> DEFINE v == [p \in confirmed |-> p.value]
               w == [p \in Stored |-> p.value]
    <2>1. confirmed \subseteq Stored
      BY DEF ReceiptsInv, AnswersInv
    <2>2. \A p \in Stored : w[p] \in Nat
      BY <1>4
    <2>3. \A p \in confirmed : v[p] = w[p]
      BY <2>1
    <2> HIDE DEF v, w
    <2>4. SumOver(v, confirmed) = SumOver(w, confirmed)
      BY <1>2, <2>3, SumSame
    <2>5. SumOver(w, confirmed) <= SumOver(w, Stored)
      BY <1>2, <2>1, <2>2, SumGrows
    <2>6. SumOver(w, confirmed) \in Nat /\ SumOver(w, Stored) \in Nat
      BY <1>2, <2>1, <2>2, SumFacts
    <2>7. TotalOf(confirmed) = SumOver(w, confirmed) /\ TotalOf(receipts) = SumOver(w, Stored)
      BY <1>5, <2>4, TotalIsSum DEF v, w
    <2> QED
      BY <2>5, <2>6, <2>7
  <1>7. ASSUME whole PROVE TotalOf(receipts) = TotalOf(confirmed)
    <2>1. receiptFailures = 0 /\ receiptCrashes = 0
      BY <1>7 DEF ReceiptsInv, ReceiptsTypeOK
    <2>2. Cardinality(Cashiers) \in Nat
      BY ReceiptsAssumption, FS_CardinalityType
    <2>3. receiptFailures + receiptCrashes * Cardinality(Cashiers) = 0
      BY <2>1, <2>2
    <2>4. IsFiniteSet(Open)
      BY <1>2, FS_Subset DEF Open
    <2>5. Cardinality(Open) \in Nat /\ Cardinality(Open) <= 0
      BY <2>3, <2>4, FS_CardinalityType DEF ReceiptsInv, AnswersInv
    <2>6. Open = {}
      BY <2>4, <2>5, FS_EmptySet
    <2>7. Stored = confirmed
      BY <1>7, <2>6 DEF Open, ReceiptsInv, AnswersInv
    <2> QED
      BY <1>5, <2>7
  <1>9. SummaryCounts'
    <2> HIDE DEF whole
    <2>1. summary'.total = TotalOf(receipts) /\ summary'.paid = TotalOf(confirmed)
          /\ summary'.whole = whole
      BY <1>1
    <2> QED
      BY <1>6, <1>7, <2>1 DEF SummaryCounts
  <1>10. Stored' = Stored /\ Underhand' = Underhand
    BY <1>1 DEF Stored, Underhand
  <1>11. Open' = Open
    BY <1>1, <1>10 DEF Open
  <1>12. AnswersInv'
    BY <1>1, <1>10, <1>11 DEF ReceiptsInv, AnswersInv
  <1>13. CashiersInv'
    BY <1>1 DEF ReceiptsInv, CashiersInv, Occupied, PaymentOf
  <1>14. NumbersInv' /\ EvidenceIsThere'
    BY <1>1 DEF ReceiptsInv, NumbersInv, EvidenceIsThere
  <1> QED
    BY <1>9, <1>12, <1>13, <1>14

\* A crash ends every request, and leaves the payment of each as it was.
LEMMA CrashKeeps ==
  ASSUME ReceiptsInv, ReceiptCrash
  PROVE  NumbersInv' /\ CashiersInv' /\ AnswersInv' /\ EvidenceIsThere' /\ SummaryCounts'
  <1>1. /\ receiptCrashes' = receiptCrashes + 1
        /\ cashier' = [h \in Cashiers |-> Unoccupied]
        /\ UNCHANGED <<receipts, files, summary, confirmed, refused, receiptCount,
                       receiptFailures>>
    BY DEF ReceiptCrash, receiptDb
  <1>2. \A h \in Cashiers : ~ Occupied(h)'
    BY <1>1 DEF Occupied, Unoccupied
  <1>3. Stored' = Stored
    BY <1>1 DEF Stored
  <1> DEFINE f == [h \in Cashiers |-> PaymentOf(h)]
             X == {PaymentOf(h) : h \in Cashiers}
  <1>4. IsFiniteSet(X) /\ Cardinality(X) <= Cardinality(Cashiers)
    <2>1. f \in Surjection(Cashiers, X)
      BY DEF Surjection
    <2> HIDE DEF f, X
    <2> QED
      BY <2>1, ReceiptsAssumption, FS_Surjection
  <1>5. Open' \subseteq Open \cup X
    <2> SUFFICES ASSUME NEW p \in Open', p \notin Open PROVE p \in X
      OBVIOUS
    <2>1. p \in Stored \ confirmed
      BY <1>1, <1>3 DEF Open
    <2>2. PICK h \in Cashiers : Occupied(h) /\ p.id = cashier[h].id
      BY <2>1 DEF Open, Underhand, Occupied
    <2>3. p = PaymentOf(h)
      BY <2>1, <2>2, BusyFacts
    <2> QED
      BY <2>3
  <1>6. Cardinality(Open') <= receiptFailures' + receiptCrashes' * Cardinality(Cashiers)
    <2> HIDE DEF X
    <2> QED
      BY <1>1, <1>4, <1>5, CountKeeps
  <1>7. AnswersInv'
    BY <1>1, <1>3, <1>6 DEF ReceiptsInv, AnswersInv
  <1>8. CashiersInv'
    BY <1>2 DEF CashiersInv
  <1> QED
    BY <1>1, <1>7, <1>8 DEF ReceiptsInv, NumbersInv, EvidenceIsThere, SummaryCounts

\* Nothing happens, and the invariant stays.
LEMMA ReceiptsStutter ==
  ASSUME ReceiptsInv, UNCHANGED receiptVars
  PROVE  NumbersInv' /\ CashiersInv' /\ AnswersInv' /\ EvidenceIsThere' /\ SummaryCounts'
  <1>1. UNCHANGED <<receipts, files, cashier, summary, confirmed, refused, receiptCount,
                    receiptFailures, receiptCrashes>>
    BY DEF receiptVars, receiptDb, receiptHistory
  <1>2. Stored' = Stored /\ Underhand' = Underhand
    BY <1>1 DEF Stored, Underhand
  <1>3. Open' = Open
    BY <1>1, <1>2 DEF Open
  <1>4. AnswersInv'
    BY <1>1, <1>2, <1>3 DEF ReceiptsInv, AnswersInv
  <1>5. CashiersInv'
    BY <1>1 DEF ReceiptsInv, CashiersInv, Occupied, PaymentOf
  <1> QED
    BY <1>1, <1>4, <1>5 DEF ReceiptsInv, NumbersInv, EvidenceIsThere, SummaryCounts

\* For any number of cashiers, values, failures and crashes: a payment that names its
\* evidence has the file; one confirmed is stored for good and one refused is gone; the
\* others are under way or as few as the failures and crashes left; and a summary counts
\* every payment confirmed, and those only when nothing was under way or had failed
\* (createPayment, createPaymentWithEvidence, getSummaryByCustomer).
THEOREM ReceiptsAreCorrect == ReceiptsSpec => []ReceiptsCorrect
  <1>1. ASSUME ReceiptsInv, [ReceiptsNext]_receiptVars PROVE ReceiptsInv'
    <2>1. ReceiptsTypeOK'
      BY <1>1, ReceiptsKeepTypes
    <2>2. NumbersInv' /\ CashiersInv' /\ AnswersInv' /\ EvidenceIsThere' /\ SummaryCounts'
      BY <1>1, InsertKeeps, ConfirmKeeps, WriteKeeps, UndoKeeps, NameKeeps, SummariseKeeps,
        CrashKeeps, ReceiptsStutter DEF ReceiptsNext
    <2> QED
      BY <2>1, <2>2 DEF ReceiptsInv
  <1>2. ReceiptsInit => ReceiptsInv
    BY InitReceipts
  <1>3. ReceiptsInv => ReceiptsCorrect
    BY ReceiptsInvMeans
  <1> QED
    BY <1>1, <1>2, <1>3, PTL DEF ReceiptsSpec

-----------------------------------------------------------------------------
(* What the totals of a down payment are worth                               *)

\* The fees of c whose requests are through: no rollback but that of c takes them.
PaidThrough(c) == {r \in FeesOf(c) : request[r].at = "done"}
Gone == {"undoRow", "failed"}

\* A total recorded is backed by fees that are through, and so is the total that a
\* payment in hand has read; the fee of a request that is about to save is there.
Backed(c) ==
  /\ rows[c] # None /\ request[c].at # "undoRow" => rows[c].paid <= SumOf(PaidThrough(c))
  /\ request[c].at = "failed" => rows[c] = None
  /\ request[c].at = "totals" => fees[c] = [of |-> c, value |-> request[c].value]
SeenBacked(p) ==
  request[p].at \in {"fee", "save"} /\ request[request[p].of].at \notin Gone =>
    /\ request[p].seen.paid <= SumOf(PaidThrough(request[p].of))
    /\ request[p].at = "save" =>
         fees[p] = [of |-> request[p].of, value |-> request[p].value]

BackedInv ==
  /\ \A c \in Creators : Backed(c)
  /\ \A p \in Payers : SeenBacked(p)

\* What SumOf is, whatever the fees are.
LEMMA WorthIsSum ==
  ASSUME NEW f, NEW S
  PROVE  MapThenSumSet(LAMBDA r : f[r].value, S) = SumOver([r \in S |-> f[r].value], S)
  <1> DEFINE v == [r \in S |-> f[r].value]
             Step(F, s) == IF s = {} THEN 0 ELSE f[CHOOSE r \in s : TRUE].value
                                                 + F[s \ {CHOOSE r \in s : TRUE}]
  <1>1. MapThenSumSet(LAMBDA r : f[r].value, S)
          = (CHOOSE F : F = [s \in SUBSET S |-> Step(F, s)])[S]
    BY DEF MapThenSumSet, MapThenFoldSet
  <1>2. ASSUME NEW F, NEW s \in SUBSET S
        PROVE  Step(F, s) = IF s = {} THEN 0 ELSE v[One(s)] + F[s \ {One(s)}]
    <2>1. s # {} => One(s) \in S
      BY DEF One
    <2> QED
      BY <2>1 DEF One
  <1>3. ASSUME NEW F PROVE (F = [s \in SUBSET S |-> Step(F, s)]) <=> Sums(F, v, S)
    <2> DEFINE Taking(s) == IF s = {} THEN 0 ELSE v[One(s)] + F[s \ {One(s)}]
    <2>1. \A s \in SUBSET S : Step(F, s) = Taking(s)
      BY <1>2
    <2>2. Sums(F, v, S) <=> F = [s \in SUBSET S |-> Taking(s)]
      BY DEF Sums
    <2> HIDE DEF Step, Taking
    <2> QED
      BY <2>1, <2>2
  <1>4. (CHOOSE F : F = [s \in SUBSET S |-> Step(F, s)]) = (CHOOSE F : Sums(F, v, S))
    <2> HIDE DEF Step, v
    <2> QED
      BY <1>3
  <1> QED
    BY <1>1, <1>4 DEF SumOver

LEMMA WorthNow == \A S : SumOf(S) = SumOver([r \in S |-> fees[r].value], S)
  <1> TAKE S
  <1>1. SumOf(S) = MapThenSumSet(LAMBDA r : fees[r].value, S)
    BY DEF SumOf, MapThenSumSet, MapThenFoldSet
  <1> QED
    BY <1>1, WorthIsSum DEF MapThenSumSet, MapThenFoldSet

LEMMA WorthThen ==
  ASSUME NEW c \in Creators
  PROVE  SumOf(PaidThrough(c))' = SumOver([r \in PaidThrough(c)' |-> fees'[r].value], PaidThrough(c)')
  <1>1. SumOf(PaidThrough(c))' = MapThenSumSet(LAMBDA r : fees'[r].value, PaidThrough(c)')
    BY DEF SumOf, MapThenSumSet, MapThenFoldSet
  <1> QED
    BY <1>1, WorthIsSum DEF MapThenSumSet, MapThenFoldSet

\* Fees that stay through keep their worth, and one more adds its own.
LEMMA WorthGrows ==
  ASSUME TypeOK, TypeOK', NEW c \in Creators,
         \A r \in PaidThrough(c) : r \in PaidThrough(c)' /\ fees'[r] = fees[r]
  PROVE  /\ SumOf(PaidThrough(c)) \in Nat /\ SumOf(PaidThrough(c))' \in Nat
         /\ SumOf(PaidThrough(c)) <= SumOf(PaidThrough(c))'
         /\ \A x \in PaidThrough(c)' :
              /\ fees'[x].value \in Nat
              /\ x \notin PaidThrough(c) =>
                   /\ SumOf(PaidThrough(c)) + fees'[x].value <= SumOf(PaidThrough(c))'
                   /\ PaidThrough(c)' \subseteq PaidThrough(c) \cup {x} =>
                        SumOf(PaidThrough(c))' = SumOf(PaidThrough(c)) + fees'[x].value
  <1> DEFINE S == PaidThrough(c)
             T == PaidThrough(c)'
             v == [r \in S |-> fees[r].value]
             w == [r \in T |-> fees'[r].value]
  <1>1. IsFiniteSet(S) /\ IsFiniteSet(T)
    <2>1. S \in SUBSET Requests /\ T \in SUBSET Requests /\ IsFiniteSet(Requests)
      BY RequestsAssumption DEF Requests, PaidThrough, FeesOf
    <2> QED
      BY <2>1, FS_Subset
  <1>2. \A r \in S : v[r] \in Nat
    <2>1. \A r \in S : fees[r] \in FeeType
      BY Typing DEF PaidThrough, FeesOf
    <2> QED
      BY <2>1, Numbers DEF FeeType
  <1>3. \A r \in T : w[r] \in Nat /\ w[r] = fees'[r].value
    <2>1. \A r \in T : r \in Requests /\ fees'[r] # None
      BY DEF PaidThrough, FeesOf
    <2>2. \A r \in T : fees'[r] \in FeeType
      BY <2>1 DEF TypeOK
    <2> QED
      BY <2>2, Numbers DEF FeeType
  <1>4. S \subseteq T /\ \A r \in S : v[r] = w[r]
    OBVIOUS
  <1>5. SumOf(PaidThrough(c)) = SumOver(v, S) /\ SumOf(PaidThrough(c))' = SumOver(w, T)
    BY WorthNow, WorthThen
  <1> HIDE DEF S, T, v, w
  <1>6. SumOver(v, S) = SumOver(w, S)
    BY <1>1, <1>4, SumSame
  <1>7. SumOver(w, S) <= SumOver(w, T) /\ SumOver(w, T) \in Nat /\ SumOver(w, S) \in Nat
    BY <1>1, <1>3, <1>4, SumGrows, SumFacts
  <1>8. ASSUME NEW x \in T, x \notin S
        PROVE  /\ SumOver(w, S) + w[x] <= SumOver(w, T)
               /\ T \subseteq S \cup {x} => SumOver(w, T) = SumOver(w, S) + w[x]
    <2> DEFINE R == T \ {x}
    <2>1. IsFiniteSet(R) /\ S \subseteq R /\ \A r \in R : w[r] \in Nat
      BY <1>1, <1>3, <1>4, <1>8, FS_Subset
    <2>2. SumOver(w, T) = w[x] + SumOver(w, R) /\ w[x] \in Nat
      BY <1>1, <1>3, <1>8, SumFacts
    <2>3. T \subseteq S \cup {x} => R = S
      BY <2>1
    <2> HIDE DEF R
    <2>4. SumOver(w, S) <= SumOver(w, R) /\ SumOver(w, R) \in Nat
      BY <2>1, SumGrows, SumFacts
    <2> DEFINE a == SumOver(w, S)
               b == SumOver(w, R)
               d == w[x]
    <2>5. a \in Nat /\ b \in Nat /\ d \in Nat /\ a <= b
      BY <1>7, <2>2, <2>4
    <2>6. R = S => a = b
      OBVIOUS
    <2> HIDE DEF a, b, d
    <2>7. a + d <= d + b /\ (a = b => d + b = a + d)
      BY <2>5
    <2> QED
      BY <2>2, <2>3, <2>6, <2>7 DEF a, b, d
  <1> QED
    BY <1>3, <1>5, <1>6, <1>7, <1>8 DEF S, T

\* A step of a request leaves the other requests as they are.
LEMMA OthersWait ==
  ASSUME TypeOK, NEW q \in Requests,
         \/ q \in Creators /\ (\/ CreateLook(q) \/ CreateRow(q) \/ SaveContract(q)
                               \/ CreateFee(q) \/ CreateTotals(q) \/ CreateFails(q)
                               \/ UndoFees(q) \/ UndoRow(q))
         \/ PayRead(q) \/ PayFee(q) \/ PayEvidenceFails(q) \/ PaySave(q)
  PROVE  \A r \in Requests \ {q} : request'[r] = request[r]
  <1>0. DOMAIN request = Requests
    BY DEF TypeOK
  <1>1. CASE CreateLook(q)
    BY <1>0, <1>1 DEF CreateLook
  <1>2. CASE PayRead(q)
    BY <1>0, <1>2 DEF PayRead
  <1>3. CASE \E at : Goto(q, at)
    BY <1>0, <1>3 DEF Goto
  <1>4. \/ CreateLook(q) \/ PayRead(q) \/ \E at : Goto(q, at)
    <2>1. ASSUME NEW at, Goto(q, at) PROVE \E place : Goto(q, place)
      BY <2>1
    <2> QED
      BY <2>1 DEF CreateRow, SaveContract, CreateFee, CreateTotals, CreateFails, UndoFees,
        UndoRow, PayFee, PayEvidenceFails, PaySave
  <1> QED
    BY <1>1, <1>2, <1>3, <1>4

\* A request that goes on stays what it is but for its place.
LEMMA GoesOn ==
  ASSUME TypeOK, NEW q \in Requests, NEW at, Goto(q, at)
  PROVE  /\ request'[q].at = at /\ request'[q].of = request[q].of
         /\ request'[q].value = request[q].value /\ request'[q].seen = request[q].seen
         /\ request'[q].expected = request[q].expected /\ request'[q].dead = request[q].dead
         /\ \A r \in Requests \ {q} : request'[r] = request[r]
  <1>1. DOMAIN request = Requests /\ request[q] \in RequestType
    BY Typing DEF TypeOK
  <1>2. request'[q] = [request[q] EXCEPT !.at = at]
        /\ \A r \in Requests \ {q} : request'[r] = request[r]
    BY <1>1 DEF Goto
  <1> QED
    BY <1>1, <1>2 DEF RequestType

\* What every step leaves of the fees that are through.
LEMMA SettledStays ==
  ASSUME IInv, Next, NEW c \in Creators, request'[c].at \notin Gone
  PROVE  \A r \in PaidThrough(c) : r \in PaidThrough(c)' /\ fees'[r] = fees[r]
  <1>0. /\ TypeOK /\ DOMAIN request = Requests /\ DOMAIN fees = Requests
        /\ DOMAIN rows = Creators
    BY DEF IInv, TypeOK
  <1> SUFFICES ASSUME NEW r \in PaidThrough(c) PROVE r \in PaidThrough(c)' /\ fees'[r] = fees[r]
    OBVIOUS
  <1>1. r \in Requests /\ fees[r] # None /\ fees[r].of = c /\ request[r].at = "done"
    BY DEF PaidThrough, FeesOf
  <1> SUFFICES fees'[r] = fees[r] /\ request'[r].at = "done"
    BY <1>1 DEF PaidThrough, FeesOf
  <1>2. ASSUME NEW d \in Creators,
               \/ CreateLook(d) \/ CreateRow(d) \/ SaveContract(d) \/ CreateFee(d)
               \/ CreateTotals(d) \/ CreateFails(d) \/ UndoFees(d) \/ UndoRow(d)
        PROVE  fees'[r] = fees[r] /\ request'[r].at = "done"
    <2>1. d \in Requests /\ r # d
      BY <1>1, <1>2 DEF CreateLook, CreateRow, SaveContract, CreateFee, CreateTotals,
        CreateFails, UndoFees, UndoRow, At, Requests
    <2>2. request'[r] = request[r]
      BY <1>0, <1>1, <1>2, <2>1, OthersWait
    <2>3. CASE UndoFees(d)
      <3>1. request'[d].at = "undoRow"
        BY <1>0, <2>1, <2>3 DEF UndoFees, Goto, TypeOK
      <3>2. r \notin FeesOf(d)
        BY <1>1, <3>1 DEF FeesOf, Gone
      <3> QED
        BY <1>1, <2>2, <2>3, <3>2 DEF UndoFees
    <2>4. CASE CreateFee(d)
      BY <1>1, <2>1, <2>2, <2>4 DEF CreateFee
    <2>5. CASE ~UndoFees(d) /\ ~CreateFee(d)
      BY <1>1, <1>2, <2>2, <2>5 DEF CreateLook, CreateRow, SaveContract,
        CreateTotals, CreateFails, UndoRow
    <2> QED
      BY <2>3, <2>4, <2>5
  <1>3. ASSUME NEW p \in Payers, PayRead(p) \/ PayFee(p) \/ PayEvidenceFails(p) \/ PaySave(p)
        PROVE  fees'[r] = fees[r] /\ request'[r].at = "done"
    <2>1. p \in Requests /\ r # p
      BY <1>1, <1>3 DEF PayRead, PayFee, PayEvidenceFails, PaySave, At, Requests
    <2>2. request'[r] = request[r]
      BY <1>0, <1>1, <1>3, <2>1, OthersWait
    <2>3. fees'[r] = fees[r]
      <3>1. CASE PayRead(p) \/ PaySave(p)
        BY <3>1 DEF PayRead, PaySave
      <3>2. CASE PayFee(p) \/ PayEvidenceFails(p)
        BY <1>0, <1>1, <2>1, <3>2 DEF PayFee, PayEvidenceFails
      <3> QED
        BY <1>3, <3>1, <3>2
    <2> QED
      BY <1>1, <2>2, <2>3
  <1>4. ASSUME NEW q \in Requests, Abort(q)
        PROVE  fees'[r] = fees[r] /\ request'[r].at = "done"
    BY <1>0, <1>1, <1>4 DEF Abort, TypeOK
  <1> QED
    BY <1>2, <1>3, <1>4 DEF Next, CreateNext, PayNext

\* A document nobody writes stays backed.
LEMMA BackedStays ==
  ASSUME IInv, TypeOK', Next, BackedInv, NEW d \in Creators,
         rows'[d] = rows[d], request'[d].at = request[d].at,
         request'[d].value = request[d].value,
         request[d].at = "totals" => fees'[d] = fees[d]
  PROVE  Backed(d)'
  <1>1. Backed(d) /\ TypeOK
    BY DEF IInv, BackedInv
  <1>2. ASSUME rows'[d] # None, request'[d].at # "undoRow"
        PROVE  rows'[d].paid <= SumOf(PaidThrough(d))'
    <2>1. request'[d].at \notin Gone
      BY <1>1, <1>2 DEF Backed, Gone
    <2>2. /\ SumOf(PaidThrough(d)) \in Nat /\ SumOf(PaidThrough(d))' \in Nat
          /\ SumOf(PaidThrough(d)) <= SumOf(PaidThrough(d))'
      BY <1>1, <2>1, SettledStays, WorthGrows
    <2>3. rows[d].paid <= SumOf(PaidThrough(d)) /\ rows[d].paid \in Nat
      BY <1>1, <1>2, Typing DEF Backed, RowType
    <2> QED
      BY <2>2, <2>3
  <1> QED
    BY <1>1, <1>2 DEF Backed

\* A payment that waits keeps what backs it.
LEMMA SeenStays ==
  ASSUME IInv, TypeOK', Next, BackedInv, NEW p \in Payers,
         request'[p].at = request[p].at, request'[p].of = request[p].of,
         request'[p].value = request[p].value, request'[p].seen = request[p].seen,
         request[p].of \in Creators /\ request'[request[p].of].at \notin Gone =>
           fees'[p] = fees[p] /\ request[request[p].of].at \notin Gone
  PROVE  SeenBacked(p)'
  <1> SUFFICES ASSUME request[p].at \in {"fee", "save"},
                      request'[request'[p].of].at \notin Gone
      PROVE  /\ request'[p].seen.paid <= SumOf(PaidThrough(request[p].of))'
             /\ request'[p].at = "save" =>
                  fees'[p] = [of |-> request'[p].of, value |-> request'[p].value]
    BY DEF SeenBacked
  <1>0. request[p].of \in Creators /\ request[p].seen \in RowType /\ TypeOK
    BY DEF IInv, PayerKnows
  <1> PICK c \in Creators : c = request[p].of
    BY <1>0
  <1>1. c = request'[p].of /\ request[p].seen \in RowType /\ TypeOK
    BY <1>0
  <1>2. request[c].at \notin Gone /\ fees'[p] = fees[p]
    BY <1>1
  <1>3. /\ request[p].seen.paid <= SumOf(PaidThrough(c))
        /\ request[p].at = "save" => fees[p] = [of |-> c, value |-> request[p].value]
    BY <1>2 DEF BackedInv, SeenBacked
  <1>4. /\ SumOf(PaidThrough(c)) \in Nat /\ SumOf(PaidThrough(c))' \in Nat
        /\ SumOf(PaidThrough(c)) <= SumOf(PaidThrough(c))'
    BY <1>1, SettledStays, WorthGrows
  <1>5. request[p].seen.paid \in Nat
    BY <1>1 DEF RowType
  <1> QED
    BY <1>2, <1>3, <1>4, <1>5

\* The steps of a creation keep every total backed.
LEMMA CreateBacked ==
  ASSUME IInv, TypeOK', BackedInv, NEW c \in Creators,
         \/ CreateLook(c) \/ CreateRow(c) \/ SaveContract(c) \/ CreateFee(c)
         \/ CreateTotals(c) \/ CreateFails(c) \/ UndoFees(c) \/ UndoRow(c)
  PROVE  BackedInv'
  <1>0. /\ c \in Requests /\ c \notin Payers /\ TypeOK /\ CreatorKnows(c) /\ Backed(c)
        /\ Next
    BY RequestsAssumption DEF IInv, Requests, BackedInv, Next, CreateNext
  <1>n. /\ request[c] \in RequestType /\ DOMAIN request = Requests
        /\ DOMAIN fees = Requests /\ DOMAIN rows = Creators
    BY <1>0, Typing DEF TypeOK
  <1>1. \A r \in Requests \ {c} : request'[r] = request[r]
    BY <1>0, OthersWait
  <1>2. \A d \in Creators \ {c} : rows'[d] = rows[d]
    BY <1>n DEF CreateLook, CreateRow, SaveContract, CreateFee, CreateTotals, CreateFails,
      UndoFees, UndoRow
  <1>3. \A r \in Requests \ {c} : fees'[r] = fees[r] \/ (UndoFees(c) /\ r \in FeesOf(c))
    BY <1>n DEF CreateLook, CreateRow, SaveContract, CreateFee, CreateTotals, CreateFails,
      UndoFees, UndoRow
  <1>4. UndoFees(c) => request'[c].at = "undoRow"
    BY <1>0, GoesOn DEF UndoFees
  <1>5. ASSUME NEW d \in Creators \ {c} PROVE Backed(d)'
    <2>1. ASSUME request[d].at = "totals" PROVE d \notin FeesOf(c)
      <3>1. fees[d] = [of |-> d, value |-> request[d].value]
        BY <2>1 DEF BackedInv, Backed
      <3>2. fees[d].of = d
        BY <3>1
      <3> QED
        BY <3>2 DEF FeesOf
    <2>2. request'[d] = request[d] /\ rows'[d] = rows[d]
      BY <1>1, <1>2 DEF Requests
    <2>3. request[d].at = "totals" => fees'[d] = fees[d]
      BY <1>3, <2>1 DEF Requests
    <2> QED
      BY <1>0, <2>2, <2>3, BackedStays
  <1>6. ASSUME NEW p \in Payers PROVE SeenBacked(p)'
    <2>1. request'[p] = request[p] /\ p \in Requests
      BY <1>0, <1>1 DEF Requests
    <2>2. CASE request[p].at \in {"fee", "save"}
      <3> PICK d \in Creators : d = request[p].of
        BY <2>2 DEF IInv, PayerKnows
      <3>1. ASSUME request'[d].at \notin Gone
            PROVE  request[d].at \notin Gone
        <4>1. CASE d = c
          <5>1. request[c].at = "undoRow" => UndoRow(c)
            BY DEF CreateLook, CreateRow, SaveContract, CreateFee, CreateTotals,
              CreateFails, UndoFees, At
          <5>2. request[c].at # "failed"
            BY DEF CreateLook, CreateRow, SaveContract, CreateFee, CreateTotals,
              CreateFails, UndoFees, UndoRow, At
          <5>3. UndoRow(c) => request'[c].at = "failed"
            BY <1>0, GoesOn DEF UndoRow
          <5> QED
            BY <3>1, <4>1, <5>1, <5>2, <5>3 DEF Gone
        <4>2. CASE d # c
          BY <1>1, <3>1, <4>2 DEF Requests
        <4> QED
          BY <4>1, <4>2
      <3>2. ASSUME request'[d].at \notin Gone, p \in FeesOf(c), request[p].at = "save"
            PROVE  ~ UndoFees(c)
        <4>1. fees[p].of = d
          <5>1. fees[p] = [of |-> d, value |-> request[p].value]
            BY <3>1, <3>2 DEF BackedInv, SeenBacked
          <5> QED
            BY <5>1
        <4>2. c = d
          BY <3>2, <4>1 DEF FeesOf
        <4> QED
          BY <1>4, <3>2, <4>2 DEF Gone
      <3>3. CASE request[p].at = "save"
        BY <1>0, <1>3, <2>1, <3>1, <3>2, <3>3, SeenStays
      <3>4. CASE request[p].at = "fee"
        <4>1. /\ request[p].seen \in RowType
              /\ request'[d].at \notin Gone => request[p].seen.paid <= SumOf(PaidThrough(d))
          BY <2>2, <3>1 DEF BackedInv, SeenBacked, IInv, PayerKnows
        <4>2. ASSUME request'[d].at \notin Gone
              PROVE  request[p].seen.paid <= SumOf(PaidThrough(d))'
          <5>1. /\ SumOf(PaidThrough(d)) \in Nat /\ SumOf(PaidThrough(d))' \in Nat
                /\ SumOf(PaidThrough(d)) <= SumOf(PaidThrough(d))'
            BY <1>0, <4>2, SettledStays, WorthGrows
          <5> QED
            BY <4>1, <4>2, <5>1 DEF RowType
        <4>3. d = request'[p].of
          BY <2>1
        <4> QED
          BY <2>1, <3>4, <4>2, <4>3 DEF SeenBacked
      <3> QED
        BY <2>2, <3>3, <3>4
    <2>3. CASE request[p].at \notin {"fee", "save"}
      BY <2>1, <2>3 DEF SeenBacked
    <2> QED
      BY <2>2, <2>3
  <1>7. Backed(c)'
    <2>1. CASE CreateLook(c)
      <3>1. rows'[c] = None /\ request'[c].at \in {"create", "done"}
        BY <1>0, <1>n, <2>1 DEF CreateLook, At, CreatorKnows, Untouched
      <3> QED
        BY <3>1 DEF Backed
    <2>2. CASE CreateRow(c)
      <3> DEFINE row == NewRow(request[c].expected, request[c].value)
      <3>1. request[c].at = "create" /\ rows[c] = None
            /\ request[c].expected \in Expected /\ request[c].value \in Amounts
        BY <1>0, <2>2 DEF CreateRow, At, CreatorKnows
      <3>2. row # None /\ row.paid = 0
        BY <3>1, NewRowType
      <3> HIDE DEF row
      <3>3. rows'[c] = row \/ rows'[c] = None
        BY <1>n, <2>2, <3>1 DEF CreateRow, row
      <3>4. request'[c].at \in {"contract", "done"}
        BY <1>0, <2>2, GoesOn DEF CreateRow
      <3>5. SumOf(PaidThrough(c))' \in Nat
        BY <1>0, <3>4, SettledStays, WorthGrows DEF Gone
      <3> QED
        BY <3>2, <3>3, <3>4, <3>5 DEF Backed
    <2>3. CASE SaveContract(c)
      <3>1. request[c].at = "contract" /\ rows[c] # None
        BY <1>0, <2>3 DEF SaveContract, At, CreatorKnows, Inserted
      <3>2. rows[c] \in RowType
        BY <1>0, <3>1, Typing
      <3>3. rows'[c].paid = rows[c].paid /\ rows[c].paid \in Nat
        BY <1>n, <2>3, <3>2 DEF SaveContract, RowType
      <3>4. request'[c].at = "fee"
        BY <1>0, <2>3, GoesOn DEF SaveContract
      <3>5. /\ SumOf(PaidThrough(c)) \in Nat /\ SumOf(PaidThrough(c))' \in Nat
            /\ SumOf(PaidThrough(c)) <= SumOf(PaidThrough(c))'
        BY <1>0, <3>4, SettledStays, WorthGrows DEF Gone
      <3>6. rows[c].paid <= SumOf(PaidThrough(c))
        BY <1>0, <3>1 DEF Backed
      <3>7. rows'[c].paid <= SumOf(PaidThrough(c))'
        BY <3>3, <3>5, <3>6
      <3> QED
        BY <3>4, <3>7 DEF Backed
    <2>4. CASE CreateFee(c)
      <3>1. request'[c].at = "totals" /\ request'[c].value = request[c].value
            /\ request[c].at = "fee" /\ rows'[c] = rows[c]
            /\ fees'[c] = [of |-> c, value |-> request[c].value]
        BY <1>0, <1>n, <2>4 DEF CreateFee, Goto, RequestType, At
      <3>2. rows[c] # None /\ rows[c] \in RowType
        BY <1>0, <3>1, Typing DEF CreatorKnows, Inserted
      <3>3. /\ SumOf(PaidThrough(c)) \in Nat /\ SumOf(PaidThrough(c))' \in Nat
            /\ SumOf(PaidThrough(c)) <= SumOf(PaidThrough(c))'
        BY <1>0, <3>1, SettledStays, WorthGrows DEF Gone
      <3>4. rows[c].paid <= SumOf(PaidThrough(c)) /\ rows[c].paid \in Nat
        BY <1>0, <3>1, <3>2 DEF Backed, RowType
      <3>5. rows'[c].paid <= SumOf(PaidThrough(c))'
        BY <3>1, <3>3, <3>4
      <3> QED
        BY <3>1, <3>5 DEF Backed
    <2>5. CASE CreateTotals(c)
      <3>1. request'[c].at = "done" /\ request[c].at = "totals" /\ fees' = fees
        BY <1>0, <1>n, <2>5 DEF CreateTotals, Goto, RequestType, At
      <3>2. rows[c] # None /\ rows[c] \in RowType /\ request[c].value \in Nat
        BY <1>0, <3>1, Typing, Numbers DEF CreatorKnows, Inserted
      <3>3. rows'[c].paid = request[c].value
        BY <1>n, <2>5, <3>2 DEF CreateTotals, RowType
      <3>4. fees[c] = [of |-> c, value |-> request[c].value]
        BY <1>0, <3>1 DEF Backed
      <3>5. fees[c] # None
        <4>1. [of |-> c, value |-> request[c].value] \in FeeType
          BY <1>0, <3>1 DEF CreatorKnows, Inserted, FeeType
        <4> QED
          BY <3>4, <4>1, NoneAssumption
      <3>6. c \in PaidThrough(c)' /\ c \notin PaidThrough(c)
        BY <1>0, <3>1, <3>4, <3>5 DEF PaidThrough, FeesOf
      <3>7. /\ SumOf(PaidThrough(c)) \in Nat /\ SumOf(PaidThrough(c))' \in Nat
            /\ SumOf(PaidThrough(c)) + fees'[c].value <= SumOf(PaidThrough(c))'
        BY <1>0, <3>1, <3>6, SettledStays, WorthGrows DEF Gone
      <3>8. fees'[c].value = request[c].value
        BY <3>1, <3>4
      <3>9. rows'[c].paid <= SumOf(PaidThrough(c))'
        BY <3>2, <3>3, <3>7, <3>8
      <3> QED
        BY <3>1, <3>9 DEF Backed
    <2>6. CASE CreateFails(c)
      <3>1. request'[c].at = "undo" /\ rows'[c] = rows[c]
            /\ request[c].at \in {"contract", "fee", "totals"}
        BY <1>0, <1>n, <2>6 DEF CreateFails, Goto, RequestType, At
      <3>2. rows[c] # None /\ rows[c] \in RowType
        BY <1>0, <3>1, Typing DEF CreatorKnows, Inserted
      <3>3. /\ SumOf(PaidThrough(c)) \in Nat /\ SumOf(PaidThrough(c))' \in Nat
            /\ SumOf(PaidThrough(c)) <= SumOf(PaidThrough(c))'
        BY <1>0, <3>1, SettledStays, WorthGrows DEF Gone
      <3>4. rows[c].paid <= SumOf(PaidThrough(c)) /\ rows[c].paid \in Nat
        BY <1>0, <3>1, <3>2 DEF Backed, RowType
      <3>5. rows'[c].paid <= SumOf(PaidThrough(c))'
        BY <3>1, <3>3, <3>4
      <3> QED
        BY <3>1, <3>5 DEF Backed
    <2>7. CASE UndoFees(c)
      BY <1>4, <2>7 DEF Backed
    <2>8. CASE UndoRow(c)
      <3>1. request'[c].at = "failed" /\ rows'[c] = None
        BY <1>0, <1>n, <2>8, GoesOn DEF UndoRow
      <3> QED
        BY <3>1 DEF Backed
    <2> QED
      BY <2>1, <2>2, <2>3, <2>4, <2>5, <2>6, <2>7, <2>8
  <1> QED
    BY <1>5, <1>6, <1>7 DEF BackedInv

\* What a payment saves: its totals, over the document it finds.
LEMMA SaveWrites ==
  ASSUME IInv, NEW p \in Payers, PaySave(p), NEW c \in Creators, c = request[p].of,
         rows[c] # None
  PROVE  LET paid == Paid(request[p].seen, request[p].value) IN
         /\ request'[p].at = "done" /\ rows'[c] # None /\ rows'[c] \in RowType
         /\ rows'[c].paid = request[p].seen.paid + request[p].value
         /\ rows'[c].count = request[p].seen.count + 1
         /\ rows'[c].status = IF paid.status = request[p].seen.status THEN rows[c].status
                              ELSE paid.status
         /\ paid.status = Status(request[p].seen.paid + request[p].value,
                                 request[p].seen.expected)
         /\ rows'[c].expected = rows[c].expected /\ rows'[c].contract = rows[c].contract
         /\ \A d \in Creators \ {c} : rows'[d] = rows[d]
  <1> DEFINE paid == Paid(request[p].seen, request[p].value)
             status == IF paid.status = request[p].seen.status THEN rows[c].status
                       ELSE paid.status
             row == [rows[c] EXCEPT !.paid = paid.paid, !.count = paid.count,
                                    !.status = status]
  <1>0. p \in Requests /\ TypeOK /\ DOMAIN rows = Creators
    BY DEF IInv, Requests, TypeOK
  <1>1. rows[c] \in RowType /\ request[p].at = "save"
    BY <1>0, Typing DEF PaySave, At
  <1>2. request[p].seen \in RowType /\ request[p].value \in Nat
    BY <1>1, Numbers DEF IInv, PayerKnows
  <1>3. /\ paid.paid = request[p].seen.paid + request[p].value
        /\ paid.count = request[p].seen.count + 1
        /\ paid.status = Status(request[p].seen.paid + request[p].value,
                                request[p].seen.expected)
        /\ paid.paid \in Nat /\ paid.count \in Nat /\ paid.status \in {"pending", "completed"}
    BY <1>2 DEF Paid, RowType, Status
  <1>4. rows' = [rows EXCEPT ![c].paid = paid.paid, ![c].count = paid.count,
                  ![c].status = IF paid.status = request[p].seen.status THEN @
                                ELSE paid.status]
    BY DEF PaySave
  <1> HIDE DEF paid
  <1>5. status \in {"pending", "completed"}
    BY <1>1, <1>3 DEF RowType
  <1>6. rows' = [rows EXCEPT ![c] = row]
    BY <1>0, <1>1, <1>4 DEF RowType
  <1> HIDE DEF status
  <1>7. /\ row \in RowType /\ row.paid = paid.paid /\ row.count = paid.count
        /\ row.status = status /\ row.expected = rows[c].expected
        /\ row.contract = rows[c].contract
    BY <1>1, <1>3, <1>5 DEF RowType
  <1> HIDE DEF row
  <1>8. rows'[c] = row /\ \A d \in Creators \ {c} : rows'[d] = rows[d]
    BY <1>0, <1>6
  <1>9. Goto(p, "done")
    BY DEF PaySave
  <1>10. request'[p].at = "done"
    BY <1>0, <1>9, GoesOn
  <1> QED
    BY <1>3, <1>7, <1>8, <1>10, NoneAssumption DEF status, paid

\* The steps of a payment keep every total backed.
LEMMA PayBacked ==
  ASSUME IInv, TypeOK', BackedInv, NEW p \in Payers,
         PayRead(p) \/ PayFee(p) \/ PayEvidenceFails(p) \/ PaySave(p)
  PROVE  BackedInv'
  <1>0. /\ p \in Requests /\ p \notin Creators /\ TypeOK /\ PayerKnows(p) /\ Next
    BY RequestsAssumption DEF IInv, Requests, Next, PayNext
  <1>n. DOMAIN request = Requests /\ DOMAIN fees = Requests
    BY <1>0 DEF TypeOK
  <1>1. \A r \in Requests \ {p} : request'[r] = request[r]
    BY <1>0, OthersWait
  <1>2. \A r \in Requests \ {p} : fees'[r] = fees[r]
    BY <1>n DEF PayRead, PayFee, PayEvidenceFails, PaySave
  <1>3. \A d \in Creators : request'[d] = request[d] /\ fees'[d] = fees[d]
    BY <1>0, <1>1, <1>2 DEF Requests
  <1>4. ASSUME NEW q \in Payers \ {p} PROVE SeenBacked(q)'
    <2>1. q \in Requests /\ request'[q] = request[q] /\ fees'[q] = fees[q]
      BY <1>1, <1>2 DEF Requests
    <2>2. request[q].of \in Creators /\ request'[request[q].of].at \notin Gone =>
            request[request[q].of].at \notin Gone
      BY <1>3
    <2> QED
      BY <1>0, <2>1, <2>2, SeenStays
  <1>5. ASSUME NEW d \in Creators, rows'[d] = rows[d] PROVE Backed(d)'
    BY <1>0, <1>3, <1>5, BackedStays
  <1>6. CASE PayRead(p)
    <2> PICK c \in Creators, value \in Amounts :
         /\ rows[c] # None
         /\ request' = [request EXCEPT ![p] =
              [Untouched EXCEPT !.at = "fee", !.of = c, !.value = value,
                                !.seen = rows[c]]]
      BY <1>6 DEF PayRead
    <2>1. /\ request'[p].at = "fee" /\ request'[p].of = c
          /\ request'[p].seen = rows[c] /\ rows' = rows
      BY <1>0, <1>n, <1>6 DEF Untouched, PayRead
    <2>2. ASSUME request'[c].at \notin Gone PROVE rows[c].paid <= SumOf(PaidThrough(c))'
      <3>1. Backed(c)'
        BY <1>5, <2>1
      <3> QED
        BY <2>1, <2>2, <3>1 DEF Backed, Gone
    <2>3. SeenBacked(p)'
      BY <2>1, <2>2 DEF SeenBacked
    <2> QED
      BY <1>4, <1>5, <2>1, <2>3 DEF BackedInv
  <1>7. CASE PayFee(p)
    <2>1. /\ request[p].at = "fee" /\ Goto(p, "save") /\ rows' = rows
          /\ fees'[p] = [of |-> request[p].of, value |-> request[p].value]
      BY <1>0, <1>n, <1>7 DEF PayFee, At
    <2>2. /\ request'[p].at = "save" /\ request'[p].of = request[p].of
          /\ request'[p].value = request[p].value /\ request'[p].seen = request[p].seen
      BY <1>0, <2>1, GoesOn
    <2> PICK c \in Creators : c = request[p].of
      BY <1>0, <2>1 DEF PayerKnows
    <2>3. ASSUME request'[c].at \notin Gone
          PROVE  request[p].seen.paid <= SumOf(PaidThrough(c))'
      <3>1. /\ SumOf(PaidThrough(c)) \in Nat /\ SumOf(PaidThrough(c))' \in Nat
            /\ SumOf(PaidThrough(c)) <= SumOf(PaidThrough(c))'
        BY <1>0, <2>3, SettledStays, WorthGrows
      <3>2. request[p].seen.paid <= SumOf(PaidThrough(c)) /\ request[p].seen.paid \in Nat
        BY <1>0, <1>3, <2>1, <2>3 DEF BackedInv, SeenBacked, PayerKnows, RowType
      <3> QED
        BY <3>1, <3>2
    <2>4. c = request'[p].of
      BY <2>2
    <2>5. SeenBacked(p)'
      BY <2>1, <2>2, <2>3, <2>4 DEF SeenBacked
    <2> QED
      BY <1>4, <1>5, <2>1, <2>5 DEF BackedInv
  <1>8. CASE PayEvidenceFails(p)
    <2>1. Goto(p, "failed") /\ rows' = rows
      BY <1>8 DEF PayEvidenceFails
    <2>2. request'[p].at = "failed"
      BY <1>0, <2>1, GoesOn
    <2> QED
      BY <1>4, <1>5, <2>1, <2>2 DEF BackedInv, SeenBacked
  <1>9. CASE PaySave(p)
    <2>1. request[p].at = "save" /\ fees' = fees
      BY <1>9 DEF PaySave, At
    <2> PICK c \in Creators : c = request[p].of
      BY <1>0, <2>1 DEF PayerKnows
    <2>2. CASE rows[c] = None
      <3>1. Goto(p, "failed") /\ rows' = rows
        BY <1>9, <2>2 DEF PaySave
      <3>2. request'[p].at = "failed"
        BY <1>0, <3>1, GoesOn
      <3> QED
        BY <1>4, <1>5, <3>1, <3>2 DEF BackedInv, SeenBacked
    <2>3. CASE rows[c] # None
      <3>1. /\ request'[p].at = "done" /\ rows'[c] # None
            /\ rows'[c].paid = request[p].seen.paid + request[p].value
            /\ \A d \in Creators \ {c} : rows'[d] = rows[d]
        BY <1>9, <2>3, SaveWrites
      <3>2. ASSUME request'[c].at # "undoRow" PROVE rows'[c].paid <= SumOf(PaidThrough(c))'
        <4>1. request[c].at \notin Gone /\ request'[c].at \notin Gone
          BY <1>3, <2>3, <3>2 DEF BackedInv, Backed, Gone
        <4>2. /\ request[p].seen.paid <= SumOf(PaidThrough(c))
              /\ fees[p] = [of |-> c, value |-> request[p].value]
          BY <2>1, <4>1 DEF BackedInv, SeenBacked
        <4>3. fees[p] # None /\ fees[p].of = c /\ fees[p].value = request[p].value
          <5>1. [of |-> c, value |-> request[p].value] \in FeeType
            BY <1>0, <2>1 DEF PayerKnows, FeeType
          <5> QED
            BY <4>2, <5>1, NoneAssumption
        <4>4. p \in PaidThrough(c)' /\ p \notin PaidThrough(c)
          BY <1>0, <2>1, <3>1, <4>3 DEF PaidThrough, FeesOf
        <4>5. /\ SumOf(PaidThrough(c)) \in Nat /\ SumOf(PaidThrough(c))' \in Nat
              /\ SumOf(PaidThrough(c)) + fees'[p].value <= SumOf(PaidThrough(c))'
          BY <1>0, <4>1, <4>4, SettledStays, WorthGrows
        <4>6. request[p].seen.paid \in Nat /\ request[p].value \in Nat
          BY <1>0, <2>1, Numbers DEF PayerKnows, RowType
        <4>7. fees'[p].value = request[p].value
          BY <2>1, <4>3
        <4> QED
          BY <3>1, <4>2, <4>5, <4>6, <4>7
      <3>3. Backed(c)'
        BY <1>3, <2>3, <3>1, <3>2, <2>1 DEF Backed, BackedInv
      <3>4. \A d \in Creators : Backed(d)'
        BY <1>5, <3>1, <3>3
      <3> QED
        BY <1>4, <3>1, <3>4 DEF BackedInv, SeenBacked
    <2> QED
      BY <2>2, <2>3
  <1> QED
    BY <1>6, <1>7, <1>8, <1>9

\* A request that dies takes nothing with it.
LEMMA AbortBacked ==
  ASSUME IInv, TypeOK', BackedInv, NEW q \in Requests, Abort(q)
  PROVE  BackedInv'
  <1>0. TypeOK /\ Next
    BY DEF IInv, Next
  <1>1. \A r \in Requests :
          /\ request'[r].at = request[r].at /\ request'[r].of = request[r].of
          /\ request'[r].value = request[r].value /\ request'[r].seen = request[r].seen
    BY <1>0 DEF Abort, TypeOK
  <1>2. rows' = rows /\ fees' = fees
    BY DEF Abort
  <1>3. ASSUME NEW c \in Creators PROVE Backed(c)'
    BY <1>0, <1>1, <1>2, BackedStays DEF Requests
  <1>4. ASSUME NEW p \in Payers PROVE SeenBacked(p)'
    BY <1>0, <1>1, <1>2, SeenStays DEF Requests
  <1> QED
    BY <1>3, <1>4 DEF BackedInv

\* Every step keeps every total backed.
LEMMA BackedKeeps == IInv /\ BackedInv /\ [Next]_vars => BackedInv'
  <1> SUFFICES ASSUME IInv, BackedInv, [Next]_vars PROVE BackedInv'
    OBVIOUS
  <1>1. TypeOK'
    BY NextKeeps DEF IInv
  <1>2. CASE UNCHANGED vars
    <2>1. UNCHANGED <<rows, fees, request>>
      BY <1>2 DEF vars
    <2>2. \A c \in Creators : SumOf(PaidThrough(c))' = SumOf(PaidThrough(c))
      BY <2>1 DEF SumOf, PaidThrough, FeesOf, MapThenSumSet, MapThenFoldSet
    <2>3. \A c \in Creators : Backed(c)'
      BY <2>1, <2>2 DEF Backed, BackedInv
    <2>4. ASSUME NEW p \in Payers PROVE SeenBacked(p)'
      <3>1. CASE request[p].at \in {"fee", "save"}
        <4> PICK c \in Creators : c = request[p].of
          BY <3>1 DEF IInv, PayerKnows
        <4>1. SeenBacked(p) /\ c = request'[p].of
          BY <2>1 DEF BackedInv
        <4> QED
          BY <2>1, <2>2, <3>1, <4>1 DEF SeenBacked
      <3>2. CASE request[p].at \notin {"fee", "save"}
        BY <2>1, <3>2 DEF SeenBacked
      <3> QED
        BY <3>1, <3>2
    <2> QED
      BY <2>3, <2>4 DEF BackedInv
  <1>3. CASE CreateNext
    BY <1>1, <1>3, CreateBacked DEF CreateNext
  <1>4. CASE PayNext
    BY <1>1, <1>4, PayBacked DEF PayNext
  <1>5. CASE \E r \in Requests : Abort(r)
    BY <1>1, <1>5, AbortBacked
  <1> QED
    BY <1>2, <1>3, <1>4, <1>5 DEF Next

\* However payments and the creation overlap, fail and are rolled back, nothing is
\* recorded as paid that fees do not back, unless its creation is being rolled back
\* (addFeeWithOptionalEvidence saves totals computed from what it read).
THEOREM PaidIsBackedCorrect == Spec => []PaidIsBacked
  <1>1. Init => BackedInv
    <2> SUFFICES ASSUME Init PROVE BackedInv
      OBVIOUS
    <2>1. \A r \in Requests : request[r].at = "idle"
      BY DEF Init, Untouched
    <2>2. \A c \in Creators : rows[c] = None
      BY DEF Init
    <2> QED
      BY <2>1, <2>2 DEF BackedInv, Backed, SeenBacked, Requests
  <1>2. IInv /\ BackedInv /\ [Next]_vars => BackedInv'
    BY BackedKeeps
  <1>3. IInv /\ BackedInv => PaidIsBacked
    <2> SUFFICES ASSUME IInv, BackedInv, NEW c \in Creators,
                        rows[c] # None, request[c].at # "undoRow"
        PROVE  rows[c].paid <= SumOf(FeesOf(c))
      BY DEF PaidIsBacked
    <2>1. TypeOK /\ rows[c].paid <= SumOf(PaidThrough(c)) /\ rows[c].paid \in Nat
      BY Typing DEF IInv, BackedInv, Backed, RowType
    <2> DEFINE S == PaidThrough(c)
               T == FeesOf(c)
               v == [r \in S |-> fees[r].value]
               w == [r \in T |-> fees[r].value]
    <2>2. T \in SUBSET Requests /\ IsFiniteSet(Requests)
      BY RequestsAssumption DEF Requests, FeesOf
    <2>3. S \subseteq T /\ IsFiniteSet(S) /\ IsFiniteSet(T)
      <3>1. S \subseteq T
        BY DEF PaidThrough
      <3> QED
        BY <2>2, <3>1, FS_Subset
    <2>4. \A r \in T : w[r] \in Nat
      <3>1. \A r \in T : fees[r] \in FeeType
        BY <2>1, Typing DEF FeesOf
      <3> QED
        BY <3>1, Numbers DEF FeeType
    <2>5. \A r \in S : v[r] = w[r]
      BY <2>3
    <2>6. SumOf(S) = SumOver(v, S) /\ SumOf(T) = SumOver(w, T)
      BY WorthNow
    <2> HIDE DEF S, T, v, w
    <2>7. SumOver(v, S) = SumOver(w, S) /\ SumOver(w, S) <= SumOver(w, T)
          /\ SumOver(w, T) \in Nat /\ SumOver(w, S) \in Nat
      BY <2>3, <2>4, <2>5, SumSame, SumGrows, SumFacts
    <2>8. SumOf(S) <= SumOf(T) /\ SumOf(S) \in Nat /\ SumOf(T) \in Nat
      BY <2>6, <2>7
    <2> QED
      BY <2>1, <2>8 DEF S, T
  <1> QED
    BY <1>1, <1>2, <1>3, Invariant, PTL DEF Spec

-----------------------------------------------------------------------------
(* The ledger of requests that wait for each other                           *)

\* Whose a fee is and how far its request has come; a payment reads only a document
\* whose creation is through, or dead.
FeesInv ==
  /\ \A r \in Requests : request[r].dead => request[r].at \notin Ends
  /\ \A p \in Payers :
       fees[p] # None => fees[p].of = request[p].of /\ request[p].at \in {"save", "done"}
  /\ \A c \in Creators :
       fees[c] # None =>
         fees[c].of = c /\ request[c].at \notin {"idle", "create", "contract", "fee"}
  /\ \A p \in Payers, c \in Creators :
       request[p].of = c => request[c].dead \/ request[c].at = "done"

\* What a document says, by how far its creation has come.
DocumentOf(c) ==
  rows[c] # None /\ ~request[c].dead =>
    /\ request[c].at \in {"contract", "fee", "totals"} =>
         rows[c].status = Status(request[c].value, rows[c].expected)
    /\ request[c].at \in {"fee", "totals", "done"} => rows[c].contract
    /\ request[c].at = "done" =>
         /\ rows[c].paid = SumOf(PaidThrough(c)) /\ rows[c].count = Cardinality(PaidThrough(c))
         /\ rows[c].status = Status(rows[c].paid, rows[c].expected)

\* A payment under way is the only one of its document, and has read it as it is.
OnlyOne(p) ==
  UnderWay(p) =>
    /\ request[p].seen = rows[request[p].of]
    /\ \A q \in Payers : UnderWay(q) /\ request[q].of = request[p].of => q = p

LedgerInv ==
  /\ FeesInv
  /\ \A c \in Creators : DocumentOf(c)
  /\ \A p \in Payers : OnlyOne(p)

\* Fees that are through and stay the same are worth the same.
LEMMA WorthSame ==
  ASSUME TypeOK, NEW c \in Creators, PaidThrough(c)' = PaidThrough(c),
         \A r \in PaidThrough(c) : fees'[r] = fees[r]
  PROVE  SumOf(PaidThrough(c))' = SumOf(PaidThrough(c))
  <1> DEFINE S == PaidThrough(c)
             v == [r \in S |-> fees[r].value]
             w == [r \in S |-> fees'[r].value]
  <1>1. IsFiniteSet(S)
    <2>1. S \in SUBSET Requests /\ IsFiniteSet(Requests)
      BY RequestsAssumption DEF Requests, PaidThrough, FeesOf
    <2> QED
      BY <2>1, FS_Subset
  <1>2. \A r \in S : v[r] = w[r]
    OBVIOUS
  <1>3. SumOf(PaidThrough(c)) = SumOver(v, S)
    BY WorthNow
  <1>4. SumOf(PaidThrough(c))' = SumOver(w, S)
    BY WorthThen
  <1> HIDE DEF S, v, w
  <1> QED
    BY <1>1, <1>2, <1>3, <1>4, SumSame

\* No fee is worth nothing.
LEMMA WorthNothing == ASSUME NEW c, PaidThrough(c) = {} PROVE SumOf(PaidThrough(c)) = 0
  <1> DEFINE v == [r \in {} |-> fees[r].value]
  <1>1. SumOf(PaidThrough(c)) = SumOver(v, {})
    BY WorthNow
  <1> HIDE DEF v
  <1> QED
    BY <1>1, SumFacts, FS_EmptySet

\* A document nobody writes, whose fees stay as they are, goes on saying what it said.
LEMMA DocumentStays ==
  ASSUME TypeOK, NEW c \in Creators, DocumentOf(c), rows'[c] = rows[c],
         request'[c].at = request[c].at, request'[c].value = request[c].value,
         request[c].dead => request'[c].dead,
         PaidThrough(c)' = PaidThrough(c), \A r \in PaidThrough(c) : fees'[r] = fees[r]
  PROVE  DocumentOf(c)'
  <1>1. SumOf(PaidThrough(c))' = SumOf(PaidThrough(c))
    BY WorthSame
  <1>2. Cardinality(PaidThrough(c)') = Cardinality(PaidThrough(c))
    OBVIOUS
  <1> SUFFICES ASSUME rows'[c] # None, ~request'[c].dead
      PROVE  /\ request'[c].at \in {"contract", "fee", "totals"} =>
                  rows'[c].status = Status(request'[c].value, rows'[c].expected)
             /\ request'[c].at \in {"fee", "totals", "done"} => rows'[c].contract
             /\ request'[c].at = "done" =>
                  /\ rows'[c].paid = SumOf(PaidThrough(c))'
                  /\ rows'[c].count = Cardinality(PaidThrough(c)')
                  /\ rows'[c].status = Status(rows'[c].paid, rows'[c].expected)
    BY DEF DocumentOf
  <1>3. rows[c] # None /\ ~request[c].dead
    OBVIOUS
  <1> QED
    BY <1>1, <1>2, <1>3 DEF DocumentOf

\* The fees of a document are its creation's and its payments', no other's.
LEMMA WhoseFees ==
  ASSUME LedgerInv, NEW c \in Creators, NEW r \in FeesOf(c)
  PROVE  \/ r = c
         \/ r \in Payers /\ request[r].of = c /\ request[r].at \in {"save", "done"}
  BY DEF LedgerInv, FeesInv, FeesOf, Requests

\* While its creation is under way a document has no fee but the creation's.
LEMMA CreationsFees ==
  ASSUME LedgerInv, NEW c \in Creators, ~request[c].dead, request[c].at # "done"
  PROVE  /\ FeesOf(c) \subseteq {c}
         /\ \A p \in Payers : request[p].of # c
  BY WhoseFees DEF LedgerInv, FeesInv

\* The steps of a creation keep the ledger.
LEMMA CreateLedger ==
  ASSUME IInv, TypeOK', SerialInv, BackedInv, LedgerInv, NEW c \in Creators,
         \/ CreateLook(c) \/ CreateRow(c) \/ SaveContract(c) \/ CreateFee(c)
         \/ CreateTotals(c) \/ CreateFails(c) \/ UndoFees(c) \/ UndoRow(c)
  PROVE  LedgerInv'
  <1>0. /\ c \in Requests /\ c \notin Payers /\ TypeOK /\ CreatorKnows(c) /\ Backed(c)
        /\ Next
    BY RequestsAssumption DEF IInv, Requests, BackedInv, Next, CreateNext
  <1>n. /\ request[c] \in RequestType /\ DOMAIN request = Requests
        /\ DOMAIN fees = Requests /\ DOMAIN rows = Creators
    BY <1>0, Typing DEF TypeOK
  <1>1. /\ ~request[c].dead /\ request[c].at \notin {"done", "failed"}
        /\ \A r \in Requests \ {c} : request'[r] = request[r]
    <2>1. ~request[c].dead /\ request[c].at \notin {"done", "failed"}
      BY DEF CreateLook, CreateRow, SaveContract, CreateFee, CreateTotals, CreateFails,
        UndoFees, UndoRow, At
    <2> QED
      BY <1>0, <2>1, OthersWait
  <1>2. \A d \in Creators \ {c} : rows'[d] = rows[d]
    BY <1>n DEF CreateLook, CreateRow, SaveContract, CreateFee, CreateTotals, CreateFails,
      UndoFees, UndoRow
  <1>3. FeesOf(c) \subseteq {c} /\ \A p \in Payers : request[p].of # c
    BY <1>1, CreationsFees
  <1>4. \A r \in Requests \ {c} : fees'[r] = fees[r]
    <2>1. \A r \in Requests \ {c} : r \notin FeesOf(c)
      BY <1>3
    <2> QED
      BY <1>n, <2>1 DEF CreateLook, CreateRow, SaveContract, CreateFee, CreateTotals,
        CreateFails, UndoFees, UndoRow
  <1>5. ~request'[c].dead
    <2>1. CASE CreateLook(c)
      <3>1. PICK expected \in Expected, first \in Amounts :
              request' = [request EXCEPT ![c] =
                [Untouched EXCEPT !.at = IF \A d \in Creators : rows[d] = None
                                         THEN "create" ELSE "done",
                                  !.of = c, !.expected = expected, !.value = first]]
        BY <2>1 DEF CreateLook
      <3> QED
        BY <1>0, <1>n, <3>1 DEF Untouched
    <2>2. CASE ~CreateLook(c)
      <3>1. PICK at : Goto(c, at)
        BY <2>2 DEF CreateRow, SaveContract, CreateFee, CreateTotals, CreateFails,
          UndoFees, UndoRow
      <3> QED
        BY <1>0, <1>1, <3>1, GoesOn
    <2> QED
      BY <2>1, <2>2
  <1>6. \A p \in Payers : request'[p] = request[p] /\ fees'[p] = fees[p] /\ p # c
    BY <1>0, <1>1, <1>4 DEF Requests
  <1>7. fees'[c] # None =>
          fees'[c].of = c /\ request'[c].at \notin {"idle", "create", "contract", "fee"}
    <2>1. fees[c] # None =>
            fees[c].of = c /\ request[c].at \notin {"idle", "create", "contract", "fee"}
      BY DEF LedgerInv, FeesInv
    <2>2. CASE CreateLook(c) \/ CreateRow(c) \/ SaveContract(c)
      <3>1. fees' = fees /\ request[c].at \in {"idle", "create", "contract"}
        BY <2>2 DEF CreateLook, CreateRow, SaveContract, At
      <3> QED
        BY <2>1, <3>1
    <2>3. CASE CreateFee(c)
      <3>1. fees'[c] = [of |-> c, value |-> request[c].value] /\ request'[c].at = "totals"
        BY <1>0, <1>n, <2>3, GoesOn DEF CreateFee
      <3>2. fees'[c].of = c
        BY <3>1
      <3> QED
        BY <3>1, <3>2
    <2>4. CASE CreateTotals(c)
      <3>1. request'[c].at = "done" /\ fees' = fees
        BY <1>0, <2>4, GoesOn DEF CreateTotals
      <3> QED
        BY <2>1, <3>1
    <2>5. CASE CreateFails(c)
      <3>1. request'[c].at = "undo" /\ fees' = fees
        BY <1>0, <2>5, GoesOn DEF CreateFails
      <3> QED
        BY <2>1, <3>1
    <2>6. CASE UndoFees(c)
      <3>1. fees'[c] \in {None, fees[c]} /\ request'[c].at = "undoRow"
        BY <1>0, <1>n, <2>6, GoesOn DEF UndoFees
      <3> QED
        BY <2>1, <3>1
    <2>7. CASE UndoRow(c)
      <3>1. request'[c].at = "failed" /\ fees' = fees
        BY <1>0, <2>7, GoesOn DEF UndoRow
      <3> QED
        BY <2>1, <3>1
    <2> QED
      BY <2>2, <2>3, <2>4, <2>5, <2>6, <2>7
  <1>8. FeesInv'
    <2>1. \A r \in Requests : request'[r].dead => request'[r].at \notin Ends
      BY <1>1, <1>5 DEF LedgerInv, FeesInv
    <2>2. \A p \in Payers :
            fees'[p] # None =>
              fees'[p].of = request'[p].of /\ request'[p].at \in {"save", "done"}
      BY <1>6 DEF LedgerInv, FeesInv
    <2>3. \A d \in Creators :
            fees'[d] # None =>
              fees'[d].of = d /\ request'[d].at \notin {"idle", "create", "contract", "fee"}
      BY <1>1, <1>4, <1>7 DEF LedgerInv, FeesInv, Requests
    <2>4. \A p \in Payers, d \in Creators :
            request'[p].of = d => request'[d].dead \/ request'[d].at = "done"
      BY <1>1, <1>3, <1>6 DEF LedgerInv, FeesInv, Requests
    <2> QED
      BY <2>1, <2>2, <2>3, <2>4 DEF FeesInv
  <1>9. ASSUME NEW d \in Creators \ {c} PROVE DocumentOf(d)'
    <2>1. request'[d] = request[d] /\ rows'[d] = rows[d] /\ d \in Requests
      BY <1>1, <1>2 DEF Requests
    <2>2. c \notin FeesOf(d) /\ c \notin FeesOf(d)'
      BY <1>7 DEF LedgerInv, FeesInv, FeesOf
    <2>3. FeesOf(d)' = FeesOf(d) /\ \A r \in FeesOf(d) : fees'[r] = fees[r]
      BY <1>4, <2>2 DEF FeesOf
    <2>4. PaidThrough(d)' = PaidThrough(d)
      BY <1>1, <2>2, <2>3 DEF PaidThrough, FeesOf
    <2>5. \A r \in PaidThrough(d) : fees'[r] = fees[r]
      BY <2>3 DEF PaidThrough
    <2>6. DocumentOf(d)
      BY DEF LedgerInv
    <2> QED
      BY <1>0, <2>1, <2>4, <2>5, <2>6, DocumentStays
  <1>10. DocumentOf(c)'
    <2>1. CASE CreateLook(c)
      <3>1. rows'[c] = None
        BY <1>0, <2>1 DEF CreateLook, At, CreatorKnows
      <3> QED
        BY <3>1 DEF DocumentOf
    <2>2. CASE CreateRow(c)
      <3> DEFINE row == NewRow(request[c].expected, request[c].value)
      <3>1. rows[c] = None
        BY <1>0, <2>2 DEF CreateRow, At, CreatorKnows
      <3>2. \/ rows'[c] = None
            \/ rows'[c] = row /\ Goto(c, "contract")
        BY <1>n, <2>2, <3>1 DEF CreateRow
      <3>3. row.status = Status(request[c].value, row.expected)
        BY DEF NewRow
      <3> HIDE DEF row
      <3>4. Goto(c, "contract") => request'[c].at = "contract"
                                   /\ request'[c].value = request[c].value
        BY <1>0, GoesOn
      <3> QED
        BY <3>2, <3>3, <3>4 DEF DocumentOf
    <2>3. CASE SaveContract(c)
      <3>1. request[c].at = "contract" /\ rows[c] # None /\ Goto(c, "fee")
        BY <1>0, <2>3 DEF SaveContract, At, CreatorKnows, Inserted
      <3>2. rows[c] \in RowType
        BY <1>0, <3>1, Typing
      <3>3. rows'[c].status = rows[c].status /\ rows'[c].expected = rows[c].expected
            /\ rows'[c].contract
        BY <1>n, <2>3, <3>2 DEF SaveContract, RowType
      <3>4. request'[c].at = "fee" /\ request'[c].value = request[c].value
        BY <1>0, <3>1, GoesOn
      <3>5. rows[c].status = Status(request[c].value, rows[c].expected)
        BY <1>1, <3>1 DEF LedgerInv, DocumentOf
      <3> QED
        BY <3>3, <3>4, <3>5 DEF DocumentOf
    <2>4. CASE CreateFee(c)
      <3>1. request[c].at = "fee" /\ rows' = rows /\ Goto(c, "totals")
        BY <1>0, <2>4 DEF CreateFee, At
      <3>2. request'[c].at = "totals" /\ request'[c].value = request[c].value
        BY <1>0, <3>1, GoesOn
      <3>3. rows[c] # None
        BY <1>0, <3>1 DEF CreatorKnows, Inserted
      <3>4. rows[c].status = Status(request[c].value, rows[c].expected) /\ rows[c].contract
        BY <1>1, <3>1, <3>3 DEF LedgerInv, DocumentOf
      <3> QED
        BY <3>1, <3>2, <3>4 DEF DocumentOf
    <2>5. CASE CreateTotals(c)
      <3>1. request[c].at = "totals" /\ fees' = fees /\ Goto(c, "done")
        BY <2>5 DEF CreateTotals, At
      <3>2. rows[c] # None /\ rows[c] \in RowType /\ request[c].value \in Nat
            /\ request[c].value \in Amounts
        BY <1>0, <3>1, Typing, Numbers DEF CreatorKnows, Inserted
      <3>3. /\ rows'[c].paid = request[c].value /\ rows'[c].count = 1
            /\ rows'[c].status = rows[c].status /\ rows'[c].expected = rows[c].expected
            /\ rows'[c].contract = rows[c].contract
        BY <1>n, <2>5, <3>2 DEF CreateTotals, RowType
      <3>4. rows[c].status = Status(request[c].value, rows[c].expected) /\ rows[c].contract
        BY <1>1, <3>1, <3>2 DEF LedgerInv, DocumentOf
      <3>5. request'[c].at = "done"
        BY <1>0, <3>1, GoesOn
      <3>6. fees[c] = [of |-> c, value |-> request[c].value]
        BY <1>0, <3>1 DEF Backed
      <3>7. fees[c] # None /\ fees[c].of = c /\ fees[c].value = request[c].value
        <4>1. [of |-> c, value |-> request[c].value] \in FeeType
          BY <3>2 DEF FeeType
        <4> QED
          BY <3>6, <4>1, NoneAssumption
      <3>8. FeesOf(c) = {c} /\ FeesOf(c)' = {c}
        BY <1>0, <1>3, <3>1, <3>7 DEF FeesOf
      <3>9. PaidThrough(c) = {} /\ PaidThrough(c)' = {c}
        BY <3>1, <3>5, <3>8 DEF PaidThrough
      <3>10. SumOf(PaidThrough(c)) = 0
        BY <3>9, WorthNothing
      <3>11. SumOf(PaidThrough(c))' = SumOf(PaidThrough(c)) + fees'[c].value
        <4>1. \A r \in PaidThrough(c) : r \in PaidThrough(c)' /\ fees'[r] = fees[r]
          BY <3>9
        <4>2. c \in PaidThrough(c)' /\ c \notin PaidThrough(c) /\ PaidThrough(c)' \subseteq PaidThrough(c) \cup {c}
          BY <3>9
        <4> QED
          BY <1>0, <4>1, <4>2, WorthGrows
      <3>12. SumOf(PaidThrough(c))' = request[c].value
        BY <3>1, <3>2, <3>7, <3>10, <3>11
      <3>13. Cardinality(PaidThrough(c)') = 1
        BY <3>9, FS_Singleton
      <3> QED
        BY <3>3, <3>4, <3>5, <3>12, <3>13 DEF DocumentOf
    <2>6. CASE CreateFails(c)
      <3>1. request'[c].at = "undo"
        BY <1>0, <2>6, GoesOn DEF CreateFails
      <3> QED
        BY <3>1 DEF DocumentOf
    <2>7. CASE UndoFees(c)
      <3>1. request'[c].at = "undoRow"
        BY <1>0, <2>7, GoesOn DEF UndoFees
      <3> QED
        BY <3>1 DEF DocumentOf
    <2>8. CASE UndoRow(c)
      <3>1. rows'[c] = None
        BY <1>n, <2>8 DEF UndoRow
      <3> QED
        BY <3>1 DEF DocumentOf
    <2> QED
      BY <2>1, <2>2, <2>3, <2>4, <2>5, <2>6, <2>7, <2>8
  <1>11. ASSUME NEW p \in Payers PROVE OnlyOne(p)'
    <2>1. \A q \in Payers : request'[q] = request[q] /\ (UnderWay(q)' <=> UnderWay(q))
      BY <1>6 DEF UnderWay
    <2>2. ASSUME UnderWay(p) PROVE rows'[request[p].of] = rows[request[p].of]
      <3>1. request[p].of \in Creators
        BY <2>2 DEF SerialInv, Alone, IInv, PayerKnows, UnderWay, Ends
      <3> QED
        BY <1>2, <1>3, <3>1
    <2>3. OnlyOne(p)
      BY DEF LedgerInv
    <2> QED
      BY <2>1, <2>2, <2>3 DEF OnlyOne
  <1> QED
    BY <1>8, <1>9, <1>10, <1>11 DEF LedgerInv

\* The steps of a payment that overlaps nobody keep the ledger.
LEMMA PayLedger ==
  ASSUME ~overlapped', IInv, TypeOK', SerialInv, BackedInv, LedgerInv, NEW p \in Payers,
         PayRead(p) \/ PayFee(p) \/ PayEvidenceFails(p) \/ PaySave(p)
  PROVE  LedgerInv'
  <1>0. /\ p \in Requests /\ p \notin Creators /\ TypeOK /\ PayerKnows(p) /\ Next
    BY RequestsAssumption DEF IInv, Requests, Next, PayNext
  <1>n. DOMAIN request = Requests /\ DOMAIN fees = Requests /\ request[p] \in RequestType
    BY <1>0, Typing DEF TypeOK
  <1>1. /\ \A r \in Requests \ {p} : request'[r] = request[r]
        /\ ~request[p].dead
    <2>1. ~request[p].dead
      BY DEF PayRead, PayFee, PayEvidenceFails, PaySave, At
    <2> QED
      BY <1>0, <2>1, OthersWait
  <1>2. \A r \in Requests \ {p} : fees'[r] = fees[r]
    BY <1>n DEF PayRead, PayFee, PayEvidenceFails, PaySave
  <1>3. \A d \in Creators : request'[d] = request[d] /\ fees'[d] = fees[d]
    BY <1>0, <1>1, <1>2 DEF Requests
  <1>4. \A q \in Payers \ {p} :
          /\ request'[q] = request[q] /\ fees'[q] = fees[q] /\ (UnderWay(q)' <=> UnderWay(q))
    BY <1>1, <1>2 DEF Requests, UnderWay
  \* What is left to show, once p itself is known to be as it should.
  <1>5. ASSUME ~request'[p].dead,
               fees'[p] # None =>
                 fees'[p].of = request'[p].of /\ request'[p].at \in {"save", "done"},
               \A c \in Creators :
                 request'[p].of = c => request[c].dead \/ request[c].at = "done"
        PROVE  FeesInv'
    <2>1. \A r \in Requests : request'[r].dead => request'[r].at \notin Ends
      BY <1>1, <1>5 DEF LedgerInv, FeesInv
    <2>2. \A q \in Payers :
            fees'[q] # None =>
              fees'[q].of = request'[q].of /\ request'[q].at \in {"save", "done"}
      BY <1>4, <1>5 DEF LedgerInv, FeesInv
    <2>3. \A d \in Creators :
            fees'[d] # None =>
              fees'[d].of = d /\ request'[d].at \notin {"idle", "create", "contract", "fee"}
      BY <1>3 DEF LedgerInv, FeesInv
    <2>4. \A q \in Payers, d \in Creators :
            request'[q].of = d => request'[d].dead \/ request'[d].at = "done"
      BY <1>3, <1>4, <1>5 DEF LedgerInv, FeesInv
    <2> QED
      BY <2>1, <2>2, <2>3, <2>4 DEF FeesInv
  <1>6. ASSUME NEW d \in Creators, rows'[d] = rows[d],
               p \notin PaidThrough(d), p \notin PaidThrough(d)'
        PROVE  DocumentOf(d)'
    <2>1. PaidThrough(d)' = PaidThrough(d)
      BY <1>1, <1>2, <1>6 DEF PaidThrough, FeesOf
    <2>2. \A r \in PaidThrough(d) : fees'[r] = fees[r]
      BY <1>2, <1>6 DEF PaidThrough, FeesOf
    <2> QED
      BY <1>0, <1>3, <1>6, <2>1, <2>2, DocumentStays DEF LedgerInv
  <1>7. CASE PayRead(p)
    <2> PICK c \in Creators, value \in Amounts :
         /\ rows[c] # None /\ overlapped' = (overlapped \/ ~Free(c))
         /\ request' = [request EXCEPT ![p] =
              [Untouched EXCEPT !.at = "fee", !.of = c, !.value = value,
                                !.seen = rows[c]]]
      BY <1>7 DEF PayRead
    <2>1. /\ request[p].at = "idle" /\ request'[p].at = "fee" /\ request'[p].of = c
          /\ ~request'[p].dead /\ request'[p].seen = rows[c] /\ rows' = rows /\ fees' = fees
      <3>1. request[p].at = "idle" /\ rows' = rows /\ fees' = fees
        BY <1>7 DEF PayRead, At
      <3> DEFINE mine == [Untouched EXCEPT !.at = "fee", !.of = c, !.value = value,
                                           !.seen = rows[c]]
      <3>2. /\ mine.at = "fee" /\ mine.of = c /\ ~mine.dead /\ mine.seen = rows[c]
        BY DEF Untouched
      <3>3. request'[p] = mine
        BY <1>0, <1>n
      <3> HIDE DEF mine
      <3> QED
        BY <3>1, <3>2, <3>3
    <2>2. fees[p] = None
      BY <2>1 DEF LedgerInv, FeesInv
    <2>3. Free(c)
      OBVIOUS
    <2>4. request[c].dead \/ request[c].at = "done"
      <3>1. ~UnderWay(c)
        BY <2>3 DEF Free, SerialInv, Alone, Requests
      <3>2. request[c].at \notin {"idle", "failed"}
        BY DEF IInv, CreatorKnows, BackedInv, Backed
      <3> QED
        BY <3>1, <3>2 DEF UnderWay, Ends
    <2>5. FeesInv'
      <3>1. \A d \in Creators : request'[p].of = d => request[d].dead \/ request[d].at = "done"
        BY <2>1, <2>4
      <3> QED
        BY <1>5, <2>1, <2>2, <3>1
    <2>6. \A d \in Creators : DocumentOf(d)'
      BY <1>6, <2>1, <2>2 DEF PaidThrough, FeesOf
    <2>7. \A q \in Payers : UnderWay(q) => request[q].of # c
      BY <2>3 DEF Free, Requests
    <2>8. ASSUME NEW q \in Payers PROVE OnlyOne(q)'
      <3>1. CASE q = p
        <4>1. \A k \in Payers : UnderWay(k)' /\ request'[k].of = c => k = p
          BY <1>4, <2>7
        <4> QED
          BY <2>1, <3>1, <4>1 DEF OnlyOne
      <3>2. CASE q # p
        <4>1. OnlyOne(q) /\ (UnderWay(q) => request[q].of # c)
          BY <2>7 DEF LedgerInv
        <4> QED
          BY <1>4, <2>1, <3>2, <4>1 DEF OnlyOne
      <3> QED
        BY <3>1, <3>2
    <2> QED
      BY <2>5, <2>6, <2>8 DEF LedgerInv
  <1>8. CASE PayFee(p) \/ PayEvidenceFails(p) \/ PaySave(p)
    <2>1. request[p].at \in {"fee", "save"} /\ UnderWay(p)
      BY <1>1, <1>8 DEF PayFee, PayEvidenceFails, PaySave, At, UnderWay, Ends
    <2> PICK c \in Creators : c = request[p].of
      BY <1>0, <2>1 DEF PayerKnows
    <2>2. /\ rows[c] # None /\ request[p].seen = rows[c]
          /\ \A q \in Payers : UnderWay(q) /\ request[q].of = c => q = p
          /\ request[c].dead \/ request[c].at = "done"
      BY <2>1 DEF LedgerInv, FeesInv, OnlyOne, SerialInv, Alone
    <2>3. PICK at \in {"save", "failed", "done"} : Goto(p, at)
      BY <1>8 DEF PayFee, PayEvidenceFails, PaySave
    <2>4. /\ request'[p].at = at /\ request'[p].of = c /\ ~request'[p].dead
          /\ request'[p].value = request[p].value /\ request'[p].seen = request[p].seen
      BY <1>0, <1>1, <2>3, GoesOn
    <2>5. p \notin PaidThrough(c)
      BY <2>1 DEF PaidThrough
    <2>6. \A d \in Creators \ {c} : rows'[d] = rows[d]
      <3>1. CASE PayFee(p) \/ PayEvidenceFails(p)
        BY <3>1 DEF PayFee, PayEvidenceFails
      <3>2. CASE PaySave(p)
        BY <2>2, <3>2, SaveWrites
      <3> QED
        BY <1>8, <3>1, <3>2
    <2>7. fees'[p] # None => fees'[p].of = c /\ request'[p].at \in {"save", "done"}
      <3>1. CASE PayFee(p)
        <4>1. fees'[p] = [of |-> c, value |-> request[p].value] /\ request'[p].at = "save"
          BY <1>0, <1>n, <3>1, GoesOn DEF PayFee
        <4> QED
          BY <4>1
      <3>2. CASE PayEvidenceFails(p)
        BY <1>n, <1>0, <3>2 DEF PayEvidenceFails
      <3>3. CASE PaySave(p)
        <4>1. fees' = fees /\ request'[p].at = "done"
          BY <2>2, <3>3, SaveWrites DEF PaySave
        <4> QED
          BY <4>1 DEF LedgerInv, FeesInv
      <3> QED
        BY <1>8, <3>1, <3>2, <3>3
    <2>8. FeesInv'
      <3>1. \A d \in Creators : request'[p].of = d => request[d].dead \/ request[d].at = "done"
        BY <2>2, <2>4
      <3> QED
        BY <1>5, <2>4, <2>7, <3>1
    <2>9. ASSUME NEW d \in Creators \ {c} PROVE DocumentOf(d)'
      <3>1. p \notin PaidThrough(d)
        BY <2>1 DEF PaidThrough
      <3>2. p \notin PaidThrough(d)'
        BY <2>7 DEF PaidThrough, FeesOf
      <3> QED
        BY <1>6, <2>6, <3>1, <3>2
    <2>10. DocumentOf(c)'
      <3>1. CASE PayFee(p) \/ PayEvidenceFails(p)
        <4>1. rows' = rows /\ request'[p].at \in {"save", "failed"}
          BY <1>0, <3>1, GoesOn DEF PayFee, PayEvidenceFails
        <4>2. p \notin PaidThrough(c)'
          BY <4>1 DEF PaidThrough
        <4> QED
          BY <1>6, <2>5, <4>1, <4>2
      <3>2. CASE PaySave(p)
        <4> DEFINE seen == request[p].seen
                   paid == Paid(request[p].seen, request[p].value)
        <4>1. /\ request'[p].at = "done" /\ rows'[c] # None
              /\ rows'[c].paid = seen.paid + request[p].value
              /\ rows'[c].count = seen.count + 1
              /\ rows'[c].status = IF paid.status = seen.status THEN rows[c].status
                                   ELSE paid.status
              /\ paid.status = Status(seen.paid + request[p].value, seen.expected)
              /\ rows'[c].expected = rows[c].expected
              /\ rows'[c].contract = rows[c].contract
          BY <2>2, <3>2, SaveWrites
        <4>2. request[p].at = "save" /\ fees' = fees
          BY <3>2 DEF PaySave, At
        <4> SUFFICES ASSUME ~request[c].dead PROVE DocumentOf(c)'
          BY <1>3 DEF DocumentOf
        <4>3. request[c].at = "done"
          BY <2>2
        <4>4. /\ rows[c].contract /\ rows[c].paid = SumOf(PaidThrough(c))
              /\ rows[c].count = Cardinality(PaidThrough(c))
          BY <2>2, <4>3 DEF LedgerInv, DocumentOf
        <4>5. fees[p] = [of |-> c, value |-> request[p].value]
          BY <4>2, <4>3 DEF BackedInv, SeenBacked, Gone
        <4>6. fees[p] # None /\ fees[p].of = c /\ fees[p].value = request[p].value
          <5>1. [of |-> c, value |-> request[p].value] \in FeeType
            BY <1>0, <2>1 DEF PayerKnows, FeeType
          <5> QED
            BY <4>5, <5>1, NoneAssumption
        <4>7. PaidThrough(c)' = PaidThrough(c) \cup {p}
          BY <1>0, <1>1, <4>1, <4>2, <4>6 DEF PaidThrough, FeesOf
        <4>8. SumOf(PaidThrough(c))' = SumOf(PaidThrough(c)) + fees'[p].value
          <5>1. \A r \in PaidThrough(c) : r \in PaidThrough(c)' /\ fees'[r] = fees[r]
            BY <4>2, <4>7
          <5>2. p \in PaidThrough(c)' /\ PaidThrough(c)' \subseteq PaidThrough(c) \cup {p}
            BY <4>7
          <5> QED
            BY <1>0, <2>5, <5>1, <5>2, WorthGrows
        <4>9. rows'[c].paid = SumOf(PaidThrough(c))'
          BY <2>2, <4>1, <4>2, <4>4, <4>6, <4>8
        <4>10. IsFiniteSet(PaidThrough(c))
          <5>1. PaidThrough(c) \in SUBSET Requests /\ IsFiniteSet(Requests)
            BY RequestsAssumption DEF Requests, PaidThrough, FeesOf
          <5> QED
            BY <5>1, FS_Subset
        <4>11. Cardinality(PaidThrough(c) \cup {p}) = Cardinality(PaidThrough(c)) + 1
          BY <2>5, <4>10, FS_AddElement
        <4>12. rows'[c].count = Cardinality(PaidThrough(c)')
          BY <2>2, <4>1, <4>4, <4>7, <4>11
        <4>13. rows'[c].status = Status(rows'[c].paid, rows'[c].expected)
          <5> HIDE DEF paid
          <5> QED
            BY <2>2, <4>1
        <4> QED
          BY <1>3, <4>1, <4>3, <4>4, <4>9, <4>12, <4>13 DEF DocumentOf
      <3> QED
        BY <1>8, <3>1, <3>2
    <2>11. ASSUME NEW q \in Payers PROVE OnlyOne(q)'
      <3>1. CASE q = p
        <4> SUFFICES ASSUME UnderWay(p)' PROVE OnlyOne(p)'
          BY <3>1 DEF OnlyOne
        <4>1. PayFee(p)
          <5>1. PayEvidenceFails(p) => request'[p].at = "failed"
            BY <1>0, GoesOn DEF PayEvidenceFails
          <5>2. PaySave(p) => request'[p].at = "done"
            BY <2>2, SaveWrites
          <5> QED
            BY <1>8, <5>1, <5>2 DEF UnderWay, Ends
        <4>2. rows' = rows
          BY <4>1 DEF PayFee
        <4>3. \A k \in Payers : UnderWay(k)' /\ request'[k].of = c => k = p
          BY <1>4, <2>2
        <4> QED
          BY <2>2, <2>4, <4>2, <4>3 DEF OnlyOne
      <3>2. CASE q # p
        <4> SUFFICES ASSUME UnderWay(q) PROVE OnlyOne(q)'
          BY <1>4, <3>2 DEF OnlyOne
        <4>1. request[q].of \in Creators /\ request[q].of # c
          BY <2>2, <3>2 DEF SerialInv, Alone, IInv, PayerKnows, UnderWay, Ends
        <4>2. OnlyOne(q) /\ request'[q] = request[q]
          BY <1>4, <3>2 DEF LedgerInv
        <4>3. rows'[request[q].of] = rows[request[q].of]
          BY <2>6, <4>1
        <4> QED
          BY <1>4, <2>4, <4>1, <4>2, <4>3 DEF OnlyOne
      <3> QED
        BY <3>1, <3>2
    <2> QED
      BY <2>8, <2>9, <2>10, <2>11 DEF LedgerInv
  <1> QED
    BY <1>7, <1>8

\* A request that dies leaves the ledger as it is.
LEMMA AbortLedger ==
  ASSUME IInv, SerialInv, LedgerInv, NEW q \in Requests, Abort(q)
  PROVE  LedgerInv'
  <1>0. TypeOK /\ request[q] \in RequestType
    BY Typing DEF IInv
  <1>1. \A r \in Requests :
          /\ request'[r].at = request[r].at /\ request'[r].of = request[r].of
          /\ request'[r].value = request[r].value /\ request'[r].seen = request[r].seen
          /\ request[r].dead => request'[r].dead
          /\ r # q => request'[r] = request[r]
    BY <1>0 DEF Abort, TypeOK
  <1>2. rows' = rows /\ fees' = fees /\ UnderWay(q)
    BY DEF Abort
  <1>3. FeesInv'
    <2>1. \A r \in Requests : request'[r].dead => request'[r].at \notin Ends
      BY <1>1, <1>2 DEF LedgerInv, FeesInv, UnderWay
    <2>2. \A p \in Payers :
            fees'[p] # None =>
              fees'[p].of = request'[p].of /\ request'[p].at \in {"save", "done"}
      BY <1>1, <1>2 DEF LedgerInv, FeesInv, Requests
    <2>3. \A d \in Creators :
            fees'[d] # None =>
              fees'[d].of = d /\ request'[d].at \notin {"idle", "create", "contract", "fee"}
      BY <1>1, <1>2 DEF LedgerInv, FeesInv, Requests
    <2>4. \A p \in Payers, d \in Creators :
            request'[p].of = d => request'[d].dead \/ request'[d].at = "done"
      BY <1>1 DEF LedgerInv, FeesInv, Requests
    <2> QED
      BY <2>1, <2>2, <2>3, <2>4 DEF FeesInv
  <1>4. ASSUME NEW c \in Creators PROVE DocumentOf(c)'
    <2>1. PaidThrough(c)' = PaidThrough(c)
      BY <1>1, <1>2 DEF PaidThrough, FeesOf
    <2>2. DocumentOf(c) /\ c \in Requests
      BY DEF LedgerInv, Requests
    <2> QED
      BY <1>0, <1>1, <1>2, <2>1, <2>2, DocumentStays
  <1>5. ASSUME NEW p \in Payers PROVE OnlyOne(p)'
    <2>1. \A k \in Payers : UnderWay(k)' => UnderWay(k)
      <3> TAKE k \in Payers
      <3> HAVE UnderWay(k)'
      <3>1. k \in Requests /\ ~request'[k].dead
        BY DEF UnderWay, Requests
      <3> QED
        BY <1>1, <3>1 DEF UnderWay
    <2>2. OnlyOne(p) /\ p \in Requests
      BY DEF LedgerInv, Requests
    <2> QED
      BY <1>1, <1>2, <2>1, <2>2 DEF OnlyOne, Requests
  <1> QED
    BY <1>3, <1>4, <1>5 DEF LedgerInv

\* Requests for one down payment that wait for each other leave an exact ledger, however
\* many there are and wherever they die: the totals are those of the fees, the status is
\* that of the totals, and the contract is on file (createDownPaymentWithFiles,
\* addFeeWithOptionalEvidence).
THEOREM LedgerIsExactCorrect == Spec => []LedgerIsExact
  <1> DEFINE Inv == BackedInv /\ (~overlapped => SerialInv /\ LedgerInv)
  <1>1. Init => Inv
    <2> SUFFICES ASSUME Init PROVE Inv
      OBVIOUS
    <2>1. \A r \in Requests :
            request[r].at = "idle" /\ ~request[r].dead /\ request[r].of = None
            /\ fees[r] = None
      BY DEF Init, Untouched
    <2>2. \A c \in Creators : rows[c] = None /\ c # None
      BY NoneAssumption DEF Init
    <2>3. BackedInv
      BY <2>1, <2>2 DEF BackedInv, Backed, SeenBacked, Requests
    <2>4. LedgerInv
      BY <2>1, <2>2 DEF LedgerInv, FeesInv, DocumentOf, OnlyOne, UnderWay, Ends, Requests
    <2> QED
      BY <2>3, <2>4, InitSerial
  <1>2. IInv /\ Inv /\ [Next]_vars => Inv'
    <2> SUFFICES ASSUME IInv, Inv, [Next]_vars PROVE Inv'
      OBVIOUS
    <2>1. TypeOK' /\ TypeOK
      BY NextKeeps DEF IInv
    <2>2. BackedInv'
      BY BackedKeeps
    <2>3. ~overlapped' => SerialInv'
      BY NextSerial
    <2>4. ASSUME ~overlapped' PROVE LedgerInv'
      <3>1. CASE UNCHANGED vars
        <4>1. UNCHANGED <<rows, fees, request, overlapped>>
          BY <3>1 DEF vars, history
        <4>2. \A c \in Creators : PaidThrough(c)' = PaidThrough(c)
          BY <4>1 DEF PaidThrough, FeesOf
        <4>3. \A c \in Creators : DocumentOf(c)'
          BY <2>1, <2>4, <4>1, <4>2, DocumentStays DEF LedgerInv
        <4>4. FeesInv' /\ \A p \in Payers : OnlyOne(p)'
          BY <2>4, <4>1 DEF LedgerInv, FeesInv, OnlyOne, UnderWay
        <4> QED
          BY <4>3, <4>4 DEF LedgerInv
      <3>2. CASE CreateNext
        <4>1. overlapped' = overlapped
          BY <3>2 DEF CreateNext, CreateLook, CreateRow, SaveContract, CreateFee,
            CreateTotals, CreateFails, UndoFees, UndoRow, history
        <4> QED
          BY <2>1, <2>4, <3>2, <4>1, CreateLedger DEF CreateNext
      <3>3. CASE PayNext
        <4>1. overlapped => overlapped'
          BY <3>3 DEF PayNext, PayRead, PayFee, PayEvidenceFails, PaySave, history
        <4> QED
          BY <2>1, <2>4, <3>3, <4>1, PayLedger DEF PayNext
      <3>4. CASE \E r \in Requests : Abort(r)
        <4>1. overlapped' = overlapped
          BY <3>4 DEF Abort
        <4> QED
          BY <2>4, <3>4, <4>1, AbortLedger
      <3> QED
        BY <3>1, <3>2, <3>3, <3>4 DEF Next
    <2> QED
      BY <2>2, <2>3, <2>4
  <1>3. IInv /\ Inv => LedgerIsExact
    <2> SUFFICES ASSUME IInv, BackedInv, SerialInv, LedgerInv, NEW c \in Creators,
                        rows[c] # None, Free(c), ~request[c].dead
        PROVE  LET recorded == {r \in FeesOf(c) : ~request[r].dead} IN
               /\ rows[c].paid = SumOf(recorded)
               /\ rows[c].count = Cardinality(recorded)
               /\ rows[c].status = Status(rows[c].paid, rows[c].expected)
               /\ rows[c].contract
      BY DEF LedgerIsExact
    <2>1. ~UnderWay(c)
      BY DEF Free, SerialInv, Alone, Requests
    <2>2. request[c].at = "done"
      <3>1. request[c].at \notin {"idle", "failed"}
        BY DEF IInv, CreatorKnows, BackedInv, Backed
      <3> QED
        BY <2>1, <3>1 DEF UnderWay, Ends
    <2>3. {r \in FeesOf(c) : ~request[r].dead} = PaidThrough(c)
      <3>1. ASSUME NEW r \in FeesOf(c), ~request[r].dead PROVE request[r].at = "done"
        <4>1. CASE r = c
          BY <2>2, <4>1
        <4>2. CASE r \in Payers /\ request[r].of = c /\ request[r].at \in {"save", "done"}
          BY <3>1, <4>2 DEF Free, UnderWay, Ends, Requests
        <4> QED
          BY <4>1, <4>2, WhoseFees
      <3>2. ASSUME NEW r \in FeesOf(c), request[r].at = "done" PROVE ~request[r].dead
        BY <3>2 DEF LedgerInv, FeesInv, Ends, FeesOf
      <3> QED
        BY <3>1, <3>2 DEF PaidThrough
    <2> QED
      BY <2>2, <2>3 DEF LedgerInv, DocumentOf
  <1> HIDE DEF Inv
  <1> QED
    BY <1>1, <1>2, <1>3, Invariant, PTL DEF Spec

\* The run's conjunction of both.
THEOREM FeesBackTotalsCorrect == Spec => []FeesBackTotals
  BY PaidIsBackedCorrect, LedgerIsExactCorrect, PTL DEF FeesBackTotals

=============================================================================
