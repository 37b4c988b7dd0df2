--------------------------- MODULE PaymentReceipts ---------------------------
(***************************************************************************)
(* Single payments, with or without a file as evidence.  The document is    *)
(* inserted first, the file written to disk under its id, and the document  *)
(* then told of it; what goes wrong in between is undone by deleting the    *)
(* document, which others have been able to read.  A step boundary is an    *)
(* await.                                                                   *)
(***************************************************************************)
EXTENDS Naturals, FiniteSets, FiniteSetsExt

CONSTANTS
  Cashiers,                    \* requests that record a payment
  Values,                      \* what may be paid
  MaxReceipts, MaxReceiptFailures, MaxReceiptCrashes   \* bounds for TLC

ASSUME ReceiptsAssumption ==
  /\ IsFiniteSet(Cashiers)
  /\ Values \cup {MaxReceipts, MaxReceiptFailures, MaxReceiptCrashes} \subseteq Nat

VARIABLES
  receipts,             \* customer_payments: id, value, whether it names its evidence
  files,                \* the payments of which the evidence directory has a file
  cashier,              \* requests: at, the id and the value of its payment
  summary,              \* getSummaryByCustomer: the last total; what was confirmed then,
                        \* and whether that was all there should have been
  confirmed,            \* history: payments answered with success
  refused,              \* history: payments answered with 400
  receiptCount,         \* history: payments inserted so far, the next id
  receiptFailures, receiptCrashes

receiptDb == <<receipts, files, summary>>
receiptHistory == <<confirmed, refused, receiptCount, receiptFailures, receiptCrashes>>
receiptVars == <<receiptDb, cashier, receiptHistory>>

Unoccupied == [at |-> "idle", id |-> 0, value |-> 0]

ReceiptsInit ==
  /\ receipts = {} /\ files = {} /\ summary = [total |-> 0, paid |-> 0, whole |-> TRUE]
  /\ cashier = [h \in Cashiers |-> Unoccupied]
  /\ confirmed = {} /\ refused = {}
  /\ receiptCount = 0 /\ receiptFailures = 0 /\ receiptCrashes = 0

CashierTo(h, place) == cashier' = [cashier EXCEPT ![h].at = place]
Dismiss(h) == cashier' = [cashier EXCEPT ![h] = Unoccupied]
PaymentOf(h) == [id |-> cashier[h].id, value |-> cashier[h].value]

ReceiptFails ==
  receiptFailures < MaxReceiptFailures /\ receiptFailures' = receiptFailures + 1

\* createPayment, createPaymentWithEvidence: the payment is inserted.  A file of an
\* unsupported type is refused after that.
InsertReceipt(h, value, place) ==
  /\ cashier[h].at = "idle" /\ receiptCount < MaxReceipts
  /\ receiptCount' = receiptCount + 1
  /\ receipts' = receipts \cup {[id |-> receiptCount', value |-> value, evidence |-> FALSE]}
  /\ cashier' = [cashier EXCEPT ![h] = [at |-> place, id |-> receiptCount', value |-> value]]
  /\ UNCHANGED <<files, summary, confirmed, refused, receiptFailures, receiptCrashes>>

\* Without a file the answer is given.
ConfirmReceipt(h) ==
  /\ cashier[h].at = "answer"
  /\ confirmed' = confirmed \cup {PaymentOf(h)}
  /\ Dismiss(h)
  /\ UNCHANGED <<receiptDb, refused, receiptCount, receiptFailures, receiptCrashes>>

\* The directory is made and the file written; a write that fails may leave a file.
WriteEvidence(h) ==
  /\ cashier[h].at = "write"
  /\ \/ files' = files \cup {cashier[h].id} /\ CashierTo(h, "name")
        /\ UNCHANGED receiptFailures
     \/ ReceiptFails /\ files' \in {files, files \cup {cashier[h].id}} /\ CashierTo(h, "undo")
  /\ UNCHANGED <<receipts, summary, confirmed, refused, receiptCount, receiptCrashes>>

\* Fault: the refusal forgets the payment.
RefuseOnly(h) ==
  /\ cashier[h].at = "undo"
  /\ refused' = refused \cup {PaymentOf(h)}
  /\ Dismiss(h)
  /\ UNCHANGED <<receiptDb, confirmed, receiptCount, receiptFailures, receiptCrashes>>

\* The payment is deleted and the request refused; or the deletion fails, and the
\* answer is an error that says nothing.
UndoReceipt(h) ==
  /\ cashier[h].at = "undo"
  /\ \/ /\ receipts' = {p \in receipts : p.id # cashier[h].id}
        /\ refused' = refused \cup {PaymentOf(h)} /\ UNCHANGED receiptFailures
     \/ ReceiptFails /\ UNCHANGED <<receipts, refused>>
  /\ Dismiss(h)
  /\ UNCHANGED <<files, summary, confirmed, receiptCount, receiptCrashes>>

\* The payment is saved with the name of its file; if that fails the answer is an
\* error, and the payment stays without it.
NameEvidence(h) ==
  /\ cashier[h].at = "name"
  /\ \/ /\ receipts' = {IF p.id = cashier[h].id THEN [p EXCEPT !.evidence = TRUE] ELSE p :
                          p \in receipts}
        /\ confirmed' = confirmed \cup {PaymentOf(h)} /\ UNCHANGED receiptFailures
     \/ ReceiptFails /\ UNCHANGED <<receipts, confirmed>>
  /\ Dismiss(h)
  /\ UNCHANGED <<files, summary, refused, receiptCount, receiptCrashes>>

Underhand == {cashier[h].id : h \in {k \in Cashiers : cashier[k].at # "idle"}}
TotalOf(payments) == MapThenSumSet(LAMBDA p : p.value, payments)

\* Somebody asks for the summary of the customer.
Summarise ==
  /\ summary' = [total |-> TotalOf(receipts), paid |-> TotalOf(confirmed),
                 whole |-> Underhand = {} /\ receiptFailures + receiptCrashes = 0]
  /\ UNCHANGED <<receipts, files, cashier, receiptHistory>>

\* The service dies in the middle.
ReceiptCrash ==
  /\ receiptCrashes < MaxReceiptCrashes
  /\ receiptCrashes' = receiptCrashes + 1
  /\ cashier' = [h \in Cashiers |-> Unoccupied]
  /\ UNCHANGED <<receiptDb, confirmed, refused, receiptCount, receiptFailures>>

ReceiptsNext ==
  \/ \E h \in Cashiers :
       \/ \E v \in Values, place \in {"answer", "write", "undo"} : InsertReceipt(h, v, place)
       \/ ConfirmReceipt(h) \/ WriteEvidence(h) \/ UndoReceipt(h) \/ NameEvidence(h)
  \/ Summarise
  \/ ReceiptCrash

ReceiptsSpec == ReceiptsInit /\ [][ReceiptsNext]_receiptVars
-----------------------------------------------------------------------------
(* Properties                                                                *)

ReceiptIds == 1..MaxReceipts
Payments == [id : ReceiptIds, value : Values]

\* Every variable has its type.
ReceiptsTypeOK ==
  /\ receipts \subseteq [id : ReceiptIds, value : Values, evidence : BOOLEAN]
  /\ files \subseteq ReceiptIds
  /\ cashier \in [Cashiers -> [at : {"idle", "answer", "write", "undo", "name"},
                               id : 0..MaxReceipts, value : Values \cup {0}]]
  /\ summary \in [total : Nat, paid : Nat, whole : BOOLEAN]
  /\ confirmed \subseteq Payments /\ refused \subseteq Payments
  /\ {receiptCount, receiptFailures, receiptCrashes} \subseteq Nat

\* A payment that names its evidence has a file, wherever a request fails or dies.
EvidenceIsThere == \A p \in receipts : p.evidence => p.id \in files

\* What was answered holds: a payment confirmed is in the collection for good, and one
\* refused is not.  The others are being handled, or were left by a failure or a crash.
AnswersHold ==
  LET stored == {[id |-> p.id, value |-> p.value] : p \in receipts}
      open == {p \in stored \ confirmed : p.id \notin Underhand}
  IN /\ confirmed \subseteq stored /\ refused \cap stored = {}
     /\ Cardinality(open) <= receiptFailures + receiptCrashes * Cardinality(Cashiers)

\* A summary never misses a payment that was confirmed, and counts no other unless a
\* request was under way, or one had failed or died without its payment deleted.
SummaryCounts ==
  /\ summary.total >= summary.paid
  /\ summary.whole => summary.total = summary.paid

\* Payments, files and summaries agree with what the cashiers were told.
ReceiptsCorrect ==
  ReceiptsTypeOK /\ EvidenceIsThere /\ AnswersHold /\ SummaryCounts
=============================================================================
