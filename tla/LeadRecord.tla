----------------------------- MODULE LeadRecord -----------------------------
(***************************************************************************)
(* The customer documents of one person of the leads line, under variants   *)
(* of his number: which one the session and the pending call are of, and    *)
(* whom it is assigned to, while messages, bookings, links and moves of     *)
(* calls by the office and lead forms overlap.  A step boundary is an await.*)
(***************************************************************************)
EXTENDS Naturals, Sequences, FiniteSets

CONSTANTS
  Advisers,             \* users who advance leads
  NoAdviser,
  RecordDesks,          \* requests and messages in the hands of the service at once
  NoDocument,
  MaxDocuments,         \* bounds for TLC: documents, calls, requests
  MaxCalls, MaxRecordRequests

ASSUME RecordAssumption ==
  /\ NoAdviser \notin Advisers /\ NoDocument \notin Nat
  /\ {MaxDocuments, MaxCalls, MaxRecordRequests} \subseteq Nat

Own == 1 .. MaxDocuments     \* documents that may have his number, by their age
Stranger == 0                \* a document of another number
Documents == Own \cup {Stranger}

VARIABLES
  known,        \* the documents that have his number
  formed,       \* those a meta_lead_campaigns entry is linked to
  life,         \* lifecycleStatus, "unset" in documents older than the field
  given,        \* assignedTo
  person,       \* customerId of the session
  calls,        \* the call events of the session: customerId, userId, pending
  desk,         \* where each request is and what it read
  converted,    \* history: documents that were made customers
  placed,       \* history: documents an administrator assigned since a call did
  settledOn,    \* history: nothing moved the number since the last booking began
  crossed,      \* history: two requests wrote the customer of a call at once, or of an old one
  moved,        \* history: two requests wrote the user of a call at once, or of an old one
  recordRequests

recordDb == <<known, formed, life, given, person, calls>>
recordHistory == <<converted, placed, settledOn, crossed, moved, recordRequests>>
recordVars == <<recordDb, desk, recordHistory>>

NoRecordDesk == [at |-> "idle", what |-> "message", found |-> {}, seen |-> NoDocument,
                 doc |-> NoDocument, call |-> 0, user |-> NoAdviser, holder |-> NoAdviser]

RecordInit ==
  /\ known \in SUBSET Own /\ formed = {}
  /\ life \in [Documents -> {"unset", "lead", "customer"}]
  /\ \A d \in Documents \ known : life[d] = "lead"
  /\ given = [d \in Documents |-> NoAdviser]
  /\ person = NoDocument /\ calls = <<>>
  /\ desk = [h \in RecordDesks |-> NoRecordDesk]
  /\ converted = {d \in Documents : life[d] = "customer"} /\ placed = {}
  /\ settledOn = FALSE /\ crossed = FALSE /\ moved = FALSE /\ recordRequests = 0

Oldest(docs) == CHOOSE d \in docs : \A e \in docs : d <= e

\* Fault: the oldest, whether a form is linked to another or not.
OldestAnyway(docs) == Oldest(docs)

\* pickPreferredCustomer: the oldest with a form, or else the oldest.
Preferred(docs) == Oldest(IF docs \cap formed # {} THEN docs \cap formed ELSE docs)

DeskAt(h, place) == desk[h].at = place
DeskTo(h, place) == desk' = [desk EXCEPT ![h].at = place]
Handling(what) == {h \in RecordDesks : desk[h].at # "idle" /\ desk[h].what \in what}
Pending == {n \in DOMAIN calls : calls[n].pending}

Accept(h, request) ==
  /\ desk[h].at = "idle" /\ recordRequests < MaxRecordRequests
  /\ recordRequests' = recordRequests + 1
  /\ desk' = [desk EXCEPT ![h] = request]

-----------------------------------------------------------------------------
\* findOrCreateByWaId: the documents of the number ...
TakeMessage(h) ==
  /\ Accept(h, [NoRecordDesk EXCEPT
       !.at = IF known = {} THEN "create" ELSE "prefer", !.found = known])
  /\ UNCHANGED <<recordDb, converted, placed, settledOn, crossed, moved>>

\* ... createCustomer where there is none.  A document that has come meanwhile under
\* the same form of the number is a conflict, and the documents are looked up again.
CreateLead(h) ==
  /\ DeskAt(h, "create")
  /\ \/ \E d \in Own \ known :
          /\ \A e \in known : e < d
          /\ known' = known \cup {d} /\ life' = [life EXCEPT ![d] = "lead"]
          /\ desk' = [desk EXCEPT ![h].at = "session", ![h].doc = d]
          /\ settledOn' = FALSE
     \/ /\ known # {}
        /\ desk' = [desk EXCEPT ![h].at = "prefer", ![h].found = known]
        /\ UNCHANGED <<known, life, settledOn>>
  /\ UNCHANGED <<formed, given, person, calls, converted, placed, crossed, moved,
                 recordRequests>>

\* Of several, a look at their forms tells which one is taken.
Prefer(h) ==
  /\ DeskAt(h, "prefer")
  /\ desk' = [desk EXCEPT ![h].doc = Preferred(desk[h].found),
       ![h].at = IF desk[h].what = "message" THEN "tag"
                 ELSE IF Preferred(desk[h].found) # desk[h].seen THEN "event" ELSE "read"]
  /\ UNCHANGED <<recordDb, recordHistory>>

\* tagLeadIngress: whoever is not a customer yet is a lead.
TagLead(h) ==
  /\ DeskAt(h, "tag")
  /\ life' = [life EXCEPT ![desk[h].doc] = IF @ = "customer" THEN @ ELSE "lead"]
  /\ DeskTo(h, "session")
  /\ UNCHANGED <<known, formed, given, person, calls, recordHistory>>

\* findOrCreate: the session of the number is made once, for the document found.
OpenSession(h) ==
  /\ DeskAt(h, "session") /\ desk[h].what = "message"
  /\ person' = IF person = NoDocument THEN desk[h].doc ELSE person
  /\ desk' = [desk EXCEPT ![h] = NoRecordDesk]
  /\ UNCHANGED <<known, formed, life, given, calls, recordHistory>>

-----------------------------------------------------------------------------
\* bookSlot, with the customer of the session as the handler read it ...
TakeBooking(h) ==
  /\ person # NoDocument
  /\ Accept(h, [NoRecordDesk EXCEPT !.at = "book", !.what = "booking", !.seen = person])
  /\ settledOn' = TRUE
  /\ crossed' = (crossed \/ Handling({"booking", "link"}) # {})
  /\ moved' = (moved \/ Handling({"booking", "link", "move"}) # {})
  /\ UNCHANGED <<recordDb, converted, placed>>

\* ... finds its call at that time already there, or makes one and withdraws the other ...
BookCall(h) ==
  /\ DeskAt(h, "book")
  /\ \/ \E n \in Pending :
          /\ desk' = [desk EXCEPT ![h].at = "match", ![h].call = n, ![h].user = calls[n].user]
          /\ UNCHANGED calls
     \/ \E u \in Advisers :
          /\ Len(calls) < MaxCalls
          /\ calls' = Append([n \in DOMAIN calls |-> [calls[n] EXCEPT !.pending = FALSE]],
                             [customer |-> desk[h].seen, user |-> u, pending |-> TRUE])
          /\ desk' = [desk EXCEPT ![h].at = "match", ![h].call = Len(calls) + 1, ![h].user = u]
  /\ UNCHANGED <<known, formed, life, given, person, recordHistory>>

\* ... and resolves the customer again by the number.
MatchAgain(h) ==
  /\ DeskAt(h, "match")
  /\ desk' = [desk EXCEPT ![h].at = "prefer", ![h].found = known]
  /\ UNCHANGED <<recordDb, recordHistory>>

\* The call is given to the document found or linked, and so is the session.
RematchCall(h) ==
  /\ DeskAt(h, "event")
  /\ calls' = [calls EXCEPT ![desk[h].call].customer = desk[h].doc]
  /\ DeskTo(h, "session")
  /\ UNCHANGED <<known, formed, life, given, person, recordHistory>>

RematchSession(h) ==
  /\ DeskAt(h, "session") /\ desk[h].what # "message"
  /\ person' = desk[h].doc
  /\ DeskTo(h, IF desk[h].what = "link" THEN "save" ELSE "read")
  /\ UNCHANGED <<known, formed, life, given, calls, recordHistory>>

\* assignToVentor reads the document and saves what differs from the reading.
ReadHolder(h) ==
  /\ DeskAt(h, "read")
  /\ desk' = [desk EXCEPT ![h].holder = given[desk[h].doc],
       ![h].at = IF desk[h].what = "link" THEN "event" ELSE "save"]
  /\ UNCHANGED <<recordDb, recordHistory>>

SaveHolder(h) ==
  LET d == desk[h].doc
      to == IF desk[h].user = desk[h].holder THEN given[d] ELSE desk[h].user
  IN /\ DeskAt(h, "save")
     /\ given' = [given EXCEPT ![d] = to]
     /\ placed' = IF to = desk[h].user THEN placed \ {d} ELSE placed
     /\ desk' = [desk EXCEPT ![h] = NoRecordDesk]
     /\ UNCHANGED <<known, formed, life, person, calls, converted, settledOn, crossed,
                    moved, recordRequests>>

-----------------------------------------------------------------------------
\* linkCallEventToCustomer: any call, pending or not, to any document.
TakeLink(h, n, d) ==
  /\ n \in DOMAIN calls /\ d \in known \cup {Stranger}
  /\ Accept(h, [NoRecordDesk EXCEPT !.at = "read", !.what = "link", !.doc = d, !.call = n,
                                    !.user = calls[n].user])
  /\ settledOn' = FALSE
  /\ crossed' = (crossed \/ Handling({"booking", "link"}) # {} \/ ~calls[n].pending)
  /\ moved' = (moved \/ Handling({"booking", "link", "move"}) # {} \/ ~calls[n].pending)
  /\ UNCHANGED <<recordDb, converted, placed>>

\* reassignCall, and rescheduleCall where it changes the user: the call as it was read.
TakeMove(h, n, u) ==
  /\ n \in Pending /\ u \in Advisers \ {calls[n].user}
  /\ Accept(h, [NoRecordDesk EXCEPT !.at = "move", !.what = "move", !.call = n, !.user = u,
                                    !.doc = calls[n].customer])
  /\ moved' = (moved \/ Handling({"booking", "link", "move"}) # {})
  /\ UNCHANGED <<recordDb, converted, placed, settledOn, crossed>>

MoveCall(h) ==
  /\ DeskAt(h, "move")
  /\ calls' = [calls EXCEPT ![desk[h].call].user = desk[h].user]
  /\ DeskTo(h, "read")
  /\ UNCHANGED <<known, formed, life, given, person, recordHistory>>

\* What the office does in one write: convertLead, assignCustomerAssignee, updateStatus.
Office ==
  /\ recordRequests < MaxRecordRequests /\ recordRequests' = recordRequests + 1
  /\ \/ \E d \in known :
          /\ life[d] # "customer"
          /\ life' = [life EXCEPT ![d] = "customer"] /\ converted' = converted \cup {d}
          /\ UNCHANGED <<given, placed, calls>>
     \/ \E d \in known \cup {Stranger}, u \in Advisers :
          /\ given' = [given EXCEPT ![d] = u] /\ placed' = placed \cup {d}
          /\ UNCHANGED <<life, converted, calls>>
     \/ \E n \in Pending :
          /\ calls' = [calls EXCEPT ![n].pending = FALSE]
          /\ UNCHANGED <<life, converted, given, placed>>
  /\ UNCHANGED <<known, formed, person, desk, settledOn, crossed, moved>>

\* A lead form: leadgen tags and links the document of the number that was the
\* oldest when it looked.
FormComes ==
  /\ recordRequests < MaxRecordRequests /\ recordRequests' = recordRequests + 1
  /\ \E d \in known :
       /\ formed' = formed \cup {d}
       /\ life' = [life EXCEPT ![d] = IF @ = "customer" THEN @ ELSE "lead"]
  /\ settledOn' = (settledOn /\ formed' = formed)
  /\ UNCHANGED <<known, given, person, calls, desk, converted, placed, crossed, moved>>

\* Another document comes by his number: an import, an edit, a creation elsewhere.
NumberComes(d) ==
  /\ d \in Own \ known /\ recordRequests < MaxRecordRequests
  /\ recordRequests' = recordRequests + 1
  /\ known' = known \cup {d} /\ settledOn' = FALSE
  /\ UNCHANGED <<formed, life, given, person, calls, desk, converted, placed, crossed, moved>>

RecordNext ==
  \/ \E h \in RecordDesks :
       \/ TakeMessage(h) \/ CreateLead(h) \/ Prefer(h) \/ TagLead(h) \/ OpenSession(h)
       \/ TakeBooking(h) \/ BookCall(h) \/ MatchAgain(h) \/ RematchCall(h)
       \/ RematchSession(h) \/ ReadHolder(h) \/ SaveHolder(h) \/ MoveCall(h)
       \/ \E n \in 1 .. MaxCalls :
            \/ \E d \in Documents : TakeLink(h, n, d)
            \/ \E u \in Advisers : TakeMove(h, n, u)
  \/ Office \/ FormComes \/ \E d \in Own : NumberComes(d)

RecordSpec == RecordInit /\ [][RecordNext]_recordVars

-----------------------------------------------------------------------------
(* Properties                                                                *)

RecordQuiet == \A h \in RecordDesks : desk[h].at = "idle"

CallEvents == [customer : Documents, user : Advisers, pending : BOOLEAN]
DeskRecords ==
  [at : {"idle", "create", "prefer", "tag", "session", "book", "match", "event", "read",
         "save", "move"},
   what : {"message", "booking", "link", "move"}, found : SUBSET Own,
   seen : Documents \cup {NoDocument}, doc : Documents \cup {NoDocument}, call : Nat,
   user : Advisers \cup {NoAdviser}, holder : Advisers \cup {NoAdviser}]

FlagsOK == settledOn \in BOOLEAN /\ crossed \in BOOLEAN /\ moved \in BOOLEAN

\* Every variable has its type, and the session has one pending call at most.
RecordTypeOK ==
  /\ known \in SUBSET Own /\ formed \in SUBSET known
  /\ life \in [Documents -> {"unset", "lead", "customer"}]
  /\ given \in [Documents -> Advisers \cup {NoAdviser}]
  /\ person \in Documents \cup {NoDocument}
  /\ calls \in Seq(CallEvents) /\ \A m, n \in Pending : m = n
  /\ desk \in [RecordDesks -> DeskRecords]
  /\ converted \in SUBSET Documents /\ placed \in SUBSET Documents
  /\ FlagsOK /\ recordRequests \in Nat

\* A customer stays one, whatever he writes and fills in, and whatever requests
\* that read him as a lead save afterwards.
ConvertedStays == \A d \in converted : life[d] = "customer"

\* In whatever order bookings, links and moves overlap: once they are done, whoever
\* waits for a call has an adviser.
CallHasAdviser ==
  RecordQuiet => \A n \in Pending : given[calls[n].customer] # NoAdviser

\* Unless two requests crossed, the pending call and the session are of one
\* document, and it is assigned to the user of the call or was by hand since.
RecordsAgree ==
  RecordQuiet => \A n \in Pending :
    /\ crossed \/ calls[n].customer = person
    /\ moved \/ calls[n].customer \in placed \/ given[calls[n].customer] = calls[n].user

\* A booking brings the session to the document that has a form, or else to the
\* oldest of the number, whichever it was of before.
BookedUnderOneRecord ==
  (RecordQuiet /\ settledOn /\ ~crossed) =>
    /\ formed # {} => person \in formed
    /\ formed = {} => \A d \in known : person <= d

\* The documents of one person are kept apart and together as they are meant to be.
RecordCorrect ==
  /\ RecordTypeOK /\ ConvertedStays /\ CallHasAdviser
  /\ RecordsAgree /\ BookedUnderOneRecord
=============================================================================
