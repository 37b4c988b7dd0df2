--------------------------- MODULE LeadFormProofs ---------------------------
(***************************************************************************)
(* Theorems of the people who send a form: their intake, for any handlers   *)
(* and deliveries; the nudge to who has not written, for any forms and      *)
(* numbers; the webinars they register for, for any admins and leads.       *)
(* Each section has the inductive invariant of its component first, then a  *)
(* lemma for each action, and the theorem last.                             *)
(***************************************************************************)
EXTENDS LeadIntake, LeadFormNudge, WebinarLeads, SequenceTheorems, TLAPS

-----------------------------------------------------------------------------
(* The intake of one person                                                  *)

InHands(h) == handler[h].at # "idle"

\* A customer is written as a whole, and there from then on: whoever works for one has
\* found or made him, and a message finds only the number it came from.
IntakeDocs ==
  /\ \A p \in Phones : customer[p].funnel = "absent" => customer[p] = Absent
  /\ \A i \in DOMAIN order : customer[order[i]].funnel # "absent"
  /\ \A h \in Handlers :
       /\ handler[h].at \notin {"idle", "create"} => customer[handler[h].phone].funnel # "absent"
       /\ handler[h].what \in ChatIngresses => handler[h].phone = "international"
       /\ handler[h].at \in {"pend", "refetch", "decide", "mark", "emit"} =>
            handler[h].what \in ChatIngresses
       /\ handler[h].at = "flow save" => handler[h].what = "flow"

\* Whoever has been seen with a ventor has one.
SeenStays ==
  \A h \in Handlers :
    /\ handler[h].seen.assigned # NoVentor =>
         customer[handler[h].phone].assigned # NoVentor
    /\ (handler[h].at = "ready" /\ ~unassigned) =>
         customer[handler[h].phone].assigned # NoVentor

\* As long as no deliveries race, one is under way, and what it has read still holds.
AloneSees ==
  ~raced =>
    /\ \A g, h \in Handlers : InHands(g) /\ InHands(h) => g = h
    /\ \A h \in Handlers :
         /\ handler[h].at \in {"pend", "assign", "decide", "mark", "flow save"} =>
              handler[h].seen = customer[handler[h].phone]
         /\ handler[h].at = "pend" => handler[h].seen = Newborn
         /\ handler[h].at = "refetch" => customer[handler[h].phone].funnel = "pending_flow"
         /\ (handler[h].at \in {"assign", "decide"} /\ handler[h].created
              /\ handler[h].what = "text") => handler[h].seen.funnel = "pending_flow"
         /\ handler[h].at = "mark" =>
              handler[h].seen.funnel = "pending_flow" /\ ~handler[h].seen.templated

\* The first customer is the one a message finds; a second is nobody's to create.
FirstIsFound ==
  ~nationalFirst =>
    /\ order # <<>> => customer["international"] # Absent
    /\ ~raced => Len(order) <= 1
    /\ (~raced /\ \E h \in Handlers : handler[h].at = "create") => order = <<>>

\* The template is marked before it is sent, ...
TemplateIsMarked ==
  ~raced =>
    /\ templates <= 1
    /\ templates = 1 => customer["international"].templated
    /\ \A h \in Handlers : handler[h].at = "emit" =>
         templates = 0 /\ customer["international"].templated

\* ... and the notification is sent by whoever has found that none was.
NoticeIsMarked ==
  (~raced /\ intakeCrashes = 0) =>
    /\ notices <= 1
    /\ notices = 1 => lead.notified \/ \E h \in Handlers : handler[h].at = "notify mark"
    /\ \A h \in Handlers : handler[h].at = "notify send" => ~lead.notified

IntakeInv ==
  /\ IntakeTypeOK
  /\ IntakeDocs /\ SeenStays /\ AloneSees /\ FirstIsFound /\ TemplateIsMarked /\ NoticeIsMarked
  /\ ReadyHasVentor

FunnelStates == {"absent", "none", "pending_flow", "completed_flow", "ready_for_llm"}

LEMMA FunnelIs == {Funnel[i] : i \in DOMAIN Funnel} \cup {"absent"} = FunnelStates
<1>1. DOMAIN Funnel = 1..4 /\ Funnel[1] = "none" /\ Funnel[2] = "pending_flow"
      /\ Funnel[3] = "completed_flow" /\ Funnel[4] = "ready_for_llm"
  BY DEF Funnel
<1>2. 1..4 = {1, 2, 3, 4}
  OBVIOUS
<1> QED
  BY <1>1, <1>2 DEF FunnelStates

LEMMA DocsAre ==
  CustomerDocs = [assigned : Ventors \cup {NoVentor}, templated : BOOLEAN, funnel : FunnelStates]
BY FunnelIs DEF CustomerDocs

HandlerPlaces ==
  {"idle", "create", "pend", "refetch", "assign", "decide", "mark", "emit", "flow read",
   "flow save", "ready", "processed", "notify look", "notify send", "notify mark"}

Deliveries == [at : HandlerPlaces, what : Ingresses, phone : Phones, seen : CustomerDocs,
               created : BOOLEAN]

\* A record with some of its fields replaced is a record of the same kind.
LEMMA DeliveryFields ==
  ASSUME NEW d \in Deliveries
  PROVE  /\ d.at \in HandlerPlaces /\ d.what \in Ingresses /\ d.phone \in Phones
         /\ d.seen \in CustomerDocs /\ d.created \in BOOLEAN
         /\ \A x \in HandlerPlaces : [d EXCEPT !.at = x] \in Deliveries
         /\ \A x \in HandlerPlaces, s \in CustomerDocs :
              [d EXCEPT !.at = x, !.seen = s] \in Deliveries
BY DEF Deliveries

LEMMA DocFields ==
  ASSUME NEW d \in CustomerDocs
  PROVE  /\ d.assigned \in Ventors \cup {NoVentor} /\ d.templated \in BOOLEAN
         /\ d.funnel \in FunnelStates
         /\ \A v \in Ventors \cup {NoVentor} : [d EXCEPT !.assigned = v] \in CustomerDocs
         /\ \A f \in FunnelStates : [d EXCEPT !.funnel = f] \in CustomerDocs
         /\ \A f \in FunnelStates, v \in Ventors \cup {NoVentor} :
              [d EXCEPT !.assigned = v, !.funnel = f] \in CustomerDocs
         /\ \A f \in FunnelStates : [d EXCEPT !.templated = TRUE, !.funnel = f] \in CustomerDocs
BY DocsAre

LEMMA SameDocs ==
  ASSUME NEW a \in CustomerDocs, NEW b \in CustomerDocs, a.assigned = b.assigned,
         a.funnel = b.funnel, a.templated = b.templated
  PROVE  a = b
BY DocsAre

LEMMA DocConstants ==
  /\ Absent \in CustomerDocs /\ Newborn \in CustomerDocs /\ NoHandler \in Deliveries
<1>1. Absent \in CustomerDocs /\ Newborn \in CustomerDocs
  BY DocsAre DEF Absent, Newborn, FunnelStates
<1>2. NoHandler \in Deliveries
  BY <1>1 DEF NoHandler, Deliveries, HandlerPlaces, Ingresses, ChatIngresses, FormIngresses,
     Phones
<1> QED
  BY <1>1, <1>2

LEMMA IntakeTypeIs ==
  IntakeTypeOK <=>
    /\ customer \in [Phones -> CustomerDocs]
    /\ order \in Seq(Phones)
    /\ lead \in [status : {"none", "pending", "processed"}, notified : BOOLEAN]
    /\ handler \in [Handlers -> Deliveries]
    /\ {templates, notices, ingresses, intakeCrashes} \subseteq Nat
    /\ {raced, nationalFirst, unassigned} \subseteq BOOLEAN
BY DEF IntakeTypeOK, Deliveries, HandlerPlaces

\* The delivery in the hands of h becomes d, and its customer c.
Works(h, d, c) ==
  /\ handler' = [handler EXCEPT ![h] = d]
  /\ customer' = [customer EXCEPT ![handler[h].phone] = c]

\* d goes on with what h was handed.
GoesOnWith(h, d) ==
  d.what = handler[h].what /\ d.phone = handler[h].phone /\ d.created = handler[h].created

LEMMA DeliveryTypes ==
  ASSUME IntakeTypeOK, NEW h \in Handlers
  PROVE  /\ handler \in [Handlers -> Deliveries] /\ customer \in [Phones -> CustomerDocs]
         /\ handler[h] \in Deliveries /\ handler[h].phone \in Phones
         /\ handler[h].what \in Ingresses /\ handler[h].at \in HandlerPlaces
         /\ handler[h].seen \in CustomerDocs /\ DocOf(h) \in CustomerDocs
<1>1. handler \in [Handlers -> Deliveries] /\ customer \in [Phones -> CustomerDocs]
  BY IntakeTypeIs
<1> QED
  BY <1>1, DeliveryFields DEF DocOf

LEMMA WorksThere ==
  ASSUME IntakeTypeOK, NEW h \in Handlers, NEW d \in Deliveries, NEW c \in CustomerDocs,
         Works(h, d, c)
  PROVE  /\ handler' \in [Handlers -> Deliveries] /\ customer' \in [Phones -> CustomerDocs]
         /\ handler'[h] = d /\ \A g \in Handlers : g # h => handler'[g] = handler[g]
         /\ customer'[handler[h].phone] = c
         /\ \A p \in Phones : p # handler[h].phone => customer'[p] = customer[p]
BY DeliveryTypes DEF Works

LEMMA PendFlowWorks ==
  ASSUME IntakeTypeOK, NEW h \in Handlers, PendFlow(h)
  PROVE  /\ handler[h].at = "pend"
         /\ \/ (\E d \in Deliveries, c \in CustomerDocs :
                /\ Works(h, d, c) /\ GoesOnWith(h, d) /\ d.at = "refetch"
                /\ d.seen = handler[h].seen /\ c.funnel = "pending_flow"
                /\ c.assigned = DocOf(h).assigned /\ c.templated = DocOf(h).templated)
<1> USE DEF intakeDb, intakeHistory, HandlerAt
<1>t. /\ handler \in [Handlers -> Deliveries] /\ customer \in [Phones -> CustomerDocs]
      /\ handler[h] \in Deliveries /\ handler[h].phone \in Phones
      /\ handler[h].seen \in CustomerDocs
      /\ DocOf(h) \in CustomerDocs
  BY DeliveryTypes
<1> DEFINE d1 == [handler[h] EXCEPT !.at = "refetch"]
           c1 == [DocOf(h) EXCEPT !.funnel = "pending_flow"]
<1>1. d1 \in Deliveries /\ c1 \in CustomerDocs
  BY <1>t, DeliveryFields, DocFields, DocConstants DEF HandlerPlaces, FunnelStates
<1>1f. /\ d1.at = "refetch"
      /\ d1.seen = handler[h].seen
      /\ c1.funnel = "pending_flow"
      /\ c1.assigned = DocOf(h).assigned
      /\ c1.templated = DocOf(h).templated
      /\ GoesOnWith(h, d1)
  BY <1>t DEF Deliveries, CustomerDocs, GoesOnWith
<1>w. handler[h].at = "pend" /\ Works(h, d1, c1)
  BY <1>t DEF PendFlow, WriteCustomer, HandlerTo, HandlerReads, DropDelivery, Works, DocOf,
     Deliveries, CustomerDocs
<1> HIDE DEF d1, c1
<1> QED
  BY <1>w, <1>1, <1>1f

LEMMA RefetchCustomerWorks ==
  ASSUME IntakeTypeOK, NEW h \in Handlers, RefetchCustomer(h)
  PROVE  /\ handler[h].at = "refetch"
         /\ \/ (\E d \in Deliveries, c \in CustomerDocs :
                /\ Works(h, d, c) /\ GoesOnWith(h, d) /\ d.at = "assign" /\ d.seen = DocOf(h)
                /\ c = DocOf(h))
<1> USE DEF intakeDb, intakeHistory, HandlerAt
<1>t. /\ handler \in [Handlers -> Deliveries] /\ customer \in [Phones -> CustomerDocs]
      /\ handler[h] \in Deliveries /\ handler[h].phone \in Phones
      /\ handler[h].seen \in CustomerDocs
      /\ DocOf(h) \in CustomerDocs
  BY DeliveryTypes
<1> DEFINE d1 == [handler[h] EXCEPT !.at = "assign", !.seen = DocOf(h)]
           c1 == DocOf(h)
<1>1. d1 \in Deliveries /\ c1 \in CustomerDocs
  BY <1>t, DeliveryFields, DocFields, DocConstants DEF HandlerPlaces, FunnelStates
<1>1f. /\ d1.at = "assign"
      /\ d1.seen = DocOf(h)
      /\ c1 = DocOf(h)
      /\ GoesOnWith(h, d1)
  BY <1>t DEF Deliveries, CustomerDocs, GoesOnWith
<1>w. handler[h].at = "refetch" /\ Works(h, d1, c1)
  BY <1>t DEF RefetchCustomer, WriteCustomer, HandlerTo, HandlerReads, DropDelivery, Works,
     DocOf, Deliveries, CustomerDocs
<1> HIDE DEF d1, c1
<1> QED
  BY <1>w, <1>1, <1>1f

LEMMA DecideTemplateWorks ==
  ASSUME IntakeTypeOK, NEW h \in Handlers, DecideTemplate(h)
  PROVE  /\ handler[h].at = "decide" /\ handler[h].what = "text"
         /\ \/ (\E d \in Deliveries, c \in CustomerDocs :
                /\ Works(h, d, c) /\ GoesOnWith(h, d) /\ d.at = "mark"
                /\ d.seen = handler[h].seen
                /\ WantsTemplate(handler[h].seen, handler[h].created) /\ c = DocOf(h))
            \/ (\E d \in Deliveries, c \in CustomerDocs :
                Works(h, d, c) /\ d = NoHandler /\ c = DocOf(h))
<1> USE DEF intakeDb, intakeHistory, HandlerAt
<1>t. /\ handler \in [Handlers -> Deliveries] /\ customer \in [Phones -> CustomerDocs]
      /\ handler[h] \in Deliveries /\ handler[h].phone \in Phones
      /\ handler[h].seen \in CustomerDocs
      /\ DocOf(h) \in CustomerDocs
  BY DeliveryTypes
<1> DEFINE d1 == [handler[h] EXCEPT !.at = "mark"]
           c1 == DocOf(h)
<1>1. d1 \in Deliveries /\ c1 \in CustomerDocs
  BY <1>t, DeliveryFields, DocFields, DocConstants DEF HandlerPlaces, FunnelStates
<1>1f. /\ d1.at = "mark"
      /\ d1.seen = handler[h].seen
      /\ c1 = DocOf(h)
      /\ GoesOnWith(h, d1)
  BY <1>t DEF Deliveries, CustomerDocs, GoesOnWith
<1> DEFINE d2 == NoHandler
           c2 == DocOf(h)
<1>2. d2 \in Deliveries /\ c2 \in CustomerDocs
  BY <1>t, DeliveryFields, DocFields, DocConstants DEF HandlerPlaces, FunnelStates
<1>2f. /\ d2 = NoHandler
      /\ c2 = DocOf(h)
  BY <1>t DEF Deliveries, CustomerDocs, GoesOnWith
<1>w. /\ handler[h].at = "decide" /\ handler[h].what = "text"
      /\ \/ Works(h, d1, c1) /\ WantsTemplate(handler[h].seen, handler[h].created)
         \/ Works(h, d2, c2)
  BY <1>t DEF DecideTemplate, WriteCustomer, HandlerTo, HandlerReads, DropDelivery, Works,
     DocOf, Deliveries, CustomerDocs
<1> HIDE DEF d1, c1, d2, c2
<1> QED
  BY <1>w, <1>1, <1>1f, <1>2, <1>2f

LEMMA MarkTemplateWorks ==
  ASSUME IntakeTypeOK, NEW h \in Handlers, MarkTemplate(h)
  PROVE  /\ handler[h].at = "mark"
         /\ \/ (\E d \in Deliveries, c \in CustomerDocs :
                /\ Works(h, d, c) /\ GoesOnWith(h, d) /\ d.at = "emit"
                /\ d.seen = handler[h].seen /\ c.funnel = "pending_flow"
                /\ c.assigned = DocOf(h).assigned /\ c.templated = TRUE)
<1> USE DEF intakeDb, intakeHistory, HandlerAt
<1>t. /\ handler \in [Handlers -> Deliveries] /\ customer \in [Phones -> CustomerDocs]
      /\ handler[h] \in Deliveries /\ handler[h].phone \in Phones
      /\ handler[h].seen \in CustomerDocs
      /\ DocOf(h) \in CustomerDocs
  BY DeliveryTypes
<1> DEFINE d1 == [handler[h] EXCEPT !.at = "emit"]
           c1 == [DocOf(h) EXCEPT !.templated = TRUE, !.funnel = "pending_flow"]
<1>1. d1 \in Deliveries /\ c1 \in CustomerDocs
  BY <1>t, DeliveryFields, DocFields, DocConstants DEF HandlerPlaces, FunnelStates
<1>1f. /\ d1.at = "emit"
      /\ d1.seen = handler[h].seen
      /\ c1.funnel = "pending_flow"
      /\ c1.assigned = DocOf(h).assigned
      /\ c1.templated = TRUE
      /\ GoesOnWith(h, d1)
  BY <1>t DEF Deliveries, CustomerDocs, GoesOnWith
<1>w. handler[h].at = "mark" /\ Works(h, d1, c1)
  BY <1>t DEF MarkTemplate, WriteCustomer, HandlerTo, HandlerReads, DropDelivery, Works,
     DocOf, Deliveries, CustomerDocs
<1> HIDE DEF d1, c1
<1> QED
  BY <1>w, <1>1, <1>1f

LEMMA SendTemplateWorks ==
  ASSUME IntakeTypeOK, NEW h \in Handlers, SendTemplate(h)
  PROVE  /\ handler[h].at = "emit"
         /\ \/ (\E d \in Deliveries, c \in CustomerDocs :
                Works(h, d, c) /\ d = NoHandler /\ c = DocOf(h))
<1> USE DEF intakeDb, intakeHistory, HandlerAt
<1>t. /\ handler \in [Handlers -> Deliveries] /\ customer \in [Phones -> CustomerDocs]
      /\ handler[h] \in Deliveries /\ handler[h].phone \in Phones
      /\ handler[h].seen \in CustomerDocs
      /\ DocOf(h) \in CustomerDocs
  BY DeliveryTypes
<1> DEFINE d1 == NoHandler
           c1 == DocOf(h)
<1>1. d1 \in Deliveries /\ c1 \in CustomerDocs
  BY <1>t, DeliveryFields, DocFields, DocConstants DEF HandlerPlaces, FunnelStates
<1>1f. /\ d1 = NoHandler
      /\ c1 = DocOf(h)
  BY <1>t DEF Deliveries, CustomerDocs, GoesOnWith
<1>w. handler[h].at = "emit" /\ Works(h, d1, c1)
  BY <1>t DEF SendTemplate, WriteCustomer, HandlerTo, HandlerReads, DropDelivery, Works,
     DocOf, Deliveries, CustomerDocs
<1> HIDE DEF d1, c1
<1> QED
  BY <1>w, <1>1, <1>1f

LEMMA FlowReadWorks ==
  ASSUME IntakeTypeOK, NEW h \in Handlers, FlowRead(h)
  PROVE  /\ handler[h].at = "flow read" /\ handler[h].what = "flow"
         /\ \/ (\E d \in Deliveries, c \in CustomerDocs :
                /\ Works(h, d, c) /\ GoesOnWith(h, d) /\ d.at = "flow save"
                /\ d.seen = DocOf(h) /\ c = DocOf(h))
<1> USE DEF intakeDb, intakeHistory, HandlerAt
<1>t. /\ handler \in [Handlers -> Deliveries] /\ customer \in [Phones -> CustomerDocs]
      /\ handler[h] \in Deliveries /\ handler[h].phone \in Phones
      /\ handler[h].seen \in CustomerDocs
      /\ DocOf(h) \in CustomerDocs
  BY DeliveryTypes
<1> DEFINE d1 == [handler[h] EXCEPT !.at = "flow save", !.seen = DocOf(h)]
           c1 == DocOf(h)
<1>1. d1 \in Deliveries /\ c1 \in CustomerDocs
  BY <1>t, DeliveryFields, DocFields, DocConstants DEF HandlerPlaces, FunnelStates
<1>1f. /\ d1.at = "flow save"
      /\ d1.seen = DocOf(h)
      /\ c1 = DocOf(h)
      /\ GoesOnWith(h, d1)
  BY <1>t DEF Deliveries, CustomerDocs, GoesOnWith
<1>w. handler[h].at = "flow read" /\ handler[h].what = "flow" /\ Works(h, d1, c1)
  BY <1>t DEF FlowRead, WriteCustomer, HandlerTo, HandlerReads, DropDelivery, Works, DocOf,
     Deliveries, CustomerDocs
<1> HIDE DEF d1, c1
<1> QED
  BY <1>w, <1>1, <1>1f

LEMMA SetReadyWorks ==
  ASSUME IntakeTypeOK, NEW h \in Handlers, SetReady(h)
  PROVE  /\ handler[h].at = "ready"
         /\ \/ (\E d \in Deliveries, c \in CustomerDocs :
                /\ Works(h, d, c) /\ GoesOnWith(h, d) /\ d.at = "processed"
                /\ d.seen = handler[h].seen /\ c.funnel = "ready_for_llm"
                /\ c.assigned = DocOf(h).assigned /\ c.templated = DocOf(h).templated)
<1> USE DEF intakeDb, intakeHistory, HandlerAt
<1>t. /\ handler \in [Handlers -> Deliveries] /\ customer \in [Phones -> CustomerDocs]
      /\ handler[h] \in Deliveries /\ handler[h].phone \in Phones
      /\ handler[h].seen \in CustomerDocs
      /\ DocOf(h) \in CustomerDocs
  BY DeliveryTypes
<1> DEFINE d1 == [handler[h] EXCEPT !.at = "processed"]
           c1 == [DocOf(h) EXCEPT !.funnel = "ready_for_llm"]
<1>1. d1 \in Deliveries /\ c1 \in CustomerDocs
  BY <1>t, DeliveryFields, DocFields, DocConstants DEF HandlerPlaces, FunnelStates
<1>1f. /\ d1.at = "processed"
      /\ d1.seen = handler[h].seen
      /\ c1.funnel = "ready_for_llm"
      /\ c1.assigned = DocOf(h).assigned
      /\ c1.templated = DocOf(h).templated
      /\ GoesOnWith(h, d1)
  BY <1>t DEF Deliveries, CustomerDocs, GoesOnWith
<1>w. handler[h].at = "ready" /\ Works(h, d1, c1)
  BY <1>t DEF SetReady, WriteCustomer, HandlerTo, HandlerReads, DropDelivery, Works, DocOf,
     Deliveries, CustomerDocs
<1> HIDE DEF d1, c1
<1> QED
  BY <1>w, <1>1, <1>1f

LEMMA ProcessLeadWorks ==
  ASSUME IntakeTypeOK, NEW h \in Handlers, ProcessLead(h)
  PROVE  /\ handler[h].at = "processed"
         /\ \/ (\E d \in Deliveries, c \in CustomerDocs :
                /\ Works(h, d, c) /\ GoesOnWith(h, d) /\ d.at = "notify look"
                /\ d.seen = handler[h].seen /\ c = DocOf(h))
            \/ (\E d \in Deliveries, c \in CustomerDocs :
                Works(h, d, c) /\ d = NoHandler /\ c = DocOf(h))
<1> USE DEF intakeDb, intakeHistory, HandlerAt
<1>t. /\ handler \in [Handlers -> Deliveries] /\ customer \in [Phones -> CustomerDocs]
      /\ handler[h] \in Deliveries /\ handler[h].phone \in Phones
      /\ handler[h].seen \in CustomerDocs
      /\ DocOf(h) \in CustomerDocs
  BY DeliveryTypes
<1> DEFINE d1 == [handler[h] EXCEPT !.at = "notify look"]
           c1 == DocOf(h)
<1>1. d1 \in Deliveries /\ c1 \in CustomerDocs
  BY <1>t, DeliveryFields, DocFields, DocConstants DEF HandlerPlaces, FunnelStates
<1>1f. /\ d1.at = "notify look"
      /\ d1.seen = handler[h].seen
      /\ c1 = DocOf(h)
      /\ GoesOnWith(h, d1)
  BY <1>t DEF Deliveries, CustomerDocs, GoesOnWith
<1> DEFINE d2 == NoHandler
           c2 == DocOf(h)
<1>2. d2 \in Deliveries /\ c2 \in CustomerDocs
  BY <1>t, DeliveryFields, DocFields, DocConstants DEF HandlerPlaces, FunnelStates
<1>2f. /\ d2 = NoHandler
      /\ c2 = DocOf(h)
  BY <1>t DEF Deliveries, CustomerDocs, GoesOnWith
<1>w. handler[h].at = "processed" /\ (Works(h, d1, c1) \/ Works(h, d2, c2))
  BY <1>t DEF ProcessLead, WriteCustomer, HandlerTo, HandlerReads, DropDelivery, Works,
     DocOf, Deliveries, CustomerDocs
<1> HIDE DEF d1, c1, d2, c2
<1> QED
  BY <1>w, <1>1, <1>1f, <1>2, <1>2f

LEMMA NotifyLookWorks ==
  ASSUME IntakeTypeOK, NEW h \in Handlers, NotifyLook(h)
  PROVE  /\ handler[h].at = "notify look"
         /\ \/ (\E d \in Deliveries, c \in CustomerDocs :
                /\ Works(h, d, c) /\ GoesOnWith(h, d) /\ d.at = "notify send"
                /\ d.seen = handler[h].seen /\ ~lead.notified /\ c = DocOf(h))
            \/ (\E d \in Deliveries, c \in CustomerDocs :
                Works(h, d, c) /\ d = NoHandler /\ c = DocOf(h))
<1> USE DEF intakeDb, intakeHistory, HandlerAt
<1>t. /\ handler \in [Handlers -> Deliveries] /\ customer \in [Phones -> CustomerDocs]
      /\ handler[h] \in Deliveries /\ handler[h].phone \in Phones
      /\ handler[h].seen \in CustomerDocs
      /\ DocOf(h) \in CustomerDocs
  BY DeliveryTypes
<1> DEFINE d1 == [handler[h] EXCEPT !.at = "notify send"]
           c1 == DocOf(h)
<1>1. d1 \in Deliveries /\ c1 \in CustomerDocs
  BY <1>t, DeliveryFields, DocFields, DocConstants DEF HandlerPlaces, FunnelStates
<1>1f. /\ d1.at = "notify send"
      /\ d1.seen = handler[h].seen
      /\ c1 = DocOf(h)
      /\ GoesOnWith(h, d1)
  BY <1>t DEF Deliveries, CustomerDocs, GoesOnWith
<1> DEFINE d2 == NoHandler
           c2 == DocOf(h)
<1>2. d2 \in Deliveries /\ c2 \in CustomerDocs
  BY <1>t, DeliveryFields, DocFields, DocConstants DEF HandlerPlaces, FunnelStates
<1>2f. /\ d2 = NoHandler
      /\ c2 = DocOf(h)
  BY <1>t DEF Deliveries, CustomerDocs, GoesOnWith
<1>w. /\ handler[h].at = "notify look"
      /\ \/ Works(h, d1, c1) /\ ~lead.notified
         \/ Works(h, d2, c2)
  BY <1>t DEF NotifyLook, WriteCustomer, HandlerTo, HandlerReads, DropDelivery, Works,
     DocOf, Deliveries, CustomerDocs
<1> HIDE DEF d1, c1, d2, c2
<1> QED
  BY <1>w, <1>1, <1>1f, <1>2, <1>2f

LEMMA NotifySendWorks ==
  ASSUME IntakeTypeOK, NEW h \in Handlers, NotifySend(h)
  PROVE  /\ handler[h].at = "notify send"
         /\ \/ (\E d \in Deliveries, c \in CustomerDocs :
                /\ Works(h, d, c) /\ GoesOnWith(h, d) /\ d.at = "notify mark"
                /\ d.seen = handler[h].seen /\ notices' = notices + 1 /\ c = DocOf(h))
            \/ (\E d \in Deliveries, c \in CustomerDocs :
                Works(h, d, c) /\ d = NoHandler /\ notices' = notices /\ c = DocOf(h))
<1> USE DEF intakeDb, intakeHistory, HandlerAt
<1>t. /\ handler \in [Handlers -> Deliveries] /\ customer \in [Phones -> CustomerDocs]
      /\ handler[h] \in Deliveries /\ handler[h].phone \in Phones
      /\ handler[h].seen \in CustomerDocs
      /\ DocOf(h) \in CustomerDocs
  BY DeliveryTypes
<1> DEFINE d1 == [handler[h] EXCEPT !.at = "notify mark"]
           c1 == DocOf(h)
<1>1. d1 \in Deliveries /\ c1 \in CustomerDocs
  BY <1>t, DeliveryFields, DocFields, DocConstants DEF HandlerPlaces, FunnelStates
<1>1f. /\ d1.at = "notify mark"
      /\ d1.seen = handler[h].seen
      /\ c1 = DocOf(h)
      /\ GoesOnWith(h, d1)
  BY <1>t DEF Deliveries, CustomerDocs, GoesOnWith
<1> DEFINE d2 == NoHandler
           c2 == DocOf(h)
<1>2. d2 \in Deliveries /\ c2 \in CustomerDocs
  BY <1>t, DeliveryFields, DocFields, DocConstants DEF HandlerPlaces, FunnelStates
<1>2f. /\ d2 = NoHandler
      /\ c2 = DocOf(h)
  BY <1>t DEF Deliveries, CustomerDocs, GoesOnWith
<1>w. /\ handler[h].at = "notify send"
      /\ \/ Works(h, d1, c1) /\ notices' = notices + 1
         \/ Works(h, d2, c2) /\ notices' = notices
  BY <1>t DEF NotifySend, WriteCustomer, HandlerTo, HandlerReads, DropDelivery, Works,
     DocOf, Deliveries, CustomerDocs
<1> HIDE DEF d1, c1, d2, c2
<1> QED
  BY <1>w, <1>1, <1>1f, <1>2, <1>2f

LEMMA NotifyMarkWorks ==
  ASSUME IntakeTypeOK, NEW h \in Handlers, NotifyMark(h)
  PROVE  /\ handler[h].at = "notify mark"
         /\ \/ (\E d \in Deliveries, c \in CustomerDocs :
                Works(h, d, c) /\ d = NoHandler /\ c = DocOf(h))
<1> USE DEF intakeDb, intakeHistory, HandlerAt
<1>t. /\ handler \in [Handlers -> Deliveries] /\ customer \in [Phones -> CustomerDocs]
      /\ handler[h] \in Deliveries /\ handler[h].phone \in Phones
      /\ handler[h].seen \in CustomerDocs
      /\ DocOf(h) \in CustomerDocs
  BY DeliveryTypes
<1> DEFINE d1 == NoHandler
           c1 == DocOf(h)
<1>1. d1 \in Deliveries /\ c1 \in CustomerDocs
  BY <1>t, DeliveryFields, DocFields, DocConstants DEF HandlerPlaces, FunnelStates
<1>1f. /\ d1 = NoHandler
      /\ c1 = DocOf(h)
  BY <1>t DEF Deliveries, CustomerDocs, GoesOnWith
<1>w. handler[h].at = "notify mark" /\ Works(h, d1, c1)
  BY <1>t DEF NotifyMark, WriteCustomer, HandlerTo, HandlerReads, DropDelivery, Works,
     DocOf, Deliveries, CustomerDocs
<1> HIDE DEF d1, c1
<1> QED
  BY <1>w, <1>1, <1>1f

\* A delivery begins with the customer it found, or with nobody to be found.
LEMMA TakeWorks ==
  ASSUME IntakeTypeOK, IntakeDocs, NEW h \in Handlers, NEW what \in Ingresses,
         NEW phone \in Phones, TakeDelivery(h, what, phone)
  PROVE  \E d \in Deliveries :
           /\ handler[h].at = "idle" /\ handler' = [handler EXCEPT ![h] = d]
           /\ d.what = what /\ d.created = FALSE
           /\ what \in ChatIngresses => d.phone = "international"
           /\ \/ /\ d.at = "create" /\ d.seen = Absent
                 /\ what \in ChatIngresses => customer["international"] = Absent
                 /\ what \notin ChatIngresses => order = <<>>
              \/ /\ d.at = "assign" /\ d.seen = customer[d.phone]
                 /\ customer[d.phone].funnel # "absent"
<1> DEFINE found == Found(what, phone)
           none == [NoHandler EXCEPT !.at = "create", !.what = what, !.phone = phone]
           one == [NoHandler EXCEPT !.at = "assign", !.what = what, !.phone = Head(found),
                                    !.seen = customer[Head(found)]]
<1>t. customer \in [Phones -> CustomerDocs] /\ order \in Seq(Phones)
  BY IntakeTypeIs
<1>1. /\ found \in Seq(Phones)
      /\ what \in ChatIngresses => found = IF customer[phone] = Absent THEN <<>> ELSE <<phone>>
      /\ what \notin ChatIngresses => found = order
  BY <1>t DEF Found, FoundExactly
<1> HIDE DEF found
<1>2. /\ handler[h].at = "idle"
      /\ what \in ChatIngresses => phone = "international"
      /\ handler' = [handler EXCEPT ![h] = IF found = <<>> THEN none ELSE one]
  BY DEF TakeDelivery, found
<1>3. CASE found = <<>>
  <2>1. none \in Deliveries
    BY DocConstants DEF Deliveries, HandlerPlaces
  <2>2. none.what = what /\ none.at = "create" /\ none.phone = phone /\ none.seen = Absent
        /\ none.created = FALSE
    BY DEF NoHandler
  <2>3. handler' = [handler EXCEPT ![h] = none]
    BY <1>2, <1>3
  <2>4. /\ what \in ChatIngresses => customer["international"] = Absent
        /\ what \notin ChatIngresses => order = <<>>
    <3>1. <<phone>> # <<>>
      OBVIOUS
    <3>2. what \in ChatIngresses => customer[phone] = Absent
      BY <1>1, <1>3, <3>1
    <3> QED
      BY <1>1, <1>2, <1>3, <3>2
  <2> HIDE DEF none
  <2> QED
    BY <1>2, <2>1, <2>2, <2>3, <2>4
<1>4. CASE found # <<>>
  <2>1. /\ Head(found) \in Phones
        /\ what \in ChatIngresses => Head(found) = phone /\ customer[phone] # Absent
        /\ what \notin ChatIngresses => 1 \in DOMAIN order /\ Head(found) = order[1]
    BY <1>1, <1>4
  <2>2. customer[Head(found)].funnel # "absent"
    BY <2>1 DEF IntakeDocs
  <2>3. one \in Deliveries
    BY DocConstants, <2>1, <1>t DEF Deliveries, HandlerPlaces
  <2>4. one.what = what /\ one.at = "assign" /\ one.phone = Head(found)
        /\ one.seen = customer[Head(found)] /\ one.created = FALSE
    BY DEF NoHandler
  <2>5. handler' = [handler EXCEPT ![h] = one]
    BY <1>2, <1>4
  <2> HIDE DEF one
  <2> QED
    BY <1>2, <2>1, <2>2, <2>3, <2>4, <2>5
<1> QED
  BY <1>3, <1>4

LEMMA InsertWorks ==
  ASSUME IntakeTypeOK, NEW h \in Handlers, InsertCustomer(h)
  PROVE  /\ handler[h].at = "create"
         /\ \/ /\ DocOf(h) # Absent /\ handler' = [handler EXCEPT ![h] = NoHandler]
               /\ UNCHANGED <<customer, order, nationalFirst>>
            \/ \E d \in Deliveries, c \in CustomerDocs :
                 /\ DocOf(h) = Absent /\ Works(h, d, c)
                 /\ d.what = handler[h].what /\ d.phone = handler[h].phone
                 /\ d.at = IF handler[h].what \in ChatIngresses THEN "pend" ELSE "assign"
                 /\ d.seen = Newborn /\ d.created /\ c = Newborn
                 /\ order' = Append(order, handler[h].phone)
                 /\ nationalFirst' = (nationalFirst \/ (order = <<>> /\ handler[h].phone = "national"))
<1> DEFINE place == IF handler[h].what \in ChatIngresses THEN "pend" ELSE "assign"
           d == [handler[h] EXCEPT !.at = place, !.seen = Newborn, !.created = TRUE]
<1>t. /\ handler \in [Handlers -> Deliveries] /\ customer \in [Phones -> CustomerDocs]
      /\ handler[h] \in Deliveries /\ Newborn \in CustomerDocs
  BY DeliveryTypes, DocConstants
<1>1. place \in HandlerPlaces
  BY DEF HandlerPlaces
<1> HIDE DEF place
<1>2. /\ d \in Deliveries
      /\ d.what = handler[h].what /\ d.phone = handler[h].phone /\ d.at = place
      /\ d.seen = Newborn /\ d.created = TRUE
  BY <1>t, <1>1 DEF Deliveries
<1>3. handler[h].at = "create"
  BY DEF InsertCustomer
<1>4. CASE DocOf(h) # Absent
  BY <1>3, <1>4 DEF InsertCustomer, DropDelivery
<1>5. CASE DocOf(h) = Absent
  <2>1. /\ customer' = [customer EXCEPT ![handler[h].phone] = Newborn]
        /\ order' = Append(order, handler[h].phone)
        /\ nationalFirst' = (nationalFirst \/ (order = <<>> /\ handler[h].phone = "national"))
    BY <1>5 DEF InsertCustomer, WriteCustomer
  <2>2. handler' = [handler EXCEPT ![h].at = place, ![h].seen = Newborn, ![h].created = TRUE]
    BY <1>5 DEF InsertCustomer, place
  <2>3. handler' = [handler EXCEPT ![h] = d]
    BY <2>2, <1>t
  <2> HIDE DEF d
  <2> QED
    BY <1>2, <1>3, <1>5, <1>t, <2>1, <2>3 DEF Works, place
<1> QED
  BY <1>4, <1>5

LEMMA AssignWorks ==
  ASSUME IntakeTypeOK, NEW h \in Handlers, AssignIfUnassigned(h)
  PROVE  /\ handler[h].at = "assign"
         /\ \E d \in Deliveries, c \in CustomerDocs :
              /\ Works(h, d, c) /\ GoesOnWith(h, d) /\ d.at = AfterAssign(h)
              /\ d.seen.funnel = handler[h].seen.funnel
              /\ d.seen.templated = handler[h].seen.templated
              /\ c.funnel = DocOf(h).funnel /\ c.templated = DocOf(h).templated
              /\ \/ /\ handler[h].what = "conversation" \/ handler[h].seen.assigned # NoVentor
                    /\ c = DocOf(h) /\ d.seen = handler[h].seen /\ UNCHANGED unassigned
                 \/ /\ handler[h].seen.assigned = NoVentor
                    /\ handler[h].what # "conversation"
                    /\ c = DocOf(h) /\ d.seen.assigned = NoVentor /\ unassigned' = TRUE
                 \/ /\ handler[h].seen.assigned = NoVentor /\ handler[h].what # "conversation"
                    /\ c.assigned # NoVentor /\ d.seen.assigned = c.assigned
                    /\ unassigned' = unassigned
<1>t. /\ handler \in [Handlers -> Deliveries] /\ customer \in [Phones -> CustomerDocs]
      /\ handler[h] \in Deliveries /\ handler[h].phone \in Phones
      /\ handler[h].seen \in CustomerDocs
      /\ DocOf(h) \in CustomerDocs /\ unassigned \in BOOLEAN
  BY DeliveryTypes DEF IntakeTypeOK
<1>p. AfterAssign(h) \in HandlerPlaces
  BY <1>t, DeliveryFields DEF AfterAssign, HandlerPlaces, Ingresses, ChatIngresses,
     FormIngresses
<1>a. handler[h].at = "assign"
  BY DEF AssignIfUnassigned
<1>1. CASE handler[h].what = "conversation" \/ handler[h].seen.assigned # NoVentor
  <2> DEFINE d == [handler[h] EXCEPT !.at = AfterAssign(h)]
  <2>1. d \in Deliveries /\ GoesOnWith(h, d) /\ d.at = AfterAssign(h) /\ d.seen = handler[h].seen
    BY <1>t, <1>p DEF Deliveries, GoesOnWith
  <2>2. handler' = [handler EXCEPT ![h] = d] /\ UNCHANGED <<customer, unassigned>>
    BY <1>1, <1>t DEF AssignIfUnassigned, HandlerTo
  <2>3. Works(h, d, DocOf(h))
    BY <2>2, <1>t DEF Works, DocOf
  <2> HIDE DEF d
  <2> QED
    BY <1>1, <1>a, <1>t, <2>1, <2>2, <2>3
<1>2. CASE ~(handler[h].what = "conversation" \/ handler[h].seen.assigned # NoVentor)
  <2>1. PICK v \in Ventors \cup {NoVentor} :
          /\ customer' = IF v = NoVentor THEN customer
                         ELSE [customer EXCEPT ![handler[h].phone].assigned = v]
          /\ handler' = [handler EXCEPT ![h].at = AfterAssign(h), ![h].seen.assigned = v]
          /\ unassigned' = (unassigned \/ v = NoVentor)
    BY <1>2 DEF AssignIfUnassigned
  <2> DEFINE s == [handler[h].seen EXCEPT !.assigned = v]
             d == [handler[h] EXCEPT !.at = AfterAssign(h), !.seen = s]
             c == IF v = NoVentor THEN DocOf(h) ELSE [DocOf(h) EXCEPT !.assigned = v]
  <2>2. s \in CustomerDocs /\ s.assigned = v /\ s.funnel = handler[h].seen.funnel
        /\ s.templated = handler[h].seen.templated
    BY <1>t, DocFields DEF CustomerDocs
  <2>3. /\ c \in CustomerDocs /\ c.funnel = DocOf(h).funnel /\ c.templated = DocOf(h).templated
        /\ v # NoVentor => c.assigned = v
        /\ v = NoVentor => c = DocOf(h)
    BY <1>t, DocFields DEF CustomerDocs
  <2>4. handler' = [handler EXCEPT ![h] = d]
    BY <2>1, <1>t DEF Deliveries
  <2>5. customer' = [customer EXCEPT ![handler[h].phone] = c]
    BY <2>1, <1>t DEF DocOf
  <2> HIDE DEF s, c
  <2>6. d \in Deliveries /\ GoesOnWith(h, d) /\ d.at = AfterAssign(h) /\ d.seen = s
    BY <1>t, <1>p, <2>2 DEF Deliveries, GoesOnWith
  <2> HIDE DEF d
  <2>7. Works(h, d, c)
    BY <2>4, <2>5 DEF Works
  <2>8. CASE v = NoVentor
    BY <1>2, <1>a, <2>1, <2>2, <2>3, <2>6, <2>7, <2>8
  <2>9. CASE v # NoVentor
    <3>1. unassigned' = unassigned
      BY <2>1, <2>9, <1>t
    <3> QED
      BY <1>2, <1>a, <2>2, <2>3, <2>6, <2>7, <2>9, <3>1
  <2> QED
    BY <2>8, <2>9
<1> QED
  BY <1>1, <1>2

LEMMA FlowSaveWorks ==
  ASSUME IntakeTypeOK, NEW h \in Handlers, FlowSave(h)
  PROVE  /\ handler[h].at = "flow save"
         /\ \E v \in Ventors \cup {NoVentor}, c \in CustomerDocs :
              /\ Works(h, NoHandler, c)
              /\ c.assigned = (IF v # NoVentor /\ handler[h].seen.assigned = NoVentor
                               THEN v ELSE DocOf(h).assigned)
              /\ c.funnel = (IF FunnelAfterFlow(v) = handler[h].seen.funnel
                             THEN DocOf(h).funnel ELSE FunnelAfterFlow(v))
              /\ c.templated = DocOf(h).templated
              /\ unassigned' = (unassigned \/ v = NoVentor)
<1>t. /\ handler \in [Handlers -> Deliveries] /\ customer \in [Phones -> CustomerDocs]
      /\ handler[h] \in Deliveries /\ handler[h].phone \in Phones
      /\ handler[h].seen \in CustomerDocs
      /\ DocOf(h) \in CustomerDocs
  BY DeliveryTypes
<1>1. PICK v \in Ventors \cup {NoVentor} :
        /\ customer' = [customer EXCEPT ![handler[h].phone] =
             [DocOf(h) EXCEPT
               !.assigned = IF v # NoVentor /\ handler[h].seen.assigned = NoVentor THEN v ELSE @,
               !.funnel = IF FunnelAfterFlow(v) = handler[h].seen.funnel THEN @
                          ELSE FunnelAfterFlow(v)]]
        /\ unassigned' = (unassigned \/ v = NoVentor)
  BY DEF FlowSave, WriteCustomer
<1>2. handler[h].at = "flow save" /\ handler' = [handler EXCEPT ![h] = NoHandler]
  BY DEF FlowSave, HandlerAt, DropDelivery
<1> DEFINE a == IF v # NoVentor /\ handler[h].seen.assigned = NoVentor THEN v
                ELSE DocOf(h).assigned
           f == IF FunnelAfterFlow(v) = handler[h].seen.funnel THEN DocOf(h).funnel
                ELSE FunnelAfterFlow(v)
           c == [DocOf(h) EXCEPT !.assigned = a, !.funnel = f]
<1>3. a \in Ventors \cup {NoVentor} /\ f \in FunnelStates
  BY <1>t, DocFields DEF FunnelAfterFlow, FunnelStates
<1>4. customer' = [customer EXCEPT ![handler[h].phone] = c]
  BY <1>1
<1> HIDE DEF a, f
<1>5. c \in CustomerDocs
  BY <1>t, <1>3, DocFields
<1>6. c.assigned = a /\ c.funnel = f /\ c.templated = DocOf(h).templated
  BY <1>t DEF CustomerDocs
<1> HIDE DEF c
<1> QED
  BY <1>1, <1>2, <1>4, <1>5, <1>6 DEF Works, a, f

\* A step of h: what it has in hand becomes d, its customer c, and nothing else changes
\* of the deliveries and the customers.
StepOf(h, d, c) ==
  /\ handler'[h] = d /\ \A g \in Handlers : g # h => handler'[g] = handler[g]
  /\ customer'[handler[h].phone] = c
  /\ \A p \in Phones : p # handler[h].phone => customer'[p] = customer[p]

LEMMA HandlerFields ==
  /\ NoHandler.at = "idle" /\ NoHandler.what = "text" /\ NoHandler.phone = "international"
  /\ NoHandler.seen.assigned = NoVentor /\ NoHandler.created = FALSE
  /\ Absent.assigned = NoVentor /\ Absent.funnel = "absent" /\ Absent.templated = FALSE
  /\ Newborn.assigned = NoVentor /\ Newborn.funnel = "none" /\ Newborn.templated = FALSE
BY DEF NoHandler, Absent, Newborn

\* What h holds after a step on a customer who is there.
HoldsOn(h, d) == d = NoHandler \/ (GoesOnWith(h, d) /\ d.at \notin {"idle", "create"})

LEMMA DocsStep ==
  ASSUME IntakeTypeOK, IntakeDocs, NEW h \in Handlers, NEW d \in Deliveries,
         NEW c \in CustomerDocs, StepOf(h, d, c), HoldsOn(h, d), order' = order,
         c.funnel # "absent",
         d.at \in {"pend", "refetch", "decide", "mark", "emit"} => d.what \in ChatIngresses,
         d.at = "flow save" => d.what = "flow"
  PROVE  IntakeDocs'
<1>t. \A g \in Handlers : handler[g].phone \in Phones
  BY DeliveryTypes
<1>o. \A i \in DOMAIN order : order[i] \in Phones
  <2>1. order \in Seq(Phones)
    BY IntakeTypeIs
  <2>2. DOMAIN order = 1..Len(order)
    BY <2>1, LenProperties
  <2>3. ASSUME NEW i \in DOMAIN order PROVE order[i] \in Phones
    BY <2>1, <2>2, <2>3, ElementOfSeq
  <2> QED
    BY <2>3
<1>1. \A p \in Phones : customer'[p].funnel = "absent" => customer'[p] = Absent
  BY <1>t DEF IntakeDocs, StepOf
<1>2. \A p \in Phones : customer[p].funnel # "absent" => customer'[p].funnel # "absent"
  BY <1>t DEF StepOf
<1>3. \A i \in DOMAIN order' : customer'[order'[i]].funnel # "absent"
  BY <1>2, <1>o DEF IntakeDocs
<1>4. ASSUME NEW g \in Handlers
      PROVE  /\ handler'[g].at \notin {"idle", "create"} =>
                  customer'[handler'[g].phone].funnel # "absent"
             /\ handler'[g].what \in ChatIngresses => handler'[g].phone = "international"
             /\ handler'[g].at \in {"pend", "refetch", "decide", "mark", "emit"} =>
                  handler'[g].what \in ChatIngresses
             /\ handler'[g].at = "flow save" => handler'[g].what = "flow"
  <2>1. CASE g # h
    <3>1. handler'[g] = handler[g]
      BY <2>1 DEF StepOf
    <3> QED
      BY <1>t, <1>2, <3>1 DEF IntakeDocs
  <2>2. CASE g = h /\ d = NoHandler
    <3>1. handler'[g] = NoHandler
      BY <2>2 DEF StepOf
    <3> QED
      BY <3>1, HandlerFields
  <2>3. CASE g = h /\ d # NoHandler
    <3>1. handler'[g] = d /\ d.phone = handler[h].phone /\ d.what = handler[h].what
          /\ customer'[d.phone] = c
      BY <2>3 DEF StepOf, HoldsOn, GoesOnWith
    <3> QED
      BY <3>1 DEF IntakeDocs
  <2> QED
    BY <2>1, <2>2, <2>3
<1> QED
  BY <1>1, <1>3, <1>4 DEF IntakeDocs

LEMMA WorksStep ==
  ASSUME IntakeTypeOK, NEW h \in Handlers, NEW d \in Deliveries, NEW c \in CustomerDocs,
         Works(h, d, c)
  PROVE  StepOf(h, d, c)
BY WorksThere DEF StepOf

LEMMA SeenStep ==
  ASSUME IntakeTypeOK, SeenStays, ReadyHasVentor, NEW h \in Handlers, NEW d \in Deliveries,
         NEW c \in CustomerDocs, StepOf(h, d, c), HoldsOn(h, d),
         ~unassigned' => ~unassigned,
         customer[handler[h].phone].assigned # NoVentor => c.assigned # NoVentor,
         d # NoHandler => (d.seen.assigned # NoVentor => c.assigned # NoVentor),
         (d.at = "ready" /\ ~unassigned') => c.assigned # NoVentor,
         (c.funnel = "ready_for_llm" /\ ~unassigned') => c.assigned # NoVentor
  PROVE  SeenStays' /\ ReadyHasVentor'
<1>t. \A g \in Handlers : handler[g].phone \in Phones
  BY DeliveryTypes
<1>1. \A p \in Phones : customer[p].assigned # NoVentor => customer'[p].assigned # NoVentor
  BY <1>t DEF StepOf
<1>2. ReadyHasVentor'
  <2>1. ASSUME NEW p \in Phones, customer'[p].funnel = "ready_for_llm", ~unassigned'
        PROVE  customer'[p].assigned # NoVentor
    <3>1. CASE p = handler[h].phone
      BY <2>1, <3>1 DEF StepOf
    <3>2. CASE p # handler[h].phone
      BY <2>1, <3>2 DEF StepOf, ReadyHasVentor
    <3> QED
      BY <3>1, <3>2
  <2> QED
    BY <2>1 DEF ReadyHasVentor
<1>3. ASSUME NEW g \in Handlers
      PROVE  /\ handler'[g].seen.assigned # NoVentor =>
                  customer'[handler'[g].phone].assigned # NoVentor
             /\ (handler'[g].at = "ready" /\ ~unassigned') =>
                  customer'[handler'[g].phone].assigned # NoVentor
  <2>1. CASE g # h
    <3>1. handler'[g] = handler[g]
      BY <2>1 DEF StepOf
    <3> QED
      BY <1>t, <1>1, <3>1 DEF SeenStays
  <2>2. CASE g = h /\ d = NoHandler
    <3>1. handler'[g] = NoHandler
      BY <2>2 DEF StepOf
    <3> QED
      BY <3>1, HandlerFields
  <2>3. CASE g = h /\ d # NoHandler
    <3>1. handler'[g] = d /\ d.phone = handler[h].phone /\ customer'[d.phone] = c
      BY <2>3 DEF StepOf, HoldsOn, GoesOnWith
    <3> QED
      BY <2>3, <3>1
  <2> QED
    BY <2>1, <2>2, <2>3
<1> QED
  BY <1>2, <1>3 DEF SeenStays

\* What the one delivery under way has seen of its customer.
Sees(d, c) ==
  /\ d.at \in {"pend", "assign", "decide", "mark", "flow save"} => d.seen = c
  /\ d.at = "pend" => d.seen = Newborn
  /\ d.at = "refetch" => c.funnel = "pending_flow"
  /\ (d.at \in {"assign", "decide"} /\ d.created /\ d.what = "text") =>
       d.seen.funnel = "pending_flow"
  /\ d.at = "mark" => d.seen.funnel = "pending_flow" /\ ~d.seen.templated

Alone(h) == \A g \in Handlers : InHands(g) => g = h

LEMMA AloneThen ==
  ASSUME AloneSees, ~raced, NEW h \in Handlers, InHands(h)
  PROVE  Alone(h) /\ Sees(handler[h], customer[handler[h].phone])
BY DEF AloneSees, Alone, Sees

LEMMA AloneStep ==
  ASSUME AloneSees, NEW h \in Handlers, NEW d \in Deliveries, NEW c \in CustomerDocs,
         StepOf(h, d, c), HoldsOn(h, d), InHands(h), raced' = raced,
         (~raced /\ d # NoHandler) => Sees(d, c)
  PROVE  AloneSees'
<1> SUFFICES ASSUME ~raced PROVE AloneSees'
  BY DEF AloneSees
<1>1. Alone(h)
  BY AloneThen
<1>2. \A g \in Handlers : g # h => handler'[g].at = "idle"
  BY <1>1 DEF Alone, InHands, StepOf
<1>3. ASSUME NEW g \in Handlers, handler'[g].at # "idle"
      PROVE  g = h /\ Sees(handler'[g], customer'[handler'[g].phone])
  <2>1. g = h /\ handler'[g] = d
    BY <1>2, <1>3 DEF StepOf
  <2>2. d # NoHandler
    BY <1>3, <2>1, HandlerFields
  <2>3. d.phone = handler[h].phone /\ customer'[handler[h].phone] = c
    BY <2>2 DEF HoldsOn, GoesOnWith, StepOf
  <2> QED
    BY <2>1, <2>2, <2>3
<1> QED
  BY <1>3 DEF AloneSees, InHands, Sees

LEMMA FirstStep ==
  ASSUME IntakeTypeOK, FirstIsFound, NEW h \in Handlers, NEW d \in Deliveries,
         NEW c \in CustomerDocs, StepOf(h, d, c), HoldsOn(h, d), c.funnel # "absent",
         order' = order, raced' = raced, nationalFirst' = nationalFirst
  PROVE  FirstIsFound'
<1>1. d.at # "create"
  BY HandlerFields DEF HoldsOn
<1>2. \A g \in Handlers : handler'[g].at = "create" => handler[g].at = "create"
  BY <1>1 DEF StepOf
<1>3. customer["international"] # Absent => customer'["international"] # Absent
  <2>1. c # Absent
    BY HandlerFields
  <2> QED
    BY <2>1 DEF StepOf, Phones
<1> QED
  BY <1>2, <1>3 DEF FirstIsFound

LEMMA TemplateStep ==
  ASSUME IntakeTypeOK, IntakeDocs, AloneSees, TemplateIsMarked, NEW h \in Handlers,
         NEW d \in Deliveries, NEW c \in CustomerDocs, StepOf(h, d, c), InHands(h),
         raced' = raced, templates' = templates,
         customer[handler[h].phone].templated => c.templated,
         d.at = "emit" => handler[h].at = "mark" /\ c.templated
  PROVE  TemplateIsMarked'
<1> SUFFICES ASSUME ~raced PROVE TemplateIsMarked'
  BY DEF TemplateIsMarked
<1>1. Alone(h) /\ Sees(handler[h], customer[handler[h].phone])
  BY AloneThen
<1>2. templates \in Nat
  BY DEF IntakeTypeOK
<1>3. customer["international"].templated => customer'["international"].templated
  BY DEF StepOf, Phones
<1>4. ASSUME NEW g \in Handlers, handler'[g].at = "emit"
      PROVE  templates = 0 /\ customer'["international"].templated
  <2>1. g = h /\ d.at = "emit"
    BY <1>1, <1>4 DEF Alone, InHands, StepOf
  <2>2. handler[h].phone = "international"
    BY <2>1 DEF IntakeDocs
  <2>3. ~customer[handler[h].phone].templated
    BY <1>1, <2>1 DEF Sees
  <2>4. templates # 1
    BY <2>2, <2>3 DEF TemplateIsMarked
  <2>5. customer'["international"].templated
    BY <2>1, <2>2 DEF StepOf
  <2> QED
    BY <1>2, <2>4, <2>5 DEF TemplateIsMarked
<1> QED
  BY <1>3, <1>4 DEF TemplateIsMarked

LEMMA NoticeStep ==
  ASSUME AloneSees, NoticeIsMarked, NEW h \in Handlers, NEW d \in Deliveries,
         NEW c \in CustomerDocs, StepOf(h, d, c), InHands(h),
         raced' = raced, intakeCrashes' = intakeCrashes, notices' = notices,
         lead.notified => lead'.notified,
         handler[h].at = "notify mark" => lead'.notified,
         d.at = "notify send" => ~lead'.notified
  PROVE  NoticeIsMarked'
<1> SUFFICES ASSUME ~raced, intakeCrashes = 0 PROVE NoticeIsMarked'
  BY DEF NoticeIsMarked
<1>1. Alone(h)
  BY AloneThen
<1>2. \A g \in Handlers : handler[g].at = "notify mark" => lead'.notified
  BY <1>1 DEF Alone, InHands
<1>3. \A g \in Handlers : handler'[g].at = "notify send" => g = h
  BY <1>1 DEF Alone, InHands, StepOf
<1>4. \A g \in Handlers : handler'[g].at = "notify send" => ~lead'.notified
  BY <1>3 DEF StepOf
<1> QED
  BY <1>2, <1>4 DEF NoticeIsMarked

-----------------------------------------------------------------------------
(* A step on a customer who is there                                         *)

FitsDocs(h, d, c) ==
  /\ HoldsOn(h, d) /\ c.funnel # "absent"
  /\ d.at \in {"pend", "refetch", "decide", "mark", "emit"} => d.what \in ChatIngresses
  /\ d.at = "flow save" => d.what = "flow"

FitsSeen(h, d, c) ==
  /\ ~unassigned' => ~unassigned
  /\ customer[handler[h].phone].assigned # NoVentor => c.assigned # NoVentor
  /\ d # NoHandler => (d.seen.assigned # NoVentor => c.assigned # NoVentor)
  /\ (d.at = "ready" /\ ~unassigned') => c.assigned # NoVentor
  /\ (c.funnel = "ready_for_llm" /\ ~unassigned') => c.assigned # NoVentor

FitsAlone(h, d, c) == (~raced /\ d # NoHandler) => Sees(d, c)

IntakeRest ==
  /\ IntakeDocs /\ SeenStays /\ AloneSees /\ FirstIsFound /\ ReadyHasVentor

LEMMA FitsKeep ==
  ASSUME IntakeInv, NEW h \in Handlers, NEW d \in Deliveries, NEW c \in CustomerDocs,
         StepOf(h, d, c), InHands(h), UNCHANGED <<order, raced, nationalFirst>>,
         FitsDocs(h, d, c), FitsSeen(h, d, c), FitsAlone(h, d, c)
  PROVE  IntakeRest'
<1> USE DEF IntakeInv
<1>1. IntakeDocs'
  BY DocsStep DEF FitsDocs
<1>2. SeenStays' /\ ReadyHasVentor'
  BY SeenStep DEF FitsDocs, FitsSeen
<1>3. AloneSees'
  BY AloneStep DEF FitsDocs, FitsAlone
<1>4. FirstIsFound'
  BY FirstStep DEF FitsDocs
<1> QED
  BY <1>1, <1>2, <1>3, <1>4 DEF IntakeRest

\* What holds of the customer a delivery works for.
LEMMA WorksFor ==
  ASSUME IntakeInv, NEW h \in Handlers, InHands(h), handler[h].at # "create"
  PROVE  /\ DocOf(h).funnel # "absent"
         /\ handler[h].seen.assigned # NoVentor => DocOf(h).assigned # NoVentor
         /\ (DocOf(h).funnel = "ready_for_llm" /\ ~unassigned) => DocOf(h).assigned # NoVentor
         /\ ~raced => Sees(handler[h], DocOf(h))
<1>1. DocOf(h) = customer[handler[h].phone] /\ handler[h].phone \in Phones
  BY DeliveryTypes DEF DocOf, IntakeInv
<1>2. ~raced => Sees(handler[h], DocOf(h))
  BY <1>1, AloneThen DEF IntakeInv
<1> QED
  BY <1>1, <1>2 DEF IntakeInv, IntakeDocs, SeenStays, ReadyHasVentor, InHands

LEMMA PendFlowKeeps ==
  ASSUME IntakeInv, NEW h \in Handlers, PendFlow(h)
  PROVE  IntakeRest'
<1>t. IntakeTypeOK
  BY DEF IntakeInv
<1>u. UNCHANGED <<order, raced, nationalFirst, unassigned>>
  BY DEF PendFlow, intakeDb, intakeHistory
<1>g. InHands(h) /\ handler[h].at = "pend"
  BY <1>t, PendFlowWorks DEF InHands
<1>w. /\ DocOf(h).funnel # "absent"
      /\ handler[h].seen.assigned # NoVentor => DocOf(h).assigned # NoVentor
      /\ (DocOf(h).funnel = "ready_for_llm" /\ ~unassigned) => DocOf(h).assigned # NoVentor
      /\ ~raced => Sees(handler[h], DocOf(h))
  BY <1>g, WorksFor
<1>1. ASSUME NEW d \in Deliveries, NEW c \in CustomerDocs,
             Works(h, d, c),
             GoesOnWith(h, d),
             d.at = "refetch",
             d.seen = handler[h].seen,
             c.funnel = "pending_flow",
             c.assigned = DocOf(h).assigned,
             c.templated = DocOf(h).templated
      PROVE  IntakeRest'
  <2>1. StepOf(h, d, c)
    BY <1>1, <1>t, WorksStep
  <2>2. FitsDocs(h, d, c)
    BY <1>1, <1>g, <1>w, HandlerFields DEF FitsDocs, HoldsOn, GoesOnWith, IntakeInv, IntakeDocs
  <2>3. FitsSeen(h, d, c)
    BY <1>1, <1>g, <1>u, <1>w, HandlerFields DEF FitsSeen, DocOf, IntakeInv, SeenStays
  <2>4. FitsAlone(h, d, c)
    BY <1>1, <1>g, <1>w, HandlerFields DEF FitsAlone, GoesOnWith, Sees, WantsTemplate
  <2> QED
    BY <2>1, <2>2, <2>3, <2>4, <1>g, <1>u, FitsKeep
<1> QED
  BY <1>t, PendFlowWorks, <1>1

LEMMA RefetchCustomerKeeps ==
  ASSUME IntakeInv, NEW h \in Handlers, RefetchCustomer(h)
  PROVE  IntakeRest'
<1>t. IntakeTypeOK
  BY DEF IntakeInv
<1>u. UNCHANGED <<order, raced, nationalFirst, unassigned>>
  BY DEF RefetchCustomer, intakeDb, intakeHistory
<1>g. InHands(h) /\ handler[h].at = "refetch"
  BY <1>t, RefetchCustomerWorks DEF InHands
<1>w. /\ DocOf(h).funnel # "absent"
      /\ handler[h].seen.assigned # NoVentor => DocOf(h).assigned # NoVentor
      /\ (DocOf(h).funnel = "ready_for_llm" /\ ~unassigned) => DocOf(h).assigned # NoVentor
      /\ ~raced => Sees(handler[h], DocOf(h))
  BY <1>g, WorksFor
<1>1. ASSUME NEW d \in Deliveries, NEW c \in CustomerDocs,
             Works(h, d, c),
             GoesOnWith(h, d),
             d.at = "assign",
             d.seen = DocOf(h),
             c = DocOf(h)
      PROVE  IntakeRest'
  <2>1. StepOf(h, d, c)
    BY <1>1, <1>t, WorksStep
  <2>2. FitsDocs(h, d, c)
    BY <1>1, <1>g, <1>w, HandlerFields DEF FitsDocs, HoldsOn, GoesOnWith, IntakeInv, IntakeDocs
  <2>3. FitsSeen(h, d, c)
    BY <1>1, <1>g, <1>u, <1>w, HandlerFields DEF FitsSeen, DocOf, IntakeInv, SeenStays
  <2>4. FitsAlone(h, d, c)
    BY <1>1, <1>g, <1>w, HandlerFields DEF FitsAlone, GoesOnWith, Sees, WantsTemplate
  <2> QED
    BY <2>1, <2>2, <2>3, <2>4, <1>g, <1>u, FitsKeep
<1> QED
  BY <1>t, RefetchCustomerWorks, <1>1

LEMMA DecideTemplateKeeps ==
  ASSUME IntakeInv, NEW h \in Handlers, DecideTemplate(h)
  PROVE  IntakeRest'
<1>t. IntakeTypeOK
  BY DEF IntakeInv
<1>u. UNCHANGED <<order, raced, nationalFirst, unassigned>>
  BY DEF DecideTemplate, intakeDb, intakeHistory
<1>g. InHands(h) /\ handler[h].at = "decide" /\ handler[h].what = "text"
  BY <1>t, DecideTemplateWorks DEF InHands
<1>w. /\ DocOf(h).funnel # "absent"
      /\ handler[h].seen.assigned # NoVentor => DocOf(h).assigned # NoVentor
      /\ (DocOf(h).funnel = "ready_for_llm" /\ ~unassigned) => DocOf(h).assigned # NoVentor
      /\ ~raced => Sees(handler[h], DocOf(h))
  BY <1>g, WorksFor
<1>1. ASSUME NEW d \in Deliveries, NEW c \in CustomerDocs,
             Works(h, d, c),
             GoesOnWith(h, d),
             d.at = "mark",
             d.seen = handler[h].seen,
             WantsTemplate(handler[h].seen, handler[h].created),
             c = DocOf(h)
      PROVE  IntakeRest'
  <2>1. StepOf(h, d, c)
    BY <1>1, <1>t, WorksStep
  <2>2. FitsDocs(h, d, c)
    BY <1>1, <1>g, <1>w, HandlerFields DEF FitsDocs, HoldsOn, GoesOnWith, IntakeInv, IntakeDocs
  <2>3. FitsSeen(h, d, c)
    BY <1>1, <1>g, <1>u, <1>w, HandlerFields DEF FitsSeen, DocOf, IntakeInv, SeenStays
  <2>4. FitsAlone(h, d, c)
    BY <1>1, <1>g, <1>w, HandlerFields DEF FitsAlone, GoesOnWith, Sees, WantsTemplate
  <2> QED
    BY <2>1, <2>2, <2>3, <2>4, <1>g, <1>u, FitsKeep
<1>2. ASSUME NEW d \in Deliveries, NEW c \in CustomerDocs,
             Works(h, d, c),
             d = NoHandler,
             c = DocOf(h)
      PROVE  IntakeRest'
  <2>1. StepOf(h, d, c)
    BY <1>2, <1>t, WorksStep
  <2>2. FitsDocs(h, d, c)
    BY <1>2, <1>g, <1>w, HandlerFields DEF FitsDocs, HoldsOn, GoesOnWith, IntakeInv, IntakeDocs
  <2>3. FitsSeen(h, d, c)
    BY <1>2, <1>g, <1>u, <1>w, HandlerFields DEF FitsSeen, DocOf, IntakeInv, SeenStays
  <2>4. FitsAlone(h, d, c)
    BY <1>2, <1>g, <1>w, HandlerFields DEF FitsAlone, GoesOnWith, Sees, WantsTemplate
  <2> QED
    BY <2>1, <2>2, <2>3, <2>4, <1>g, <1>u, FitsKeep
<1> QED
  BY <1>t, DecideTemplateWorks, <1>1, <1>2

LEMMA MarkTemplateKeeps ==
  ASSUME IntakeInv, NEW h \in Handlers, MarkTemplate(h)
  PROVE  IntakeRest'
<1>t. IntakeTypeOK
  BY DEF IntakeInv
<1>u. UNCHANGED <<order, raced, nationalFirst, unassigned>>
  BY DEF MarkTemplate, intakeDb, intakeHistory
<1>g. InHands(h) /\ handler[h].at = "mark"
  BY <1>t, MarkTemplateWorks DEF InHands
<1>w. /\ DocOf(h).funnel # "absent"
      /\ handler[h].seen.assigned # NoVentor => DocOf(h).assigned # NoVentor
      /\ (DocOf(h).funnel = "ready_for_llm" /\ ~unassigned) => DocOf(h).assigned # NoVentor
      /\ ~raced => Sees(handler[h], DocOf(h))
  BY <1>g, WorksFor
<1>1. ASSUME NEW d \in Deliveries, NEW c \in CustomerDocs,
             Works(h, d, c),
             GoesOnWith(h, d),
             d.at = "emit",
             d.seen = handler[h].seen,
             c.funnel = "pending_flow",
             c.assigned = DocOf(h).assigned,
             c.templated = TRUE
      PROVE  IntakeRest'
  <2>1. StepOf(h, d, c)
    BY <1>1, <1>t, WorksStep
  <2>2. FitsDocs(h, d, c)
    BY <1>1, <1>g, <1>w, HandlerFields DEF FitsDocs, HoldsOn, GoesOnWith, IntakeInv, IntakeDocs
  <2>3. FitsSeen(h, d, c)
    BY <1>1, <1>g, <1>u, <1>w, HandlerFields DEF FitsSeen, DocOf, IntakeInv, SeenStays
  <2>4. FitsAlone(h, d, c)
    BY <1>1, <1>g, <1>w, HandlerFields DEF FitsAlone, GoesOnWith, Sees, WantsTemplate
  <2> QED
    BY <2>1, <2>2, <2>3, <2>4, <1>g, <1>u, FitsKeep
<1> QED
  BY <1>t, MarkTemplateWorks, <1>1

LEMMA SendTemplateKeeps ==
  ASSUME IntakeInv, NEW h \in Handlers, SendTemplate(h)
  PROVE  IntakeRest'
<1>t. IntakeTypeOK
  BY DEF IntakeInv
<1>u. UNCHANGED <<order, raced, nationalFirst, unassigned>>
  BY DEF SendTemplate, intakeDb, intakeHistory
<1>g. InHands(h) /\ handler[h].at = "emit"
  BY <1>t, SendTemplateWorks DEF InHands
<1>w. /\ DocOf(h).funnel # "absent"
      /\ handler[h].seen.assigned # NoVentor => DocOf(h).assigned # NoVentor
      /\ (DocOf(h).funnel = "ready_for_llm" /\ ~unassigned) => DocOf(h).assigned # NoVentor
      /\ ~raced => Sees(handler[h], DocOf(h))
  BY <1>g, WorksFor
<1>1. ASSUME NEW d \in Deliveries, NEW c \in CustomerDocs,
             Works(h, d, c),
             d = NoHandler,
             c = DocOf(h)
      PROVE  IntakeRest'
  <2>1. StepOf(h, d, c)
    BY <1>1, <1>t, WorksStep
  <2>2. FitsDocs(h, d, c)
    BY <1>1, <1>g, <1>w, HandlerFields DEF FitsDocs, HoldsOn, GoesOnWith, IntakeInv, IntakeDocs
  <2>3. FitsSeen(h, d, c)
    BY <1>1, <1>g, <1>u, <1>w, HandlerFields DEF FitsSeen, DocOf, IntakeInv, SeenStays
  <2>4. FitsAlone(h, d, c)
    BY <1>1, <1>g, <1>w, HandlerFields DEF FitsAlone, GoesOnWith, Sees, WantsTemplate
  <2> QED
    BY <2>1, <2>2, <2>3, <2>4, <1>g, <1>u, FitsKeep
<1> QED
  BY <1>t, SendTemplateWorks, <1>1

LEMMA FlowReadKeeps ==
  ASSUME IntakeInv, NEW h \in Handlers, FlowRead(h)
  PROVE  IntakeRest'
<1>t. IntakeTypeOK
  BY DEF IntakeInv
<1>u. UNCHANGED <<order, raced, nationalFirst, unassigned>>
  BY DEF FlowRead, intakeDb, intakeHistory
<1>g. InHands(h) /\ handler[h].at = "flow read" /\ handler[h].what = "flow"
  BY <1>t, FlowReadWorks DEF InHands
<1>w. /\ DocOf(h).funnel # "absent"
      /\ handler[h].seen.assigned # NoVentor => DocOf(h).assigned # NoVentor
      /\ (DocOf(h).funnel = "ready_for_llm" /\ ~unassigned) => DocOf(h).assigned # NoVentor
      /\ ~raced => Sees(handler[h], DocOf(h))
  BY <1>g, WorksFor
<1>1. ASSUME NEW d \in Deliveries, NEW c \in CustomerDocs,
             Works(h, d, c),
             GoesOnWith(h, d),
             d.at = "flow save",
             d.seen = DocOf(h),
             c = DocOf(h)
      PROVE  IntakeRest'
  <2>1. StepOf(h, d, c)
    BY <1>1, <1>t, WorksStep
  <2>2. FitsDocs(h, d, c)
    BY <1>1, <1>g, <1>w, HandlerFields DEF FitsDocs, HoldsOn, GoesOnWith, IntakeInv, IntakeDocs
  <2>3. FitsSeen(h, d, c)
    BY <1>1, <1>g, <1>u, <1>w, HandlerFields DEF FitsSeen, DocOf, IntakeInv, SeenStays
  <2>4. FitsAlone(h, d, c)
    BY <1>1, <1>g, <1>w, HandlerFields DEF FitsAlone, GoesOnWith, Sees, WantsTemplate
  <2> QED
    BY <2>1, <2>2, <2>3, <2>4, <1>g, <1>u, FitsKeep
<1> QED
  BY <1>t, FlowReadWorks, <1>1

LEMMA SetReadyKeeps ==
  ASSUME IntakeInv, NEW h \in Handlers, SetReady(h)
  PROVE  IntakeRest'
<1>t. IntakeTypeOK
  BY DEF IntakeInv
<1>u. UNCHANGED <<order, raced, nationalFirst, unassigned>>
  BY DEF SetReady, intakeDb, intakeHistory
<1>g. InHands(h) /\ handler[h].at = "ready"
  BY <1>t, SetReadyWorks DEF InHands
<1>w. /\ DocOf(h).funnel # "absent"
      /\ handler[h].seen.assigned # NoVentor => DocOf(h).assigned # NoVentor
      /\ (DocOf(h).funnel = "ready_for_llm" /\ ~unassigned) => DocOf(h).assigned # NoVentor
      /\ ~raced => Sees(handler[h], DocOf(h))
  BY <1>g, WorksFor
<1>1. ASSUME NEW d \in Deliveries, NEW c \in CustomerDocs,
             Works(h, d, c),
             GoesOnWith(h, d),
             d.at = "processed",
             d.seen = handler[h].seen,
             c.funnel = "ready_for_llm",
             c.assigned = DocOf(h).assigned,
             c.templated = DocOf(h).templated
      PROVE  IntakeRest'
  <2>1. StepOf(h, d, c)
    BY <1>1, <1>t, WorksStep
  <2>2. FitsDocs(h, d, c)
    BY <1>1, <1>g, <1>w, HandlerFields DEF FitsDocs, HoldsOn, GoesOnWith, IntakeInv, IntakeDocs
  <2>3. FitsSeen(h, d, c)
    BY <1>1, <1>g, <1>u, <1>w, HandlerFields DEF FitsSeen, DocOf, IntakeInv, SeenStays
  <2>4. FitsAlone(h, d, c)
    BY <1>1, <1>g, <1>w, HandlerFields DEF FitsAlone, GoesOnWith, Sees, WantsTemplate
  <2> QED
    BY <2>1, <2>2, <2>3, <2>4, <1>g, <1>u, FitsKeep
<1> QED
  BY <1>t, SetReadyWorks, <1>1

LEMMA ProcessLeadKeeps ==
  ASSUME IntakeInv, NEW h \in Handlers, ProcessLead(h)
  PROVE  IntakeRest'
<1>t. IntakeTypeOK
  BY DEF IntakeInv
<1>u. UNCHANGED <<order, raced, nationalFirst, unassigned>>
  BY DEF ProcessLead, intakeDb, intakeHistory
<1>g. InHands(h) /\ handler[h].at = "processed"
  BY <1>t, ProcessLeadWorks DEF InHands
<1>w. /\ DocOf(h).funnel # "absent"
      /\ handler[h].seen.assigned # NoVentor => DocOf(h).assigned # NoVentor
      /\ (DocOf(h).funnel = "ready_for_llm" /\ ~unassigned) => DocOf(h).assigned # NoVentor
      /\ ~raced => Sees(handler[h], DocOf(h))
  BY <1>g, WorksFor
<1>1. ASSUME NEW d \in Deliveries, NEW c \in CustomerDocs,
             Works(h, d, c),
             GoesOnWith(h, d),
             d.at = "notify look",
             d.seen = handler[h].seen,
             c = DocOf(h)
      PROVE  IntakeRest'
  <2>1. StepOf(h, d, c)
    BY <1>1, <1>t, WorksStep
  <2>2. FitsDocs(h, d, c)
    BY <1>1, <1>g, <1>w, HandlerFields DEF FitsDocs, HoldsOn, GoesOnWith, IntakeInv, IntakeDocs
  <2>3. FitsSeen(h, d, c)
    BY <1>1, <1>g, <1>u, <1>w, HandlerFields DEF FitsSeen, DocOf, IntakeInv, SeenStays
  <2>4. FitsAlone(h, d, c)
    BY <1>1, <1>g, <1>w, HandlerFields DEF FitsAlone, GoesOnWith, Sees, WantsTemplate
  <2> QED
    BY <2>1, <2>2, <2>3, <2>4, <1>g, <1>u, FitsKeep
<1>2. ASSUME NEW d \in Deliveries, NEW c \in CustomerDocs,
             Works(h, d, c),
             d = NoHandler,
             c = DocOf(h)
      PROVE  IntakeRest'
  <2>1. StepOf(h, d, c)
    BY <1>2, <1>t, WorksStep
  <2>2. FitsDocs(h, d, c)
    BY <1>2, <1>g, <1>w, HandlerFields DEF FitsDocs, HoldsOn, GoesOnWith, IntakeInv, IntakeDocs
  <2>3. FitsSeen(h, d, c)
    BY <1>2, <1>g, <1>u, <1>w, HandlerFields DEF FitsSeen, DocOf, IntakeInv, SeenStays
  <2>4. FitsAlone(h, d, c)
    BY <1>2, <1>g, <1>w, HandlerFields DEF FitsAlone, GoesOnWith, Sees, WantsTemplate
  <2> QED
    BY <2>1, <2>2, <2>3, <2>4, <1>g, <1>u, FitsKeep
<1> QED
  BY <1>t, ProcessLeadWorks, <1>1, <1>2

LEMMA NotifyLookKeeps ==
  ASSUME IntakeInv, NEW h \in Handlers, NotifyLook(h)
  PROVE  IntakeRest'
<1>t. IntakeTypeOK
  BY DEF IntakeInv
<1>u. UNCHANGED <<order, raced, nationalFirst, unassigned>>
  BY DEF NotifyLook, intakeDb, intakeHistory
<1>g. InHands(h) /\ handler[h].at = "notify look"
  BY <1>t, NotifyLookWorks DEF InHands
<1>w. /\ DocOf(h).funnel # "absent"
      /\ handler[h].seen.assigned # NoVentor => DocOf(h).assigned # NoVentor
      /\ (DocOf(h).funnel = "ready_for_llm" /\ ~unassigned) => DocOf(h).assigned # NoVentor
      /\ ~raced => Sees(handler[h], DocOf(h))
  BY <1>g, WorksFor
<1>1. ASSUME NEW d \in Deliveries, NEW c \in CustomerDocs,
             Works(h, d, c),
             GoesOnWith(h, d),
             d.at = "notify send",
             d.seen = handler[h].seen,
             c = DocOf(h)
      PROVE  IntakeRest'
  <2>1. StepOf(h, d, c)
    BY <1>1, <1>t, WorksStep
  <2>2. FitsDocs(h, d, c)
    BY <1>1, <1>g, <1>w, HandlerFields DEF FitsDocs, HoldsOn, GoesOnWith, IntakeInv, IntakeDocs
  <2>3. FitsSeen(h, d, c)
    BY <1>1, <1>g, <1>u, <1>w, HandlerFields DEF FitsSeen, DocOf, IntakeInv, SeenStays
  <2>4. FitsAlone(h, d, c)
    BY <1>1, <1>g, <1>w, HandlerFields DEF FitsAlone, GoesOnWith, Sees, WantsTemplate
  <2> QED
    BY <2>1, <2>2, <2>3, <2>4, <1>g, <1>u, FitsKeep
<1>2. ASSUME NEW d \in Deliveries, NEW c \in CustomerDocs,
             Works(h, d, c),
             d = NoHandler,
             c = DocOf(h)
      PROVE  IntakeRest'
  <2>1. StepOf(h, d, c)
    BY <1>2, <1>t, WorksStep
  <2>2. FitsDocs(h, d, c)
    BY <1>2, <1>g, <1>w, HandlerFields DEF FitsDocs, HoldsOn, GoesOnWith, IntakeInv, IntakeDocs
  <2>3. FitsSeen(h, d, c)
    BY <1>2, <1>g, <1>u, <1>w, HandlerFields DEF FitsSeen, DocOf, IntakeInv, SeenStays
  <2>4. FitsAlone(h, d, c)
    BY <1>2, <1>g, <1>w, HandlerFields DEF FitsAlone, GoesOnWith, Sees, WantsTemplate
  <2> QED
    BY <2>1, <2>2, <2>3, <2>4, <1>g, <1>u, FitsKeep
<1> QED
  BY <1>t, NotifyLookWorks, <1>1, <1>2

LEMMA NotifySendKeeps ==
  ASSUME IntakeInv, NEW h \in Handlers, NotifySend(h)
  PROVE  IntakeRest'
<1>t. IntakeTypeOK
  BY DEF IntakeInv
<1>u. UNCHANGED <<order, raced, nationalFirst, unassigned>>
  BY DEF NotifySend, intakeDb, intakeHistory
<1>g. InHands(h) /\ handler[h].at = "notify send"
  BY <1>t, NotifySendWorks DEF InHands
<1>w. /\ DocOf(h).funnel # "absent"
      /\ handler[h].seen.assigned # NoVentor => DocOf(h).assigned # NoVentor
      /\ (DocOf(h).funnel = "ready_for_llm" /\ ~unassigned) => DocOf(h).assigned # NoVentor
      /\ ~raced => Sees(handler[h], DocOf(h))
  BY <1>g, WorksFor
<1>1. ASSUME NEW d \in Deliveries, NEW c \in CustomerDocs,
             Works(h, d, c),
             GoesOnWith(h, d),
             d.at = "notify mark",
             d.seen = handler[h].seen,
             c = DocOf(h)
      PROVE  IntakeRest'
  <2>1. StepOf(h, d, c)
    BY <1>1, <1>t, WorksStep
  <2>2. FitsDocs(h, d, c)
    BY <1>1, <1>g, <1>w, HandlerFields DEF FitsDocs, HoldsOn, GoesOnWith, IntakeInv, IntakeDocs
  <2>3. FitsSeen(h, d, c)
    BY <1>1, <1>g, <1>u, <1>w, HandlerFields DEF FitsSeen, DocOf, IntakeInv, SeenStays
  <2>4. FitsAlone(h, d, c)
    BY <1>1, <1>g, <1>w, HandlerFields DEF FitsAlone, GoesOnWith, Sees, WantsTemplate
  <2> QED
    BY <2>1, <2>2, <2>3, <2>4, <1>g, <1>u, FitsKeep
<1>2. ASSUME NEW d \in Deliveries, NEW c \in CustomerDocs,
             Works(h, d, c),
             d = NoHandler,
             c = DocOf(h)
      PROVE  IntakeRest'
  <2>1. StepOf(h, d, c)
    BY <1>2, <1>t, WorksStep
  <2>2. FitsDocs(h, d, c)
    BY <1>2, <1>g, <1>w, HandlerFields DEF FitsDocs, HoldsOn, GoesOnWith, IntakeInv, IntakeDocs
  <2>3. FitsSeen(h, d, c)
    BY <1>2, <1>g, <1>u, <1>w, HandlerFields DEF FitsSeen, DocOf, IntakeInv, SeenStays
  <2>4. FitsAlone(h, d, c)
    BY <1>2, <1>g, <1>w, HandlerFields DEF FitsAlone, GoesOnWith, Sees, WantsTemplate
  <2> QED
    BY <2>1, <2>2, <2>3, <2>4, <1>g, <1>u, FitsKeep
<1> QED
  BY <1>t, NotifySendWorks, <1>1, <1>2

LEMMA NotifyMarkKeeps ==
  ASSUME IntakeInv, NEW h \in Handlers, NotifyMark(h)
  PROVE  IntakeRest'
<1>t. IntakeTypeOK
  BY DEF IntakeInv
<1>u. UNCHANGED <<order, raced, nationalFirst, unassigned>>
  BY DEF NotifyMark, intakeDb, intakeHistory
<1>g. InHands(h) /\ handler[h].at = "notify mark"
  BY <1>t, NotifyMarkWorks DEF InHands
<1>w. /\ DocOf(h).funnel # "absent"
      /\ handler[h].seen.assigned # NoVentor => DocOf(h).assigned # NoVentor
      /\ (DocOf(h).funnel = "ready_for_llm" /\ ~unassigned) => DocOf(h).assigned # NoVentor
      /\ ~raced => Sees(handler[h], DocOf(h))
  BY <1>g, WorksFor
<1>1. ASSUME NEW d \in Deliveries, NEW c \in CustomerDocs,
             Works(h, d, c),
             d = NoHandler,
             c = DocOf(h)
      PROVE  IntakeRest'
  <2>1. StepOf(h, d, c)
    BY <1>1, <1>t, WorksStep
  <2>2. FitsDocs(h, d, c)
    BY <1>1, <1>g, <1>w, HandlerFields DEF FitsDocs, HoldsOn, GoesOnWith, IntakeInv, IntakeDocs
  <2>3. FitsSeen(h, d, c)
    BY <1>1, <1>g, <1>u, <1>w, HandlerFields DEF FitsSeen, DocOf, IntakeInv, SeenStays
  <2>4. FitsAlone(h, d, c)
    BY <1>1, <1>g, <1>w, HandlerFields DEF FitsAlone, GoesOnWith, Sees, WantsTemplate
  <2> QED
    BY <2>1, <2>2, <2>3, <2>4, <1>g, <1>u, FitsKeep
<1> QED
  BY <1>t, NotifyMarkWorks, <1>1

LEMMA AssignKeeps ==
  ASSUME IntakeInv, NEW h \in Handlers, AssignIfUnassigned(h)
  PROVE  IntakeRest'
<1>t. IntakeTypeOK
  BY DEF IntakeInv
<1>u. UNCHANGED <<order, raced, nationalFirst>>
  BY DEF AssignIfUnassigned
<1>1. PICK d \in Deliveries, c \in CustomerDocs :
        /\ Works(h, d, c) /\ GoesOnWith(h, d) /\ d.at = AfterAssign(h)
        /\ d.seen.funnel = handler[h].seen.funnel
        /\ d.seen.templated = handler[h].seen.templated
        /\ c.funnel = DocOf(h).funnel /\ c.templated = DocOf(h).templated
        /\ \/ /\ handler[h].what = "conversation" \/ handler[h].seen.assigned # NoVentor
              /\ c = DocOf(h) /\ d.seen = handler[h].seen /\ UNCHANGED unassigned
           \/ /\ handler[h].seen.assigned = NoVentor
              /\ handler[h].what # "conversation"
              /\ c = DocOf(h) /\ d.seen.assigned = NoVentor /\ unassigned' = TRUE
           \/ /\ handler[h].seen.assigned = NoVentor /\ handler[h].what # "conversation"
              /\ c.assigned # NoVentor /\ d.seen.assigned = c.assigned
              /\ unassigned' = unassigned
  BY <1>t, AssignWorks
<1>g. InHands(h) /\ handler[h].at = "assign"
  BY <1>t, AssignWorks DEF InHands
<1>w. /\ DocOf(h).funnel # "absent"
      /\ handler[h].seen.assigned # NoVentor => DocOf(h).assigned # NoVentor
      /\ (DocOf(h).funnel = "ready_for_llm" /\ ~unassigned) => DocOf(h).assigned # NoVentor
      /\ ~raced => Sees(handler[h], DocOf(h))
  BY <1>g, WorksFor
<1>p. /\ handler[h].what \in Ingresses
      /\ d.at = "decide" => handler[h].what = "text"
      /\ d.at = "ready" => handler[h].what = "bbq"
      /\ d.at \in {"decide", "flow read", "ready", "processed"}
  BY <1>1, <1>t, DeliveryTypes DEF AfterAssign, Ingresses, ChatIngresses, FormIngresses
<1>2. StepOf(h, d, c)
  BY <1>1, <1>t, WorksStep
<1>3. FitsDocs(h, d, c)
  BY <1>1, <1>g, <1>w, <1>p DEF FitsDocs, HoldsOn, GoesOnWith, ChatIngresses
<1>4. FitsSeen(h, d, c)
  <2>1. DocOf(h).assigned # NoVentor => c.assigned # NoVentor
    BY <1>1
  <2>2. d.seen.assigned # NoVentor => c.assigned # NoVentor
    BY <1>1, <1>w
  <2>3. ~unassigned' => ~unassigned
    BY <1>1
  <2>4. (d.at = "ready" /\ ~unassigned') => c.assigned # NoVentor
    BY <1>1, <1>p, <1>w
  <2>5. (c.funnel = "ready_for_llm" /\ ~unassigned') => c.assigned # NoVentor
    BY <1>1, <1>w, <2>1, <2>3
  <2> QED
    BY <2>1, <2>2, <2>3, <2>4, <2>5 DEF FitsSeen, DocOf
<1>5. FitsAlone(h, d, c)
  <2> SUFFICES ASSUME ~raced PROVE Sees(d, c)
    BY DEF FitsAlone
  <2>1. handler[h].seen = DocOf(h)
        /\ ((handler[h].created /\ handler[h].what = "text") =>
              handler[h].seen.funnel = "pending_flow")
    BY <1>w, <1>g DEF Sees
  <2>2. d.seen = c
    <3>1. d.seen.assigned = c.assigned
      BY <1>1, <2>1
    <3>2. d.seen \in CustomerDocs
      BY DeliveryFields
    <3> QED
      BY <1>1, <2>1, <3>1, <3>2, SameDocs
  <2> QED
    BY <1>1, <1>p, <2>1, <2>2 DEF Sees, GoesOnWith
<1> QED
  BY <1>g, <1>u, <1>2, <1>3, <1>4, <1>5, FitsKeep

LEMMA FlowSaveKeeps ==
  ASSUME IntakeInv, NEW h \in Handlers, FlowSave(h)
  PROVE  IntakeRest'
<1>t. IntakeTypeOK
  BY DEF IntakeInv
<1>u. UNCHANGED <<order, raced, nationalFirst>>
  BY DEF FlowSave
<1>g. InHands(h) /\ handler[h].at = "flow save"
  BY <1>t, FlowSaveWorks DEF InHands
<1>1. PICK v \in Ventors \cup {NoVentor}, c \in CustomerDocs :
        /\ Works(h, NoHandler, c)
        /\ c.assigned = (IF v # NoVentor /\ handler[h].seen.assigned = NoVentor
                         THEN v ELSE DocOf(h).assigned)
        /\ c.funnel = (IF FunnelAfterFlow(v) = handler[h].seen.funnel
                       THEN DocOf(h).funnel ELSE FunnelAfterFlow(v))
        /\ c.templated = DocOf(h).templated
        /\ unassigned' = (unassigned \/ v = NoVentor)
  BY <1>t, FlowSaveWorks
<1>w. /\ DocOf(h).funnel # "absent"
      /\ handler[h].seen.assigned # NoVentor => DocOf(h).assigned # NoVentor
      /\ (DocOf(h).funnel = "ready_for_llm" /\ ~unassigned) => DocOf(h).assigned # NoVentor
  BY <1>g, WorksFor
<1>2. StepOf(h, NoHandler, c)
  BY <1>1, <1>t, WorksThere, DocConstants DEF StepOf
<1>3. FitsDocs(h, NoHandler, c)
  BY <1>1, <1>w, HandlerFields DEF FitsDocs, HoldsOn, FunnelAfterFlow
<1>4. FitsSeen(h, NoHandler, c)
  <2>1. DocOf(h).assigned # NoVentor => c.assigned # NoVentor
    BY <1>1
  <2>2. v # NoVentor => c.assigned # NoVentor
    BY <1>1, <1>w
  <2>3. ~unassigned' => v # NoVentor /\ ~unassigned
    BY <1>1
  <2> QED
    BY <2>1, <2>2, <2>3, HandlerFields DEF FitsSeen, DocOf
<1>5. FitsAlone(h, NoHandler, c)
  BY DEF FitsAlone
<1> QED
  BY <1>g, <1>u, <1>2, <1>3, <1>4, <1>5, FitsKeep, DocConstants

LEMMA InsertKeeps ==
  ASSUME IntakeInv, NEW h \in Handlers, InsertCustomer(h)
  PROVE  IntakeRest'
<1>t. /\ IntakeTypeOK
      /\ \A g \in Handlers : handler[g].phone \in Phones /\ DocOf(h) \in CustomerDocs
  BY DeliveryTypes DEF IntakeInv
<1>u. UNCHANGED <<raced, unassigned>>
  BY DEF InsertCustomer
<1>g. InHands(h) /\ handler[h].at = "create" /\ handler[h].phone \in Phones
  BY <1>t, InsertWorks DEF InHands
<1>1. CASE DocOf(h) # Absent /\ handler' = [handler EXCEPT ![h] = NoHandler]
           /\ UNCHANGED <<customer, order, nationalFirst>>
  <2> DEFINE c == DocOf(h)
  <2>1. StepOf(h, NoHandler, c)
    BY <1>1, <1>t, DeliveryTypes DEF StepOf, DocOf
  <2>2. c.funnel # "absent"
    BY <1>1, <1>g DEF IntakeInv, IntakeDocs, DocOf
  <2>3. FitsDocs(h, NoHandler, c)
    BY <2>2, HandlerFields DEF FitsDocs, HoldsOn
  <2>4. FitsSeen(h, NoHandler, c)
    BY <1>u, <1>g, HandlerFields DEF FitsSeen, DocOf, IntakeInv, ReadyHasVentor
  <2>5. FitsAlone(h, NoHandler, c)
    BY DEF FitsAlone
  <2> HIDE DEF c
  <2>6. c \in CustomerDocs
    BY <1>t DEF c
  <2> QED
    BY <1>1, <1>u, <1>g, <2>1, <2>3, <2>4, <2>5, <2>6, FitsKeep, DocConstants
<1>2. ASSUME NEW d \in Deliveries, NEW c \in CustomerDocs,
             DocOf(h) = Absent, Works(h, d, c),
             d.what = handler[h].what, d.phone = handler[h].phone,
             d.at = (IF handler[h].what \in ChatIngresses THEN "pend" ELSE "assign"),
             d.seen = Newborn, d.created, c = Newborn,
             order' = Append(order, handler[h].phone),
             nationalFirst' = (nationalFirst \/ (order = <<>> /\ handler[h].phone = "national"))
      PROVE  IntakeRest'
  <2>1. StepOf(h, d, c)
    BY <1>2, <1>t, WorksStep
  <2>c. c.funnel # "absent" /\ c.funnel # "ready_for_llm" /\ c.assigned = NoVentor /\ c # Absent
    BY <1>2, HandlerFields
  <2>s. \A g \in Handlers : g # h => handler'[g] = handler[g]
    BY <2>1 DEF StepOf
  <2>d. handler'[h] = d /\ customer'[handler[h].phone] = c
    BY <2>1 DEF StepOf
  <2>p. \A p \in Phones : p # handler[h].phone => customer'[p] = customer[p]
    BY <2>1 DEF StepOf
  <2>o. /\ order \in Seq(Phones) /\ order' # <<>>
        /\ \A i \in DOMAIN order' : order'[i] = handler[h].phone
             \/ (i \in DOMAIN order /\ order'[i] = order[i] /\ order[i] \in Phones)
        /\ order = <<>> => Len(order') = 1
    <3>1. order \in Seq(Phones)
      BY <1>t, IntakeTypeIs
    <3>2. /\ order' \in Seq(Phones) /\ Len(order') = Len(order) + 1
          /\ \A i \in 1..Len(order) : order'[i] = order[i]
          /\ order'[Len(order) + 1] = handler[h].phone
      BY <1>2, <1>g, <3>1, AppendProperties
    <3>3. DOMAIN order = 1..Len(order) /\ DOMAIN order' = 1..(Len(order) + 1) /\ Len(order) \in Nat
      BY <3>1, <3>2, LenProperties
    <3>4. \A i \in 1..Len(order) : order[i] \in Phones
      BY <3>1, ElementOfSeq
    <3>5. order' # <<>> /\ (order = <<>> => Len(order') = 1)
      BY <3>1, <3>2, <3>3, EmptySeq
    <3>6. \A i \in DOMAIN order' : i \in 1..Len(order) \/ i = Len(order) + 1
      BY <3>3
    <3>7. ASSUME NEW i \in DOMAIN order'
          PROVE  order'[i] = handler[h].phone
                 \/ (i \in DOMAIN order /\ order'[i] = order[i] /\ order[i] \in Phones)
      <4>1. CASE i \in 1..Len(order)
        <5>1. i \in DOMAIN order
          BY <3>3, <4>1
        <5>2. order'[i] = order[i] /\ order[i] \in Phones
          BY <3>2, <3>4, <4>1
        <5> QED
          BY <5>1, <5>2
      <4>2. ASSUME i = Len(order) + 1 PROVE order'[i] = handler[h].phone
        BY <3>2, <4>2, Zenon
      <4> QED
        BY <3>6, <4>1, <4>2
    <3> QED
      BY <3>1, <3>5, <3>7
  <2>2. IntakeDocs'
    <3>1. \A p \in Phones : customer'[p].funnel = "absent" => customer'[p] = Absent
      BY <1>g, <2>c, <2>d, <2>p DEF IntakeInv, IntakeDocs
    <3>2. \A p \in Phones : customer[p].funnel # "absent" => customer'[p].funnel # "absent"
      BY <1>g, <2>c, <2>d, <2>p
    <3>3. \A i \in DOMAIN order' : customer'[order'[i]].funnel # "absent"
      BY <2>c, <2>d, <2>o, <3>2 DEF IntakeInv, IntakeDocs
    <3>4. ASSUME NEW g \in Handlers
          PROVE  /\ handler'[g].at \notin {"idle", "create"} =>
                      customer'[handler'[g].phone].funnel # "absent"
                 /\ handler'[g].what \in ChatIngresses => handler'[g].phone = "international"
                 /\ handler'[g].at \in {"pend", "refetch", "decide", "mark", "emit"} =>
                      handler'[g].what \in ChatIngresses
                 /\ handler'[g].at = "flow save" => handler'[g].what = "flow"
      <4>1. CASE g # h
        <5>1. handler'[g] = handler[g]
          BY <4>1, <2>s
        <5> QED
          BY <1>t, <3>2, <5>1 DEF IntakeInv, IntakeDocs
      <4>2. CASE g = h
        <5>1. handler'[g] = d
          BY <4>2, <2>d
        <5> QED
          BY <1>2, <2>c, <2>d, <5>1 DEF IntakeInv, IntakeDocs
      <4> QED
        BY <4>1, <4>2
    <3> QED
      BY <3>1, <3>3, <3>4 DEF IntakeDocs
  <2>4. SeenStays' /\ ReadyHasVentor'
    <3>1. \A p \in Phones : customer[p].assigned # NoVentor => customer'[p].assigned # NoVentor
      BY <1>2, <1>g, <2>p, HandlerFields DEF DocOf
    <3>2. ReadyHasVentor'
      BY <1>u, <1>g, <2>c, <2>d, <2>p DEF ReadyHasVentor, IntakeInv
    <3>3. ASSUME NEW g \in Handlers
          PROVE  /\ handler'[g].seen.assigned # NoVentor =>
                      customer'[handler'[g].phone].assigned # NoVentor
                 /\ (handler'[g].at = "ready" /\ ~unassigned') =>
                      customer'[handler'[g].phone].assigned # NoVentor
      <4>1. CASE g # h
        <5>1. handler'[g] = handler[g]
          BY <4>1, <2>s
        <5> QED
          BY <1>t, <1>u, <3>1, <5>1 DEF IntakeInv, SeenStays
      <4>2. CASE g = h
        BY <4>2, <1>2, <2>d, HandlerFields
      <4> QED
        BY <4>1, <4>2
    <3> QED
      BY <3>2, <3>3 DEF SeenStays
  <2>5. AloneSees'
    <3> SUFFICES ASSUME ~raced PROVE AloneSees'
      BY <1>u DEF AloneSees
    <3>1. Alone(h)
      BY <1>g, AloneThen DEF IntakeInv
    <3>2. \A g \in Handlers : g # h => handler'[g].at = "idle"
      BY <3>1, <2>s DEF Alone, InHands
    <3>3. Sees(d, c)
      BY <1>2 DEF Sees, ChatIngresses
    <3>4. ASSUME NEW g \in Handlers, handler'[g].at # "idle"
          PROVE  g = h /\ Sees(handler'[g], customer'[handler'[g].phone])
      BY <1>2, <2>d, <3>2, <3>3, <3>4
    <3> QED
      BY <3>4 DEF AloneSees, InHands, Sees
  <2>6. FirstIsFound'
    <3> SUFFICES ASSUME ~nationalFirst' PROVE FirstIsFound'
      BY DEF FirstIsFound
    <3>1. ~nationalFirst /\ ~(order = <<>> /\ handler[h].phone = "national")
      BY <1>2
    <3>2. customer'["international"] # Absent
      BY <1>g, <2>c, <2>d, <2>p, <3>1 DEF IntakeInv, FirstIsFound, Phones
    <3>3. ~raced => order = <<>>
      BY <1>g, <3>1 DEF IntakeInv, FirstIsFound
    <3>4. ~raced => Len(order') <= 1
      <4>1. ASSUME ~raced PROVE Len(order') = 1
        BY <3>3, <2>o, <4>1
      <4>2. 1 <= 1
        OBVIOUS
      <4> QED
        BY <4>1, <4>2
    <3>5. ~raced => \A g \in Handlers : handler'[g].at # "create"
      <4>1. ~raced => Alone(h)
        BY <1>g, AloneThen DEF IntakeInv
      <4>2. d.at # "create"
        BY <1>2
      <4> QED
        BY <4>1, <4>2, <2>s, <2>d DEF Alone, InHands
    <3> QED
      BY <1>u, <3>2, <3>4, <3>5 DEF FirstIsFound
  <2> QED
    BY <2>2, <2>4, <2>5, <2>6 DEF IntakeRest
<1> QED
  BY <1>t, <1>1, <1>2, InsertWorks

LEMMA TakeKeeps ==
  ASSUME IntakeInv, NEW h \in Handlers, NEW what \in Ingresses, NEW phone \in Phones,
         TakeDelivery(h, what, phone)
  PROVE  IntakeRest'
<1>t. IntakeTypeOK /\ IntakeDocs
  BY DEF IntakeInv
<1>1. PICK d \in Deliveries :
        /\ handler[h].at = "idle" /\ handler' = [handler EXCEPT ![h] = d]
        /\ d.what = what /\ d.created = FALSE
        /\ what \in ChatIngresses => d.phone = "international"
        /\ \/ /\ d.at = "create" /\ d.seen = Absent
              /\ what \in ChatIngresses => customer["international"] = Absent
              /\ what \notin ChatIngresses => order = <<>>
           \/ /\ d.at = "assign" /\ d.seen = customer[d.phone]
              /\ customer[d.phone].funnel # "absent"
  BY <1>t, TakeWorks
<1>2. handler'[h] = d /\ \A g \in Handlers : g # h => handler'[g] = handler[g]
  BY <1>1, <1>t, DeliveryTypes
<1>3. UNCHANGED <<customer, order, nationalFirst, unassigned>>
      /\ raced' = (raced \/ \E g \in Handlers : handler[g].at # "idle")
  BY DEF TakeDelivery
<1>4. ~raced' => ~raced /\ \A g \in Handlers : g # h => handler'[g].at = "idle"
  BY <1>2, <1>3
<1>5. IntakeDocs'
  <2>1. ASSUME NEW g \in Handlers
        PROVE  /\ handler'[g].at \notin {"idle", "create"} =>
                    customer'[handler'[g].phone].funnel # "absent"
               /\ handler'[g].what \in ChatIngresses => handler'[g].phone = "international"
               /\ handler'[g].at \in {"pend", "refetch", "decide", "mark", "emit"} =>
                    handler'[g].what \in ChatIngresses
               /\ handler'[g].at = "flow save" => handler'[g].what = "flow"
    <3>1. CASE g # h
      BY <3>1, <1>2, <1>3, <1>t DEF IntakeDocs
    <3>2. CASE g = h
      BY <3>2, <1>1, <1>2, <1>3
    <3> QED
      BY <3>1, <3>2
  <2> QED
    BY <2>1, <1>3, <1>t DEF IntakeDocs
<1>6. SeenStays' /\ ReadyHasVentor'
  <2>1. ReadyHasVentor'
    BY <1>3 DEF IntakeInv, ReadyHasVentor
  <2>2. ASSUME NEW g \in Handlers
        PROVE  /\ handler'[g].seen.assigned # NoVentor =>
                    customer'[handler'[g].phone].assigned # NoVentor
               /\ (handler'[g].at = "ready" /\ ~unassigned') =>
                    customer'[handler'[g].phone].assigned # NoVentor
    <3>1. CASE g # h
      BY <3>1, <1>2, <1>3 DEF IntakeInv, SeenStays
    <3>2. CASE g = h
      BY <3>2, <1>1, <1>2, <1>3, HandlerFields
    <3> QED
      BY <3>1, <3>2
  <2> QED
    BY <2>1, <2>2 DEF SeenStays
<1>7. AloneSees'
  <2> SUFFICES ASSUME ~raced' PROVE AloneSees'
    BY DEF AloneSees
  <2>1. Sees(d, customer[d.phone])
    BY <1>1 DEF Sees
  <2>2. ASSUME NEW g \in Handlers, handler'[g].at # "idle"
        PROVE  g = h /\ Sees(handler'[g], customer'[handler'[g].phone])
    BY <1>2, <1>3, <1>4, <2>1, <2>2
  <2> QED
    BY <2>2 DEF AloneSees, InHands, Sees
<1>8. FirstIsFound'
  <2> SUFFICES ASSUME ~nationalFirst' PROVE FirstIsFound'
    BY DEF FirstIsFound
  <2>1. ASSUME ~raced', NEW g \in Handlers, handler'[g].at = "create" PROVE order = <<>>
    <3>1. g = h /\ d.at = "create"
      BY <1>2, <1>4, <2>1
    <3>2. what \in ChatIngresses => customer["international"] = Absent
      BY <1>1, <3>1
    <3> QED
      BY <1>1, <1>3, <3>1, <3>2 DEF IntakeInv, FirstIsFound
  <2> QED
    BY <1>3, <1>4, <2>1 DEF IntakeInv, FirstIsFound
<1> QED
  BY <1>5, <1>6, <1>7, <1>8 DEF IntakeRest

-----------------------------------------------------------------------------
(* What goes out                                                             *)

LEMMA TemplatesKeep ==
  ASSUME IntakeInv, NEW h \in Handlers,
         \/ InsertCustomer(h) \/ PendFlow(h) \/ RefetchCustomer(h) \/ AssignIfUnassigned(h)
         \/ DecideTemplate(h) \/ MarkTemplate(h) \/ SendTemplate(h) \/ FlowRead(h) \/ FlowSave(h)
         \/ SetReady(h) \/ ProcessLead(h) \/ NotifyLook(h) \/ NotifySend(h) \/ NotifyMark(h)
  PROVE  TemplateIsMarked'
<1>t. IntakeTypeOK /\ IntakeDocs /\ AloneSees /\ TemplateIsMarked /\ templates \in Nat
  BY DEF IntakeInv, IntakeTypeOK
<1>b. ASSUME NEW d \in Deliveries, NEW c \in CustomerDocs, Works(h, d, c), InHands(h),
             raced' = raced, templates' = templates,
             DocOf(h).templated => c.templated,
             d.at = "emit" => handler[h].at = "mark" /\ c.templated
      PROVE  TemplateIsMarked'
  <2>1. StepOf(h, d, c)
    BY <1>b, <1>t, WorksStep
  <2> QED
    BY <1>b, <1>t, <2>1, TemplateStep DEF DocOf
<1> USE DEF intakeDb, intakeHistory
<1>1. CASE PendFlow(h)
  BY <1>1, <1>t, <1>b, PendFlowWorks DEF PendFlow, InHands
<1>2. CASE RefetchCustomer(h)
  BY <1>2, <1>t, <1>b, RefetchCustomerWorks DEF RefetchCustomer, InHands
<1>3. CASE DecideTemplate(h)
  BY <1>3, <1>t, <1>b, DecideTemplateWorks, HandlerFields DEF DecideTemplate, InHands
<1>4. CASE MarkTemplate(h)
  BY <1>4, <1>t, <1>b, MarkTemplateWorks DEF MarkTemplate, InHands
<1>5. CASE FlowRead(h)
  BY <1>5, <1>t, <1>b, FlowReadWorks DEF FlowRead, InHands
<1>6. CASE SetReady(h)
  BY <1>6, <1>t, <1>b, SetReadyWorks DEF SetReady, InHands
<1>7. CASE ProcessLead(h)
  BY <1>7, <1>t, <1>b, ProcessLeadWorks, HandlerFields DEF ProcessLead, InHands
<1>8. CASE NotifyLook(h)
  BY <1>8, <1>t, <1>b, NotifyLookWorks, HandlerFields DEF NotifyLook, InHands
<1>9. CASE NotifySend(h)
  BY <1>9, <1>t, <1>b, NotifySendWorks, HandlerFields DEF NotifySend, InHands
<1>10. CASE NotifyMark(h)
  BY <1>10, <1>t, <1>b, NotifyMarkWorks, HandlerFields DEF NotifyMark, InHands
<1>11. CASE FlowSave(h)
  <2>1. PICK c \in CustomerDocs : Works(h, NoHandler, c) /\ c.templated = DocOf(h).templated
    BY <1>11, <1>t, FlowSaveWorks
  <2> QED
    BY <1>11, <1>t, <1>b, <2>1, FlowSaveWorks, HandlerFields, DocConstants DEF FlowSave, InHands
<1>12. CASE AssignIfUnassigned(h)
  <2>1. PICK d \in Deliveries, c \in CustomerDocs :
          Works(h, d, c) /\ c.templated = DocOf(h).templated /\ d.at = AfterAssign(h)
    BY <1>12, <1>t, AssignWorks
  <2>2. d.at # "emit"
    BY <2>1, <1>t, DeliveryTypes DEF AfterAssign
  <2> QED
    BY <1>12, <1>t, <1>b, <2>1, <2>2 DEF AssignIfUnassigned, InHands
<1>13. CASE SendTemplate(h)
  <2>1. PICK c \in CustomerDocs : Works(h, NoHandler, c) /\ c = DocOf(h)
    BY <1>13, <1>t, SendTemplateWorks
  <2>2. StepOf(h, NoHandler, c)
    BY <2>1, <1>t, WorksThere, DocConstants DEF StepOf
  <2>3. templates' = templates + 1 /\ raced' = raced /\ handler[h].at = "emit"
    BY <1>13, <1>t, SendTemplateWorks DEF SendTemplate
  <2> SUFFICES ASSUME ~raced PROVE TemplateIsMarked'
    BY <2>3 DEF TemplateIsMarked
  <2>4. Alone(h) /\ templates = 0 /\ customer["international"].templated
    BY <2>3, <1>t, AloneThen DEF InHands, TemplateIsMarked
  <2>5. customer'["international"].templated
    BY <2>1, <2>2, <2>4 DEF StepOf, DocOf, Phones
  <2>6. \A g \in Handlers : handler'[g].at # "emit"
    BY <2>2, <2>4, HandlerFields DEF Alone, InHands, StepOf
  <2> QED
    BY <2>3, <2>4, <2>5, <2>6 DEF TemplateIsMarked
<1>14. CASE InsertCustomer(h)
  <2>1. handler[h].at = "create" /\ templates' = templates /\ raced' = raced
    BY <1>14, <1>t, InsertWorks DEF InsertCustomer
  <2>2. CASE handler' = [handler EXCEPT ![h] = NoHandler] /\ customer' = customer
    <3>1. Works(h, NoHandler, DocOf(h)) /\ DocOf(h) \in CustomerDocs
      BY <2>2, <1>t, DeliveryTypes DEF Works, DocOf
    <3> QED
      BY <1>b, <2>1, <3>1, HandlerFields, DocConstants DEF InHands
  <2>3. ASSUME NEW d \in Deliveries, NEW c \in CustomerDocs, DocOf(h) = Absent, Works(h, d, c),
               d.at = (IF handler[h].what \in ChatIngresses THEN "pend" ELSE "assign")
        PROVE  TemplateIsMarked'
    <3>1. ~DocOf(h).templated /\ d.at # "emit"
      BY <2>3, HandlerFields
    <3> QED
      BY <1>b, <2>1, <2>3, <3>1 DEF InHands
  <2> QED
    BY <1>14, <1>t, <2>2, <2>3, InsertWorks
<1> QED
  BY <1>1, <1>2, <1>3, <1>4, <1>5, <1>6, <1>7, <1>8, <1>9, <1>10, <1>11, <1>12, <1>13, <1>14

LEMMA NoticesKeep ==
  ASSUME IntakeInv, NEW h \in Handlers,
         \/ InsertCustomer(h) \/ PendFlow(h) \/ RefetchCustomer(h) \/ AssignIfUnassigned(h)
         \/ DecideTemplate(h) \/ MarkTemplate(h) \/ SendTemplate(h) \/ FlowRead(h) \/ FlowSave(h)
         \/ SetReady(h) \/ ProcessLead(h) \/ NotifyLook(h) \/ NotifySend(h) \/ NotifyMark(h)
  PROVE  NoticeIsMarked'
<1>t. IntakeTypeOK /\ IntakeDocs /\ AloneSees /\ NoticeIsMarked /\ notices \in Nat
  BY DEF IntakeInv, IntakeTypeOK
<1>b. ASSUME NEW d \in Deliveries, NEW c \in CustomerDocs, Works(h, d, c), InHands(h),
             raced' = raced, intakeCrashes' = intakeCrashes, notices' = notices,
             lead'.notified = lead.notified, handler[h].at # "notify mark",
             d.at = "notify send" => ~lead.notified
      PROVE  NoticeIsMarked'
  <2>1. StepOf(h, d, c)
    BY <1>b, <1>t, WorksStep
  <2> QED
    BY <1>b, <1>t, <2>1, NoticeStep
<1> USE DEF intakeDb, intakeHistory
<1>1. CASE PendFlow(h)
  BY <1>1, <1>t, <1>b, PendFlowWorks DEF PendFlow, InHands
<1>2. CASE RefetchCustomer(h)
  BY <1>2, <1>t, <1>b, RefetchCustomerWorks DEF RefetchCustomer, InHands
<1>3. CASE DecideTemplate(h)
  BY <1>3, <1>t, <1>b, DecideTemplateWorks, HandlerFields DEF DecideTemplate, InHands
<1>4. CASE MarkTemplate(h)
  BY <1>4, <1>t, <1>b, MarkTemplateWorks DEF MarkTemplate, InHands
<1>5. CASE FlowRead(h)
  BY <1>5, <1>t, <1>b, FlowReadWorks DEF FlowRead, InHands
<1>6. CASE SetReady(h)
  BY <1>6, <1>t, <1>b, SetReadyWorks DEF SetReady, InHands
<1>7. CASE ProcessLead(h)
  <2>1. lead'.notified = lead.notified
    <3>1. lead \in [status : {"none", "pending", "processed"}, notified : BOOLEAN]
      BY <1>t DEF IntakeTypeOK
    <3>2. lead' = [lead EXCEPT !.status = "processed"]
      BY <1>7 DEF ProcessLead
    <3>3. [lead EXCEPT !.status = "processed"].notified = lead.notified
      BY <3>1
    <3> QED
      BY <3>2, <3>3, Zenon
  <2> QED
    BY <1>7, <1>t, <1>b, <2>1, ProcessLeadWorks, HandlerFields DEF ProcessLead, InHands
<1>8. CASE NotifyLook(h)
  BY <1>8, <1>t, <1>b, NotifyLookWorks, HandlerFields DEF NotifyLook, InHands
<1>9. CASE NotifySend(h)
  <2>1. handler[h].at = "notify send" /\ raced' = raced /\ intakeCrashes' = intakeCrashes
        /\ lead' = lead
    BY <1>9, <1>t, NotifySendWorks DEF NotifySend
  <2>2. ASSUME NEW d \in Deliveries, NEW c \in CustomerDocs, Works(h, d, c),
               d = NoHandler, notices' = notices
        PROVE  NoticeIsMarked'
    BY <1>b, <2>1, <2>2, HandlerFields DEF InHands
  <2>3. ASSUME NEW d \in Deliveries, NEW c \in CustomerDocs, Works(h, d, c),
               d.at = "notify mark", notices' = notices + 1
        PROVE  NoticeIsMarked'
    <3>1. StepOf(h, d, c)
      BY <2>3, <1>t, WorksThere DEF StepOf
    <3> SUFFICES ASSUME ~raced, intakeCrashes = 0 PROVE NoticeIsMarked'
      BY <2>1 DEF NoticeIsMarked
    <3>2. Alone(h)
      BY <2>1, <1>t, AloneThen DEF InHands
    <3>3. \A g \in Handlers : handler[g].at # "notify mark"
      BY <2>1, <3>2 DEF Alone, InHands
    <3>4. notices <= 1 /\ ~lead.notified /\ notices # 1
      BY <1>t, <2>1, <3>3 DEF NoticeIsMarked
    <3>5. notices' = 1
      <4>1. notices = 0
        BY <1>t, <3>4
      <4>2. notices' = 0 + 1
        BY <2>3, <4>1, Zenon
      <4> QED
        BY <4>2
    <3>8. notices' <= 1
      BY <3>5
    <3>6. \A g \in Handlers : handler'[g].at # "notify send"
      BY <2>3, <3>1, <3>2 DEF Alone, InHands, StepOf
    <3>7. handler'[h].at = "notify mark"
      BY <2>3, <3>1 DEF StepOf
    <3> QED
      BY <3>6, <3>7, <3>8 DEF NoticeIsMarked
  <2> QED
    BY <1>9, <1>t, <2>2, <2>3, NotifySendWorks
<1>10. CASE NotifyMark(h)
  <2>1. PICK c \in CustomerDocs : Works(h, NoHandler, c)
    BY <1>10, <1>t, NotifyMarkWorks
  <2>2. StepOf(h, NoHandler, c)
    BY <2>1, <1>t, WorksThere, DocConstants DEF StepOf
  <2>3. lead'.notified /\ UNCHANGED <<notices, raced, intakeCrashes>>
    BY <1>10, <1>t DEF NotifyMark, IntakeTypeOK
  <2>4. InHands(h)
    BY <1>10, <1>t, NotifyMarkWorks DEF InHands
  <2> QED
    BY <1>t, <2>2, <2>3, <2>4, NoticeStep, HandlerFields, DocConstants
<1>11. CASE FlowSave(h)
  <2>1. PICK c \in CustomerDocs : Works(h, NoHandler, c)
    BY <1>11, <1>t, FlowSaveWorks
  <2> QED
    BY <1>11, <1>t, <1>b, <2>1, FlowSaveWorks, HandlerFields, DocConstants DEF FlowSave, InHands
<1>12. CASE AssignIfUnassigned(h)
  <2>1. PICK d \in Deliveries, c \in CustomerDocs : Works(h, d, c) /\ d.at = AfterAssign(h)
    BY <1>12, <1>t, AssignWorks
  <2>2. d.at # "notify send"
    BY <2>1, <1>t, DeliveryTypes DEF AfterAssign
  <2> QED
    BY <1>12, <1>t, <1>b, <2>1, <2>2 DEF AssignIfUnassigned, InHands
<1>13. CASE SendTemplate(h)
  BY <1>13, <1>t, <1>b, SendTemplateWorks, HandlerFields DEF SendTemplate, InHands
<1>14. CASE InsertCustomer(h)
  <2>1. handler[h].at = "create" /\ UNCHANGED <<notices, raced, intakeCrashes, lead>>
    BY <1>14, <1>t, InsertWorks DEF InsertCustomer
  <2>2. CASE handler' = [handler EXCEPT ![h] = NoHandler] /\ customer' = customer
    <3>1. Works(h, NoHandler, DocOf(h)) /\ DocOf(h) \in CustomerDocs
      BY <2>2, <1>t, DeliveryTypes DEF Works, DocOf
    <3> QED
      BY <1>b, <2>1, <3>1, HandlerFields, DocConstants DEF InHands
  <2>3. ASSUME NEW d \in Deliveries, NEW c \in CustomerDocs, Works(h, d, c),
               d.at = (IF handler[h].what \in ChatIngresses THEN "pend" ELSE "assign")
        PROVE  NoticeIsMarked'
    BY <1>b, <2>1, <2>3 DEF InHands
  <2> QED
    BY <1>14, <1>t, <2>2, <2>3, InsertWorks
<1> QED
  BY <1>1, <1>2, <1>3, <1>4, <1>5, <1>6, <1>7, <1>8, <1>9, <1>10, <1>11, <1>12, <1>13, <1>14

-----------------------------------------------------------------------------
(* Every step                                                                *)

HandlerStep(h) ==
  \/ InsertCustomer(h) \/ PendFlow(h) \/ RefetchCustomer(h) \/ AssignIfUnassigned(h)
  \/ DecideTemplate(h) \/ MarkTemplate(h) \/ SendTemplate(h) \/ FlowRead(h) \/ FlowSave(h)
  \/ SetReady(h) \/ ProcessLead(h) \/ NotifyLook(h) \/ NotifySend(h) \/ NotifyMark(h)

\* A customer who goes forward keeps the ventor he has.
Onward(h, c) ==
  /\ (DocOf(h).assigned # NoVentor /\ ~raced) => c.assigned = DocOf(h).assigned
  /\ (~raced /\ ~unassigned') => Rank(c.funnel) >= Rank(DocOf(h).funnel)

LEMMA RankIs ==
  /\ Rank("absent") = 0 /\ Rank("none") = 1 /\ Rank("pending_flow") = 2
  /\ Rank("completed_flow") = 3 /\ Rank("ready_for_llm") = 4
<1>1. DOMAIN Funnel = 1..4 /\ Funnel[1] = "none" /\ Funnel[2] = "pending_flow"
      /\ Funnel[3] = "completed_flow" /\ Funnel[4] = "ready_for_llm"
  BY DEF Funnel
<1>2. \A i \in 1..4 : i = 1 \/ i = 2 \/ i = 3 \/ i = 4
  OBVIOUS
<1>3. 1 \in 1..4 /\ 2 \in 1..4 /\ 3 \in 1..4 /\ 4 \in 1..4
  OBVIOUS
<1>4. (CHOOSE i \in 1..4 : Funnel[i] = "none") = 1
  BY <1>1, <1>2, <1>3
<1>5. (CHOOSE i \in 1..4 : Funnel[i] = "pending_flow") = 2
  BY <1>1, <1>2, <1>3
<1>6. (CHOOSE i \in 1..4 : Funnel[i] = "completed_flow") = 3
  BY <1>1, <1>2, <1>3
<1>7. (CHOOSE i \in 1..4 : Funnel[i] = "ready_for_llm") = 4
  BY <1>1, <1>2, <1>3
<1> QED
  BY <1>1, <1>4, <1>5, <1>6, <1>7 DEF Rank

\* The funnel has a first and a last state, and no state is behind itself.
LEMMA RanksOrdered ==
  ASSUME NEW f \in FunnelStates
  PROVE  /\ Rank(f) >= Rank(f) /\ Rank(f) >= Rank("absent") /\ Rank("ready_for_llm") >= Rank(f)
         /\ Rank("pending_flow") >= Rank("none")
<1>1. Rank(f) \in 0..4
  BY RankIs DEF FunnelStates
<1> QED
  BY <1>1, RankIs

LEMMA SameOnward ==
  ASSUME IntakeTypeOK, NEW h \in Handlers, NEW c \in CustomerDocs,
         c.assigned = DocOf(h).assigned, c.funnel = DocOf(h).funnel
  PROVE  Onward(h, c)
<1>1. DocOf(h).funnel \in FunnelStates
  BY DeliveryTypes, DocFields
<1> QED
  BY <1>1, RanksOrdered DEF Onward

LEMMA StepsGoOnward ==
  ASSUME IntakeInv, NEW h \in Handlers, HandlerStep(h)
  PROVE  \E d \in Deliveries, c \in CustomerDocs : Works(h, d, c) /\ Onward(h, c)
<1>t. IntakeTypeOK /\ DocOf(h) \in CustomerDocs /\ DocOf(h).funnel \in FunnelStates
  BY DeliveryTypes, DocFields DEF IntakeInv
<1>s. ASSUME handler[h].at \notin {"idle", "create"}, ~raced PROVE Sees(handler[h], DocOf(h))
  BY <1>s, WorksFor DEF InHands
<1>1. CASE PendFlow(h)
  <2>1. PICK d \in Deliveries, c \in CustomerDocs :
          Works(h, d, c) /\ c.funnel = "pending_flow" /\ c.assigned = DocOf(h).assigned
    BY <1>1, <1>t, PendFlowWorks
  <2>2. ~raced => DocOf(h) = Newborn
    BY <1>1, <1>t, <1>s, PendFlowWorks DEF Sees
  <2>3. Onward(h, c)
    BY <1>t, <2>1, <2>2, HandlerFields, RanksOrdered DEF Onward
  <2> QED
    BY <2>1, <2>3
<1>2. CASE RefetchCustomer(h)
  BY <1>2, <1>t, RefetchCustomerWorks, SameOnward
<1>3. CASE DecideTemplate(h)
  BY <1>3, <1>t, DecideTemplateWorks, SameOnward
<1>4. CASE MarkTemplate(h)
  <2>1. PICK d \in Deliveries, c \in CustomerDocs :
          Works(h, d, c) /\ c.funnel = "pending_flow" /\ c.assigned = DocOf(h).assigned
    BY <1>4, <1>t, MarkTemplateWorks
  <2>2. ~raced => DocOf(h).funnel = "pending_flow"
    BY <1>4, <1>t, <1>s, MarkTemplateWorks DEF Sees
  <2>3. Onward(h, c)
    BY <1>t, <2>1, <2>2, RanksOrdered DEF Onward
  <2> QED
    BY <2>1, <2>3
<1>5. CASE SendTemplate(h)
  BY <1>5, <1>t, SendTemplateWorks, SameOnward
<1>6. CASE FlowRead(h)
  BY <1>6, <1>t, FlowReadWorks, SameOnward
<1>7. CASE SetReady(h)
  <2>1. PICK d \in Deliveries, c \in CustomerDocs :
          Works(h, d, c) /\ c.funnel = "ready_for_llm" /\ c.assigned = DocOf(h).assigned
    BY <1>7, <1>t, SetReadyWorks
  <2>2. Onward(h, c)
    BY <1>t, <2>1, RanksOrdered DEF Onward
  <2> QED
    BY <2>1, <2>2
<1>8. CASE ProcessLead(h)
  BY <1>8, <1>t, ProcessLeadWorks, SameOnward
<1>9. CASE NotifyLook(h)
  BY <1>9, <1>t, NotifyLookWorks, SameOnward
<1>10. CASE NotifySend(h)
  BY <1>10, <1>t, NotifySendWorks, SameOnward
<1>11. CASE NotifyMark(h)
  BY <1>11, <1>t, NotifyMarkWorks, SameOnward
<1>12. CASE FlowSave(h)
  <2>1. PICK v \in Ventors \cup {NoVentor}, c \in CustomerDocs :
          /\ Works(h, NoHandler, c)
          /\ c.assigned = (IF v # NoVentor /\ handler[h].seen.assigned = NoVentor
                           THEN v ELSE DocOf(h).assigned)
          /\ c.funnel = (IF FunnelAfterFlow(v) = handler[h].seen.funnel
                         THEN DocOf(h).funnel ELSE FunnelAfterFlow(v))
          /\ unassigned' = (unassigned \/ v = NoVentor)
    BY <1>12, <1>t, FlowSaveWorks
  <2>2. ~raced => handler[h].seen = DocOf(h)
    BY <1>12, <1>t, <1>s, FlowSaveWorks DEF Sees
  <2>3. (DocOf(h).assigned # NoVentor /\ ~raced) => c.assigned = DocOf(h).assigned
    BY <2>1, <2>2
  <2>4. ~unassigned' => c.funnel = DocOf(h).funnel \/ c.funnel = "ready_for_llm"
    BY <2>1 DEF FunnelAfterFlow
  <2>5. Onward(h, c)
    BY <1>t, <2>3, <2>4, RanksOrdered DEF Onward
  <2> QED
    BY <2>1, <2>5, DocConstants
<1>13. CASE AssignIfUnassigned(h)
  <2>1. PICK d \in Deliveries, c \in CustomerDocs :
          /\ Works(h, d, c) /\ c.funnel = DocOf(h).funnel
          /\ c = DocOf(h) \/ handler[h].seen.assigned = NoVentor
    BY <1>13, <1>t, AssignWorks
  <2>2. ~raced => handler[h].seen = DocOf(h)
    BY <1>13, <1>t, <1>s, AssignWorks DEF Sees
  <2>3. Onward(h, c)
    BY <1>t, <2>1, <2>2, RanksOrdered DEF Onward
  <2> QED
    BY <2>1, <2>3
<1>14. CASE InsertCustomer(h)
  <2>1. CASE handler' = [handler EXCEPT ![h] = NoHandler] /\ customer' = customer
    <3>1. Works(h, NoHandler, DocOf(h)) /\ Onward(h, DocOf(h))
      BY <2>1, <1>t, DeliveryTypes, SameOnward DEF Works, DocOf
    <3> QED
      BY <1>t, <3>1, DocConstants
  <2>2. ASSUME NEW d \in Deliveries, NEW c \in CustomerDocs, DocOf(h) = Absent, Works(h, d, c),
               c = Newborn
        PROVE  Onward(h, c)
    BY <2>2, HandlerFields, RankIs DEF Onward
  <2> QED
    BY <1>14, <1>t, <2>1, <2>2, InsertWorks
<1> QED
  BY <1>1, <1>2, <1>3, <1>4, <1>5, <1>6, <1>7, <1>8, <1>9, <1>10, <1>11, <1>12, <1>13, <1>14
     DEF HandlerStep

LEMMA HandlerTypesKeep ==
  ASSUME IntakeInv, NEW h \in Handlers, HandlerStep(h)
  PROVE  IntakeTypeOK'
<1>t. /\ IntakeTypeOK /\ order \in Seq(Phones) /\ handler[h].phone \in Phones
      /\ lead \in [status : {"none", "pending", "processed"}, notified : BOOLEAN]
      /\ templates \in Nat /\ notices \in Nat /\ ingresses \in Nat /\ intakeCrashes \in Nat
      /\ raced \in BOOLEAN /\ nationalFirst \in BOOLEAN /\ unassigned \in BOOLEAN
  BY DeliveryTypes DEF IntakeInv, IntakeTypeOK
<1>1. handler' \in [Handlers -> Deliveries] /\ customer' \in [Phones -> CustomerDocs]
  BY <1>t, StepsGoOnward, WorksThere
<1> USE DEF intakeDb, intakeHistory
<1>2. order' = order \/ order' = Append(order, handler[h].phone)
  BY DEF HandlerStep, InsertCustomer, PendFlow, RefetchCustomer, AssignIfUnassigned,
    DecideTemplate, MarkTemplate, SendTemplate, FlowRead, FlowSave, SetReady, ProcessLead,
    NotifyLook, NotifySend, NotifyMark
<1>3. order' \in Seq(Phones)
  BY <1>t, <1>2
<1>4. lead' = lead \/ lead' = [lead EXCEPT !.status = "processed"]
      \/ lead' = [lead EXCEPT !.notified = TRUE]
  BY DEF HandlerStep, InsertCustomer, PendFlow, RefetchCustomer, AssignIfUnassigned,
    DecideTemplate, MarkTemplate, SendTemplate, FlowRead, FlowSave, SetReady, ProcessLead,
    NotifyLook, NotifySend, NotifyMark
<1>5. lead' \in [status : {"none", "pending", "processed"}, notified : BOOLEAN]
  BY <1>t, <1>4
<1>6. templates' \in Nat /\ notices' \in Nat
  <2>1. (templates' = templates \/ templates' = templates + 1)
        /\ (notices' = notices \/ notices' = notices + 1)
    BY DEF HandlerStep, InsertCustomer, PendFlow, RefetchCustomer, AssignIfUnassigned,
      DecideTemplate, MarkTemplate, SendTemplate, FlowRead, FlowSave, SetReady, ProcessLead,
      NotifyLook, NotifySend, NotifyMark
  <2> QED
    BY <1>t, <2>1
<1>7. UNCHANGED <<ingresses, intakeCrashes, raced>>
  BY DEF HandlerStep, InsertCustomer, PendFlow, RefetchCustomer, AssignIfUnassigned,
    DecideTemplate, MarkTemplate, SendTemplate, FlowRead, FlowSave, SetReady, ProcessLead,
    NotifyLook, NotifySend, NotifyMark
<1>8. nationalFirst' \in BOOLEAN /\ unassigned' \in BOOLEAN
  <2>1. nationalFirst' = nationalFirst
        \/ nationalFirst' = (nationalFirst \/ (order = <<>> /\ handler[h].phone = "national"))
    BY DEF HandlerStep, InsertCustomer, PendFlow, RefetchCustomer, AssignIfUnassigned,
      DecideTemplate, MarkTemplate, SendTemplate, FlowRead, FlowSave, SetReady, ProcessLead,
      NotifyLook, NotifySend, NotifyMark
  <2>2. unassigned' = unassigned
        \/ \E v \in Ventors \cup {NoVentor} : unassigned' = (unassigned \/ v = NoVentor)
    BY DEF HandlerStep, InsertCustomer, PendFlow, RefetchCustomer, AssignIfUnassigned,
      DecideTemplate, MarkTemplate, SendTemplate, FlowRead, FlowSave, SetReady, ProcessLead,
      NotifyLook, NotifySend, NotifyMark
  <2> QED
    BY <1>t, <2>1, <2>2
<1> QED
  BY <1>t, <1>1, <1>3, <1>5, <1>6, <1>7, <1>8 DEF IntakeTypeOK, Deliveries, HandlerPlaces

LEMMA TakeHands ==
  ASSUME IntakeTypeOK, IntakeDocs, NEW h \in Handlers, NEW what \in Ingresses,
         NEW phone \in Phones, TakeDelivery(h, what, phone)
  PROVE  \E d \in Deliveries : /\ handler[h].at = "idle" /\ d.at \in {"create", "assign"}
                               /\ handler' = [handler EXCEPT ![h] = d]
<1>1. PICK d \in Deliveries :
        /\ handler[h].at = "idle" /\ handler' = [handler EXCEPT ![h] = d]
        /\ d.what = what /\ d.created = FALSE
        /\ what \in ChatIngresses => d.phone = "international"
        /\ \/ /\ d.at = "create" /\ d.seen = Absent
              /\ what \in ChatIngresses => customer["international"] = Absent
              /\ what \notin ChatIngresses => order = <<>>
           \/ /\ d.at = "assign" /\ d.seen = customer[d.phone]
              /\ customer[d.phone].funnel # "absent"
  BY TakeWorks
<1> QED
  BY <1>1

LEMMA TakeTypes ==
  ASSUME IntakeInv, NEW h \in Handlers, NEW what \in Ingresses, NEW phone \in Phones,
         TakeDelivery(h, what, phone)
  PROVE  IntakeTypeOK'
<1>t. /\ IntakeTypeOK /\ IntakeDocs /\ handler \in [Handlers -> Deliveries]
      /\ lead \in [status : {"none", "pending", "processed"}, notified : BOOLEAN]
      /\ ingresses \in Nat /\ raced \in BOOLEAN
  BY DeliveryTypes DEF IntakeInv, IntakeTypeOK
<1>1. handler' \in [Handlers -> Deliveries]
  <2>1. PICK d \in Deliveries : handler' = [handler EXCEPT ![h] = d]
    BY <1>t, TakeHands
  <2> QED
    BY <1>t, <2>1
<1>2. /\ lead' = IF what \in FormIngresses THEN [lead EXCEPT !.status = "pending"] ELSE lead
      /\ ingresses' = ingresses + 1
      /\ raced' = (raced \/ \E g \in Handlers : handler[g].at # "idle")
      /\ UNCHANGED <<customer, order, templates, notices, nationalFirst, unassigned,
                     intakeCrashes>>
  BY DEF TakeDelivery
<1>3. lead' \in [status : {"none", "pending", "processed"}, notified : BOOLEAN]
  BY <1>t, <1>2
<1>4. ingresses' \in Nat
  BY <1>t, <1>2
<1>5. raced' \in BOOLEAN
  BY <1>t, <1>2
<1> QED
  BY <1>t, <1>1, <1>2, <1>3, <1>4, <1>5 DEF IntakeTypeOK, Deliveries, HandlerPlaces

LEMMA TakeSends ==
  ASSUME IntakeInv, NEW h \in Handlers, NEW what \in Ingresses, NEW phone \in Phones,
         TakeDelivery(h, what, phone)
  PROVE  TemplateIsMarked' /\ NoticeIsMarked'
<1>t. IntakeTypeOK /\ IntakeDocs
  BY DEF IntakeInv
<1>1. PICK d \in Deliveries :
        handler' = [handler EXCEPT ![h] = d] /\ d.at \in {"create", "assign"}
        /\ handler[h].at = "idle"
  BY <1>t, TakeHands
<1>2. handler'[h] = d /\ \A g \in Handlers : g # h => handler'[g] = handler[g]
  BY <1>1, <1>t, DeliveryTypes
<1>3. /\ UNCHANGED <<customer, templates, notices, intakeCrashes>> /\ (~raced' => ~raced)
      /\ lead' = lead \/ lead' = [lead EXCEPT !.status = "pending"]
  BY DEF TakeDelivery
<1>4. lead'.notified = lead.notified
  BY <1>t, <1>3 DEF IntakeTypeOK
<1>5. TemplateIsMarked'
  BY <1>1, <1>2, <1>3 DEF TemplateIsMarked, IntakeInv
<1>6. NoticeIsMarked'
  <2>1. \A g \in Handlers : handler[g].at = "notify mark" => handler'[g].at = "notify mark"
    BY <1>1, <1>2
  <2>2. \A g \in Handlers : handler'[g].at = "notify send" => handler[g].at = "notify send"
    BY <1>1, <1>2
  <2> QED
    BY <1>3, <1>4, <2>1, <2>2 DEF NoticeIsMarked, IntakeInv
<1> QED
  BY <1>5, <1>6

LEMMA CrashKeeps ==
  ASSUME IntakeInv, IntakeCrash
  PROVE  IntakeInv'
<1>1. /\ handler' = [h \in Handlers |-> NoHandler] /\ intakeCrashes' = intakeCrashes + 1
      /\ UNCHANGED <<customer, order, lead, templates, notices, ingresses, raced,
                     nationalFirst, unassigned>>
  BY DEF IntakeCrash, intakeDb
<1>2. /\ \A h \in Handlers : handler'[h] = NoHandler
      /\ handler' \in [Handlers -> Deliveries]
  BY <1>1, DocConstants
<1>3. intakeCrashes' \in Nat /\ intakeCrashes' # 0
  <2>1. intakeCrashes \in Nat
    BY DEF IntakeInv, IntakeTypeOK
  <2> QED
    BY <1>1, <2>1
<1>4. IntakeTypeOK'
  BY <1>1, <1>2, <1>3 DEF IntakeInv, IntakeTypeOK, Deliveries, HandlerPlaces
<1>5. IntakeDocs'
  BY <1>1, <1>2, HandlerFields DEF IntakeInv, IntakeDocs
<1>6. SeenStays'
  BY <1>1, <1>2, HandlerFields DEF IntakeInv, SeenStays
<1>7. AloneSees'
  BY <1>1, <1>2, HandlerFields DEF IntakeInv, AloneSees, InHands
<1>8. FirstIsFound'
  BY <1>1, <1>2, HandlerFields DEF IntakeInv, FirstIsFound
<1>9. TemplateIsMarked' /\ NoticeIsMarked' /\ ReadyHasVentor'
  BY <1>1, <1>2, <1>3, HandlerFields DEF IntakeInv, TemplateIsMarked, NoticeIsMarked,
     ReadyHasVentor
<1> QED
  BY <1>4, <1>5, <1>6, <1>7, <1>8, <1>9 DEF IntakeInv

LEMMA IntakeStarts == IntakeInit => IntakeInv
<1> SUFFICES ASSUME IntakeInit PROVE IntakeInv
  OBVIOUS
<1>1. /\ \A h \in Handlers : handler[h] = NoHandler
      /\ handler \in [Handlers -> Deliveries]
      /\ \A p \in Phones : customer[p] = Absent
      /\ customer \in [Phones -> CustomerDocs]
      /\ order = <<>> /\ lead = [status |-> "none", notified |-> FALSE]
      /\ templates = 0 /\ notices = 0 /\ ingresses = 0 /\ intakeCrashes = 0
      /\ raced = FALSE /\ nationalFirst = FALSE /\ unassigned = FALSE
  BY DocConstants DEF IntakeInit
<1>2. order \in Seq(Phones) /\ Len(order) = 0 /\ DOMAIN order = {}
  BY <1>1, EmptySeq, LenProperties
<1>3. IntakeTypeOK
  <2>1. lead \in [status : {"none", "pending", "processed"}, notified : BOOLEAN]
    BY <1>1
  <2>2. 0 \in Nat
    OBVIOUS
  <2>3. {templates, notices, ingresses, intakeCrashes} \subseteq Nat
    BY <1>1, <2>2
  <2>4. {raced, nationalFirst, unassigned} \subseteq BOOLEAN
    BY <1>1
  <2> QED
    BY <1>1, <1>2, <2>1, <2>3, <2>4, IntakeTypeIs
<1>4. IntakeDocs
  BY <1>1, <1>2, HandlerFields DEF IntakeDocs
<1>5. SeenStays
  BY <1>1, HandlerFields DEF SeenStays
<1>6. AloneSees
  BY <1>1, HandlerFields DEF AloneSees, InHands
<1>7. FirstIsFound
  BY <1>1, <1>2, HandlerFields DEF FirstIsFound
<1>8. TemplateIsMarked /\ NoticeIsMarked
  BY <1>1, HandlerFields DEF TemplateIsMarked, NoticeIsMarked
<1>9. ReadyHasVentor
  BY <1>1, HandlerFields DEF ReadyHasVentor
<1> QED
  BY <1>3, <1>4, <1>5, <1>6, <1>7, <1>8, <1>9 DEF IntakeInv

LEMMA IntakeStep == IntakeInv /\ [IntakeNext]_intakeVars => IntakeInv'
<1> SUFFICES ASSUME IntakeInv, [IntakeNext]_intakeVars PROVE IntakeInv'
  OBVIOUS
<1>1. CASE IntakeCrash
  BY <1>1, CrashKeeps
<1>2. ASSUME NEW h \in Handlers, NEW what \in Ingresses, NEW phone \in Phones,
             TakeDelivery(h, what, phone)
      PROVE  IntakeInv'
  BY <1>2, TakeKeeps, TakeTypes, TakeSends DEF IntakeInv, IntakeRest
<1>3. ASSUME NEW h \in Handlers, HandlerStep(h)
      PROVE  IntakeInv'
  <2>1. IntakeRest'
    BY <1>3, InsertKeeps, PendFlowKeeps, RefetchCustomerKeeps, AssignKeeps, DecideTemplateKeeps,
      MarkTemplateKeeps, SendTemplateKeeps, FlowReadKeeps, FlowSaveKeeps, SetReadyKeeps,
      ProcessLeadKeeps, NotifyLookKeeps, NotifySendKeeps, NotifyMarkKeeps DEF HandlerStep
  <2>2. TemplateIsMarked' /\ NoticeIsMarked'
    BY <1>3, TemplatesKeep, NoticesKeep DEF HandlerStep
  <2> QED
    BY <1>3, <2>1, <2>2, HandlerTypesKeep DEF IntakeInv, IntakeRest
<1>4. CASE UNCHANGED intakeVars
  <2>1. UNCHANGED <<customer, order, lead, handler, templates, notices, ingresses, raced,
                    nationalFirst, unassigned, intakeCrashes>>
    BY <1>4 DEF intakeVars, intakeDb, intakeHistory
  <2>2. IntakeTypeOK'
    BY <2>1 DEF IntakeInv, IntakeTypeOK
  <2>3. IntakeDocs' /\ SeenStays'
    BY <2>1 DEF IntakeInv, IntakeDocs, SeenStays
  <2>4. AloneSees'
    BY <2>1 DEF IntakeInv, AloneSees, InHands
  <2>5. FirstIsFound' /\ TemplateIsMarked' /\ NoticeIsMarked' /\ ReadyHasVentor'
    BY <2>1 DEF IntakeInv, FirstIsFound, TemplateIsMarked, NoticeIsMarked, ReadyHasVentor
  <2> QED
    BY <2>2, <2>3, <2>4, <2>5 DEF IntakeInv
<1> QED
  BY <1>1, <1>2, <1>3, <1>4 DEF IntakeNext, HandlerStep

\* One customer per person, greeted and announced once, ready only with a ventor, in
\* whatever order deliveries of his messages and forms come, and whenever the service dies.
THEOREM IntakeIsCorrect == IntakeSpec => []IntakeCorrect
<1>1. IntakeInv => IntakeCorrect
  <2> SUFFICES ASSUME IntakeInv PROVE IntakeCorrect
    OBVIOUS
  <2>1. OnePersonOneCustomer
    BY DEF IntakeInv, FirstIsFound, OnePersonOneCustomer
  <2>2. FirstTemplateOnce
    BY DEF IntakeInv, TemplateIsMarked, FirstTemplateOnce
  <2>3. NotifiedOnce
    <3>1. intakeCrashes \in Nat
      BY DEF IntakeInv, IntakeTypeOK
    <3>2. intakeCrashes = 0 \/ intakeCrashes > 0
      BY <3>1
    <3> QED
      BY <3>2 DEF IntakeInv, NoticeIsMarked, NotifiedOnce
  <2> QED
    BY <2>1, <2>2, <2>3 DEF IntakeInv, IntakeCorrect
<1> QED
  BY <1>1, IntakeStarts, IntakeStep, PTL DEF IntakeSpec

\* The intake takes nobody's ventor away and sends nobody back in the funnel.
THEOREM IntakeGoesOnward == IntakeSpec => IntakeGoesForward
<1>1. ASSUME IntakeInv, IntakeNext, NEW p \in Phones
      PROVE  /\ (customer[p].assigned # NoVentor /\ ~raced) =>
                  customer'[p].assigned = customer[p].assigned
             /\ (~raced /\ ~unassigned') => Rank(customer'[p].funnel) >= Rank(customer[p].funnel)
  <2>t. /\ IntakeTypeOK /\ customer[p] \in CustomerDocs /\ customer[p].funnel \in FunnelStates
    BY <1>1, DocFields, IntakeTypeIs DEF IntakeInv
  <2>1. CASE customer' = customer
    BY <2>1, <2>t, RanksOrdered
  <2>2. ASSUME NEW h \in Handlers, HandlerStep(h)
        PROVE  /\ (customer[p].assigned # NoVentor /\ ~raced) =>
                    customer'[p].assigned = customer[p].assigned
               /\ (~raced /\ ~unassigned') =>
                    Rank(customer'[p].funnel) >= Rank(customer[p].funnel)
    <3>1. PICK d \in Deliveries, c \in CustomerDocs : Works(h, d, c) /\ Onward(h, c)
      BY <1>1, <2>2, StepsGoOnward
    <3>2. StepOf(h, d, c)
      BY <2>t, <3>1, WorksStep
    <3>3. CASE p = handler[h].phone
      <4>1. customer'[p] = c /\ customer[p] = DocOf(h)
        BY <3>2, <3>3 DEF StepOf, DocOf
      <4> QED
        BY <3>1, <4>1 DEF Onward
    <3>4. CASE p # handler[h].phone
      <4>1. customer'[p] = customer[p]
        BY <3>2, <3>4 DEF StepOf
      <4> QED
        BY <2>t, <4>1, RanksOrdered
    <3> QED
      BY <3>3, <3>4
  <2>3. customer' = customer \/ \E h \in Handlers : HandlerStep(h)
    BY <1>1 DEF IntakeNext, HandlerStep, IntakeCrash, TakeDelivery, intakeDb
  <2> QED
    BY <2>1, <2>2, <2>3
<1>2. IntakeInv /\ [IntakeNext]_intakeVars =>
        /\ [\A p \in Phones : (customer[p].assigned # NoVentor /\ ~raced) =>
              customer'[p].assigned = customer[p].assigned]_customer
        /\ [\A p \in Phones : (~raced /\ ~unassigned') =>
              Rank(customer'[p].funnel) >= Rank(customer[p].funnel)]_customer
  BY <1>1 DEF intakeVars, intakeDb
<1> QED
  BY <1>2, IntakeStarts, IntakeStep, PTL
     DEF IntakeSpec, IntakeGoesForward, IntakeKeepsVentor, FunnelGoesForward

-----------------------------------------------------------------------------
(* The nudge to who has sent a form                                          *)

\* Jobs and handlers are of forms that count as processed, and a job waits under the
\* number of its form; only who has written is heard.
NudgeJobs ==
  /\ \A n \in Numbers : job[n].at # "none" =>
       number[job[n].form] = n /\ job[n].form \in processed
  /\ \A h \in FormHandlers : former[h].at # "idle" => former[h].form \in processed
  /\ heard \/ inbound # "idle" => written > 0
  /\ \A n \in Numbers : job[n].at = "mark" => nudges[job[n].form] > 0

\* Whoever has nudged somebody for a form has noted it, or is about to.
NudgeIsNoted ==
  (nudgeCrashes = 0 /\ ~doubled) =>
    /\ \A l \in Forms :
         /\ nudges[l] <= 1
         /\ nudges[l] = 1 =>
              l \in sent \/ (job[number[l]].at = "mark" /\ job[number[l]].form = l)
    /\ \A n \in Numbers : job[n].at = "send" => job[n].form \notin sent

\* A number that a form was processed for has had its template, or has one coming.
Coming(n) ==
  \/ \E k \in processed : number[k] = n /\ nudges[k] > 0
  \/ \E h \in FormHandlers : former[h].at # "idle" /\ number[former[h].form] = n
  \/ job[n].at # "none"

NudgeIsComing ==
  (written = 0 /\ ~undone /\ ~clashed /\ nudgeCrashes = 0) =>
    \A l \in processed : Coming(number[l])

\* Once he is heard, the one job that had looked before is all there is.
LateIsLast ==
  /\ lateNudges <= 1
  /\ lateNudges = 1 => heard /\ job["international"].at \notin {"campaign", "send"}

NudgeInv ==
  NudgeTypeOK /\ SentIsNudged /\ NudgeJobs /\ NudgeIsNoted /\ NudgeIsComing /\ LateIsLast

Jobs == [at : JobPlaces, form : Forms]
FormPlaces == {"idle", "cancel", "delay", "default", "add"}
Formers == [at : FormPlaces, form : Forms]

LEMMA NudgeTypes ==
  ASSUME NudgeTypeOK
  PROVE  /\ job \in [Numbers -> Jobs] /\ former \in [FormHandlers -> Formers]
         /\ number \in [Forms -> Numbers] /\ nudges \in [Forms -> Nat]
         /\ \A n \in Numbers : job[n].form \in Forms /\ job[n].at \in JobPlaces
         /\ \A h \in FormHandlers : former[h].form \in Forms /\ number[former[h].form] \in Numbers
         /\ "international" \in Numbers
BY DEF NudgeTypeOK, Jobs, Formers, FormPlaces, Numbers

LEMMA IdleIs == Idle \in Formers /\ Idle.at = "idle" /\ SomeForm \in Forms
<1>1. SomeForm \in Forms
  BY NudgeAssumption DEF SomeForm
<1> QED
  BY <1>1 DEF Idle, Formers, FormPlaces

\* The job of a number is in another place; what a handler has in hand is another thing.
JobMoves(n, p) ==
  /\ job' \in [Numbers -> Jobs]
  /\ job'[n].at = p /\ job'[n].form = job[n].form
  /\ \A m \in Numbers : m # n => job'[m] = job[m]

FormerIs(h, f) ==
  /\ former' \in [FormHandlers -> Formers]
  /\ former'[h] = f /\ \A g \in FormHandlers : g # h => former'[g] = former[g]

LEMMA JobToMoves ==
  ASSUME NudgeTypeOK, NEW n \in Numbers, NEW p \in JobPlaces, JobTo(n, p)
  PROVE  JobMoves(n, p)
<1>1. job \in [Numbers -> Jobs]
  BY NudgeTypes
<1>2. job' = [job EXCEPT ![n].at = p]
  BY DEF JobTo
<1> QED
  BY <1>1, <1>2 DEF JobMoves, Jobs

LEMMA RemoveMoves ==
  ASSUME NudgeTypeOK, NEW n \in Numbers, job' = Remove(n)
  PROVE  JobMoves(n, IF job[n].at = "delayed" THEN "none" ELSE job[n].at)
<1>1. job \in [Numbers -> Jobs]
  BY NudgeTypes
<1>2. CASE job[n].at = "delayed"
  <2>1. job' = [job EXCEPT ![n].at = "none"]
    BY <1>2 DEF Remove
  <2> QED
    BY <1>1, <1>2, <2>1 DEF JobMoves, Jobs, JobPlaces
<1>3. CASE job[n].at # "delayed"
  BY <1>1, <1>3 DEF JobMoves, Remove
<1> QED
  BY <1>2, <1>3

LEMMA FormToIs ==
  ASSUME NudgeTypeOK, NEW h \in FormHandlers, NEW p \in FormPlaces, FormTo(h, p)
  PROVE  /\ FormerIs(h, former'[h]) /\ former'[h].at = p /\ former'[h].form = former[h].form
<1>1. former \in [FormHandlers -> Formers]
  BY NudgeTypes
<1>2. former' = [former EXCEPT ![h].at = p]
  BY DEF FormTo
<1> QED
  BY <1>1, <1>2 DEF FormerIs, Formers

LEMMA FormerSet ==
  ASSUME NudgeTypeOK, NEW h \in FormHandlers, NEW f \in Formers,
         former' = [former EXCEPT ![h] = f]
  PROVE  FormerIs(h, f)
BY NudgeTypes DEF FormerIs

\* What a step of the handlers of forms leaves alone.
SameNudges == UNCHANGED <<number, sent, heard, inbound, nudges, lateNudges, written,
                          undone, doubled, nudgeCrashes>>

LEMMA FormStepTypes ==
  ASSUME NudgeTypeOK, SameNudges, processed' \subseteq Forms, settings' \in BOOLEAN,
         job' \in [Numbers -> Jobs], former' \in [FormHandlers -> Formers], forms' \in Nat,
         clashed' \in BOOLEAN
  PROVE  NudgeTypeOK'
BY DEF NudgeTypeOK, SameNudges, Jobs, Formers, FormPlaces

LEMMA TakeFormKeeps ==
  ASSUME NudgeInv, NEW h \in FormHandlers, NEW l \in Forms, TakeForm(h, l)
  PROVE  NudgeInv'
<1> DEFINE f == [at |-> "cancel", form |-> l]
<1>t. NudgeTypeOK
  BY DEF NudgeInv
<1>1. /\ former[h].at = "idle" /\ processed' = processed \cup {l} /\ forms' = forms + 1
      /\ former' = [former EXCEPT ![h] = f]
      /\ UNCHANGED <<settings, job, clashed>> /\ SameNudges
  BY DEF TakeForm, FormAt, SameNudges
<1>2. f \in Formers /\ f.at = "cancel" /\ f.form = l
  BY DEF Formers, FormPlaces
<1> HIDE DEF f
<1>3. FormerIs(h, f)
  BY <1>t, <1>1, <1>2, FormerSet
<1>4. NudgeTypeOK'
  <2>1. forms' \in Nat /\ processed' \subseteq Forms
    BY <1>t, <1>1 DEF NudgeTypeOK
  <2> QED
    BY <1>t, <1>1, <1>3, <2>1, FormStepTypes, NudgeTypes DEF FormerIs, NudgeTypeOK
<1> USE DEF SameNudges
<1>5. SentIsNudged' /\ NudgeIsNoted' /\ LateIsLast'
  BY <1>1 DEF NudgeInv, SentIsNudged, NudgeIsNoted, LateIsLast
<1>6. NudgeJobs'
  BY <1>1, <1>2, <1>3 DEF NudgeInv, NudgeJobs, FormerIs
<1>7. NudgeIsComing'
  <2>1. ASSUME NEW n \in Numbers, Coming(n) PROVE Coming(n)'
    BY <1>1, <1>3, <2>1 DEF Coming, FormerIs
  <2>2. Coming(number[l])'
    BY <1>1, <1>2, <1>3 DEF Coming, FormerIs
  <2> QED
    BY <1>t, <1>1, <2>1, <2>2 DEF NudgeInv, NudgeIsComing, NudgeTypeOK
<1> QED
  BY <1>4, <1>5, <1>6, <1>7 DEF NudgeInv

LEMMA ScheduleKeeps ==
  ASSUME NudgeInv, NEW h \in FormHandlers, ScheduleNudge(h)
  PROVE  NudgeInv'
<1>t. NudgeTypeOK
  BY DEF NudgeInv
<1>u. SameNudges /\ UNCHANGED <<processed, settings, forms, clashed>>
  BY DEF ScheduleNudge, nudgeDb, nudgeHistory, SameNudges
<1> DEFINE l == former[h].form
           n == number[l]
<1>l. l \in Forms /\ n \in Numbers
  BY <1>t, NudgeTypes
<1>1. CASE FormAt(h, "cancel") /\ job' = Remove(n) /\ FormTo(h, "delay")
  <2>1. JobMoves(n, IF job[n].at = "delayed" THEN "none" ELSE job[n].at)
    BY <1>1, <1>t, <1>l, RemoveMoves
  <2>2. FormerIs(h, former'[h]) /\ former'[h].at = "delay" /\ former'[h].form = l
    BY <1>1, <1>t, FormToIs DEF FormPlaces
  <2>3. former[h].at = "cancel"
    BY <1>1 DEF FormAt
  <2>4. NudgeTypeOK'
    BY <1>t, <1>u, <2>1, <2>2, FormStepTypes DEF JobMoves, FormerIs, NudgeTypeOK
  <2> USE DEF SameNudges
  <2>5. SentIsNudged' /\ NudgeJobs'
    BY <1>u, <1>l, <2>1, <2>2, <2>3 DEF NudgeInv, SentIsNudged, NudgeJobs, JobMoves, FormerIs
  <2>6. NudgeIsNoted'
    <3>1. \A m \in Numbers : job'[m].form = job[m].form
            /\ (job[m].at = "mark" <=> job'[m].at = "mark")
            /\ (job[m].at = "send" <=> job'[m].at = "send")
      BY <2>1 DEF JobMoves
    <3>2. \A k \in Forms : number[k] \in Numbers
      BY <1>t, NudgeTypes
    <3> QED
      BY <1>u, <3>1, <3>2 DEF NudgeInv, NudgeIsNoted
  <2>7. NudgeIsComing'
    <3>1. ASSUME NEW m \in Numbers, Coming(m) PROVE Coming(m)'
      <4>1. CASE m = n
        BY <1>u, <2>2, <4>1 DEF Coming
      <4>2. CASE m # n
        BY <1>u, <2>1, <2>2, <3>1, <4>2 DEF Coming, JobMoves, FormerIs
      <4> QED
        BY <4>1, <4>2
    <3> QED
      BY <1>t, <1>u, <3>1 DEF NudgeInv, NudgeIsComing, NudgeTypeOK
  <2>8. LateIsLast'
    BY <1>t, <1>u, <1>l, <2>1, NudgeTypes DEF NudgeInv, LateIsLast, JobMoves
  <2> QED
    BY <2>4, <2>5, <2>6, <2>7, <2>8 DEF NudgeInv
<1>2. CASE FormAt(h, "add") /\ job' = Added(l) /\ former' = [former EXCEPT ![h] = Idle]
  <2>1. FormerIs(h, Idle)
    BY <1>2, <1>t, FormerSet, IdleIs
  <2>2. former[h].at = "add"
    BY <1>2 DEF FormAt
  <2>3. /\ job' \in [Numbers -> Jobs] /\ \A m \in Numbers : m # n => job'[m] = job[m]
        /\ \/ job[n].at # "none" /\ job'[n] = job[n]
           \/ job[n].at = "none" /\ job'[n].at = "delayed" /\ job'[n].form = l
    <3>1. job \in [Numbers -> Jobs]
      BY <1>t, NudgeTypes
    <3>2. [at |-> "delayed", form |-> l] \in Jobs
      BY <1>l DEF Jobs, JobPlaces
    <3>3. job' = IF job[n].at = "none" THEN [job EXCEPT ![n] = [at |-> "delayed", form |-> l]]
                 ELSE job
      BY <1>2 DEF Added
    <3> QED
      BY <1>l, <3>1, <3>2, <3>3
  <2>4. NudgeTypeOK'
    BY <1>t, <1>u, <2>1, <2>3, FormStepTypes DEF FormerIs, NudgeTypeOK
  <2> USE DEF SameNudges
  <2>5. SentIsNudged' /\ NudgeJobs'
    <3>1. l \in processed
      BY <2>2 DEF NudgeInv, NudgeJobs
    <3> QED
      BY <1>u, <1>l, <2>1, <2>2, <2>3, <3>1, IdleIs
         DEF NudgeInv, SentIsNudged, NudgeJobs, FormerIs
  <2>6. NudgeIsNoted'
    <3>1. \A m \in Numbers : /\ job[m].at = "mark" => job'[m] = job[m]
                             /\ job'[m].at = "send" => job'[m] = job[m]
      BY <2>3
    <3>2. \A k \in Forms : number[k] \in Numbers
      BY <1>t, NudgeTypes
    <3> QED
      BY <1>u, <3>1, <3>2 DEF NudgeInv, NudgeIsNoted
  <2>7. NudgeIsComing'
    <3>1. ASSUME NEW m \in Numbers, Coming(m) PROVE Coming(m)'
      <4>1. CASE m = n
        BY <1>u, <1>l, <2>3, <4>1 DEF Coming
      <4>2. CASE m # n
        BY <1>u, <2>1, <2>3, <3>1, <4>2 DEF Coming, FormerIs
      <4> QED
        BY <4>1, <4>2
    <3> QED
      BY <1>t, <1>u, <3>1 DEF NudgeInv, NudgeIsComing, NudgeTypeOK
  <2>8. LateIsLast'
    BY <1>t, <1>u, <1>l, <2>3, NudgeTypes DEF NudgeInv, LateIsLast
  <2> QED
    BY <2>4, <2>5, <2>6, <2>7, <2>8 DEF NudgeInv
<1> QED
  BY <1>1, <1>2 DEF ScheduleNudge

\* A handler goes on, or gives up where that is noted.
LEMMA DelayKeeps ==
  ASSUME NudgeInv, NEW h \in FormHandlers, NEW f \in Formers, former' = [former EXCEPT ![h] = f],
         UNCHANGED <<processed, job, forms>>, SameNudges, former[h].at # "idle",
         settings' \in BOOLEAN, clashed' \in BOOLEAN, clashed => clashed',
         (f.at # "idle" /\ f.form = former[h].form) \/ (f = Idle /\ clashed')
  PROVE  NudgeInv'
<1>t. NudgeTypeOK
  BY DEF NudgeInv
<1>1. FormerIs(h, f)
  BY <1>t, FormerSet
<1>2. NudgeTypeOK'
  BY <1>t, <1>1, FormStepTypes, NudgeTypes DEF FormerIs, NudgeTypeOK
<1> USE DEF SameNudges
<1>3. SentIsNudged' /\ NudgeIsNoted' /\ LateIsLast'
  BY DEF NudgeInv, SentIsNudged, NudgeIsNoted, LateIsLast
<1>4. NudgeJobs'
  BY <1>1, IdleIs DEF NudgeInv, NudgeJobs, FormerIs
<1>5. NudgeIsComing'
  <2> SUFFICES ASSUME ~clashed' PROVE NudgeIsComing'
    BY DEF NudgeIsComing
  <2>1. f.at # "idle" /\ f.form = former[h].form
    OBVIOUS
  <2>2. ASSUME NEW n \in Numbers, Coming(n) PROVE Coming(n)'
    BY <1>1, <2>1, <2>2 DEF Coming, FormerIs
  <2> QED
    BY <1>t, <2>2 DEF NudgeInv, NudgeIsComing, NudgeTypeOK
<1> QED
  BY <1>2, <1>3, <1>4, <1>5 DEF NudgeInv

LEMMA ReadDelayKeeps ==
  ASSUME NudgeInv, NEW h \in FormHandlers, ReadDelay(h) \/ CreateDelay(h)
  PROVE  NudgeInv'
<1>t. /\ NudgeTypeOK /\ former \in [FormHandlers -> Formers] /\ former[h] \in Formers
      /\ settings \in BOOLEAN /\ clashed \in BOOLEAN
  BY NudgeTypes DEF NudgeInv, NudgeTypeOK
<1>f. ASSUME NEW p \in FormPlaces \ {"idle"}, FormTo(h, p),
             UNCHANGED <<processed, job, forms>>, SameNudges, former[h].at # "idle",
             settings' \in BOOLEAN, UNCHANGED clashed
      PROVE  NudgeInv'
  <2> DEFINE f == [former[h] EXCEPT !.at = p]
  <2>1. f \in Formers /\ f.at = p /\ f.form = former[h].form
    BY <1>t DEF Formers
  <2>2. former' = [former EXCEPT ![h] = f]
    BY <1>t, <1>f DEF FormTo
  <2> HIDE DEF f
  <2>3. f.at # "idle"
    BY <2>1
  <2>4. clashed' \in BOOLEAN /\ (clashed => clashed')
    BY <1>t, <1>f
  <2>5. (f.at # "idle" /\ f.form = former[h].form) \/ (f = Idle /\ clashed')
    BY <2>1, <2>3
  <2> QED
    BY <1>f, <2>1, <2>2, <2>4, <2>5, DelayKeeps
<1>1. CASE ReadDelay(h)
  <2>1. UNCHANGED <<processed, job, forms, settings, clashed>> /\ SameNudges
    BY <1>1 DEF ReadDelay, nudgeDb, nudgeHistory, SameNudges
  <2>2. former[h].at # "idle" /\ (FormTo(h, "add") \/ FormTo(h, "default"))
    BY <1>1 DEF ReadDelay, FormAt
  <2>3. settings' \in BOOLEAN /\ "add" \in FormPlaces \ {"idle"}
        /\ "default" \in FormPlaces \ {"idle"}
    BY <1>t, <2>1 DEF FormPlaces
  <2>4. CASE FormTo(h, "add")
    BY <1>f, <2>1, <2>2, <2>3, <2>4
  <2>5. CASE FormTo(h, "default")
    BY <1>f, <2>1, <2>2, <2>3, <2>5
  <2> QED
    BY <2>2, <2>4, <2>5
<1>2. CASE CreateDelay(h)
  <2>1. UNCHANGED <<processed, job, forms>> /\ SameNudges /\ settings' = TRUE
        /\ former[h].at # "idle"
    BY <1>2 DEF CreateDelay, SameNudges, FormAt
  <2>2. CASE settings
    <3>1. former' = [former EXCEPT ![h] = Idle] /\ clashed' = TRUE
      BY <1>2, <2>2 DEF CreateDelay
    <3> QED
      BY <2>1, <3>1, IdleIs, DelayKeeps
  <2>3. CASE ~settings
    <3>1. FormTo(h, "add") /\ UNCHANGED clashed
      BY <1>2, <2>3 DEF CreateDelay
    <3> QED
      BY <1>f, <2>1, <3>1 DEF FormPlaces
  <2> QED
    BY <2>2, <2>3
<1> QED
  BY <1>1, <1>2

\* What a step of the queue leaves alone.
SameForms == UNCHANGED <<number, processed, heard, settings, former, forms, written,
                         clashed, nudgeCrashes>>

LEMMA QueueStepTypes ==
  ASSUME NudgeTypeOK, SameForms, NEW n \in Numbers, NEW p \in JobPlaces, JobMoves(n, p),
         sent' \subseteq Forms, inbound' \in {"idle", "cancel", "apply"},
         nudges' \in [Forms -> Nat], lateNudges' \in Nat,
         undone' \in BOOLEAN, doubled' \in BOOLEAN
  PROVE  NudgeTypeOK'
BY DEF NudgeTypeOK, SameForms, JobMoves, Jobs

\* A job goes on to look, or ends where its form has had its template.
LEMMA JobKeeps ==
  ASSUME NudgeInv, NEW n \in Numbers, NEW p \in JobPlaces \ {"mark"}, JobMoves(n, p), SameForms,
         UNCHANGED <<sent, nudges, lateNudges, undone, doubled>>,
         inbound' \in {"idle", "cancel", "apply"},
         inbound' # "idle" => inbound # "idle",
         job[n].at \notin {"none", "mark"} \/ p = job[n].at,
         p = "none" => written > 0 \/ nudges[job[n].form] > 0,
         p = "send" => job[n].form \notin sent \/ job[n].at = "send",
         (p \in {"campaign", "send"} /\ n = "international" /\ heard) =>
            job[n].at \in {"campaign", "send"}
  PROVE  NudgeInv'
<1>t. NudgeTypeOK /\ (\A m \in Numbers : job[m].form \in Forms)
      /\ (\A k \in Forms : number[k] \in Numbers) /\ "international" \in Numbers
  BY NudgeTypes DEF NudgeInv
<1>1. NudgeTypeOK'
  BY <1>t, QueueStepTypes DEF NudgeTypeOK
<1> USE DEF SameForms
<1>2. /\ job'[n].at = p /\ job'[n].form = job[n].form
      /\ \A m \in Numbers : m # n => job'[m] = job[m]
  BY DEF JobMoves
<1>3. SentIsNudged'
  BY DEF NudgeInv, SentIsNudged
<1>4. NudgeJobs'
  <2>1. \A m \in Numbers : job'[m].at # "none" =>
          number[job'[m].form] = m /\ job'[m].form \in processed
    BY <1>2 DEF NudgeInv, NudgeJobs
  <2>2. \A m \in Numbers : job'[m].at = "mark" => nudges[job'[m].form] > 0
    BY <1>2 DEF NudgeInv, NudgeJobs
  <2> QED
    BY <2>1, <2>2 DEF NudgeInv, NudgeJobs
<1>5. NudgeIsNoted'
  <2> SUFFICES ASSUME nudgeCrashes = 0, ~doubled PROVE NudgeIsNoted'
    BY DEF NudgeIsNoted
  <2>1. \A k \in Forms : (job[number[k]].at = "mark" /\ job[number[k]].form = k) =>
          job'[number[k]].at = "mark" /\ job'[number[k]].form = k
    BY <1>t, <1>2
  <2>2. \A m \in Numbers : job'[m].at = "send" => job'[m].form \notin sent
    BY <1>2 DEF NudgeInv, NudgeIsNoted
  <2> QED
    BY <2>1, <2>2 DEF NudgeInv, NudgeIsNoted
<1>6. NudgeIsComing'
  <2> SUFFICES ASSUME written = 0 PROVE NudgeIsComing'
    BY DEF NudgeIsComing
  <2>1. ASSUME NEW m \in Numbers, Coming(m) PROVE Coming(m)'
    <3>1. CASE m # n
      BY <1>2, <2>1, <3>1 DEF Coming
    <3>2. CASE m = n /\ p # "none"
      BY <1>2, <3>2 DEF Coming
    <3>3. CASE m = n /\ p = "none" /\ job[n].at # "none"
      <4>1. nudges[job[n].form] > 0 /\ number[job[n].form] = n /\ job[n].form \in processed
        <5>1. ~(written > 0)
          OBVIOUS
        <5> QED
          BY <3>3, <5>1 DEF NudgeInv, NudgeJobs
      <4> QED
        BY <3>3, <4>1 DEF Coming
    <3>4. CASE m = n /\ p = "none" /\ job[n].at = "none"
      BY <1>2, <2>1, <3>4 DEF Coming
    <3> QED
      BY <3>1, <3>2, <3>3, <3>4
  <2> QED
    BY <1>t, <2>1 DEF NudgeInv, NudgeIsComing, NudgeTypeOK
<1>7. LateIsLast'
  BY <1>t, <1>2 DEF NudgeInv, LateIsLast
<1> QED
  BY <1>1, <1>3, <1>4, <1>5, <1>6, <1>7 DEF NudgeInv

LEMMA LooksKeep ==
  ASSUME NudgeInv, NEW n \in Numbers, Fire(n) \/ LookSession(n) \/ LookCampaign(n)
  PROVE  NudgeInv'
<1>t. NudgeTypeOK /\ inbound \in {"idle", "cancel", "apply"}
  BY DEF NudgeInv, NudgeTypeOK
<1>p. {"none", "look", "campaign", "send"} \subseteq JobPlaces \ {"mark"}
  BY DEF JobPlaces
<1> USE DEF nudgeDb, nudgeHistory, SameForms
<1>1. CASE Fire(n)
  <2>1. JobMoves(n, "look")
    BY <1>1, <1>t, <1>p, JobToMoves DEF Fire
  <2> QED
    BY <1>1, <1>t, <1>p, <2>1, JobKeeps DEF Fire
<1>2. CASE LookSession(n)
  <2>u. SameForms /\ UNCHANGED <<sent, nudges, lateNudges, undone, doubled, inbound>>
        /\ job[n].at = "look"
    BY <1>2 DEF LookSession
  <2>1. CASE Answered(n)
    <3>1. JobMoves(n, "none")
      BY <1>2, <1>t, <1>p, <2>1, JobToMoves DEF LookSession
    <3>2. written > 0
      BY <2>1 DEF Answered, NudgeInv, NudgeJobs
    <3> QED
      BY <1>t, <1>p, <2>u, <3>1, <3>2, JobKeeps
  <2>2. CASE ~Answered(n)
    <3>1. JobMoves(n, "campaign")
      BY <1>2, <1>t, <1>p, <2>2, JobToMoves DEF LookSession
    <3>2. ~(n = "international" /\ heard)
      BY <2>2 DEF Answered
    <3> QED
      BY <1>t, <1>p, <2>u, <3>1, <3>2, JobKeeps
  <2> QED
    BY <2>1, <2>2
<1>3. CASE LookCampaign(n)
  <2>u. SameForms /\ UNCHANGED <<sent, nudges, lateNudges, undone, doubled, inbound>>
        /\ job[n].at = "campaign"
    BY <1>3 DEF LookCampaign
  <2>1. CASE job[n].form \in sent
    <3>1. JobMoves(n, "none")
      BY <1>3, <1>t, <1>p, <2>1, JobToMoves DEF LookCampaign, SentBefore
    <3>2. nudges[job[n].form] > 0
      BY <2>1 DEF NudgeInv, SentIsNudged
    <3> QED
      BY <1>t, <1>p, <2>u, <3>1, <3>2, JobKeeps
  <2>2. CASE job[n].form \notin sent
    <3>1. JobMoves(n, "send")
      BY <1>3, <1>t, <1>p, <2>2, JobToMoves DEF LookCampaign, SentBefore
    <3> QED
      BY <1>t, <1>p, <2>u, <2>2, <3>1, JobKeeps
  <2> QED
    BY <2>1, <2>2
<1> QED
  BY <1>1, <1>2, <1>3

LEMMA SendKeeps ==
  ASSUME NudgeInv, NEW n \in Numbers, SendNudge(n)
  PROVE  NudgeInv'
<1> DEFINE l == job[n].form
<1>t. /\ NudgeTypeOK /\ nudges \in [Forms -> Nat] /\ l \in Forms /\ lateNudges \in Nat
      /\ (\A m \in Numbers : job[m].form \in Forms) /\ nudges[l] \in Nat
      /\ \A k \in Forms : number[k] \in Numbers
      /\ "international" \in Numbers
  BY NudgeTypes DEF NudgeInv, NudgeTypeOK
<1>u. /\ SameForms /\ UNCHANGED <<sent, inbound>> /\ job[n].at = "send"
      /\ lateNudges' = IF nudges' # nudges /\ heard /\ n = "international"
                       THEN lateNudges + 1 ELSE lateNudges
  BY DEF SendNudge, SameForms, nudgeDb
<1>j. number[l] = n /\ l \in processed
  BY <1>u DEF NudgeInv, NudgeJobs
<1>late. /\ lateNudges' \in Nat
         /\ lateNudges' = lateNudges \/ (lateNudges' = 1 /\ heard /\ n = "international")
  <2>1. CASE nudges' # nudges /\ heard /\ n = "international"
    <3>1. lateNudges # 1 /\ lateNudges <= 1
      BY <1>u, <2>1 DEF NudgeInv, LateIsLast
    <3>2. lateNudges = 0
      BY <1>t, <3>1
    <3>3. lateNudges' = 0 + 1
      BY <1>u, <2>1, <3>2
    <3> QED
      BY <2>1, <3>3
  <2>2. CASE ~(nudges' # nudges /\ heard /\ n = "international")
    BY <1>t, <1>u, <2>2
  <2> QED
    BY <2>1, <2>2
<1>1. ASSUME NEW p \in {"none", "mark"}, JobMoves(n, p),
             undone' \in BOOLEAN, doubled' \in BOOLEAN, undone => undone', doubled => doubled',
             \/ nudges' = [nudges EXCEPT ![l] = @ + 1] /\ (p = "mark" \/ doubled')
             \/ nudges' = nudges /\ p = "none" /\ undone'
      PROVE  NudgeInv'
  <2>1. /\ job'[n].at = p /\ job'[n].form = l
        /\ \A m \in Numbers : m # n => job'[m] = job[m]
    BY <1>1 DEF JobMoves
  <2>2. /\ nudges' \in [Forms -> Nat] /\ \A k \in Forms : k # l => nudges'[k] = nudges[k]
        /\ \A k \in Forms : nudges[k] > 0 => nudges'[k] > 0
        /\ p = "mark" => nudges'[l] > 0 /\ nudges'[l] = nudges[l] + 1
    <3>1. CASE nudges' = nudges /\ p = "none"
      BY <1>t, <3>1
    <3>2. CASE nudges' = [nudges EXCEPT ![l] = @ + 1]
      <4>1. nudges'[l] = nudges[l] + 1 /\ (\A k \in Forms : k # l => nudges'[k] = nudges[k])
            /\ nudges' \in [Forms -> Nat]
        BY <1>t, <3>2
      <4>2. nudges'[l] > 0
        BY <1>t, <4>1
      <4> QED
        BY <4>1, <4>2
    <3> QED
      BY <1>1, <3>1, <3>2
  <2>3. NudgeTypeOK'
    <3>1. p \in JobPlaces
      BY DEF JobPlaces
    <3> QED
      BY <1>t, <1>u, <1>late, <1>1, <2>2, <3>1, QueueStepTypes DEF NudgeTypeOK
  <2> USE DEF SameForms
  <2>4. SentIsNudged'
    <3>1. sent \subseteq Forms
      BY <1>t DEF NudgeTypeOK
    <3> QED
      BY <1>u, <2>2, <3>1 DEF NudgeInv, SentIsNudged
  <2>5. NudgeJobs'
    <3>1. \A m \in Numbers : job'[m].at # "none" =>
            number[job'[m].form] = m /\ job'[m].form \in processed
      BY <1>j, <2>1 DEF NudgeInv, NudgeJobs
    <3>2. \A m \in Numbers : job'[m].at = "mark" => nudges'[job'[m].form] > 0
      BY <1>t, <2>1, <2>2 DEF NudgeInv, NudgeJobs
    <3> QED
      BY <1>u, <3>1, <3>2 DEF NudgeInv, NudgeJobs
  <2>6. NudgeIsNoted'
    <3> SUFFICES ASSUME nudgeCrashes = 0, ~doubled' PROVE NudgeIsNoted'
      BY <1>u DEF NudgeIsNoted
    <3>1. ~doubled
      BY <1>1
    <3>2. l \notin sent
      BY <1>u, <3>1 DEF NudgeInv, NudgeIsNoted
    <3>3. nudges[l] = 0
      <4>1. nudges[l] # 1 /\ nudges[l] <= 1
        BY <1>t, <1>u, <1>j, <3>1, <3>2 DEF NudgeInv, NudgeIsNoted
      <4> QED
        BY <1>t, <4>1
    <3>4. nudges'[l] = 0 \/ (nudges'[l] = 1 /\ p = "mark")
      <4>1. CASE p = "mark"
        <5>1. nudges'[l] = 0 + 1
          BY <2>2, <3>3, <4>1
        <5> QED
          BY <4>1, <5>1
      <4>2. CASE p # "mark"
        BY <1>1, <3>3, <4>2
      <4> QED
        BY <4>1, <4>2
    <3>5. \A k \in Forms : k # l =>
            /\ nudges'[k] <= 1
            /\ nudges'[k] = 1 => k \in sent \/ (job'[number[k]].at = "mark" /\ job'[number[k]].form = k)
      <4>1. ASSUME NEW k \in Forms, k # l, job[number[k]].at = "mark"
            PROVE  job'[number[k]] = job[number[k]]
        BY <1>t, <1>u, <2>1, <4>1
      <4> QED
        BY <2>2, <3>1, <4>1 DEF NudgeInv, NudgeIsNoted
    <3>6. nudges'[l] <= 1
          /\ (nudges'[l] = 1 => job'[number[l]].at = "mark" /\ job'[number[l]].form = l)
      <4>1. nudges'[l] <= 1
        BY <3>4
      <4>2. nudges'[l] = 1 => p = "mark"
        BY <3>4
      <4> QED
        BY <1>j, <2>1, <4>1, <4>2
    <3>7. \A m \in Numbers : job'[m].at = "send" => job'[m].form \notin sent
      BY <2>1, <3>1 DEF NudgeInv, NudgeIsNoted
    <3> QED
      BY <1>u, <3>5, <3>6, <3>7 DEF NudgeIsNoted
  <2>7. NudgeIsComing'
    <3> SUFFICES ASSUME written = 0, ~undone', ~clashed, nudgeCrashes = 0 PROVE NudgeIsComing'
      BY <1>u DEF NudgeIsComing
    <3>1. ASSUME NEW m \in Numbers, Coming(m) PROVE Coming(m)'
      <4>1. CASE m # n
        BY <1>t, <1>u, <2>1, <2>2, <3>1, <4>1 DEF Coming, NudgeTypeOK
      <4>2. CASE m = n
        <5>1. p = "mark" \/ nudges' = [nudges EXCEPT ![l] = @ + 1]
          BY <1>1
        <5>2. nudges'[l] > 0
          <6>1. CASE p = "mark"
            BY <2>2, <6>1
          <6>2. CASE nudges' = [nudges EXCEPT ![l] = @ + 1]
            <7>1. nudges'[l] = nudges[l] + 1
              BY <1>t, <6>2
            <7> QED
              BY <1>t, <7>1
          <6> QED
            BY <5>1, <6>1, <6>2
        <5> QED
          BY <1>u, <1>j, <4>2, <5>2 DEF Coming
      <4> QED
        BY <4>1, <4>2
    <3> QED
      BY <1>t, <1>u, <1>1, <3>1 DEF NudgeInv, NudgeIsComing, NudgeTypeOK
  <2>8. LateIsLast'
    BY <1>t, <1>u, <1>late, <2>1 DEF NudgeInv, LateIsLast
  <2> QED
    BY <2>3, <2>4, <2>5, <2>6, <2>7, <2>8 DEF NudgeInv
<1>p. "none" \in JobPlaces /\ "mark" \in JobPlaces
  BY DEF JobPlaces
<1>b. undone \in BOOLEAN /\ doubled \in BOOLEAN
  BY <1>t DEF NudgeTypeOK
<1>2. CASE nudges' = [nudges EXCEPT ![l] = @ + 1] /\ JobTo(n, "mark") /\ UNCHANGED <<undone, doubled>>
  BY <1>1, <1>2, <1>t, <1>p, <1>b, JobToMoves
<1>3. CASE /\ nudges' = [nudges EXCEPT ![l] = @ + 1] /\ JobTo(n, "none")
           /\ undone' = TRUE /\ doubled' = TRUE
  BY <1>1, <1>3, <1>t, <1>p, <1>b, JobToMoves
<1>4. CASE undone' = TRUE /\ JobTo(n, "none") /\ UNCHANGED <<nudges, doubled>>
  BY <1>1, <1>4, <1>t, <1>p, <1>b, JobToMoves
<1> QED
  BY <1>2, <1>3, <1>4 DEF SendNudge, AfterFailure

LEMMA MarkNudgeKeeps ==
  ASSUME NudgeInv, NEW n \in Numbers, MarkNudge(n)
  PROVE  NudgeInv'
<1> DEFINE l == job[n].form
<1>t. /\ NudgeTypeOK /\ l \in Forms
      /\ \A k \in Forms : number[k] \in Numbers
      /\ "international" \in Numbers
  BY NudgeTypes DEF NudgeInv
<1>u. /\ SameForms /\ UNCHANGED <<inbound, nudges, lateNudges, undone, doubled>>
      /\ job[n].at = "mark" /\ sent' = sent \cup {l}
  BY DEF MarkNudge, SameForms, nudgeHistory
<1>j. number[l] = n /\ l \in processed /\ nudges[l] > 0
  BY <1>u DEF NudgeInv, NudgeJobs
<1>m. JobMoves(n, "none")
  BY <1>t, JobToMoves DEF MarkNudge, JobPlaces
<1>1. /\ job'[n].at = "none" /\ job'[n].form = l
      /\ \A m \in Numbers : m # n => job'[m] = job[m]
  BY <1>m DEF JobMoves
<1>2. NudgeTypeOK'
  <2>1. "none" \in JobPlaces /\ sent' \subseteq Forms
    BY <1>t, <1>u DEF JobPlaces, NudgeTypeOK
  <2> QED
    BY <1>t, <1>u, <1>m, <2>1, QueueStepTypes DEF NudgeTypeOK
<1> USE DEF SameForms
<1>3. SentIsNudged' /\ NudgeJobs'
  BY <1>u, <1>j, <1>1 DEF NudgeInv, SentIsNudged, NudgeJobs
<1>4. NudgeIsNoted'
  <2> SUFFICES ASSUME nudgeCrashes = 0, ~doubled PROVE NudgeIsNoted'
    BY <1>u DEF NudgeIsNoted
  <2>1. ASSUME NEW k \in Forms, k # l, job[number[k]].at = "mark", job[number[k]].form = k
        PROVE  job'[number[k]] = job[number[k]]
    BY <1>t, <1>1, <2>1
  <2>2. \A m \in Numbers : job'[m].at = "send" => job'[m].form \notin sent'
    <3>1. ASSUME NEW m \in Numbers, job'[m].at = "send" PROVE job'[m].form \notin sent'
      <4>1. m # n /\ job'[m] = job[m]
        BY <1>1, <3>1
      <4>2. number[job[m].form] = m /\ job[m].form \notin sent
        BY <3>1, <4>1 DEF NudgeInv, NudgeJobs, NudgeIsNoted
      <4> QED
        BY <1>u, <1>j, <4>1, <4>2
    <3> QED
      BY <3>1
  <2> QED
    BY <1>u, <2>1, <2>2 DEF NudgeInv, NudgeIsNoted
<1>5. NudgeIsComing'
  <2>1. ASSUME NEW m \in Numbers, Coming(m) PROVE Coming(m)'
    <3>1. CASE m # n
      BY <1>u, <1>1, <2>1, <3>1 DEF Coming
    <3>2. CASE m = n
      BY <1>u, <1>j, <3>2 DEF Coming
    <3> QED
      BY <3>1, <3>2
  <2> QED
    BY <1>t, <1>u, <2>1 DEF NudgeInv, NudgeIsComing, NudgeTypeOK
<1>6. LateIsLast'
  BY <1>t, <1>u, <1>1 DEF NudgeInv, LateIsLast
<1> QED
  BY <1>2, <1>3, <1>4, <1>5, <1>6 DEF NudgeInv

LEMMA MessageKeeps ==
  ASSUME NudgeInv, WriteMessage \/ CancelByWaId \/ ApplyMessage \/ UpdateSettings
  PROVE  NudgeInv'
<1>t. /\ NudgeTypeOK /\ written \in Nat /\ inbound \in {"idle", "cancel", "apply"}
      /\ "international" \in Numbers
  BY NudgeTypes DEF NudgeInv, NudgeTypeOK
<1>1. CASE WriteMessage
  <2>1. /\ written' = written + 1 /\ inbound' = "cancel"
        /\ UNCHANGED <<number, processed, sent, heard, settings, job, former, nudges,
                       lateNudges, forms, undone, doubled, clashed, nudgeCrashes>>
    BY <1>1 DEF WriteMessage, nudgeDb
  <2>2. written' \in Nat /\ written' > 0 /\ written' # 0
    BY <1>t, <2>1
  <2>3. NudgeTypeOK'
    BY <1>t, <2>1, <2>2 DEF NudgeTypeOK
  <2>4. SentIsNudged' /\ NudgeJobs' /\ NudgeIsNoted' /\ NudgeIsComing' /\ LateIsLast'
    BY <2>1, <2>2 DEF NudgeInv, SentIsNudged, NudgeJobs, NudgeIsNoted, NudgeIsComing, LateIsLast
  <2> QED
    BY <2>3, <2>4 DEF NudgeInv
<1>2. CASE CancelByWaId
  <2> DEFINE n == "international"
             p == IF job[n].at = "delayed" THEN "none" ELSE job[n].at
  <2>1. SameForms /\ UNCHANGED <<sent, nudges, lateNudges, undone, doubled>>
        /\ inbound = "cancel" /\ inbound' = "apply" /\ job' = Remove(n)
    BY <1>2 DEF CancelByWaId, SameForms, nudgeDb, nudgeHistory
  <2>2. JobMoves(n, p)
    BY <1>t, <2>1, RemoveMoves
  <2>3. written > 0
    BY <2>1 DEF NudgeInv, NudgeJobs
  <2>4. job[n].at \in JobPlaces
    BY <1>t, NudgeTypes
  <2>5. CASE job[n].at = "mark"
    <3>1. job'[n] = job[n]
      BY <2>1, <2>5 DEF Remove
    <3>2. job' = job
      BY <2>1, <2>5 DEF Remove
    <3> QED
      BY <1>t, <2>1, <2>3, <3>2 DEF NudgeInv, SameForms, NudgeTypeOK, SentIsNudged, NudgeJobs,
        NudgeIsNoted, NudgeIsComing, LateIsLast
  <2>6. CASE job[n].at # "mark"
    <3>1. p \in JobPlaces \ {"mark"} /\ (job[n].at \notin {"none", "mark"} \/ p = job[n].at)
      BY <2>4, <2>6 DEF JobPlaces
    <3>2. /\ p = "send" => job[n].at = "send"
          /\ p \in {"campaign", "send"} => job[n].at \in {"campaign", "send"}
      OBVIOUS
    <3> HIDE DEF n, p
    <3> QED
      BY <1>t, <2>1, <2>2, <2>3, <3>1, <3>2, JobKeeps DEF n
  <2> QED
    BY <2>5, <2>6
<1>3. CASE ApplyMessage
  <2>1. /\ heard' = TRUE /\ inbound' = "idle" /\ inbound = "apply"
        /\ UNCHANGED <<number, processed, sent, settings, job, former, nudges,
                       lateNudges, forms, written, undone, doubled, clashed, nudgeCrashes>>
    BY <1>3 DEF ApplyMessage, nudgeHistory
  <2>2. written > 0
    BY <2>1 DEF NudgeInv, NudgeJobs
  <2>3. NudgeTypeOK'
    BY <1>t, <2>1 DEF NudgeTypeOK
  <2>4. NudgeIsComing'
    BY <1>t, <2>1, <2>2 DEF NudgeIsComing
  <2>5. SentIsNudged' /\ NudgeJobs' /\ NudgeIsNoted' /\ LateIsLast'
    BY <2>1, <2>2 DEF NudgeInv, SentIsNudged, NudgeJobs, NudgeIsNoted, LateIsLast
  <2> QED
    BY <2>3, <2>4, <2>5 DEF NudgeInv
<1>4. CASE UpdateSettings
  <2>1. /\ settings' = TRUE
        /\ UNCHANGED <<number, processed, sent, heard, job, former, inbound, nudges,
                       lateNudges, forms, written, undone, doubled, clashed, nudgeCrashes>>
    BY <1>4 DEF UpdateSettings, nudgeHistory
  <2>2. NudgeTypeOK'
    BY <1>t, <2>1 DEF NudgeTypeOK
  <2>3. NudgeIsComing'
    BY <1>t, <2>1 DEF NudgeInv, NudgeIsComing, Coming
  <2>4. SentIsNudged' /\ NudgeJobs' /\ NudgeIsNoted' /\ LateIsLast'
    BY <2>1 DEF NudgeInv, SentIsNudged, NudgeJobs, NudgeIsNoted, LateIsLast
  <2> QED
    BY <2>2, <2>3, <2>4 DEF NudgeInv
<1> QED
  BY <1>1, <1>2, <1>3, <1>4

LEMMA NudgeCrashKeeps ==
  ASSUME NudgeInv, NudgeCrash
  PROVE  NudgeInv'
<1>t. /\ NudgeTypeOK /\ job \in [Numbers -> Jobs] /\ nudgeCrashes \in Nat
      /\ "international" \in Numbers
  BY NudgeTypes DEF NudgeInv, NudgeTypeOK
<1>1. /\ nudgeCrashes' = nudgeCrashes + 1 /\ inbound' = "idle"
      /\ former' = [h \in FormHandlers |-> Idle]
      /\ job' = [n \in Numbers |-> IF job[n].at = "none" THEN job[n]
                                   ELSE [job[n] EXCEPT !.at = "delayed"]]
      /\ UNCHANGED <<number, processed, sent, heard, settings, nudges, lateNudges, forms,
                     written, undone, doubled, clashed>>
  BY DEF NudgeCrash, nudgeDb
<1>2. nudgeCrashes' \in Nat /\ nudgeCrashes' # 0
  BY <1>t, <1>1
<1>3. \A n \in Numbers : job'[n] \in Jobs /\ job'[n].form = job[n].form
        /\ job'[n].at = IF job[n].at = "none" THEN "none" ELSE "delayed"
  BY <1>t, <1>1 DEF Jobs, JobPlaces
<1>4. job' \in [Numbers -> Jobs] /\ former' \in [FormHandlers -> Formers]
      /\ \A h \in FormHandlers : former'[h].at = "idle"
  BY <1>1, <1>3, IdleIs
<1>5. NudgeTypeOK'
  BY <1>t, <1>1, <1>2, <1>4 DEF NudgeTypeOK, Jobs, Formers, FormPlaces
<1>6. NudgeIsNoted' /\ NudgeIsComing'
  BY <1>2 DEF NudgeIsNoted, NudgeIsComing
<1>7. SentIsNudged' /\ NudgeJobs' /\ LateIsLast'
  BY <1>t, <1>1, <1>3, <1>4 DEF NudgeInv, SentIsNudged, NudgeJobs, LateIsLast
<1> QED
  BY <1>5, <1>6, <1>7 DEF NudgeInv

\* A form is followed by one template unless its person has written before, and by none
\* once he is heard but the one under way: for any number of forms, deliveries and crashes.
THEOREM NudgeIsCorrect == NudgeSpec => []NudgeCorrect
<1>1. NudgeInit => NudgeInv
  <2> SUFFICES ASSUME NudgeInit PROVE NudgeInv
    OBVIOUS
  <2>1. NoJob(SomeForm) \in Jobs /\ NoJob(SomeForm).at = "none"
    BY IdleIs DEF NoJob, Jobs, JobPlaces
  <2>2. /\ job \in [Numbers -> Jobs] /\ \A n \in Numbers : job[n].at = "none"
        /\ former \in [FormHandlers -> Formers] /\ \A h \in FormHandlers : former[h].at = "idle"
    BY <2>1, IdleIs DEF NudgeInit
  <2>3. nudges \in [Forms -> Nat] /\ \A l \in Forms : nudges[l] = 0
    BY DEF NudgeInit
  <2>4. NudgeTypeOK
    <3>1. 0 \in Nat
      OBVIOUS
    <3> QED
      BY <2>2, <2>3, <3>1 DEF NudgeInit, NudgeTypeOK, Jobs, Formers, FormPlaces
  <2>5. SentIsNudged /\ NudgeIsComing
    BY DEF NudgeInit, SentIsNudged, NudgeIsComing
  <2>6. NudgeJobs
    BY <2>2 DEF NudgeInit, NudgeJobs
  <2>7. NudgeIsNoted
    BY <2>2, <2>3 DEF NudgeInit, NudgeIsNoted
  <2>8. LateIsLast
    BY DEF NudgeInit, LateIsLast
  <2> QED
    BY <2>4, <2>5, <2>6, <2>7, <2>8 DEF NudgeInv
<1>2. NudgeInv /\ [NudgeNext]_nudgeVars => NudgeInv'
  <2> SUFFICES ASSUME NudgeInv, [NudgeNext]_nudgeVars PROVE NudgeInv'
    OBVIOUS
  <2>1. ASSUME NEW h \in FormHandlers, (\E l \in Forms : TakeForm(h, l)) \/ ScheduleNudge(h)
                                         \/ ReadDelay(h) \/ CreateDelay(h)
        PROVE  NudgeInv'
    BY <2>1, TakeFormKeeps, ScheduleKeeps, ReadDelayKeeps
  <2>2. ASSUME NEW n \in Numbers,
               Fire(n) \/ LookSession(n) \/ LookCampaign(n) \/ SendNudge(n) \/ MarkNudge(n)
        PROVE  NudgeInv'
    BY <2>2, LooksKeep, SendKeeps, MarkNudgeKeeps
  <2>3. CASE UNCHANGED nudgeVars
    <3>1. UNCHANGED <<number, processed, sent, heard, settings, job, former, inbound, nudges,
                      lateNudges, forms, written, undone, doubled, clashed, nudgeCrashes>>
      BY <2>3 DEF nudgeVars, nudgeDb, nudgeHistory
    <3>2. NudgeTypeOK' /\ NudgeIsComing'
      BY <3>1 DEF NudgeInv, NudgeTypeOK, NudgeIsComing, Coming
    <3>3. SentIsNudged' /\ NudgeJobs' /\ NudgeIsNoted' /\ LateIsLast'
      BY <3>1 DEF NudgeInv, SentIsNudged, NudgeJobs, NudgeIsNoted, LateIsLast
    <3> QED
      BY <3>2, <3>3 DEF NudgeInv
  <2> QED
    BY <2>1, <2>2, <2>3, MessageKeeps, NudgeCrashKeeps DEF NudgeNext
<1>3. NudgeInv => NudgeCorrect
  <2> SUFFICES ASSUME NudgeInv PROVE NudgeCorrect
    OBVIOUS
  <2>1. SilentIsNudged
    <3> SUFFICES ASSUME written = 0, ~undone, ~clashed, nudgeCrashes = 0,
                        \A h \in FormHandlers : FormAt(h, "idle"),
                        \A n \in Numbers : job[n].at = "none", NEW l \in processed
                 PROVE  \E k \in processed : number[k] = number[l] /\ nudges[k] > 0
      BY DEF SilentIsNudged
    <3>1. number[l] \in Numbers /\ Coming(number[l])
      BY NudgeTypes DEF NudgeInv, NudgeIsComing, NudgeTypeOK
    <3> QED
      BY <3>1 DEF Coming, FormAt
  <2> QED
    BY <2>1 DEF NudgeInv, NudgeCorrect, NudgeIsNoted, NudgedOnce, LateIsLast, AtMostOneLateNudge
<1> QED
  BY <1>1, <1>2, <1>3, PTL DEF NudgeSpec

-----------------------------------------------------------------------------
(* The webinars: what a request has read, and what the calendar has          *)

\* What a request has read of its webinar, and what it goes on to.
AdminFits(a) ==
  /\ admin[a].at = "clear" => Activates(admin[a])
  /\ admin[a].at = "insert" => admin[a].seen.status = "absent"
  /\ admin[a].at \in {"insert", "save"} => admin[a].status # "absent"
  /\ admin[a].at = "save" => admin[a].seen.status # "absent"
  /\ admin[a].seen.status = "absent" => admin[a].seen.entry = 0 \/ admin[a].at = "note"
  /\ admin[a].seen.entry <= entriesMade

AbsentIsBlank ==
  \A w \in Webinars :
    /\ webinar[w].status = "absent" => webinar[w] = NoWebinar
    /\ webinar[w].entry <= entriesMade

\* Of activations that do not overlap one is under way, and past its clearing no other
\* webinar is active.
ActivatesAlone ==
  ~activations =>
    /\ \A a, b \in WebinarAdmins :
         (Underway(a) /\ Underway(b) /\ Activates(admin[a]) /\ Activates(admin[b])) => a = b
    /\ \A v, w \in Webinars :
         (webinar[v].status = "active" /\ webinar[w].status = "active") => v = w
    /\ \A a \in WebinarAdmins :
         (admin[a].at \in {"insert", "save"} /\ Activates(admin[a])) =>
           \A v \in Webinars : webinar[v].status = "active" => v = admin[a].webinar

\* What a request that is alone with its webinar knows of it.
AdminKnows(a) ==
  /\ admin[a].at \in {"clear", "insert"} /\ admin[a].seen.status = "absent" =>
       ~Exists(admin[a].webinar)
  /\ Underway(a) /\ admin[a].seen.status # "absent" => Exists(admin[a].webinar)
  /\ admin[a].at \in {"sync", "note"} => Exists(admin[a].webinar)
  /\ admin[a].at \in {"clear", "save", "sync", "delete entry", "delete"} =>
       webinar[admin[a].webinar].entry = admin[a].seen.entry
  /\ admin[a].at = "note" => webinar[admin[a].webinar].entry = 0 /\ admin[a].seen.entry # 0

\* The calendar has the entry of every webinar but of those whose entry a request has
\* deleted, and those that a request has made and not noted yet.
KeptEntry(x) ==
  \E w \in Webinars : /\ webinar[w].entry = x /\ x # 0
                      /\ \A a \in WebinarAdmins : admin[a].at = "delete" => admin[a].webinar # w
MadeEntry(x) == \E a \in WebinarAdmins : admin[a].at = "note" /\ admin[a].seen.entry = x

CalendarFollows ==
  (~jostled /\ webinarFailures = 0) =>
    /\ \A a, b \in WebinarAdmins :
         (Underway(a) /\ Underway(b) /\ admin[a].webinar = admin[b].webinar) => a = b
    /\ \A a \in WebinarAdmins : AdminKnows(a)
    /\ \A v, w \in Webinars : webinar[v].entry = webinar[w].entry => v = w \/ webinar[v].entry = 0
    /\ \A a, b \in WebinarAdmins :
         (admin[a].at = "note" /\ admin[b].at = "note"
            /\ admin[a].seen.entry = admin[b].seen.entry) => a = b
    /\ \A a \in WebinarAdmins, w \in Webinars :
         admin[a].at = "note" => webinar[w].entry # admin[a].seen.entry
    /\ \A x \in Nat : x \in entries <=> (KeptEntry(x) \/ MadeEntry(x))

EventsInv ==
  /\ EventsTypeOK
  /\ \A a \in WebinarAdmins : AdminFits(a)
  /\ AbsentIsBlank /\ ActivatesAlone /\ CalendarFollows

SignupFits(l) ==
  /\ signup[l].linked => crm
  /\ signup[l].converted => signup[l].linked
  /\ signup[l].converted => signup[l].there
  /\ signup[l].linked => signup[l].there

DeskFits(d) ==
  /\ desk[d].linked => crm
  /\ desk[d].at = "convert" => crm

\* A handler that is about to send, or to note, has its lead; one that has not come so far
\* has a link to send.
TellsFits ==
  ~deskErrors =>
    \A d \in Desks :
      /\ desk[d].at \in {"send", "note"} => signup[desk[d].lead].there
      /\ (desk[d].at \in {"look", "upsert"} /\ ~deaf) => desk[d].meet

ToldComing ==
  (~deaf /\ ~deskErrors) =>
    \A l \in WebinarLeadIds :
      signup[l].there => signup[l].sent \/ \E d \in Desks :
                           desk[d].at \in {"send", "note"} /\ desk[d].lead = l

OnceAlone ==
  (~deskRaces /\ ~deskErrors) =>
    /\ \A d, e \in Desks : (desk[d].at # "idle" /\ desk[e].at # "idle") => d = e
    /\ \A l \in WebinarLeadIds :
         \/ templatesSent[l] = 0
         \/ /\ templatesSent[l] = 1
            /\ signup[l].sent \/ \E d \in Desks : desk[d].at = "note" /\ desk[d].lead = l
    /\ \A d \in Desks : desk[d].at = "send" => templatesSent[desk[d].lead] = 0

WebinarInv ==
  /\ LeadsTypeOK /\ EventsInv
  /\ \A l \in WebinarLeadIds : SignupFits(l)
  /\ \A d \in Desks : DeskFits(d)
  /\ TellsFits /\ ToldComing /\ OnceAlone

-----------------------------------------------------------------------------
(* The requests of the admins                                                 *)

AdminPlaces == {"idle", "clear", "insert", "save", "sync", "note", "delete entry", "delete"}
AdminRecords ==
  [at : AdminPlaces, webinar : Webinars, status : Statuses, rename : BOOLEAN, seen : WebinarDocs]

\* Request a is as said, the others are as they were.
AdminIs(a, record) ==
  /\ admin' \in [WebinarAdmins -> AdminRecords] /\ admin'[a] = record
  /\ \A b \in WebinarAdmins \ {a} : admin'[b] = admin[b]

LEMMA EventsTypes ==
  ASSUME EventsTypeOK
  PROVE /\ webinar \in [Webinars -> WebinarDocs] /\ entries \subseteq 1..entriesMade
        /\ admin \in [WebinarAdmins -> AdminRecords]
        /\ entriesMade \in Nat /\ webinarRequests \in Nat /\ webinarFailures \in Nat
        /\ activations \in BOOLEAN /\ jostled \in BOOLEAN
BY DEF EventsTypeOK, AdminRecords, AdminPlaces

LEMMA EventsTyped ==
  ASSUME webinar' \in [Webinars -> WebinarDocs], entries' \subseteq 1..entriesMade',
         admin' \in [WebinarAdmins -> AdminRecords],
         entriesMade' \in Nat, webinarRequests' \in Nat, webinarFailures' \in Nat,
         activations' \in BOOLEAN, jostled' \in BOOLEAN
  PROVE EventsTypeOK'
BY DEF EventsTypeOK, AdminRecords, AdminPlaces

LEMMA NoWebinarIs ==
  /\ NoWebinar \in WebinarDocs /\ NoWebinar.status = "absent" /\ NoWebinar.entry = 0
BY DEF NoWebinar, WebinarDocs, Statuses

LEMMA NoAdminIs ==
  ASSUME WebinarAssumption
  PROVE /\ NoAdmin \in AdminRecords /\ NoAdmin.at = "idle" /\ NoAdmin.status = "draft"
        /\ NoAdmin.seen = NoWebinar /\ NoAdmin.rename = FALSE
<1>1. \E w \in Webinars : TRUE BY DEF WebinarAssumption
<1>2. (CHOOSE w \in Webinars : TRUE) \in Webinars BY <1>1
<1> QED BY <1>2, NoWebinarIs DEF NoAdmin, AdminRecords, AdminPlaces, Statuses

LEMMA AdminReplaced ==
  ASSUME EventsTypeOK, NEW a \in WebinarAdmins, NEW record \in AdminRecords,
         admin' = [admin EXCEPT ![a] = record]
  PROVE AdminIs(a, record)
<1>1. admin \in [WebinarAdmins -> AdminRecords] BY EventsTypes
<1> QED BY <1>1 DEF AdminIs

LEMMA AdminMoves ==
  ASSUME EventsTypeOK, NEW a \in WebinarAdmins, NEW place \in AdminPlaces, AdminTo(a, place)
  PROVE /\ AdminIs(a, [admin[a] EXCEPT !.at = place])
        /\ admin'[a].at = place /\ admin'[a].webinar = admin[a].webinar
        /\ admin'[a].status = admin[a].status /\ admin'[a].seen = admin[a].seen
<1>1. admin \in [WebinarAdmins -> AdminRecords] BY EventsTypes
<1>2. admin[a] \in AdminRecords BY <1>1
<1>3. [admin[a] EXCEPT !.at = place] \in AdminRecords BY <1>2 DEF AdminRecords
<1>4. admin' = [admin EXCEPT ![a] = [admin[a] EXCEPT !.at = place]]
  BY <1>1, <1>2 DEF AdminTo
<1>5. AdminIs(a, [admin[a] EXCEPT !.at = place]) BY <1>3, <1>4, AdminReplaced
<1>6. admin'[a] = [admin[a] EXCEPT !.at = place] BY <1>5 DEF AdminIs
<1> QED BY <1>2, <1>5, <1>6 DEF AdminRecords

LEMMA AdminEnds ==
  ASSUME WebinarAssumption, EventsTypeOK, NEW a \in WebinarAdmins, EndAdmin(a)
  PROVE /\ AdminIs(a, NoAdmin) /\ admin'[a].at = "idle" /\ ~Underway(a)'
        /\ admin'[a].status = "draft" /\ admin'[a].seen = NoWebinar
<1>1. AdminIs(a, NoAdmin) BY NoAdminIs, AdminReplaced DEF EndAdmin
<1> QED BY <1>1, NoAdminIs DEF AdminIs, Underway

-----------------------------------------------------------------------------
(* What a step of request a has to see to, conjunct by conjunct               *)

LEMMA AdminsFit ==
  ASSUME EventsTypeOK, \A b \in WebinarAdmins : AdminFits(b), NEW a \in WebinarAdmins,
         NEW record, AdminIs(a, record), AdminFits(a)',
         entriesMade' \in Nat, entriesMade <= entriesMade'
  PROVE \A b \in WebinarAdmins : AdminFits(b)'
<1> SUFFICES ASSUME NEW b \in WebinarAdmins, b # a PROVE AdminFits(b)'
  OBVIOUS
<1>1. admin'[b] = admin[b] BY DEF AdminIs
<1>2. AdminFits(b) OBVIOUS
<1>3. admin[b] \in AdminRecords /\ entriesMade \in Nat BY EventsTypes
<1>4. admin[b].seen.entry \in Nat BY <1>3 DEF AdminRecords, WebinarDocs
<1>5. admin'[b].seen.entry <= entriesMade' BY <1>1, <1>2, <1>3, <1>4 DEF AdminFits
<1> QED BY <1>1, <1>2, <1>5 DEF AdminFits, Activates

\* A request that has come to write the status of its webinar.
Writes(a) == admin[a].at \in {"insert", "save"} /\ Activates(admin[a])
ActivesFrom(a) ==
  \A v \in Webinars : webinar'[v].status = "active" =>
    webinar[v].status = "active" \/ (Writes(a) /\ v = admin[a].webinar)

LEMMA ActivationsStayAlone ==
  ASSUME EventsTypeOK, ActivatesAlone, NEW a \in WebinarAdmins, NEW record, AdminIs(a, record),
         ~activations' => ~activations,
         ActivesFrom(a),
         (~activations' /\ Underway(a)' /\ Activates(admin[a])') =>
           (Underway(a) /\ Activates(admin[a]))
             \/ \A b \in WebinarAdmins : ~(Underway(b) /\ Activates(admin[b])),
         (~activations' /\ Writes(a)') =>
           \A v \in Webinars : webinar'[v].status = "active" => v = admin'[a].webinar
  PROVE ActivatesAlone'
<1> SUFFICES ASSUME ~activations'
             PROVE /\ \A b, c \in WebinarAdmins :
                        (Underway(b)' /\ Underway(c)' /\ Activates(admin[b])'
                           /\ Activates(admin[c])') => b = c
                   /\ \A v, w \in Webinars :
                        (webinar'[v].status = "active" /\ webinar'[w].status = "active") => v = w
                   /\ \A b \in WebinarAdmins : Writes(b)' =>
                        \A v \in Webinars : webinar'[v].status = "active" => v = admin'[b].webinar
  BY DEF ActivatesAlone, Writes
<1>1. ~activations OBVIOUS
<1>2. /\ \A b, c \in WebinarAdmins :
           (Underway(b) /\ Underway(c) /\ Activates(admin[b]) /\ Activates(admin[c])) => b = c
      /\ \A v, w \in Webinars :
           (webinar[v].status = "active" /\ webinar[w].status = "active") => v = w
      /\ \A b \in WebinarAdmins : Writes(b) =>
           \A v \in Webinars : webinar[v].status = "active" => v = admin[b].webinar
  BY <1>1 DEF ActivatesAlone, Writes
<1>3. \A b \in WebinarAdmins \ {a} :
        /\ Underway(b)' <=> Underway(b)
        /\ Activates(admin[b])' <=> Activates(admin[b])
        /\ admin'[b].webinar = admin[b].webinar
        /\ Writes(b)' <=> Writes(b)
  BY DEF AdminIs, Underway, Activates, Writes
<1>4. \A b \in WebinarAdmins : Writes(b) => Underway(b) /\ Activates(admin[b])
  BY DEF Writes, Underway
<1>5. \A b, c \in WebinarAdmins :
        (Underway(b)' /\ Underway(c)' /\ Activates(admin[b])' /\ Activates(admin[c])') => b = c
  BY <1>2, <1>3
<1>6. \A v, w \in Webinars :
        (webinar'[v].status = "active" /\ webinar'[w].status = "active") => v = w
  BY <1>2 DEF ActivesFrom
<1>7. \A b \in WebinarAdmins : Writes(b)' =>
        \A v \in Webinars : webinar'[v].status = "active" => v = admin'[b].webinar
  <2> TAKE b \in WebinarAdmins
  <2>1. CASE b = a BY <2>1
  <2>2. CASE b # a BY <1>2, <1>3, <1>4, <2>2 DEF ActivesFrom
  <2> QED BY <2>1, <2>2
<1> QED BY <1>5, <1>6, <1>7

Smooth == ~jostled /\ webinarFailures = 0

\* The parts of CalendarFollows.
WebinarsApart ==
  \A a, b \in WebinarAdmins :
    (Underway(a) /\ Underway(b) /\ admin[a].webinar = admin[b].webinar) => a = b
EntriesApart ==
  /\ \A v, w \in Webinars : webinar[v].entry = webinar[w].entry => v = w \/ webinar[v].entry = 0
  /\ \A a, b \in WebinarAdmins :
       (admin[a].at = "note" /\ admin[b].at = "note"
          /\ admin[a].seen.entry = admin[b].seen.entry) => a = b
  /\ \A a \in WebinarAdmins, w \in Webinars :
       admin[a].at = "note" => webinar[w].entry # admin[a].seen.entry
EntriesKnown == \A x \in Nat : x \in entries <=> (KeptEntry(x) \/ MadeEntry(x))

LEMMA CalendarIs ==
  CalendarFollows <=>
    (Smooth => /\ WebinarsApart /\ \A a \in WebinarAdmins : AdminKnows(a)
               /\ EntriesApart /\ EntriesKnown)
BY DEF CalendarFollows, Smooth, WebinarsApart, EntriesApart, EntriesKnown

LEMMA CalendarNext ==
  ASSUME Smooth' => WebinarsApart', Smooth' => \A a \in WebinarAdmins : AdminKnows(a)',
         Smooth' => EntriesApart', Smooth' => EntriesKnown'
  PROVE CalendarFollows'
BY DEF CalendarFollows, Smooth, WebinarsApart, EntriesApart, EntriesKnown

\* A request a that is alone with its webinar leaves the others what they know.
AloneWith(a) ==
  Underway(a)' =>
    (Underway(a) /\ admin'[a].webinar = admin[a].webinar)
      \/ \A b \in WebinarAdmins : Underway(b) => admin[b].webinar # admin'[a].webinar

LEMMA OthersKnow ==
  ASSUME WebinarsApart, \A b \in WebinarAdmins : AdminKnows(b),
         NEW a \in WebinarAdmins, NEW record, AdminIs(a, record), AloneWith(a),
         \A v \in Webinars : (Underway(a) /\ v = admin[a].webinar)
           \/ (webinar'[v].entry = webinar[v].entry /\ (Exists(v)' <=> Exists(v))),
         \A b \in WebinarAdmins : admin[b].webinar \in Webinars
  PROVE WebinarsApart' /\ \A b \in WebinarAdmins \ {a} : AdminKnows(b)'
<1>1. \A b \in WebinarAdmins \ {a} : admin'[b] = admin[b] BY DEF AdminIs
<1>2. \A b \in WebinarAdmins \ {a} : Underway(b)' <=> Underway(b) BY <1>1 DEF Underway
<1>3. WebinarsApart' BY <1>1, <1>2 DEF WebinarsApart, AloneWith
<1>4. ASSUME NEW b \in WebinarAdmins \ {a} PROVE AdminKnows(b)'
  <2>1. AdminKnows(b) OBVIOUS
  <2>2. CASE Underway(b)
    <3>1. ~(Underway(a) /\ admin[b].webinar = admin[a].webinar)
      BY <2>2 DEF WebinarsApart
    <3>2. /\ webinar'[admin[b].webinar].entry = webinar[admin[b].webinar].entry
          /\ (webinar'[admin[b].webinar].status # "absent")
               <=> (webinar[admin[b].webinar].status # "absent")
      BY <3>1 DEF Exists
    <3> QED BY <1>1, <1>2, <2>1, <3>2 DEF AdminKnows, Exists, Underway
  <2>3. CASE ~Underway(b)
    <3>1. admin'[b].at = "idle" BY <1>1, <2>3 DEF Underway
    <3> QED BY <3>1 DEF AdminKnows, Underway
  <2> QED BY <2>2, <2>3
<1> QED BY <1>3, <1>4

\* A step that touches no entry: nothing is made, noted or deleted.
LEMMA CalendarQuiet ==
  ASSUME EventsTypeOK, CalendarFollows, NEW a \in WebinarAdmins, NEW record, AdminIs(a, record),
         Smooth' => Smooth, entries' = entries,
         \A v \in Webinars : webinar'[v].entry = webinar[v].entry,
         \A v \in Webinars :
           (Underway(a) /\ v = admin[a].webinar) \/ (Exists(v)' <=> Exists(v)),
         Smooth' => AloneWith(a),
         admin[a].at \notin {"note", "delete"}, admin'[a].at \notin {"note", "delete"},
         Smooth' => AdminKnows(a)'
  PROVE CalendarFollows'
<1> SUFFICES ASSUME Smooth'
             PROVE /\ WebinarsApart' /\ \A b \in WebinarAdmins : AdminKnows(b)'
                   /\ EntriesApart' /\ EntriesKnown'
  BY CalendarNext
<1>1. /\ WebinarsApart /\ \A b \in WebinarAdmins : AdminKnows(b)
      /\ EntriesApart /\ EntriesKnown
  BY CalendarIs
<1>2. \A b \in WebinarAdmins : admin[b].webinar \in Webinars
  BY EventsTypes DEF AdminRecords
<1>3. WebinarsApart' /\ \A b \in WebinarAdmins \ {a} : AdminKnows(b)'
  BY <1>1, <1>2, OthersKnow
<1>4. \A b \in WebinarAdmins : AdminKnows(b)' BY <1>3
<1>5. \A b \in WebinarAdmins :
        (admin'[b].at \in {"note", "delete"} \/ admin[b].at \in {"note", "delete"}) =>
          admin'[b] = admin[b]
  BY DEF AdminIs
<1>6. EntriesApart' BY <1>1, <1>5 DEF EntriesApart
<1>7. \A x \in Nat : KeptEntry(x)' <=> KeptEntry(x)
  BY <1>5 DEF KeptEntry
<1>8. \A x \in Nat : MadeEntry(x)' <=> MadeEntry(x)
  BY <1>5 DEF MadeEntry
<1>9. EntriesKnown' BY <1>1, <1>7, <1>8 DEF EntriesKnown
<1> QED BY <1>3, <1>4, <1>6, <1>9

-----------------------------------------------------------------------------
(* The requests begin                                                         *)

LEMMA EventsInvIs ==
  EventsInv <=> /\ EventsTypeOK /\ \A a \in WebinarAdmins : AdminFits(a)
                /\ AbsentIsBlank /\ ActivatesAlone /\ CalendarFollows
BY DEF EventsInv

LEMMA EventsInvNext ==
  ASSUME EventsTypeOK', \A a \in WebinarAdmins : AdminFits(a)',
         AbsentIsBlank', ActivatesAlone', CalendarFollows'
  PROVE EventsInv'
BY DEF EventsInv

LEMMA CountsOn ==
  \A n \in Nat : n + 1 \in Nat /\ n <= n + 1 /\ n <= n
OBVIOUS

LEMMA BeginAdminKeeps ==
  ASSUME EventsInv, NEW a \in WebinarAdmins, NEW record \in AdminRecords,
         BeginAdmin(a, record),
         record.at \in {"clear", "insert", "save", "delete entry"},
         record.at = "clear" => Activates(record),
         record.at = "save" =>
           ~Activates(record) /\ record.seen.status # "absent" /\ record.status # "absent",
         record.at = "insert" => record.status = "draft",
         record.seen.status = "absent" => record.at \in {"clear", "insert"},
         record.at = "insert" => record.seen.status = "absent",
         record.seen = webinar[record.webinar]
  PROVE EventsInv'
<1>1. /\ EventsTypeOK /\ \A b \in WebinarAdmins : AdminFits(b)
      /\ AbsentIsBlank /\ ActivatesAlone /\ CalendarFollows
  BY EventsInvIs
<1>2. /\ ~Underway(a) /\ webinarRequests' = webinarRequests + 1
      /\ admin' = [admin EXCEPT ![a] = record]
      /\ activations' = (activations \/ (Activates(record) /\
           \E b \in WebinarAdmins : Underway(b) /\ Activates(admin[b])))
      /\ jostled' = (jostled \/
           \E b \in WebinarAdmins : Underway(b) /\ admin[b].webinar = record.webinar)
      /\ webinar' = webinar /\ entries' = entries
      /\ entriesMade' = entriesMade /\ webinarFailures' = webinarFailures
  BY DEF BeginAdmin, webinarDb
<1>3. AdminIs(a, record) BY <1>1, <1>2, AdminReplaced
<1>4. admin'[a] = record BY <1>3 DEF AdminIs
<1>5. /\ webinar \in [Webinars -> WebinarDocs] /\ entries \subseteq 1..entriesMade
      /\ entriesMade \in Nat /\ webinarRequests \in Nat /\ webinarFailures \in Nat
      /\ activations \in BOOLEAN /\ jostled \in BOOLEAN
  BY <1>1, EventsTypes
<1>6. record.webinar \in Webinars BY DEF AdminRecords
<1>7. EventsTypeOK'
  <2>1. activations' \in BOOLEAN /\ jostled' \in BOOLEAN BY <1>2, <1>5
  <2>2. webinarRequests' \in Nat
    BY <1>2, <1>5, CountsOn
  <2>3. admin' \in [WebinarAdmins -> AdminRecords] BY <1>3 DEF AdminIs
  <2> QED BY <1>2, <1>5, <2>1, <2>2, <2>3, EventsTyped
<1>8. record.seen.entry <= entriesMade
  BY <1>1, <1>6 DEF AbsentIsBlank
<1>9. record.seen.status = "absent" => record.seen.entry = 0
  BY <1>1, <1>6, NoWebinarIs DEF AbsentIsBlank
<1>10. AdminFits(a)' BY <1>2, <1>4, <1>8, <1>9 DEF AdminFits, Activates
<1>11. \A b \in WebinarAdmins : AdminFits(b)'
  <2>1. entriesMade' \in Nat /\ entriesMade <= entriesMade'
    BY <1>2, <1>5, CountsOn
  <2> QED BY <1>1, <1>3, <1>10, <2>1, AdminsFit
<1>12. AbsentIsBlank' BY <1>1, <1>2 DEF AbsentIsBlank
<1>13. ActivatesAlone'
  <2>1. ~activations' => ~activations BY <1>2, <1>5
  <2>2. ActivesFrom(a) BY <1>2 DEF ActivesFrom
  <2>3. Activates(admin[a])' <=> Activates(record) BY <1>4 DEF Activates
  <2>4. (~activations' /\ Underway(a)' /\ Activates(admin[a])') =>
          \A b \in WebinarAdmins : ~(Underway(b) /\ Activates(admin[b]))
    BY <1>2, <2>3
  <2>5. ~Writes(a)' BY <1>4, <2>3 DEF Writes, Activates
  <2> QED BY <1>1, <1>3, <2>1, <2>2, <2>4, <2>5, ActivationsStayAlone
<1>14. CalendarFollows'
  <2>1. Smooth' => Smooth BY <1>2, <1>5 DEF Smooth
  <2>2. \A v \in Webinars : webinar'[v].entry = webinar[v].entry BY <1>2
  <2>3. \A v \in Webinars :
          (Underway(a) /\ v = admin[a].webinar) \/ (Exists(v)' <=> Exists(v))
    BY <1>2 DEF Exists
  <2>4. Smooth' => AloneWith(a) BY <1>2, <1>4 DEF Smooth, AloneWith
  <2>5. admin[a].at \notin {"note", "delete"} /\ admin'[a].at \notin {"note", "delete"}
    BY <1>2, <1>4 DEF Underway
  <2>6. AdminKnows(a)'
    BY <1>2, <1>4, <1>9 DEF AdminKnows, Exists, Underway
  <2> QED BY <1>1, <1>2, <1>3, <2>1, <2>2, <2>3, <2>4, <2>5, <2>6, CalendarQuiet
<1> QED BY <1>7, <1>11, <1>12, <1>13, <1>14, EventsInvNext

LEMMA CreateWebinarKeeps ==
  ASSUME EventsInv, NEW a \in WebinarAdmins, NEW w \in Webinars,
         NEW status \in {"draft", "active"}, CreateWebinar(a, w, status)
  PROVE EventsInv'
<1> DEFINE record == [at |-> IF status = "active" THEN "clear" ELSE "insert", webinar |-> w,
                      status |-> status, rename |-> TRUE, seen |-> NoWebinar]
<1>1. BeginAdmin(a, record) /\ ~Exists(w) BY DEF CreateWebinar
<1>2. record \in AdminRecords BY NoWebinarIs DEF AdminRecords, AdminPlaces, Statuses
<1>3. webinar[w] = NoWebinar BY <1>1, EventsInvIs DEF Exists, AbsentIsBlank
<1>4. /\ record.at = (IF status = "active" THEN "clear" ELSE "insert") /\ record.webinar = w
      /\ record.status = status /\ record.seen = NoWebinar
  OBVIOUS
<1> HIDE DEF record
<1>5. record.at = "clear" => Activates(record) BY <1>4, NoWebinarIs DEF Activates
<1>6. record.at = "insert" => record.status = "draft" BY <1>4
<1>7. record.at \in {"clear", "insert"} BY <1>4
<1>8. record.seen.status = "absent" BY <1>4, NoWebinarIs
<1>9. record.seen = webinar[record.webinar] BY <1>3, <1>4
<1> QED BY <1>1, <1>2, <1>5, <1>6, <1>7, <1>8, <1>9, BeginAdminKeeps

LEMMA UpdateWebinarKeeps ==
  ASSUME EventsInv, NEW a \in WebinarAdmins, NEW w \in Webinars,
         NEW status \in {"draft", "active", "closed"}, NEW rename \in BOOLEAN,
         UpdateWebinar(a, w, status, rename)
  PROVE EventsInv'
<1> DEFINE record == [at |-> IF status = "active" /\ webinar[w].status # "active" THEN "clear"
                             ELSE "save", webinar |-> w,
                      status |-> status, rename |-> rename, seen |-> webinar[w]]
<1>1. BeginAdmin(a, record) /\ Exists(w) BY DEF UpdateWebinar
<1>2. webinar[w] \in WebinarDocs BY EventsInvIs, EventsTypes
<1>3. record \in AdminRecords BY <1>2 DEF AdminRecords, AdminPlaces, Statuses
<1>4. /\ record.at = (IF status = "active" /\ webinar[w].status # "active" THEN "clear"
                      ELSE "save")
      /\ record.webinar = w /\ record.status = status /\ record.seen = webinar[w]
  OBVIOUS
<1> HIDE DEF record
<1>5. record.at = "clear" => Activates(record) BY <1>4 DEF Activates
<1>6. record.at = "save" => ~Activates(record) /\ record.status # "absent"
  BY <1>4 DEF Activates
<1>7. record.at \in {"clear", "save"} BY <1>4
<1>8. record.seen.status # "absent" BY <1>1, <1>4 DEF Exists
<1>9. record.seen = webinar[record.webinar] BY <1>4
<1> QED BY <1>1, <1>3, <1>5, <1>6, <1>7, <1>8, <1>9, BeginAdminKeeps

LEMMA DeleteWebinarKeeps ==
  ASSUME WebinarAssumption, EventsInv, NEW a \in WebinarAdmins, NEW w \in Webinars,
         DeleteWebinar(a, w)
  PROVE EventsInv'
<1> DEFINE record == [NoAdmin EXCEPT !.at = "delete entry", !.webinar = w, !.seen = webinar[w]]
<1>1. BeginAdmin(a, record) /\ Exists(w) BY DEF DeleteWebinar
<1>2. webinar[w] \in WebinarDocs BY EventsInvIs, EventsTypes
<1>3. record \in AdminRecords BY <1>2, NoAdminIs DEF AdminRecords, AdminPlaces, Statuses
<1>4. record.at = "delete entry" /\ record.webinar = w /\ record.seen = webinar[w]
  BY NoAdminIs DEF AdminRecords
<1> HIDE DEF record
<1>5. record.seen.status # "absent" BY <1>1, <1>4 DEF Exists
<1>6. record.seen = webinar[record.webinar] BY <1>4
<1> QED BY <1>1, <1>3, <1>4, <1>5, <1>6, BeginAdminKeeps

-----------------------------------------------------------------------------
(* The requests go on                                                         *)

LEMMA ClearActiveKeeps ==
  ASSUME WebinarAssumption, EventsInv, NEW a \in WebinarAdmins, ClearActive(a)
  PROVE EventsInv'
<1> DEFINE place == IF admin[a].seen.status = "absent" THEN "insert" ELSE "save"
<1>1. /\ EventsTypeOK /\ \A b \in WebinarAdmins : AdminFits(b)
      /\ AbsentIsBlank /\ ActivatesAlone /\ CalendarFollows
  BY EventsInvIs
<1>2. /\ admin[a].at = "clear"
      /\ webinar' = [v \in Webinars |-> IF Clears(admin[a].webinar, v)
                       THEN [webinar[v] EXCEPT !.status = Closed] ELSE webinar[v]]
      /\ AdminTo(a, place)
      /\ UNCHANGED <<entries, webinarHistory>>
  BY DEF ClearActive
<1>3. place \in AdminPlaces /\ place \in {"insert", "save"} BY DEF AdminPlaces
<1>4. PICK record : AdminIs(a, record) BY <1>1, <1>2, <1>3, AdminMoves
<1>5. /\ admin'[a].at = place /\ admin'[a].webinar = admin[a].webinar
      /\ admin'[a].status = admin[a].status /\ admin'[a].seen = admin[a].seen
  BY <1>1, <1>2, <1>3, AdminMoves
<1>5a. admin[a].seen.status = "absent" <=> place = "insert" OBVIOUS
<1> HIDE DEF place
<1>6. /\ webinar \in [Webinars -> WebinarDocs] /\ entries \subseteq 1..entriesMade
      /\ admin[a] \in AdminRecords
      /\ entriesMade \in Nat /\ webinarRequests \in Nat /\ webinarFailures \in Nat
      /\ activations \in BOOLEAN /\ jostled \in BOOLEAN
  BY <1>1, EventsTypes
<1>7. /\ entries' = entries /\ entriesMade' = entriesMade /\ webinarRequests' = webinarRequests
      /\ webinarFailures' = webinarFailures /\ activations' = activations /\ jostled' = jostled
  BY <1>2 DEF webinarHistory
<1>8. \A v \in Webinars :
        /\ webinar'[v] \in WebinarDocs /\ webinar'[v].entry = webinar[v].entry
        /\ webinar'[v].status = (IF v # admin[a].webinar /\ webinar[v].status = "active"
                                 THEN "closed" ELSE webinar[v].status)
        /\ webinar'[v].status = "absent" => webinar'[v] = webinar[v]
  <2> TAKE v \in Webinars
  <2>1. webinar[v] \in WebinarDocs BY <1>6
  <2>2. CASE v # admin[a].webinar /\ webinar[v].status = "active"
    <3>1. webinar'[v] = [webinar[v] EXCEPT !.status = "closed"]
      BY <1>2, <2>2 DEF Clears, Closed
    <3> QED BY <2>1, <2>2, <3>1 DEF WebinarDocs, Statuses
  <2>3. CASE ~(v # admin[a].webinar /\ webinar[v].status = "active")
    <3>1. webinar'[v] = webinar[v] BY <1>2, <2>3 DEF Clears
    <3> QED BY <2>1, <2>3, <3>1
  <2> QED BY <2>2, <2>3
<1>9. EventsTypeOK'
  <2>1. webinar' \in [Webinars -> WebinarDocs] BY <1>2, <1>8
  <2>2. admin' \in [WebinarAdmins -> AdminRecords] BY <1>4 DEF AdminIs
  <2> QED BY <1>6, <1>7, <2>1, <2>2, EventsTyped
<1>10. Activates(admin[a]) BY <1>1, <1>2 DEF AdminFits
<1>11. AdminFits(a)
  BY <1>1
<1>12. AdminFits(a)'
  BY <1>2, <1>3, <1>5, <1>5a, <1>7, <1>10, <1>11 DEF AdminFits, Activates
<1>13. \A b \in WebinarAdmins : AdminFits(b)'
  <2>1. entriesMade' \in Nat /\ entriesMade <= entriesMade'
    <3>1. entriesMade' = entriesMade BY <1>7
    <3>2. entriesMade \in Nat BY <1>6
    <3> QED BY <3>1, <3>2
  <2> QED BY <1>1, <1>4, <1>12, <2>1, AdminsFit
<1>14. AbsentIsBlank' BY <1>1, <1>7, <1>8 DEF AbsentIsBlank
<1>15. ActivatesAlone'
  <2>1. ~activations' => ~activations BY <1>7
  <2>2. ActivesFrom(a) BY <1>8 DEF ActivesFrom
  <2>3. Underway(a) BY <1>2 DEF Underway
  <2>4. \A v \in Webinars : webinar'[v].status = "active" => v = admin'[a].webinar
    BY <1>5, <1>8
  <2> QED BY <1>1, <1>4, <1>10, <2>1, <2>2, <2>3, <2>4, ActivationsStayAlone
<1>16. CalendarFollows'
  <2>1. Smooth' => Smooth BY <1>7 DEF Smooth
  <2>2. \A v \in Webinars : webinar'[v].entry = webinar[v].entry BY <1>8
  <2>3. \A v \in Webinars : Exists(v)' <=> Exists(v) BY <1>8 DEF Exists
  <2>4. AloneWith(a) BY <1>2, <1>5 DEF AloneWith, Underway
  <2>5. admin[a].at \notin {"note", "delete"} /\ admin'[a].at \notin {"note", "delete"}
    BY <1>2, <1>3, <1>5
  <2>6. Smooth' => AdminKnows(a)'
    <3> SUFFICES ASSUME Smooth' PROVE AdminKnows(a)'
      OBVIOUS
    <3>1. AdminKnows(a) BY <1>1, <2>1, CalendarIs
    <3>2. admin[a].webinar \in Webinars BY <1>6 DEF AdminRecords
    <3>3. /\ webinar'[admin[a].webinar].entry = webinar[admin[a].webinar].entry
          /\ (webinar'[admin[a].webinar].status # "absent")
               <=> (webinar[admin[a].webinar].status # "absent")
      BY <1>8, <3>2
    <3> QED BY <1>2, <1>3, <1>5, <1>5a, <3>1, <3>3 DEF AdminKnows, Exists, Underway
  <2> QED BY <1>1, <1>4, <1>7, <2>1, <2>2, <2>3, <2>4, <2>5, <2>6, CalendarQuiet
<1> QED BY <1>9, <1>13, <1>14, <1>15, <1>16, EventsInvNext

LEMMA InsertWebinarKeeps ==
  ASSUME WebinarAssumption, EventsInv, NEW a \in WebinarAdmins, InsertWebinar(a)
  PROVE EventsInv'
<1> DEFINE w == admin[a].webinar
<1>1. /\ EventsTypeOK /\ \A b \in WebinarAdmins : AdminFits(b)
      /\ AbsentIsBlank /\ ActivatesAlone /\ CalendarFollows
  BY EventsInvIs
<1>2. /\ admin[a].at = "insert"
      /\ webinar' = [webinar EXCEPT ![w] = [NoWebinar EXCEPT !.status = admin[a].status]]
      /\ AdminTo(a, "sync")
      /\ UNCHANGED <<entries, webinarHistory>>
  BY DEF InsertWebinar
<1>3. "sync" \in AdminPlaces BY DEF AdminPlaces
<1>4. PICK record : AdminIs(a, record) BY <1>1, <1>2, <1>3, AdminMoves
<1>5. /\ admin'[a].at = "sync" /\ admin'[a].webinar = w
      /\ admin'[a].status = admin[a].status /\ admin'[a].seen = admin[a].seen
  BY <1>1, <1>2, <1>3, AdminMoves
<1>6. /\ webinar \in [Webinars -> WebinarDocs] /\ entries \subseteq 1..entriesMade
      /\ admin[a] \in AdminRecords
      /\ entriesMade \in Nat /\ webinarRequests \in Nat /\ webinarFailures \in Nat
      /\ activations \in BOOLEAN /\ jostled \in BOOLEAN
  BY <1>1, EventsTypes
<1>7. /\ entries' = entries /\ entriesMade' = entriesMade /\ webinarRequests' = webinarRequests
      /\ webinarFailures' = webinarFailures /\ activations' = activations /\ jostled' = jostled
  BY <1>2 DEF webinarHistory
<1>8. w \in Webinars /\ admin[a].status \in Statuses BY <1>6 DEF AdminRecords
<1>9. AdminFits(a) BY <1>1
<1>10. admin[a].seen.status = "absent" /\ admin[a].seen.entry = 0
  BY <1>2, <1>9 DEF AdminFits
<1>11. /\ webinar' \in [Webinars -> WebinarDocs]
       /\ webinar'[w].status = admin[a].status /\ webinar'[w].entry = 0
       /\ webinar'[w].status = "absent" => webinar'[w] = NoWebinar
       /\ \A v \in Webinars \ {w} : webinar'[v] = webinar[v]
  <2>1. [NoWebinar EXCEPT !.status = admin[a].status] \in WebinarDocs
    BY <1>8, NoWebinarIs DEF WebinarDocs
  <2>2. webinar'[w] = [NoWebinar EXCEPT !.status = admin[a].status] BY <1>2, <1>6, <1>8
  <2>3. webinar' \in [Webinars -> WebinarDocs] BY <1>2, <1>6, <2>1
  <2>4. \A v \in Webinars \ {w} : webinar'[v] = webinar[v] BY <1>2, <1>6
  <2>5. webinar'[w].status = admin[a].status /\ webinar'[w].entry = 0
    BY <2>2 DEF NoWebinar
  <2>6. admin[a].status = "absent" => webinar'[w] = NoWebinar
    BY <2>2 DEF NoWebinar
  <2> QED BY <2>3, <2>4, <2>5, <2>6
<1> HIDE DEF w
<1>12. EventsTypeOK'
  <2>1. admin' \in [WebinarAdmins -> AdminRecords] BY <1>4 DEF AdminIs
  <2> QED BY <1>6, <1>7, <1>11, <2>1, EventsTyped
<1>13. AdminFits(a)' BY <1>5, <1>7, <1>9, <1>10 DEF AdminFits
<1>14. \A b \in WebinarAdmins : AdminFits(b)'
  <2>1. entriesMade' \in Nat /\ entriesMade <= entriesMade'
    <3>1. entriesMade' = entriesMade BY <1>7
    <3>2. entriesMade \in Nat BY <1>6
    <3> QED BY <3>1, <3>2
  <2> QED BY <1>1, <1>4, <1>13, <2>1, AdminsFit
<1>15. AbsentIsBlank'
  <2> SUFFICES ASSUME NEW v \in Webinars
               PROVE /\ webinar'[v].status = "absent" => webinar'[v] = NoWebinar
                     /\ webinar'[v].entry <= entriesMade'
    BY DEF AbsentIsBlank
  <2>1. CASE v = w BY <1>6, <1>7, <1>11, <2>1
  <2>2. CASE v # w BY <1>1, <1>7, <1>11, <2>2 DEF AbsentIsBlank
  <2> QED BY <2>1, <2>2
<1>16. ActivatesAlone'
  <2>1. ~activations' => ~activations BY <1>7
  <2>2. ActivesFrom(a)
    <3> SUFFICES ASSUME NEW v \in Webinars, webinar'[v].status = "active"
                 PROVE webinar[v].status = "active" \/ (Writes(a) /\ v = w)
      BY DEF ActivesFrom, w
    <3>1. CASE v = w
      <4>1. admin[a].status = "active" BY <1>11, <3>1
      <4> QED BY <1>2, <1>10, <3>1, <4>1 DEF Writes, Activates
    <3>2. CASE v # w BY <1>11, <3>2
    <3> QED BY <3>1, <3>2
  <2>3. Underway(a) BY <1>2 DEF Underway
  <2>4. Activates(admin[a])' <=> Activates(admin[a]) BY <1>5 DEF Activates
  <2>5. ~Writes(a)' BY <1>5 DEF Writes
  <2> QED BY <1>1, <1>4, <2>1, <2>2, <2>3, <2>4, <2>5, ActivationsStayAlone
<1>17. CalendarFollows'
  <2>1. Smooth' => Smooth BY <1>7 DEF Smooth
  <2>0. Underway(a) BY <1>2 DEF Underway
  <2>3. \A v \in Webinars :
          (Underway(a) /\ v = admin[a].webinar) \/ (Exists(v)' <=> Exists(v))
    BY <1>11, <2>0 DEF Exists, w
  <2>4. AloneWith(a) BY <1>5, <2>0 DEF AloneWith, w
  <2>5. admin[a].at \notin {"note", "delete"} /\ admin'[a].at \notin {"note", "delete"}
    BY <1>2, <1>5
  <2>6. CASE Smooth'
    <3>1. AdminKnows(a) BY <1>1, <2>1, <2>6, CalendarIs
    <3>2. webinar[w].status = "absent"
      BY <1>2, <1>10, <3>1 DEF AdminKnows, Exists, w
    <3>3. webinar[w].entry = 0 BY <1>1, <1>8, <3>2, NoWebinarIs DEF AbsentIsBlank
    <3>4. \A v \in Webinars : webinar'[v].entry = webinar[v].entry BY <1>11, <3>3
    <3>5. AdminKnows(a)'
      <4>1. webinar'[w].status # "absent" BY <1>2, <1>9, <1>11 DEF AdminFits
      <4> QED BY <1>5, <1>10, <1>11, <4>1 DEF AdminKnows, Exists, Underway
    <3> QED BY <1>1, <1>4, <1>7, <2>1, <2>3, <2>4, <2>5, <3>4, <3>5, CalendarQuiet
  <2>7. CASE ~Smooth' BY <2>7 DEF CalendarFollows, Smooth
  <2> QED BY <2>6, <2>7
<1> QED BY <1>12, <1>14, <1>15, <1>16, <1>17, EventsInvNext

\* A request that has ended fits, and knows nothing.
LEMMA EndedFits ==
  ASSUME NEW a \in WebinarAdmins, admin'[a].at = "idle", admin'[a].seen = NoWebinar,
         entriesMade' \in Nat
  PROVE AdminFits(a)' /\ AdminKnows(a)' /\ ~Underway(a)' /\ ~Writes(a)'
<1>1. admin'[a].seen.entry = 0 BY NoWebinarIs
<1>2. admin'[a].seen.entry <= entriesMade' BY <1>1
<1>3. AdminFits(a)' BY <1>1, <1>2 DEF AdminFits
<1>4. ~Underway(a)' BY DEF Underway
<1>5. AdminKnows(a)' BY <1>4 DEF AdminKnows, Underway
<1> QED BY <1>3, <1>4, <1>5 DEF Writes

LEMMA SaveWebinarKeeps ==
  ASSUME WebinarAssumption, EventsInv, NEW a \in WebinarAdmins, SaveWebinar(a)
  PROVE EventsInv'
<1> DEFINE w == admin[a].webinar
<1>1. /\ EventsTypeOK /\ \A b \in WebinarAdmins : AdminFits(b)
      /\ AbsentIsBlank /\ ActivatesAlone /\ CalendarFollows
  BY EventsInvIs
<1>2. /\ admin[a].at = "save"
      /\ IF Exists(w)
         THEN /\ webinar' = [webinar EXCEPT ![w].status =
                   IF admin[a].status = admin[a].seen.status THEN @ ELSE admin[a].status]
              /\ IF admin[a].rename THEN AdminTo(a, "sync") ELSE EndAdmin(a)
         ELSE EndAdmin(a) /\ UNCHANGED webinar
      /\ UNCHANGED <<entries, webinarHistory>>
  BY DEF SaveWebinar
<1>3. "sync" \in AdminPlaces BY DEF AdminPlaces
<1>4. /\ webinar \in [Webinars -> WebinarDocs] /\ entries \subseteq 1..entriesMade
      /\ admin[a] \in AdminRecords
      /\ entriesMade \in Nat /\ webinarRequests \in Nat /\ webinarFailures \in Nat
      /\ activations \in BOOLEAN /\ jostled \in BOOLEAN
  BY <1>1, EventsTypes
<1>5. AdminTo(a, "sync") \/ EndAdmin(a) BY <1>2
<1>6. \E record : AdminIs(a, record)
  BY <1>1, <1>3, <1>5, AdminMoves, AdminEnds
<1>7. \/ /\ admin'[a].at = "sync" /\ admin'[a].webinar = w
         /\ admin'[a].status = admin[a].status /\ admin'[a].seen = admin[a].seen
      \/ admin'[a].at = "idle" /\ admin'[a].seen = NoWebinar
  BY <1>1, <1>3, <1>5, AdminMoves, AdminEnds
<1>8. admin'[a].at = "sync" => Exists(w)
  BY <1>1, <1>2, AdminEnds
<1>9. PICK record : AdminIs(a, record) BY <1>6
<1>10. /\ entries' = entries /\ entriesMade' = entriesMade /\ webinarRequests' = webinarRequests
       /\ webinarFailures' = webinarFailures /\ activations' = activations /\ jostled' = jostled
  BY <1>2 DEF webinarHistory
<1>11. w \in Webinars /\ admin[a].status \in Statuses BY <1>4 DEF AdminRecords
<1>12. AdminFits(a) BY <1>1
<1>13. admin[a].status # "absent" /\ admin[a].seen.status # "absent"
  BY <1>2, <1>12 DEF AdminFits
<1>14. /\ webinar' \in [Webinars -> WebinarDocs]
       /\ webinar'[w].entry = webinar[w].entry
       /\ Exists(w) => webinar'[w].status # "absent"
       /\ ~Exists(w) => webinar'[w] = webinar[w]
       /\ (webinar'[w].status = "active" /\ webinar[w].status # "active") =>
            (admin[a].status = "active" /\ admin[a].seen.status # "active")
       /\ \A v \in Webinars \ {w} : webinar'[v] = webinar[v]
  <2>1. CASE Exists(w)
    <3> DEFINE s == IF admin[a].status = admin[a].seen.status THEN webinar[w].status
                    ELSE admin[a].status
    <3>1. webinar[w] \in WebinarDocs BY <1>4, <1>11
    <3>2. webinar[w].status # "absent" BY <2>1 DEF Exists
    <3>3. s \in Statuses BY <1>11, <3>1 DEF WebinarDocs
    <3>4. s # "absent" BY <1>13, <3>2
    <3>5. webinar' = [webinar EXCEPT ![w] = [webinar[w] EXCEPT !.status = s]]
      BY <1>2, <1>4, <2>1, <3>1
    <3>6. (s = "active" /\ webinar[w].status # "active") =>
            (admin[a].status = "active" /\ admin[a].seen.status # "active")
      OBVIOUS
    <3> HIDE DEF s
    <3>7. [webinar[w] EXCEPT !.status = s] \in WebinarDocs BY <3>1, <3>3 DEF WebinarDocs
    <3>8. webinar' \in [Webinars -> WebinarDocs] BY <1>4, <3>5, <3>7
    <3>9. webinar'[w] = [webinar[w] EXCEPT !.status = s] BY <1>4, <1>11, <3>5
    <3>10. webinar'[w].status = s /\ webinar'[w].entry = webinar[w].entry
      BY <3>1, <3>9 DEF WebinarDocs
    <3>11. \A v \in Webinars \ {w} : webinar'[v] = webinar[v] BY <1>4, <3>5
    <3> QED BY <2>1, <3>4, <3>6, <3>8, <3>10, <3>11
  <2>2. CASE ~Exists(w)
    <3>1. webinar' = webinar BY <1>2, <2>2
    <3> QED BY <1>4, <2>2, <3>1
  <2> QED BY <2>1, <2>2
<1> HIDE DEF w
<1>15. EventsTypeOK'
  <2>1. admin' \in [WebinarAdmins -> AdminRecords] BY <1>9 DEF AdminIs
  <2> QED BY <1>4, <1>10, <1>14, <2>1, EventsTyped
<1>16. AdminFits(a)'
  <2>1. CASE admin'[a].at = "idle" /\ admin'[a].seen = NoWebinar
    BY <1>4, <1>10, <2>1, EndedFits
  <2>2. CASE admin'[a].at = "sync" /\ admin'[a].seen = admin[a].seen
    BY <1>2, <1>10, <1>12, <2>2 DEF AdminFits
  <2> QED BY <1>7, <2>1, <2>2
<1>17. \A b \in WebinarAdmins : AdminFits(b)'
  BY <1>1, <1>4, <1>9, <1>10, <1>16, AdminsFit, CountsOn
<1>18. AbsentIsBlank'
  <2> SUFFICES ASSUME NEW v \in Webinars
               PROVE /\ webinar'[v].status = "absent" => webinar'[v] = NoWebinar
                     /\ webinar'[v].entry <= entriesMade'
    BY DEF AbsentIsBlank
  <2>1. CASE v = w BY <1>1, <1>10, <1>11, <1>14, <2>1 DEF AbsentIsBlank, Exists
  <2>2. CASE v # w BY <1>1, <1>10, <1>14, <2>2 DEF AbsentIsBlank
  <2> QED BY <2>1, <2>2
<1>0. Underway(a) BY <1>2 DEF Underway
<1>19. ActivatesAlone'
  <2>1. ~activations' => ~activations BY <1>10
  <2>2. ActivesFrom(a)
    <3> SUFFICES ASSUME NEW v \in Webinars, webinar'[v].status = "active",
                        webinar[v].status # "active"
                 PROVE Writes(a) /\ v = w
      BY DEF ActivesFrom, w
    <3>1. v = w BY <1>14
    <3>2. admin[a].status = "active" /\ admin[a].seen.status # "active" BY <1>14, <3>1
    <3> QED BY <1>2, <3>1, <3>2 DEF Writes, Activates
  <2>3. (Underway(a)' /\ Activates(admin[a])') => Activates(admin[a])
    BY <1>7 DEF Activates, Underway
  <2>4. ~Writes(a)' BY <1>7 DEF Writes
  <2> QED BY <1>0, <1>1, <1>9, <2>1, <2>2, <2>3, <2>4, ActivationsStayAlone
<1>20. CalendarFollows'
  <2>1. Smooth' => Smooth BY <1>10 DEF Smooth
  <2>2. \A v \in Webinars : webinar'[v].entry = webinar[v].entry BY <1>14
  <2>3. \A v \in Webinars :
          (Underway(a) /\ v = admin[a].webinar) \/ (Exists(v)' <=> Exists(v))
    BY <1>0, <1>14 DEF Exists, w
  <2>4. AloneWith(a) BY <1>0, <1>7 DEF AloneWith, Underway, w
  <2>5. admin[a].at \notin {"note", "delete"} /\ admin'[a].at \notin {"note", "delete"}
    BY <1>2, <1>7
  <2>6. Smooth' => AdminKnows(a)'
    <3> SUFFICES ASSUME Smooth' PROVE AdminKnows(a)'
      OBVIOUS
    <3>1. CASE admin'[a].at = "idle" /\ admin'[a].seen = NoWebinar
      BY <1>4, <1>10, <3>1, EndedFits
    <3>2. CASE /\ admin'[a].at = "sync" /\ admin'[a].webinar = w
               /\ admin'[a].seen = admin[a].seen
      <4>1. AdminKnows(a) BY <1>1, <2>1, CalendarIs
      <4>2. webinar[w].entry = admin[a].seen.entry BY <1>2, <4>1 DEF AdminKnows, w
      <4>3. webinar'[w].status # "absent" BY <1>8, <1>14, <3>2
      <4> QED BY <1>14, <3>2, <4>2, <4>3 DEF AdminKnows, Exists
    <3> QED BY <1>7, <3>1, <3>2
  <2> QED BY <1>1, <1>9, <1>10, <2>1, <2>2, <2>3, <2>4, <2>5, <2>6, CalendarQuiet
<1> QED BY <1>15, <1>17, <1>18, <1>19, <1>20, EventsInvNext

\* A step of a request that leaves statuses, blanks and activations as they are.
LEMMA StatusesKept ==
  ASSUME EventsTypeOK, \A b \in WebinarAdmins : AdminFits(b), ActivatesAlone,
         NEW a \in WebinarAdmins, NEW record, AdminIs(a, record),
         \A v \in Webinars : webinar'[v].status \in {webinar[v].status, "absent"},
         activations' = activations, ~Writes(a)',
         (Underway(a)' /\ Activates(admin[a])') => (Underway(a) /\ Activates(admin[a]))
  PROVE ActivatesAlone'
<1>1. ~activations' => ~activations OBVIOUS
<1>2. ActivesFrom(a) BY DEF ActivesFrom
<1> QED BY <1>1, <1>2, ActivationsStayAlone

LEMMA EndQuietly ==
  ASSUME WebinarAssumption, EventsInv, NEW a \in WebinarAdmins, EndAdmin(a),
         UNCHANGED <<webinar, entries, entriesMade, webinarRequests, activations, jostled>>,
         webinarFailures' \in Nat, webinarFailures' # 0 \/ webinarFailures' = webinarFailures,
         admin[a].at \notin {"note", "delete"}
  PROVE EventsInv'
<1>1. /\ EventsTypeOK /\ \A b \in WebinarAdmins : AdminFits(b)
      /\ AbsentIsBlank /\ ActivatesAlone /\ CalendarFollows
  BY EventsInvIs
<1>2. /\ AdminIs(a, NoAdmin) /\ admin'[a].at = "idle" /\ ~Underway(a)'
      /\ admin'[a].seen = NoWebinar
  BY <1>1, AdminEnds
<1>3. /\ webinar \in [Webinars -> WebinarDocs] /\ entries \subseteq 1..entriesMade
      /\ entriesMade \in Nat /\ webinarRequests \in Nat
      /\ activations \in BOOLEAN /\ jostled \in BOOLEAN
  BY <1>1, EventsTypes
<1>4. /\ webinar' = webinar /\ entries' = entries /\ entriesMade' = entriesMade
      /\ webinarRequests' = webinarRequests /\ activations' = activations /\ jostled' = jostled
  OBVIOUS
<1>5. EventsTypeOK'
  <2>1. admin' \in [WebinarAdmins -> AdminRecords] BY <1>2 DEF AdminIs
  <2> QED BY <1>3, <1>4, <2>1, EventsTyped
<1>6. AdminFits(a)' /\ AdminKnows(a)' /\ ~Writes(a)' BY <1>2, <1>3, <1>4, EndedFits
<1>7. \A b \in WebinarAdmins : AdminFits(b)'
  BY <1>1, <1>2, <1>3, <1>4, <1>6, AdminsFit, CountsOn
<1>8. AbsentIsBlank' BY <1>1, <1>4 DEF AbsentIsBlank
<1>9. ActivatesAlone' BY <1>1, <1>2, <1>4, <1>6, StatusesKept
<1>10. CalendarFollows'
  <2>1. Smooth' => Smooth BY <1>4 DEF Smooth
  <2>2. AloneWith(a) BY <1>2 DEF AloneWith
  <2>3. admin'[a].at \notin {"note", "delete"} BY <1>2
  <2>4. \A v \in Webinars : Exists(v)' <=> Exists(v) BY <1>4 DEF Exists
  <2> QED BY <1>1, <1>2, <1>4, <1>6, <2>1, <2>2, <2>3, <2>4, CalendarQuiet
<1> QED BY <1>5, <1>7, <1>8, <1>9, <1>10, EventsInvNext

\* An entry nobody knows of takes the calendar out of what is claimed.
LEMMA EntryLostKeeps ==
  ASSUME WebinarAssumption, EventsInv, NEW a \in WebinarAdmins, EndAdmin(a),
         UNCHANGED <<webinar, webinarRequests, activations, jostled>>,
         entriesMade' = entriesMade + 1, entries' = entries \cup {entriesMade'},
         webinarFailures' = webinarFailures + 1
  PROVE EventsInv'
<1>1. /\ EventsTypeOK /\ \A b \in WebinarAdmins : AdminFits(b)
      /\ AbsentIsBlank /\ ActivatesAlone
  BY EventsInvIs
<1>2. AdminIs(a, NoAdmin) /\ ~Underway(a)' /\ admin'[a].seen = NoWebinar
      /\ admin'[a].at = "idle"
  BY <1>1, AdminEnds
<1>3. /\ webinar \in [Webinars -> WebinarDocs] /\ entries \subseteq 1..entriesMade
      /\ entriesMade \in Nat /\ webinarRequests \in Nat /\ webinarFailures \in Nat
      /\ activations \in BOOLEAN /\ jostled \in BOOLEAN
  BY <1>1, EventsTypes
<1>4. /\ webinar' = webinar /\ webinarRequests' = webinarRequests
      /\ activations' = activations /\ jostled' = jostled
  OBVIOUS
<1>5. /\ entriesMade' \in Nat /\ entriesMade <= entriesMade' /\ entriesMade' # 0
      /\ entries' \subseteq 1..entriesMade'
  BY <1>3
<1>6. webinarFailures' \in Nat /\ webinarFailures' # 0 BY <1>3
<1>7. EventsTypeOK'
  <2>1. admin' \in [WebinarAdmins -> AdminRecords] BY <1>2 DEF AdminIs
  <2> QED BY <1>3, <1>4, <1>5, <1>6, <2>1, EventsTyped
<1>8. AdminFits(a)' /\ ~Writes(a)' BY <1>2, <1>3, <1>5, EndedFits
<1>9. \A b \in WebinarAdmins : AdminFits(b)' BY <1>1, <1>2, <1>5, <1>8, AdminsFit
<1>10. AbsentIsBlank'
  <2>1. \A v \in Webinars : webinar[v].entry \in Nat /\ webinar[v].entry <= entriesMade
    BY <1>1, <1>3 DEF AbsentIsBlank, WebinarDocs
  <2>2. \A v \in Webinars : webinar'[v].entry <= entriesMade' BY <1>3, <1>4, <1>5, <2>1
  <2> QED BY <1>1, <1>4, <2>2 DEF AbsentIsBlank
<1>11. ActivatesAlone' BY <1>1, <1>2, <1>4, <1>8, StatusesKept
<1>12. CalendarFollows'
  <2>1. ~Smooth' BY <1>6 DEF Smooth
  <2> QED BY <2>1, CalendarNext
<1> QED BY <1>7, <1>9, <1>10, <1>11, <1>12, EventsInvNext

LEMMA SyncCalendarKeeps ==
  ASSUME WebinarAssumption, EventsInv, NEW a \in WebinarAdmins, SyncCalendar(a)
  PROVE EventsInv'
<1>1. /\ EventsTypeOK /\ \A b \in WebinarAdmins : AdminFits(b)
      /\ AbsentIsBlank /\ ActivatesAlone /\ CalendarFollows
  BY EventsInvIs
<1>2. /\ admin[a].at = "sync"
      /\ UNCHANGED <<webinar, webinarRequests, activations, jostled>>
  BY DEF SyncCalendar
<1>3. /\ webinar \in [Webinars -> WebinarDocs] /\ entries \subseteq 1..entriesMade
      /\ admin \in [WebinarAdmins -> AdminRecords] /\ admin[a] \in AdminRecords
      /\ entriesMade \in Nat /\ webinarRequests \in Nat /\ webinarFailures \in Nat
      /\ activations \in BOOLEAN /\ jostled \in BOOLEAN
  BY <1>1, EventsTypes
<1>4. CASE EndAdmin(a) /\ UNCHANGED <<entries, entriesMade, webinarFailures>>
  BY <1>2, <1>3, <1>4, EndQuietly
<1>5. CASE /\ EndAdmin(a) /\ UNCHANGED <<entries, entriesMade>>
           /\ webinarFailures' = webinarFailures + 1
  <2>1. webinarFailures' \in Nat /\ webinarFailures' # 0 BY <1>3, <1>5
  <2> QED BY <1>2, <1>5, <2>1, EndQuietly
<1>6. CASE /\ ~HasEntry(a)
           /\ entriesMade' = entriesMade + 1
           /\ entries' = entries \cup {entriesMade'}
           /\ admin' = [admin EXCEPT ![a].at = "note", ![a].seen.entry = entriesMade']
           /\ UNCHANGED webinarFailures
  <2> DEFINE n == entriesMade'
  <2> DEFINE w == admin[a].webinar
  <2>1. n = entriesMade + 1 /\ n \in Nat /\ n # 0 /\ entriesMade < n
    BY <1>3, <1>6
  <2> DEFINE seen == [admin[a].seen EXCEPT !.entry = n]
  <2> DEFINE record == [admin[a] EXCEPT !.at = "note", !.seen = seen]
  <2>2. admin[a].seen \in WebinarDocs BY <1>3 DEF AdminRecords
  <2>3. seen \in WebinarDocs /\ seen.entry = n /\ seen.status = admin[a].seen.status
    BY <2>1, <2>2 DEF WebinarDocs
  <2>4. admin' = [admin EXCEPT ![a] = record] BY <1>3, <1>6
  <2> HIDE DEF seen
  <2>5. record \in AdminRecords BY <1>3, <2>3 DEF AdminRecords, AdminPlaces
  <2>6. /\ record.at = "note" /\ record.webinar = w /\ record.status = admin[a].status
        /\ record.seen = seen
    BY <1>3 DEF AdminRecords
  <2> HIDE DEF record, n, w
  <2>7. AdminIs(a, record) BY <1>1, <2>4, <2>5, AdminReplaced
  <2>8. /\ admin'[a].at = "note" /\ admin'[a].webinar = w /\ admin'[a].status = admin[a].status
        /\ admin'[a].seen.entry = n /\ admin'[a].seen.status = admin[a].seen.status
    BY <2>3, <2>6, <2>7 DEF AdminIs
  <2>9. \A b \in WebinarAdmins \ {a} : admin'[b] = admin[b] BY <2>7 DEF AdminIs
  <2>10. /\ webinar' = webinar /\ entries' = entries \cup {n} /\ webinarFailures' = webinarFailures
         /\ webinarRequests' = webinarRequests /\ activations' = activations
         /\ jostled' = jostled /\ entriesMade' = n
    BY <1>2, <1>6 DEF n
  <2>11. EventsTypeOK'
    <3>1. entries' \subseteq 1..entriesMade' BY <1>3, <2>1, <2>10
    <3>2. admin' \in [WebinarAdmins -> AdminRecords] BY <2>7 DEF AdminIs
    <3>3. entriesMade' \in Nat BY <2>1, <2>10
    <3> QED BY <1>3, <2>10, <3>1, <3>2, <3>3, EventsTyped
  <2>12. AdminFits(a)' BY <2>1, <2>8, <2>10 DEF AdminFits
  <2>13. \A b \in WebinarAdmins : AdminFits(b)'
    <3>1. entriesMade' \in Nat /\ entriesMade <= entriesMade' BY <1>3, <2>1, <2>10
    <3> QED BY <1>1, <2>7, <2>12, <3>1, AdminsFit
  <2>14. \A v \in Webinars : webinar[v].entry \in Nat /\ webinar[v].entry <= entriesMade
    BY <1>1, <1>3 DEF AbsentIsBlank, WebinarDocs
  <2>15. AbsentIsBlank'
    <3>1. \A v \in Webinars : webinar'[v].entry <= entriesMade'
      BY <1>3, <2>1, <2>10, <2>14
    <3> QED BY <1>1, <2>10, <3>1 DEF AbsentIsBlank
  <2>16. ActivatesAlone'
    <3>1. ~Writes(a)' BY <2>8 DEF Writes
    <3>2. Underway(a) BY <1>2 DEF Underway
    <3>3. Activates(admin[a])' <=> Activates(admin[a]) BY <2>8 DEF Activates
    <3> QED BY <1>1, <2>7, <2>10, <3>1, <3>2, <3>3, StatusesKept
  <2>17. CalendarFollows'
    <3> SUFFICES ASSUME Smooth'
                 PROVE /\ WebinarsApart' /\ \A b \in WebinarAdmins : AdminKnows(b)'
                       /\ EntriesApart' /\ EntriesKnown'
      BY CalendarNext
    <3>1. Smooth BY <2>10 DEF Smooth
    <3>2. /\ WebinarsApart /\ \A b \in WebinarAdmins : AdminKnows(b)
          /\ EntriesApart /\ EntriesKnown
      BY <1>1, <3>1, CalendarIs
    <3>3. \A b \in WebinarAdmins : admin[b].webinar \in Webinars BY <1>3 DEF AdminRecords
    <3>4. AloneWith(a) BY <1>2, <2>8 DEF AloneWith, Underway, w
    <3>5. \A v \in Webinars : webinar'[v].entry = webinar[v].entry /\ (Exists(v)' <=> Exists(v))
      BY <2>10 DEF Exists
    <3>6. WebinarsApart' /\ \A b \in WebinarAdmins \ {a} : AdminKnows(b)'
      BY <2>7, <3>2, <3>3, <3>4, <3>5, OthersKnow
    <3>7. AdminKnows(a) BY <3>2
    <3>8. /\ webinar[w].status # "absent"
          /\ webinar[w].entry = admin[a].seen.entry /\ admin[a].seen.entry = 0
      BY <1>2, <1>6, <3>7 DEF AdminKnows, Exists, HasEntry, w
    <3>9. AdminKnows(a)'
      BY <2>1, <2>8, <2>10, <3>8 DEF AdminKnows, Exists
    <3>10. \A b \in WebinarAdmins : admin[b].seen.entry \in Nat /\ admin[b].seen.entry <= entriesMade
      BY <1>1, <1>3 DEF AdminFits, AdminRecords, WebinarDocs
    <3>11. EntriesApart'
      <4>1. \A b \in WebinarAdmins \ {a} : admin'[b].seen.entry # n
        BY <1>3, <2>1, <2>9, <3>10
      <4>2. \A v \in Webinars : webinar'[v].entry # n BY <1>3, <2>1, <2>10, <2>14
      <4>3. \A b \in WebinarAdmins, v \in Webinars :
              admin'[b].at = "note" => webinar'[v].entry # admin'[b].seen.entry
        BY <2>8, <2>9, <2>10, <3>2, <4>2 DEF EntriesApart
      <4>4. \A b, c \in WebinarAdmins :
              (admin'[b].at = "note" /\ admin'[c].at = "note"
                 /\ admin'[b].seen.entry = admin'[c].seen.entry) => b = c
        BY <2>8, <2>9, <3>2, <4>1 DEF EntriesApart
      <4> QED BY <2>10, <3>2, <4>3, <4>4 DEF EntriesApart
    <3>12. \A x \in Nat : KeptEntry(x)' <=> KeptEntry(x)
      BY <1>2, <2>8, <2>9, <2>10 DEF KeptEntry
    <3>13. \A x \in Nat : MadeEntry(x)' <=> (MadeEntry(x) \/ x = n)
      BY <1>2, <2>8, <2>9 DEF MadeEntry
    <3>14. EntriesKnown' BY <2>10, <3>2, <3>12, <3>13 DEF EntriesKnown
    <3> QED BY <3>6, <3>9, <3>11, <3>14
  <2> QED BY <2>11, <2>13, <2>15, <2>16, <2>17, EventsInvNext
<1>7. CASE /\ EndAdmin(a) /\ webinarFailures' = webinarFailures + 1
           /\ entriesMade' = entriesMade + 1 /\ entries' = entries \cup {entriesMade'}
  BY <1>2, <1>7, EntryLostKeeps
<1> QED BY <1>4, <1>5, <1>6, <1>7 DEF SyncCalendar

LEMMA NoteEntryKeeps ==
  ASSUME WebinarAssumption, EventsInv, NEW a \in WebinarAdmins, NoteEntry(a)
  PROVE EventsInv'
<1> DEFINE w == admin[a].webinar
<1> DEFINE n == admin[a].seen.entry
<1>1. /\ EventsTypeOK /\ \A b \in WebinarAdmins : AdminFits(b)
      /\ AbsentIsBlank /\ ActivatesAlone /\ CalendarFollows
  BY EventsInvIs
<1>2. /\ admin[a].at = "note" /\ EndAdmin(a)
      /\ webinar' = (IF Exists(w) THEN [webinar EXCEPT ![w].entry = n, ![w].meet = TRUE]
                     ELSE webinar)
      /\ UNCHANGED <<entries, webinarHistory>>
  BY DEF NoteEntry
<1>3. /\ webinar \in [Webinars -> WebinarDocs] /\ entries \subseteq 1..entriesMade
      /\ admin \in [WebinarAdmins -> AdminRecords] /\ admin[a] \in AdminRecords
      /\ entriesMade \in Nat /\ webinarRequests \in Nat /\ webinarFailures \in Nat
      /\ activations \in BOOLEAN /\ jostled \in BOOLEAN
  BY <1>1, EventsTypes
<1>4. /\ AdminIs(a, NoAdmin) /\ admin'[a].at = "idle" /\ ~Underway(a)'
      /\ admin'[a].seen = NoWebinar
  BY <1>1, <1>2, AdminEnds
<1>5. \A b \in WebinarAdmins \ {a} : admin'[b] = admin[b] BY <1>4 DEF AdminIs
<1>6. /\ entries' = entries /\ entriesMade' = entriesMade /\ webinarRequests' = webinarRequests
      /\ webinarFailures' = webinarFailures /\ activations' = activations /\ jostled' = jostled
  BY <1>2 DEF webinarHistory
<1>7. w \in Webinars /\ n \in Nat BY <1>3 DEF AdminRecords, WebinarDocs
<1>8. n <= entriesMade BY <1>1 DEF AdminFits
<1>9. /\ webinar' \in [Webinars -> WebinarDocs]
      /\ \A v \in Webinars : webinar'[v].status = webinar[v].status
      /\ \A v \in Webinars \ {w} : webinar'[v] = webinar[v]
      /\ Exists(w) => webinar'[w].entry = n
      /\ ~Exists(w) => webinar'[w] = webinar[w]
  <2>1. CASE Exists(w)
    <3>1. webinar[w] \in WebinarDocs BY <1>3, <1>7
    <3>2. webinar' = [webinar EXCEPT ![w] = [webinar[w] EXCEPT !.entry = n, !.meet = TRUE]]
      BY <1>2, <1>3, <2>1, <3>1
    <3>3. [webinar[w] EXCEPT !.entry = n, !.meet = TRUE] \in WebinarDocs
      BY <1>7, <3>1 DEF WebinarDocs
    <3>4. webinar' \in [Webinars -> WebinarDocs] BY <1>3, <3>2, <3>3
    <3>5. webinar'[w] = [webinar[w] EXCEPT !.entry = n, !.meet = TRUE] BY <1>3, <1>7, <3>2
    <3>6. webinar'[w].entry = n /\ webinar'[w].status = webinar[w].status
      BY <3>1, <3>5 DEF WebinarDocs
    <3>7. \A v \in Webinars \ {w} : webinar'[v] = webinar[v] BY <1>3, <3>2
    <3> QED BY <2>1, <3>4, <3>6, <3>7
  <2>2. CASE ~Exists(w)
    <3>1. webinar' = webinar BY <1>2, <2>2
    <3> QED BY <1>3, <2>2, <3>1
  <2> QED BY <2>1, <2>2
<1> HIDE DEF w, n
<1>10. EventsTypeOK'
  <2>1. admin' \in [WebinarAdmins -> AdminRecords] BY <1>4 DEF AdminIs
  <2> QED BY <1>3, <1>6, <1>9, <2>1, EventsTyped
<1>11. AdminFits(a)' /\ AdminKnows(a)' /\ ~Writes(a)' BY <1>3, <1>4, <1>6, EndedFits
<1>12. \A b \in WebinarAdmins : AdminFits(b)'
  BY <1>1, <1>3, <1>4, <1>6, <1>11, AdminsFit, CountsOn
<1>13. AbsentIsBlank'
  <2> SUFFICES ASSUME NEW v \in Webinars
               PROVE /\ webinar'[v].status = "absent" => webinar'[v] = NoWebinar
                     /\ webinar'[v].entry <= entriesMade'
    BY DEF AbsentIsBlank
  <2>1. CASE v = w /\ Exists(w) BY <1>6, <1>8, <1>9, <2>1 DEF Exists
  <2>2. CASE v # w \/ ~Exists(w) BY <1>1, <1>6, <1>9, <2>2 DEF AbsentIsBlank
  <2> QED BY <2>1, <2>2
<1>14. ActivatesAlone' BY <1>1, <1>4, <1>6, <1>9, <1>11, StatusesKept
<1>15. CalendarFollows'
  <2> SUFFICES ASSUME Smooth'
               PROVE /\ WebinarsApart' /\ \A b \in WebinarAdmins : AdminKnows(b)'
                     /\ EntriesApart' /\ EntriesKnown'
    BY CalendarNext
  <2>1. Smooth BY <1>6 DEF Smooth
  <2>2. /\ WebinarsApart /\ \A b \in WebinarAdmins : AdminKnows(b)
        /\ EntriesApart /\ EntriesKnown
    BY <1>1, <2>1, CalendarIs
  <2>3. \A b \in WebinarAdmins : admin[b].webinar \in Webinars BY <1>3 DEF AdminRecords
  <2>4. AloneWith(a) BY <1>4 DEF AloneWith
  <2>5. Underway(a) BY <1>2 DEF Underway
  <2>6. \A v \in Webinars : (Underway(a) /\ v = admin[a].webinar)
          \/ (webinar'[v].entry = webinar[v].entry /\ (Exists(v)' <=> Exists(v)))
    BY <1>9, <2>5 DEF Exists, w
  <2>7. WebinarsApart' /\ \A b \in WebinarAdmins \ {a} : AdminKnows(b)'
    BY <1>4, <2>2, <2>3, <2>4, <2>6, OthersKnow
  <2>8. Exists(w) /\ webinar[w].entry = 0 /\ n # 0
    BY <1>2, <2>2 DEF AdminKnows, w, n
  <2>9. webinar'[w].entry = n BY <1>9, <2>8
  <2>10. \A v \in Webinars : webinar[v].entry # n BY <1>2, <2>2 DEF EntriesApart, n
  <2>11. \A b \in WebinarAdmins : (admin[b].at = "note" /\ admin[b].seen.entry = n) => b = a
    BY <1>2, <2>2 DEF EntriesApart, n
  <2>12. EntriesApart'
    <3>1. \A b \in WebinarAdmins : admin'[b].at = "note" => b # a /\ admin'[b] = admin[b]
      BY <1>4, <1>5
    <3>2. \A v, u \in Webinars :
            webinar'[v].entry = webinar'[u].entry => v = u \/ webinar'[v].entry = 0
      BY <1>9, <2>2, <2>9, <2>10 DEF EntriesApart
    <3>3. \A b \in WebinarAdmins, v \in Webinars :
            admin'[b].at = "note" => webinar'[v].entry # admin'[b].seen.entry
      BY <1>9, <2>2, <2>9, <2>11, <3>1 DEF EntriesApart
    <3>4. \A b, c \in WebinarAdmins :
            (admin'[b].at = "note" /\ admin'[c].at = "note"
               /\ admin'[b].seen.entry = admin'[c].seen.entry) => b = c
      BY <2>2, <3>1 DEF EntriesApart
    <3> QED BY <3>2, <3>3, <3>4 DEF EntriesApart
  <2>13. \A b \in WebinarAdmins : admin[b].at = "delete" => admin[b].webinar # w
    BY <1>2, <2>2 DEF WebinarsApart, Underway, w
  <2>14. \A b \in WebinarAdmins : admin'[b].at = "delete" <=> admin[b].at = "delete"
    BY <1>2, <1>4, <1>5
  <2>15. \A b \in WebinarAdmins : admin[b].at = "delete" => admin'[b].webinar = admin[b].webinar
    BY <1>2, <1>5
  <2>16. \A x \in Nat : KeptEntry(x)' <=> (KeptEntry(x) \/ x = n)
    <3> TAKE x \in Nat
    <3>1. KeptEntry(x)' => (KeptEntry(x) \/ x = n)
      BY <1>9, <2>9, <2>14, <2>15 DEF KeptEntry
    <3>2. KeptEntry(x) => KeptEntry(x)'
      BY <1>9, <2>8, <2>14, <2>15 DEF KeptEntry
    <3>3. (x = n) => KeptEntry(x)'
      BY <1>7, <2>8, <2>9, <2>13, <2>14, <2>15 DEF KeptEntry
    <3> QED BY <3>1, <3>2, <3>3
  <2>17. \A x \in Nat : MadeEntry(x) <=> (MadeEntry(x)' \/ x = n)
    <3> TAKE x \in Nat
    <3>1. MadeEntry(x)' => MadeEntry(x) BY <1>4, <1>5 DEF MadeEntry
    <3>2. MadeEntry(x) => (MadeEntry(x)' \/ x = n) BY <1>5 DEF MadeEntry, n
    <3>3. (x = n) => MadeEntry(x) BY <1>2 DEF MadeEntry, n
    <3> QED BY <3>1, <3>2, <3>3
  <2>18. EntriesKnown' BY <1>6, <2>2, <2>16, <2>17 DEF EntriesKnown
  <2> QED BY <1>11, <2>7, <2>12, <2>18
<1> QED BY <1>10, <1>12, <1>13, <1>14, <1>15, EventsInvNext

LEMMA DeleteEntryKeeps ==
  ASSUME WebinarAssumption, EventsInv, NEW a \in WebinarAdmins, DeleteEntry(a)
  PROVE EventsInv'
<1> DEFINE w == admin[a].webinar
<1>1. /\ EventsTypeOK /\ \A b \in WebinarAdmins : AdminFits(b)
      /\ AbsentIsBlank /\ ActivatesAlone /\ CalendarFollows
  BY EventsInvIs
<1>2. /\ admin[a].at = "delete entry" /\ AdminTo(a, "delete")
      /\ \/ entries' = entries \ {admin[a].seen.entry} /\ UNCHANGED webinarFailures
         \/ webinarFailures' = webinarFailures + 1 /\ UNCHANGED entries
      /\ UNCHANGED <<webinar, entriesMade, webinarRequests, activations, jostled>>
  BY DEF DeleteEntry, WithoutEntry
<1>3. /\ webinar \in [Webinars -> WebinarDocs] /\ entries \subseteq 1..entriesMade
      /\ admin \in [WebinarAdmins -> AdminRecords]
      /\ entriesMade \in Nat /\ webinarRequests \in Nat /\ webinarFailures \in Nat
      /\ activations \in BOOLEAN /\ jostled \in BOOLEAN
  BY <1>1, EventsTypes
<1>4. "delete" \in AdminPlaces BY DEF AdminPlaces
<1>5. PICK record : AdminIs(a, record) BY <1>1, <1>2, <1>4, AdminMoves
<1>6. /\ admin'[a].at = "delete" /\ admin'[a].webinar = w
      /\ admin'[a].status = admin[a].status /\ admin'[a].seen = admin[a].seen
  BY <1>1, <1>2, <1>4, AdminMoves
<1> HIDE DEF w
<1>7. \A b \in WebinarAdmins \ {a} : admin'[b] = admin[b] BY <1>5 DEF AdminIs
<1>8. /\ webinar' = webinar /\ entriesMade' = entriesMade /\ webinarRequests' = webinarRequests
      /\ activations' = activations /\ jostled' = jostled
  BY <1>2
<1>9. entries' \subseteq entries /\ webinarFailures' \in Nat
  <2>1. CASE entries' = entries \ {admin[a].seen.entry} /\ webinarFailures' = webinarFailures
    BY <1>3, <2>1
  <2>2. CASE entries' = entries /\ webinarFailures' = webinarFailures + 1
    BY <1>3, <2>2
  <2> QED BY <1>2, <2>1, <2>2
<1>10. EventsTypeOK'
  <2>1. admin' \in [WebinarAdmins -> AdminRecords] BY <1>5 DEF AdminIs
  <2>2. entries' \subseteq 1..entriesMade' BY <1>3, <1>8, <1>9
  <2> QED BY <1>3, <1>8, <1>9, <2>1, <2>2, EventsTyped
<1>11. AdminFits(a) BY <1>1
<1>12. AdminFits(a)' BY <1>2, <1>6, <1>8, <1>11 DEF AdminFits
<1>13. \A b \in WebinarAdmins : AdminFits(b)'
  BY <1>1, <1>3, <1>5, <1>8, <1>12, AdminsFit, CountsOn
<1>14. AbsentIsBlank' BY <1>1, <1>8 DEF AbsentIsBlank
<1>0. Underway(a) BY <1>2 DEF Underway
<1>15. ActivatesAlone'
  <2>1. ~Writes(a)' BY <1>6 DEF Writes
  <2>2. Activates(admin[a])' <=> Activates(admin[a]) BY <1>6 DEF Activates
  <2> QED BY <1>0, <1>1, <1>5, <1>8, <2>1, <2>2, StatusesKept
<1>16. CalendarFollows'
  <2> SUFFICES ASSUME Smooth'
               PROVE /\ WebinarsApart' /\ \A b \in WebinarAdmins : AdminKnows(b)'
                     /\ EntriesApart' /\ EntriesKnown'
    BY CalendarNext
  <2>1. webinarFailures' = 0 /\ ~jostled' BY DEF Smooth
  <2>2. entries' = entries \ {admin[a].seen.entry} /\ webinarFailures' = webinarFailures
    <3>1. webinarFailures' # webinarFailures + 1 BY <1>3, <2>1
    <3> QED BY <1>2, <3>1
  <2>3. Smooth BY <1>8, <2>1, <2>2 DEF Smooth
  <2>4. /\ WebinarsApart /\ \A b \in WebinarAdmins : AdminKnows(b)
        /\ EntriesApart /\ EntriesKnown
    BY <1>1, <2>3, CalendarIs
  <2>5. \A b \in WebinarAdmins : admin[b].webinar \in Webinars BY <1>3 DEF AdminRecords
  <2>6. AloneWith(a) BY <1>0, <1>6 DEF AloneWith, w
  <2>7. \A v \in Webinars : webinar'[v].entry = webinar[v].entry /\ (Exists(v)' <=> Exists(v))
    BY <1>8 DEF Exists
  <2>8. WebinarsApart' /\ \A b \in WebinarAdmins \ {a} : AdminKnows(b)'
    BY <1>5, <2>4, <2>5, <2>6, <2>7, OthersKnow
  <2>9. AdminKnows(a) BY <2>4
  <2>10. webinar[w].entry = admin[a].seen.entry BY <1>2, <2>9 DEF AdminKnows, w
  <2>11. AdminKnows(a)' BY <1>2, <1>6, <1>8, <2>9 DEF AdminKnows, Exists, Underway, w
  <2>12. \A b \in WebinarAdmins : (admin'[b].at = "note" \/ admin[b].at = "note") =>
           admin'[b] = admin[b]
    BY <1>2, <1>6, <1>7
  <2>13. EntriesApart' BY <1>8, <2>4, <2>12 DEF EntriesApart
  <2>14. \A x \in Nat : MadeEntry(x)' <=> MadeEntry(x) BY <2>12 DEF MadeEntry
  <2>15. w \in Webinars BY <2>5 DEF w
  <2>16. \A b \in WebinarAdmins : admin'[b].at = "delete" <=> (b = a \/ admin[b].at = "delete")
    BY <1>6, <1>7
  <2>17. \A b \in WebinarAdmins : admin'[b].webinar = admin[b].webinar BY <1>6, <1>7 DEF w
  <2>18. \A x \in Nat : KeptEntry(x)' <=> (KeptEntry(x) /\ x # webinar[w].entry)
    <3> TAKE x \in Nat
    <3>1. KeptEntry(x)' => (KeptEntry(x) /\ x # webinar[w].entry)
      <4> SUFFICES ASSUME NEW v \in Webinars, webinar'[v].entry = x, x # 0,
                          \A b \in WebinarAdmins :
                            admin'[b].at = "delete" => admin'[b].webinar # v
                   PROVE KeptEntry(x) /\ x # webinar[w].entry
        BY DEF KeptEntry
      <4>1. v # w BY <1>6
      <4>2. x # webinar[w].entry BY <1>8, <2>4, <2>15, <4>1 DEF EntriesApart
      <4>3. \A b \in WebinarAdmins : admin[b].at = "delete" => admin[b].webinar # v
        BY <2>16, <2>17
      <4> QED BY <1>8, <4>2, <4>3 DEF KeptEntry
    <3>2. (KeptEntry(x) /\ x # webinar[w].entry) => KeptEntry(x)'
      BY <1>6, <1>8, <2>16, <2>17 DEF KeptEntry
    <3> QED BY <3>1, <3>2
  <2>19. \A x \in Nat : MadeEntry(x) => x # webinar[w].entry
    BY <2>4, <2>15 DEF EntriesApart, MadeEntry
  <2>20. EntriesKnown' BY <2>2, <2>4, <2>10, <2>14, <2>18, <2>19 DEF EntriesKnown
  <2> QED BY <2>8, <2>11, <2>13, <2>20
<1> QED BY <1>10, <1>13, <1>14, <1>15, <1>16, EventsInvNext

LEMMA DeleteDocumentKeeps ==
  ASSUME WebinarAssumption, EventsInv, NEW a \in WebinarAdmins, DeleteDocument(a)
  PROVE EventsInv'
<1> DEFINE w == admin[a].webinar
<1>1. /\ EventsTypeOK /\ \A b \in WebinarAdmins : AdminFits(b)
      /\ AbsentIsBlank /\ ActivatesAlone /\ CalendarFollows
  BY EventsInvIs
<1>2. /\ admin[a].at = "delete" /\ EndAdmin(a)
      /\ webinar' = [webinar EXCEPT ![w] = NoWebinar]
      /\ UNCHANGED <<entries, webinarHistory>>
  BY DEF DeleteDocument
<1>3. /\ webinar \in [Webinars -> WebinarDocs] /\ entries \subseteq 1..entriesMade
      /\ admin \in [WebinarAdmins -> AdminRecords] /\ admin[a] \in AdminRecords
      /\ entriesMade \in Nat /\ webinarRequests \in Nat /\ webinarFailures \in Nat
      /\ activations \in BOOLEAN /\ jostled \in BOOLEAN
  BY <1>1, EventsTypes
<1>4. /\ AdminIs(a, NoAdmin) /\ admin'[a].at = "idle" /\ ~Underway(a)'
      /\ admin'[a].seen = NoWebinar
  BY <1>1, <1>2, AdminEnds
<1>5. \A b \in WebinarAdmins \ {a} : admin'[b] = admin[b] BY <1>4 DEF AdminIs
<1>6. /\ entries' = entries /\ entriesMade' = entriesMade /\ webinarRequests' = webinarRequests
      /\ webinarFailures' = webinarFailures /\ activations' = activations /\ jostled' = jostled
  BY <1>2 DEF webinarHistory
<1>7. w \in Webinars BY <1>3 DEF AdminRecords
<1>8. /\ webinar' \in [Webinars -> WebinarDocs] /\ webinar'[w] = NoWebinar
      /\ \A v \in Webinars \ {w} : webinar'[v] = webinar[v]
  BY <1>2, <1>3, <1>7, NoWebinarIs
<1> HIDE DEF w
<1>9. EventsTypeOK'
  <2>1. admin' \in [WebinarAdmins -> AdminRecords] BY <1>4 DEF AdminIs
  <2> QED BY <1>3, <1>6, <1>8, <2>1, EventsTyped
<1>10. AdminFits(a)' /\ AdminKnows(a)' /\ ~Writes(a)' BY <1>3, <1>4, <1>6, EndedFits
<1>11. \A b \in WebinarAdmins : AdminFits(b)'
  BY <1>1, <1>3, <1>4, <1>6, <1>10, AdminsFit, CountsOn
<1>12. AbsentIsBlank'
  <2> SUFFICES ASSUME NEW v \in Webinars
               PROVE /\ webinar'[v].status = "absent" => webinar'[v] = NoWebinar
                     /\ webinar'[v].entry <= entriesMade'
    BY DEF AbsentIsBlank
  <2>1. CASE v = w BY <1>3, <1>6, <1>8, <2>1, NoWebinarIs
  <2>2. CASE v # w BY <1>1, <1>6, <1>8, <2>2 DEF AbsentIsBlank
  <2> QED BY <2>1, <2>2
<1>13. \A v \in Webinars : webinar'[v].status \in {webinar[v].status, "absent"}
  BY <1>8, NoWebinarIs
<1>14. ActivatesAlone' BY <1>1, <1>4, <1>6, <1>10, <1>13, StatusesKept
<1>15. CalendarFollows'
  <2> SUFFICES ASSUME Smooth'
               PROVE /\ WebinarsApart' /\ \A b \in WebinarAdmins : AdminKnows(b)'
                     /\ EntriesApart' /\ EntriesKnown'
    BY CalendarNext
  <2>1. Smooth BY <1>6 DEF Smooth
  <2>2. /\ WebinarsApart /\ \A b \in WebinarAdmins : AdminKnows(b)
        /\ EntriesApart /\ EntriesKnown
    BY <1>1, <2>1, CalendarIs
  <2>3. \A b \in WebinarAdmins : admin[b].webinar \in Webinars BY <1>3 DEF AdminRecords
  <2>4. AloneWith(a) BY <1>4 DEF AloneWith
  <2>5. Underway(a) BY <1>2 DEF Underway
  <2>6. \A v \in Webinars : (Underway(a) /\ v = admin[a].webinar)
          \/ (webinar'[v].entry = webinar[v].entry /\ (Exists(v)' <=> Exists(v)))
    BY <1>8, <2>5 DEF Exists, w
  <2>7. WebinarsApart' /\ \A b \in WebinarAdmins \ {a} : AdminKnows(b)'
    BY <1>4, <2>2, <2>3, <2>4, <2>6, OthersKnow
  <2>8. webinar'[w].entry = 0 BY <1>8, NoWebinarIs
  <2>9. \A b \in WebinarAdmins : (admin'[b].at = "note" \/ admin[b].at = "note") =>
          admin'[b] = admin[b]
    BY <1>2, <1>4, <1>5
  <2>10. EntriesApart'
    <3>1. \A v, u \in Webinars :
            webinar'[v].entry = webinar'[u].entry => v = u \/ webinar'[v].entry = 0
      BY <1>8, <2>2, <2>8 DEF EntriesApart
    <3>2. \A b \in WebinarAdmins : admin[b].at = "note" => admin[b].seen.entry # 0
      BY <2>2 DEF AdminKnows
    <3>3. \A b \in WebinarAdmins, v \in Webinars :
            admin'[b].at = "note" => webinar'[v].entry # admin'[b].seen.entry
      BY <1>8, <2>2, <2>8, <2>9, <3>2 DEF EntriesApart
    <3>4. \A b, c \in WebinarAdmins :
            (admin'[b].at = "note" /\ admin'[c].at = "note"
               /\ admin'[b].seen.entry = admin'[c].seen.entry) => b = c
      BY <2>2, <2>9 DEF EntriesApart
    <3> QED BY <3>1, <3>3, <3>4 DEF EntriesApart
  <2>11. \A x \in Nat : MadeEntry(x)' <=> MadeEntry(x) BY <2>9 DEF MadeEntry
  <2>12. \A b \in WebinarAdmins \ {a} : admin'[b].at = "delete" <=> admin[b].at = "delete"
    BY <1>5
  <2>13. \A x \in Nat : KeptEntry(x)' <=> KeptEntry(x)
    <3> TAKE x \in Nat
    <3>1. KeptEntry(x)' => KeptEntry(x)
      <4> SUFFICES ASSUME NEW v \in Webinars, webinar'[v].entry = x, x # 0,
                          \A b \in WebinarAdmins :
                            admin'[b].at = "delete" => admin'[b].webinar # v
                   PROVE KeptEntry(x)
        BY DEF KeptEntry
      <4>1. v # w BY <2>8
      <4>2. \A b \in WebinarAdmins : admin[b].at = "delete" => admin[b].webinar # v
        BY <1>5, <4>1 DEF w
      <4> QED BY <1>8, <4>1, <4>2 DEF KeptEntry
    <3>2. KeptEntry(x) => KeptEntry(x)'
      <4> SUFFICES ASSUME NEW v \in Webinars, webinar[v].entry = x, x # 0,
                          \A b \in WebinarAdmins :
                            admin[b].at = "delete" => admin[b].webinar # v
                   PROVE KeptEntry(x)'
        BY DEF KeptEntry
      <4>1. v # w BY <1>2 DEF w
      <4>2. \A b \in WebinarAdmins : admin'[b].at = "delete" => admin'[b].webinar # v
        BY <1>4, <1>5
      <4> QED BY <1>8, <4>1, <4>2 DEF KeptEntry
    <3> QED BY <3>1, <3>2
  <2>14. EntriesKnown' BY <1>6, <2>2, <2>11, <2>13 DEF EntriesKnown
  <2> QED BY <1>10, <2>7, <2>10, <2>14
<1> QED BY <1>9, <1>11, <1>12, <1>14, <1>15, EventsInvNext

LEMMA EventsCrashKeeps ==
  ASSUME WebinarAssumption, EventsInv, EventsCrash
  PROVE EventsInv'
<1>1. /\ EventsTypeOK /\ \A b \in WebinarAdmins : AdminFits(b)
      /\ AbsentIsBlank /\ ActivatesAlone /\ CalendarFollows
  BY EventsInvIs
<1>2. /\ webinarFailures' = webinarFailures + 1
      /\ admin' = [a \in WebinarAdmins |-> NoAdmin]
      /\ UNCHANGED <<webinarDb, entriesMade, webinarRequests, activations, jostled>>
  BY DEF EventsCrash
<1>3. /\ webinar' = webinar /\ entries' = entries /\ entriesMade' = entriesMade
      /\ webinarRequests' = webinarRequests /\ activations' = activations /\ jostled' = jostled
  BY <1>2 DEF webinarDb
<1>4. /\ webinar \in [Webinars -> WebinarDocs] /\ entries \subseteq 1..entriesMade
      /\ entriesMade \in Nat /\ webinarRequests \in Nat /\ webinarFailures \in Nat
      /\ activations \in BOOLEAN /\ jostled \in BOOLEAN
  BY <1>1, EventsTypes
<1>5. webinarFailures' \in Nat /\ webinarFailures' # 0 BY <1>2, <1>4
<1>6. /\ admin' \in [WebinarAdmins -> AdminRecords]
      /\ \A a \in WebinarAdmins : admin'[a].at = "idle" /\ admin'[a].seen = NoWebinar
  BY <1>2, NoAdminIs
<1>7. EventsTypeOK' BY <1>3, <1>4, <1>5, <1>6, EventsTyped
<1>8. \A a \in WebinarAdmins : AdminFits(a)' /\ ~Underway(a)' /\ ~Writes(a)'
  BY <1>3, <1>4, <1>6, EndedFits
<1>9. AbsentIsBlank' BY <1>1, <1>3 DEF AbsentIsBlank
<1>10. ActivatesAlone'
  <2>1. \A v, w \in Webinars : ~activations' =>
          ((webinar'[v].status = "active" /\ webinar'[w].status = "active") => v = w)
    BY <1>1, <1>3 DEF ActivatesAlone
  <2> QED BY <1>8, <2>1 DEF ActivatesAlone, Writes
<1>11. CalendarFollows' BY <1>5 DEF CalendarFollows
<1> QED BY <1>7, <1>8, <1>9, <1>10, <1>11, EventsInvNext

LEMMA EventsUnchanged ==
  ASSUME EventsInv, UNCHANGED eventVars
  PROVE EventsInv'
<1>1. /\ webinar' = webinar /\ entries' = entries /\ admin' = admin
      /\ entriesMade' = entriesMade /\ webinarRequests' = webinarRequests
      /\ webinarFailures' = webinarFailures /\ activations' = activations /\ jostled' = jostled
  BY DEF eventVars, webinarDb, webinarHistory
<1>2. /\ EventsTypeOK /\ \A b \in WebinarAdmins : AdminFits(b)
      /\ AbsentIsBlank /\ ActivatesAlone /\ CalendarFollows
  BY EventsInvIs
<1>3. EventsTypeOK' BY <1>1, <1>2 DEF EventsTypeOK
<1>4. \A b \in WebinarAdmins : AdminFits(b)' BY <1>1, <1>2 DEF AdminFits, Activates
<1>5. AbsentIsBlank' BY <1>1, <1>2 DEF AbsentIsBlank
<1>6. ActivatesAlone' BY <1>1, <1>2 DEF ActivatesAlone, Underway, Activates
<1>7. \A a \in WebinarAdmins : AdminKnows(a)' <=> AdminKnows(a)
  BY <1>1 DEF AdminKnows, Underway, Exists
<1>8. \A x \in Nat : (KeptEntry(x)' <=> KeptEntry(x)) /\ (MadeEntry(x)' <=> MadeEntry(x))
  BY <1>1 DEF KeptEntry, MadeEntry
<1>9. CalendarFollows' BY <1>1, <1>2, <1>7, <1>8 DEF CalendarFollows, Underway
<1> QED BY <1>3, <1>4, <1>5, <1>6, <1>9, EventsInvNext

LEMMA EventsStep ==
  ASSUME WebinarAssumption, EventsInv, EventsNext
  PROVE EventsInv'
<1>1. ASSUME NEW a \in WebinarAdmins, NEW w \in Webinars, NEW status \in {"draft", "active"},
             CreateWebinar(a, w, status)
      PROVE EventsInv'
  BY <1>1, CreateWebinarKeeps
<1>2. ASSUME NEW a \in WebinarAdmins, NEW w \in Webinars,
             NEW status \in {"draft", "active", "closed"}, NEW rename \in BOOLEAN,
             UpdateWebinar(a, w, status, rename)
      PROVE EventsInv'
  BY <1>2, UpdateWebinarKeeps
<1>3. ASSUME NEW a \in WebinarAdmins, NEW w \in Webinars, DeleteWebinar(a, w)
      PROVE EventsInv'
  BY <1>3, DeleteWebinarKeeps
<1>4. ASSUME NEW a \in WebinarAdmins,
             ClearActive(a) \/ InsertWebinar(a) \/ SaveWebinar(a) \/ SyncCalendar(a)
               \/ NoteEntry(a) \/ DeleteEntry(a) \/ DeleteDocument(a)
      PROVE EventsInv'
  BY <1>4, ClearActiveKeeps, InsertWebinarKeeps, SaveWebinarKeeps, SyncCalendarKeeps,
     NoteEntryKeeps, DeleteEntryKeeps, DeleteDocumentKeeps
<1>5. CASE EventsCrash BY <1>5, EventsCrashKeeps
<1> QED BY <1>1, <1>2, <1>3, <1>4, <1>5 DEF EventsNext

LEMMA EventsStart ==
  ASSUME WebinarAssumption, EventsInit
  PROVE EventsInv
<1>1. /\ webinar = [w \in Webinars |-> NoWebinar] /\ entries = {}
      /\ admin = [a \in WebinarAdmins |-> NoAdmin]
      /\ entriesMade = 0 /\ webinarRequests = 0 /\ webinarFailures = 0
      /\ activations = FALSE /\ jostled = FALSE
  BY DEF EventsInit
<1>2. \A w \in Webinars : /\ webinar[w] = NoWebinar /\ webinar[w].status = "absent"
                          /\ webinar[w].entry = 0
  BY <1>1, NoWebinarIs
<1>3. \A a \in WebinarAdmins : /\ admin[a].at = "idle" /\ ~Underway(a)
                               /\ admin[a].seen.entry = 0
  BY <1>1, NoAdminIs, NoWebinarIs DEF Underway
<1>4. EventsTypeOK
  <2>1. webinar \in [Webinars -> WebinarDocs] BY <1>1, NoWebinarIs
  <2>2. admin \in [WebinarAdmins -> AdminRecords] BY <1>1, NoAdminIs
  <2>3. 0 \in Nat OBVIOUS
  <2> QED BY <1>1, <2>1, <2>2, <2>3 DEF EventsTypeOK, AdminRecords, AdminPlaces
<1>5. \A a \in WebinarAdmins : AdminFits(a) BY <1>1, <1>3 DEF AdminFits
<1>6. AbsentIsBlank BY <1>1, <1>2 DEF AbsentIsBlank
<1>7. ActivatesAlone BY <1>2, <1>3 DEF ActivatesAlone
<1>8. \A a \in WebinarAdmins : AdminKnows(a) BY <1>3 DEF AdminKnows
<1>9. \A x \in Nat : ~KeptEntry(x) /\ ~MadeEntry(x) BY <1>2, <1>3 DEF KeptEntry, MadeEntry
<1>10. CalendarFollows BY <1>1, <1>2, <1>3, <1>8, <1>9 DEF CalendarFollows
<1> QED BY <1>4, <1>5, <1>6, <1>7, <1>10 DEF EventsInv

LEMMA EventsShow ==
  ASSUME EventsInv
  PROVE EventsTypeOK /\ OneActiveWebinar /\ CalendarMatches
<1>1. /\ EventsTypeOK /\ \A b \in WebinarAdmins : AdminFits(b)
      /\ AbsentIsBlank /\ ActivatesAlone /\ CalendarFollows
  BY EventsInvIs
<1>2. OneActiveWebinar BY <1>1 DEF ActivatesAlone, OneActiveWebinar
<1>3. CalendarMatches
  <2> SUFFICES ASSUME \A a \in WebinarAdmins : ~Underway(a), Smooth
               PROVE entries = {webinar[w].entry : w \in Webinars} \ {0}
    BY DEF CalendarMatches, Smooth
  <2>1. EntriesKnown BY <1>1, CalendarIs
  <2>2. \A x \in Nat : ~MadeEntry(x) BY DEF MadeEntry, Underway
  <2>3. \A x \in Nat : KeptEntry(x) <=> \E w \in Webinars : webinar[w].entry = x /\ x # 0
    BY DEF KeptEntry, Underway
  <2>4. entries \subseteq Nat /\ \A w \in Webinars : webinar[w].entry \in Nat
    BY <1>1, EventsTypes DEF WebinarDocs
  <2> QED BY <2>1, <2>2, <2>3, <2>4 DEF EntriesKnown
<1> QED BY <1>1, <1>2, <1>3

-----------------------------------------------------------------------------
(* The leads                                                                  *)

SignupRecords ==
  [there : BOOLEAN, webinar : Webinars \cup {NoWebinarId}, sent : BOOLEAN,
   converted : BOOLEAN, linked : BOOLEAN]
DeskPlaces == {"idle", "look", "upsert", "send", "note", "look up", "create", "convert", "end"}
DeskRecords ==
  [at : DeskPlaces, lead : WebinarLeadIds, webinar : Webinars \cup {NoWebinarId},
   meet : BOOLEAN, linked : BOOLEAN]

\* What LeadsTypeOK says beside the webinars.
SignupsTyped ==
  /\ signup \in [WebinarLeadIds -> SignupRecords] /\ crm \in BOOLEAN
  /\ desk \in [Desks -> DeskRecords]
  /\ templatesSent \in [WebinarLeadIds -> Nat] /\ leadRequests \in Nat
  /\ deskRaces \in BOOLEAN /\ deskErrors \in BOOLEAN /\ deaf \in BOOLEAN

SignupsInv ==
  /\ SignupsTyped
  /\ \A l \in WebinarLeadIds : SignupFits(l)
  /\ \A d \in Desks : DeskFits(d)
  /\ TellsFits /\ ToldComing /\ OnceAlone

LEMMA WebinarInvIs == WebinarInv <=> (EventsInv /\ SignupsInv)
<1>1. LeadsTypeOK <=> (EventsTypeOK /\ SignupsTyped)
  BY DEF LeadsTypeOK, SignupsTyped, SignupRecords, DeskRecords, DeskPlaces
<1> QED BY <1>1 DEF WebinarInv, SignupsInv, EventsInv

LEMMA WebinarInvNext == ASSUME EventsInv', SignupsInv' PROVE WebinarInv'
<1>1. LeadsTypeOK' <=> (EventsTypeOK' /\ SignupsTyped')
  BY DEF LeadsTypeOK, SignupsTyped, SignupRecords, DeskRecords, DeskPlaces
<1> QED BY <1>1 DEF WebinarInv, SignupsInv, EventsInv

\* Handler d is as said, the others are as they were.
DeskIs(d, record) ==
  /\ desk' \in [Desks -> DeskRecords] /\ desk'[d] = record
  /\ \A e \in Desks \ {d} : desk'[e] = desk[e]

LEMMA NoDeskIs ==
  ASSUME LeadsAssumption
  PROVE /\ NoDesk \in DeskRecords /\ NoDesk.at = "idle" /\ NoDesk.webinar = NoWebinarId
        /\ NoDesk.meet = FALSE /\ NoDesk.linked = FALSE
<1>1. \E l \in WebinarLeadIds : TRUE BY DEF LeadsAssumption, WebinarLeadIds
<1>2. (CHOOSE l \in WebinarLeadIds : TRUE) \in WebinarLeadIds BY <1>1
<1> QED BY <1>2 DEF NoDesk, DeskRecords, DeskPlaces

LEMMA NoSignupIs ==
  /\ NoSignup \in SignupRecords /\ ~NoSignup.there /\ ~NoSignup.sent
  /\ ~NoSignup.converted /\ ~NoSignup.linked
BY DEF NoSignup, SignupRecords

LEMMA DeskReplaced ==
  ASSUME SignupsTyped, NEW d \in Desks, NEW record \in DeskRecords,
         desk' = [desk EXCEPT ![d] = record]
  PROVE DeskIs(d, record)
BY DEF SignupsTyped, DeskIs

LEMMA DeskMoves ==
  ASSUME SignupsTyped, NEW d \in Desks, NEW place \in DeskPlaces, DeskTo(d, place)
  PROVE /\ DeskIs(d, [desk[d] EXCEPT !.at = place])
        /\ desk'[d].at = place /\ desk'[d].lead = desk[d].lead
        /\ desk'[d].meet = desk[d].meet /\ desk'[d].linked = desk[d].linked
<1>1. desk \in [Desks -> DeskRecords] BY DEF SignupsTyped
<1>2. desk[d] \in DeskRecords BY <1>1
<1>3. [desk[d] EXCEPT !.at = place] \in DeskRecords BY <1>2 DEF DeskRecords
<1>4. desk' = [desk EXCEPT ![d] = [desk[d] EXCEPT !.at = place]]
  BY <1>1, <1>2 DEF DeskTo
<1>5. DeskIs(d, [desk[d] EXCEPT !.at = place]) BY <1>3, <1>4, DeskReplaced
<1>6. desk'[d] = [desk[d] EXCEPT !.at = place] BY <1>5 DEF DeskIs
<1> QED BY <1>2, <1>5, <1>6 DEF DeskRecords

LEMMA DeskEnds ==
  ASSUME LeadsAssumption, SignupsTyped, NEW d \in Desks, EndDesk(d)
  PROVE DeskIs(d, NoDesk) /\ desk'[d].at = "idle" /\ ~desk'[d].linked
<1>1. DeskIs(d, NoDesk) BY NoDeskIs, DeskReplaced DEF EndDesk
<1> QED BY <1>1, NoDeskIs DEF DeskIs

-----------------------------------------------------------------------------
(* What a step of handler d has to see to, conjunct by conjunct               *)

LEMMA SignupsFit ==
  ASSUME SignupsTyped, \A l \in WebinarLeadIds : SignupFits(l), signup' = signup, crm => crm'
  PROVE \A l \in WebinarLeadIds : SignupFits(l)'
BY DEF SignupFits

LEMMA DesksFit ==
  ASSUME \A e \in Desks : DeskFits(e), NEW d \in Desks, NEW record, DeskIs(d, record),
         crm => crm', DeskFits(d)'
  PROVE \A e \in Desks : DeskFits(e)'
<1> SUFFICES ASSUME NEW e \in Desks, e # d PROVE DeskFits(e)'
  OBVIOUS
<1>1. desk'[e] = desk[e] BY DEF DeskIs
<1> QED BY <1>1 DEF DeskFits

Telling(d) == desk[d].at \in {"send", "note"}

LEMMA TellsStillFit ==
  ASSUME TellsFits, NEW d \in Desks, NEW record, DeskIs(d, record),
         ~deskErrors' => ~deskErrors, ~deaf' => ~deaf,
         \A l \in WebinarLeadIds : signup[l].there => signup'[l].there,
         \A e \in Desks : desk[e].lead \in WebinarLeadIds,
         (~deskErrors' /\ Telling(d)') => signup'[desk'[d].lead].there,
         (~deskErrors' /\ ~deaf' /\ desk'[d].at \in {"look", "upsert"}) => desk'[d].meet
  PROVE TellsFits'
<1> SUFFICES ASSUME ~deskErrors', NEW e \in Desks
             PROVE /\ desk'[e].at \in {"send", "note"} => signup'[desk'[e].lead].there
                   /\ (desk'[e].at \in {"look", "upsert"} /\ ~deaf') => desk'[e].meet
  BY DEF TellsFits
<1>1. CASE e = d BY <1>1 DEF Telling
<1>2. CASE e # d
  <2>1. desk'[e] = desk[e] BY <1>2 DEF DeskIs
  <2>2. /\ desk[e].at \in {"send", "note"} => signup[desk[e].lead].there
        /\ (desk[e].at \in {"look", "upsert"} /\ ~deaf) => desk[e].meet
    BY DEF TellsFits
  <2> QED BY <2>1, <2>2
<1> QED BY <1>1, <1>2

LEMMA ToldStillComing ==
  ASSUME ToldComing, NEW d \in Desks, NEW record, DeskIs(d, record),
         ~deskErrors' => ~deskErrors, ~deaf' => ~deaf,
         \A l \in WebinarLeadIds : (~deskErrors' /\ ~deaf' /\ signup'[l].there /\ ~signup'[l].sent) =>
           (signup[l].there /\ ~signup[l].sent) \/ (Telling(d)' /\ desk'[d].lead = l),
         (~deskErrors' /\ Telling(d)) =>
           signup'[desk[d].lead].sent \/ (Telling(d)' /\ desk'[d].lead = desk[d].lead)
  PROVE ToldComing'
<1> SUFFICES ASSUME ~deskErrors', ~deaf', NEW l \in WebinarLeadIds,
                    signup'[l].there, ~signup'[l].sent
             PROVE \E e \in Desks : Telling(e)' /\ desk'[e].lead = l
  BY DEF ToldComing, Telling
<1>1. CASE Telling(d)' /\ desk'[d].lead = l BY <1>1
<1>2. CASE signup[l].there /\ ~signup[l].sent
  <2>1. PICK e \in Desks : Telling(e) /\ desk[e].lead = l
    BY <1>2 DEF ToldComing, Telling
  <2>2. CASE e = d BY <2>1, <2>2
  <2>3. CASE e # d
    <3>1. desk'[e] = desk[e] BY <2>3 DEF DeskIs
    <3>2. Telling(e)' /\ desk'[e].lead = l BY <2>1, <3>1 DEF Telling
    <3> QED BY <3>2
  <2> QED BY <2>2, <2>3
<1> QED BY <1>1, <1>2

Serial == ~deskRaces /\ ~deskErrors
DesksApart == \A d, e \in Desks : (desk[d].at # "idle" /\ desk[e].at # "idle") => d = e
SentOnce(l) ==
  \/ templatesSent[l] = 0
  \/ /\ templatesSent[l] = 1
     /\ signup[l].sent \/ \E d \in Desks : desk[d].at = "note" /\ desk[d].lead = l

LEMMA OnceIs ==
  OnceAlone <=>
    (Serial => /\ DesksApart /\ \A l \in WebinarLeadIds : SentOnce(l)
               /\ \A d \in Desks : desk[d].at = "send" => templatesSent[desk[d].lead] = 0)
BY DEF OnceAlone, Serial, DesksApart, SentOnce

LEMMA OnceNext ==
  ASSUME Serial' => DesksApart', Serial' => \A l \in WebinarLeadIds : SentOnce(l)',
         Serial' => \A d \in Desks : desk'[d].at = "send" => templatesSent'[desk'[d].lead] = 0
  PROVE OnceAlone'
BY DEF OnceAlone, Serial, DesksApart, SentOnce

LEMMA ApartNext ==
  ASSUME DesksApart, NEW d \in Desks, NEW record, DeskIs(d, record),
         desk'[d].at # "idle" =>
           desk[d].at # "idle" \/ \A e \in Desks : desk[e].at = "idle"
  PROVE DesksApart'
<1>1. \A e \in Desks \ {d} : desk'[e] = desk[e] BY DEF DeskIs
<1> QED BY <1>1 DEF DesksApart

\* A step that sends nothing, and notes nothing.
LEMMA OnceQuiet ==
  ASSUME OnceAlone, NEW d \in Desks, NEW record, DeskIs(d, record),
         Serial' => Serial, templatesSent' = templatesSent,
         \A l \in WebinarLeadIds : (signup[l].sent => signup'[l].sent),
         desk[d].at # "note", desk'[d].at # "note",
         (Serial' /\ desk'[d].at # "idle") =>
           desk[d].at # "idle" \/ \A e \in Desks : desk[e].at = "idle",
         (Serial' /\ desk'[d].at = "send") => templatesSent[desk'[d].lead] = 0
  PROVE OnceAlone'
<1> SUFFICES ASSUME Serial'
             PROVE /\ DesksApart' /\ \A l \in WebinarLeadIds : SentOnce(l)'
                   /\ \A e \in Desks : desk'[e].at = "send" => templatesSent'[desk'[e].lead] = 0
  BY OnceNext
<1>1. /\ DesksApart /\ \A l \in WebinarLeadIds : SentOnce(l)
      /\ \A e \in Desks : desk[e].at = "send" => templatesSent[desk[e].lead] = 0
  BY OnceIs
<1>2. \A e \in Desks \ {d} : desk'[e] = desk[e] BY DEF DeskIs
<1>3. DesksApart' BY <1>1, ApartNext
<1>4. \A l \in WebinarLeadIds : SentOnce(l)' BY <1>1, <1>2 DEF SentOnce
<1>5. \A e \in Desks : desk'[e].at = "send" => templatesSent'[desk'[e].lead] = 0
  BY <1>1, <1>2
<1> QED BY <1>3, <1>4, <1>5

-----------------------------------------------------------------------------
(* The handlers                                                               *)

LEMMA SignupsParts ==
  ASSUME SignupsInv
  PROVE /\ SignupsTyped /\ TellsFits /\ ToldComing /\ OnceAlone
        /\ \A l \in WebinarLeadIds : SignupFits(l)
        /\ \A e \in Desks : DeskFits(e)
        /\ \A e \in Desks : desk[e] \in DeskRecords /\ desk[e].lead \in WebinarLeadIds
BY DEF SignupsInv, SignupsTyped, DeskRecords

LEMMA BeginDeskKeeps ==
  ASSUME SignupsInv, NEW d \in Desks, NEW record \in DeskRecords, BeginDesk(d, record),
         deaf' \in BOOLEAN, deaf => deaf',
         record.at \in {"look", "end", "convert", "look up"},
         record.at = "look" => record.meet \/ deaf',
         ~record.linked, record.at = "convert" => crm
  PROVE SignupsInv'
<1>1. /\ SignupsTyped /\ TellsFits /\ ToldComing /\ OnceAlone
      /\ \A l \in WebinarLeadIds : SignupFits(l)
      /\ \A e \in Desks : DeskFits(e)
      /\ \A e \in Desks : desk[e].lead \in WebinarLeadIds
  BY SignupsParts
<1>2. /\ desk[d].at = "idle" /\ desk' = [desk EXCEPT ![d] = record]
      /\ leadRequests' = leadRequests + 1
      /\ deskRaces' = (deskRaces \/ \E e \in Desks : desk[e].at # "idle")
      /\ signup' = signup /\ crm' = crm /\ templatesSent' = templatesSent
      /\ deskErrors' = deskErrors
  BY DEF BeginDesk, leadDb
<1>3. DeskIs(d, record) BY <1>1, <1>2, DeskReplaced
<1>4. desk'[d] = record BY <1>3 DEF DeskIs
<1>5. SignupsTyped'
  <2>1. leadRequests' \in Nat BY <1>1, <1>2, CountsOn DEF SignupsTyped
  <2>2. deskRaces' \in BOOLEAN BY <1>1, <1>2 DEF SignupsTyped
  <2>3. desk' \in [Desks -> DeskRecords] BY <1>3 DEF DeskIs
  <2> QED BY <1>1, <1>2, <2>1, <2>2, <2>3 DEF SignupsTyped
<1>6. DeskFits(d)' BY <1>2, <1>4 DEF DeskFits
<1>7. \A l \in WebinarLeadIds : SignupFits(l)' BY <1>1, <1>2, SignupsFit
<1>8. \A e \in Desks : DeskFits(e)' BY <1>1, <1>2, <1>3, <1>6, DesksFit
<1>9. ~Telling(d) /\ ~Telling(d)' BY <1>2, <1>4 DEF Telling
<1>10. ~deaf' => ~deaf OBVIOUS
<1>11. TellsFits'
  <2>1. (~deskErrors' /\ ~deaf' /\ desk'[d].at \in {"look", "upsert"}) => desk'[d].meet
    BY <1>4
  <2> QED BY <1>1, <1>2, <1>3, <1>9, <1>10, <2>1, TellsStillFit
<1>12. ToldComing' BY <1>1, <1>2, <1>3, <1>9, <1>10, ToldStillComing
<1>13. OnceAlone'
  <2>1. Serial' => Serial BY <1>1, <1>2 DEF Serial, SignupsTyped
  <2>2. Serial' => \A e \in Desks : desk[e].at = "idle" BY <1>2 DEF Serial
  <2>3. desk[d].at # "note" /\ desk'[d].at # "note" /\ desk'[d].at # "send" BY <1>2, <1>4
  <2> QED BY <1>1, <1>2, <1>3, <2>1, <2>2, <2>3, OnceQuiet
<1> QED BY <1>5, <1>7, <1>8, <1>11, <1>12, <1>13 DEF SignupsInv

\* A handler goes on, or ends, and touches no lead.
LEMMA DeskGoesOn ==
  ASSUME SignupsInv, NEW d \in Desks, NEW record, DeskIs(d, record),
         UNCHANGED <<signup, leadHistory>>, crm' \in BOOLEAN, crm => crm',
         desk[d].at \notin {"idle", "send", "note"}, desk'[d].at \notin {"send", "note"},
         DeskFits(d)',
         desk'[d].at \in {"look", "upsert"} =>
           desk[d].at \in {"look", "upsert"} /\ desk'[d].meet = desk[d].meet
  PROVE SignupsInv'
<1>1. /\ SignupsTyped /\ TellsFits /\ ToldComing /\ OnceAlone
      /\ \A l \in WebinarLeadIds : SignupFits(l)
      /\ \A e \in Desks : DeskFits(e)
      /\ \A e \in Desks : desk[e].lead \in WebinarLeadIds
  BY SignupsParts
<1>2. /\ signup' = signup /\ templatesSent' = templatesSent /\ deskErrors' = deskErrors
      /\ deaf' = deaf /\ deskRaces' = deskRaces /\ leadRequests' = leadRequests
  BY DEF leadHistory
<1>3. SignupsTyped' BY <1>1, <1>2 DEF SignupsTyped, DeskIs
<1>4. \A l \in WebinarLeadIds : SignupFits(l)' BY <1>1, <1>2, SignupsFit
<1>5. \A e \in Desks : DeskFits(e)' BY <1>1, DesksFit
<1>6. ~Telling(d) /\ ~Telling(d)' BY DEF Telling
<1>7. TellsFits'
  <2>1. (~deskErrors' /\ ~deaf' /\ desk'[d].at \in {"look", "upsert"}) => desk'[d].meet
    BY <1>1, <1>2 DEF TellsFits
  <2> QED BY <1>1, <1>2, <1>6, <2>1, TellsStillFit
<1>8. ToldComing' BY <1>1, <1>2, <1>6, ToldStillComing
<1>9. OnceAlone'
  <2>1. Serial' => Serial BY <1>2 DEF Serial
  <2> QED BY <1>1, <1>2, <2>1, OnceQuiet
<1> QED BY <1>3, <1>4, <1>5, <1>7, <1>8, <1>9 DEF SignupsInv

LEMMA TakeWebinarFormKeeps ==
  ASSUME LeadsAssumption, EventsTypeOK, SignupsInv, NEW d \in Desks, NEW l \in MetaForms,
         TakeWebinarForm(d, l)
  PROVE SignupsInv'
<1>1. l \in WebinarLeadIds BY DEF WebinarLeadIds
<1>2. deaf \in BOOLEAN BY SignupsParts DEF SignupsTyped
<1>3. ASSUME NEW w \in Webinars,
             BeginDesk(d, [NoDesk EXCEPT !.at = "look", !.lead = l, !.webinar = w,
                                         !.meet = webinar[w].meet]),
             deaf' = (deaf \/ ~webinar[w].meet)
      PROVE SignupsInv'
  <2> DEFINE record == [NoDesk EXCEPT !.at = "look", !.lead = l, !.webinar = w,
                                      !.meet = webinar[w].meet]
  <2>1. webinar[w].meet \in BOOLEAN BY EventsTypes DEF WebinarDocs
  <2>2. /\ record \in DeskRecords /\ record.at = "look" /\ record.meet = webinar[w].meet
        /\ ~record.linked
    BY <1>1, <2>1, NoDeskIs DEF DeskRecords, DeskPlaces
  <2>3. BeginDesk(d, record) BY <1>3
  <2> HIDE DEF record
  <2>4. deaf' \in BOOLEAN BY <1>2, <1>3, <2>1
  <2>5. (deaf => deaf') /\ (record.meet \/ deaf') BY <1>2, <1>3, <2>1, <2>2
  <2> QED BY <2>2, <2>3, <2>4, <2>5, BeginDeskKeeps
<1>4. ASSUME BeginDesk(d, [NoDesk EXCEPT !.at = "look", !.lead = l]), deaf' = TRUE
      PROVE SignupsInv'
  <2> DEFINE record == [NoDesk EXCEPT !.at = "look", !.lead = l]
  <2>2. record \in DeskRecords /\ record.at = "look" /\ ~record.linked
    BY <1>1, NoDeskIs DEF DeskRecords, DeskPlaces
  <2>3. BeginDesk(d, record) BY <1>4
  <2> HIDE DEF record
  <2> QED BY <1>4, <2>2, <2>3, BeginDeskKeeps
<1> QED BY <1>3, <1>4 DEF TakeWebinarForm

LEMMA EnterLeadKeeps ==
  ASSUME LeadsAssumption, EventsTypeOK, SignupsInv, NEW d \in Desks, NEW l \in Entered,
         NEW w \in Webinars, NEW notify \in BOOLEAN, EnterLead(d, l, w, notify)
  PROVE SignupsInv'
<1> DEFINE record == [NoDesk EXCEPT !.at = IF Taken(l, w) THEN "end" ELSE "look", !.lead = l,
                                    !.webinar = w, !.meet = notify /\ webinar[w].meet]
<1>1. l \in WebinarLeadIds BY DEF WebinarLeadIds
<1>2. deaf \in BOOLEAN BY SignupsParts DEF SignupsTyped
<1>3. webinar[w].meet \in BOOLEAN BY EventsTypes DEF WebinarDocs
<1>4. BeginDesk(d, record) /\ deaf' = (deaf \/ ~notify \/ ~webinar[w].meet) BY DEF EnterLead
<1>5. (notify /\ webinar[w].meet) \in BOOLEAN OBVIOUS
<1>6. /\ record \in DeskRecords /\ record.at \in {"look", "end"}
      /\ record.meet = (notify /\ webinar[w].meet) /\ ~record.linked
  BY <1>1, <1>5, NoDeskIs DEF DeskRecords, DeskPlaces
<1> HIDE DEF record
<1>7. deaf' \in BOOLEAN BY <1>2, <1>3, <1>4
<1>8. (deaf => deaf') /\ (record.meet \/ deaf')
  BY <1>2, <1>3, <1>4, <1>6
<1> QED BY <1>4, <1>6, <1>7, <1>8, BeginDeskKeeps

LEMMA ConvertKeeps ==
  ASSUME LeadsAssumption, SignupsInv, NEW d \in Desks, NEW l \in WebinarLeadIds, Convert(d, l)
  PROVE SignupsInv'
<1> DEFINE record == [NoDesk EXCEPT !.at = IF signup[l].linked THEN "convert" ELSE "look up",
                                    !.lead = l]
<1>1. BeginDesk(d, record) /\ deaf' = deaf BY DEF Convert
<1>2. /\ record \in DeskRecords
      /\ record.at = (IF signup[l].linked THEN "convert" ELSE "look up") /\ ~record.linked
  BY NoDeskIs DEF DeskRecords, DeskPlaces
<1> HIDE DEF record
<1>3. SignupFits(l) /\ deaf \in BOOLEAN BY SignupsParts DEF SignupsTyped
<1>4. record.at = "convert" => crm BY <1>2, <1>3 DEF SignupFits
<1> QED BY <1>1, <1>2, <1>3, <1>4, BeginDeskKeeps

LEMMA LookCustomerKeeps ==
  ASSUME SignupsInv, NEW d \in Desks, LookCustomer(d)
  PROVE SignupsInv'
<1> DEFINE record == [desk[d] EXCEPT !.at = "upsert", !.linked = crm]
<1>1. /\ desk[d].at = "look" /\ UNCHANGED <<leadDb, leadHistory>>
  BY DEF LookCustomer
<1>2. SignupsTyped /\ desk[d] \in DeskRecords /\ crm \in BOOLEAN
  BY SignupsParts DEF SignupsTyped
<1>3. record \in DeskRecords BY <1>2 DEF DeskRecords, DeskPlaces
<1>4. desk \in [Desks -> DeskRecords] BY <1>2 DEF SignupsTyped
<1>5. desk' = [desk EXCEPT ![d] = record] BY <1>2, <1>4 DEF LookCustomer
<1>6. record.at = "upsert" /\ record.linked = crm /\ record.meet = desk[d].meet
  BY <1>2 DEF DeskRecords
<1> HIDE DEF record
<1>7. DeskIs(d, record) BY <1>2, <1>3, <1>5, DeskReplaced
<1>8. desk'[d] = record BY <1>7 DEF DeskIs
<1>9. signup' = signup /\ crm' = crm BY <1>1 DEF leadDb
<1>10. DeskFits(d)' BY <1>6, <1>8, <1>9 DEF DeskFits
<1> QED BY <1>1, <1>2, <1>6, <1>7, <1>8, <1>9, <1>10, DeskGoesOn

LEMMA LookUpKeeps ==
  ASSUME SignupsInv, NEW d \in Desks, LookUp(d)
  PROVE SignupsInv'
<1> DEFINE place == IF crm THEN "convert" ELSE "create"
<1>1. /\ desk[d].at = "look up" /\ DeskTo(d, place) /\ UNCHANGED <<leadDb, leadHistory>>
  BY DEF LookUp
<1>2. SignupsTyped /\ crm \in BOOLEAN /\ DeskFits(d) BY SignupsParts DEF SignupsTyped
<1>3. place \in DeskPlaces /\ place \in {"convert", "create"} /\ (place = "convert" => crm)
  BY DEF DeskPlaces
<1> HIDE DEF place
<1>4. PICK record : DeskIs(d, record) BY <1>1, <1>2, <1>3, DeskMoves
<1>5. desk'[d].at = place /\ desk'[d].linked = desk[d].linked
  BY <1>1, <1>2, <1>3, DeskMoves
<1>6. signup' = signup /\ crm' = crm BY <1>1 DEF leadDb
<1>7. DeskFits(d)' BY <1>2, <1>3, <1>5, <1>6 DEF DeskFits
<1> QED BY <1>1, <1>2, <1>3, <1>4, <1>5, <1>6, <1>7, DeskGoesOn

LEMMA CreateFromLeadKeeps ==
  ASSUME LeadsAssumption, SignupsInv, NEW d \in Desks, CreateFromLead(d)
  PROVE SignupsInv'
<1>1. /\ desk[d].at = "create" /\ crm' = TRUE
      /\ EndDesk(d) \/ DeskTo(d, "convert")
      /\ UNCHANGED <<signup, leadHistory>>
  BY DEF CreateFromLead
<1>2. SignupsTyped BY SignupsParts
<1>3. "convert" \in DeskPlaces BY DEF DeskPlaces
<1>4. (\E record : DeskIs(d, record)) /\ desk'[d].at \in {"idle", "convert"}
  BY <1>1, <1>2, <1>3, DeskMoves, DeskEnds
<1>5. PICK record : DeskIs(d, record) BY <1>4
<1>6. DeskFits(d)' BY <1>1 DEF DeskFits
<1>7. desk'[d].at \notin {"send", "note", "look", "upsert"} BY <1>4
<1>8. desk[d].at \notin {"idle", "send", "note"} BY <1>1
<1>9. crm' \in BOOLEAN /\ (crm => crm') BY <1>1
<1> QED BY <1>1, <1>5, <1>6, <1>7, <1>8, <1>9, DeskGoesOn

LEMMA EndEnteredKeeps ==
  ASSUME LeadsAssumption, SignupsInv, NEW d \in Desks, EndEntered(d)
  PROVE SignupsInv'
<1>1. desk[d].at = "end" /\ EndDesk(d) /\ UNCHANGED <<leadDb, leadHistory>> BY DEF EndEntered
<1>2. SignupsTyped /\ crm \in BOOLEAN BY SignupsParts DEF SignupsTyped
<1>3. DeskIs(d, NoDesk) /\ desk'[d].at = "idle" /\ ~desk'[d].linked BY <1>1, <1>2, DeskEnds
<1>4. signup' = signup /\ crm' = crm BY <1>1 DEF leadDb
<1>5. DeskFits(d)' BY <1>3 DEF DeskFits
<1> QED BY <1>1, <1>2, <1>3, <1>4, <1>5, DeskGoesOn

LEMMA UpsertSignupKeeps ==
  ASSUME LeadsAssumption, SignupsInv, NEW d \in Desks, UpsertSignup(d)
  PROVE SignupsInv'
<1> DEFINE l == desk[d].lead
<1> DEFINE w == desk[d].webinar
<1>1. /\ SignupsTyped /\ TellsFits /\ ToldComing /\ OnceAlone
      /\ \A k \in WebinarLeadIds : SignupFits(k)
      /\ \A e \in Desks : DeskFits(e)
      /\ \A e \in Desks : desk[e] \in DeskRecords /\ desk[e].lead \in WebinarLeadIds
  BY SignupsParts
<1>2. /\ desk[d].at = "upsert"
      /\ UNCHANGED <<crm, templatesSent, leadRequests, deskRaces, deskErrors, deaf>>
  BY DEF UpsertSignup
<1>3. "send" \in DeskPlaces BY DEF DeskPlaces
<1>4. CASE EndDesk(d) /\ signup' = signup
  <2>1. DeskIs(d, NoDesk) /\ desk'[d].at = "idle" /\ ~desk'[d].linked
    BY <1>1, <1>4, DeskEnds
  <2>2. DeskFits(d)' BY <2>1 DEF DeskFits
  <2>3. UNCHANGED <<signup, leadHistory>> BY <1>2, <1>4 DEF leadHistory
  <2>4. crm' \in BOOLEAN /\ crm' = crm BY <1>1, <1>2 DEF SignupsTyped
  <2> QED BY <1>2, <2>1, <2>2, <2>3, <2>4, DeskGoesOn
<1>5. CASE /\ signup' = [signup EXCEPT
                 ![l].there = TRUE, ![l].webinar = w,
                 ![l].linked = desk[d].linked \/ (signup[l].there /\ @)]
           /\ IF SentAlready(l) \/ ~desk[d].meet THEN EndDesk(d) ELSE DeskTo(d, "send")
  <2> DEFINE linked == desk[d].linked \/ (signup[l].there /\ signup[l].linked)
  <2>1. l \in WebinarLeadIds /\ w \in Webinars \cup {NoWebinarId} /\ desk[d].linked \in BOOLEAN
        /\ desk[d].meet \in BOOLEAN
    BY <1>1 DEF DeskRecords
  <2>2. signup \in [WebinarLeadIds -> SignupRecords] /\ signup[l] \in SignupRecords
    BY <1>1, <2>1 DEF SignupsTyped
  <2>3. linked \in BOOLEAN OBVIOUS
  <2> DEFINE record == [signup[l] EXCEPT !.there = TRUE, !.webinar = w, !.linked = linked]
  <2>4. signup' = [signup EXCEPT ![l] = record] BY <1>5, <2>1, <2>2
  <2>5. linked => (desk[d].linked \/ (signup[l].there /\ signup[l].linked)) OBVIOUS
  <2>5a. (signup[l].there /\ signup[l].linked) => linked OBVIOUS
  <2> HIDE DEF linked
  <2>6. /\ record \in SignupRecords /\ record.there = TRUE /\ record.linked = linked
        /\ record.sent = signup[l].sent /\ record.converted = signup[l].converted
    BY <2>1, <2>2, <2>3 DEF SignupRecords
  <2> HIDE DEF record
  <2>7. /\ signup' \in [WebinarLeadIds -> SignupRecords] /\ signup'[l] = record
        /\ \A k \in WebinarLeadIds \ {l} : signup'[k] = signup[k]
    BY <2>1, <2>2, <2>4, <2>6
  <2>8. IF signup[l].sent \/ ~desk[d].meet THEN EndDesk(d) ELSE DeskTo(d, "send")
    BY <1>5 DEF SentAlready
  <2> HIDE DEF l, w
  <2>9. \E r : DeskIs(d, r) BY <1>1, <1>3, <2>8, DeskMoves, DeskEnds
  <2>10. PICK r : DeskIs(d, r) BY <2>9
  <2>11. \/ desk'[d].at = "idle" /\ ~desk'[d].linked /\ (signup[l].sent \/ ~desk[d].meet)
         \/ /\ desk'[d].at = "send" /\ desk'[d].lead = l /\ desk'[d].linked = desk[d].linked
            /\ ~signup[l].sent
    BY <1>1, <1>3, <2>8, DeskMoves, DeskEnds DEF l
  <2>12. SignupsTyped' BY <1>1, <1>2, <2>7, <2>10 DEF SignupsTyped, DeskIs
  <2>13. \A k \in WebinarLeadIds : SignupFits(k)'
    <3> TAKE k \in WebinarLeadIds
    <3>1. CASE k = l
      <4>1. SignupFits(l) /\ DeskFits(d) BY <1>1, <2>1
      <4>2. linked => crm BY <2>5, <4>1 DEF SignupFits, DeskFits
      <4>3. signup[l].converted => linked BY <2>5a, <4>1 DEF SignupFits
      <4> QED BY <1>2, <2>6, <2>7, <3>1, <4>2, <4>3 DEF SignupFits
    <3>2. CASE k # l
      <4>1. signup'[k] = signup[k] /\ SignupFits(k) BY <1>1, <2>7, <3>2
      <4> QED BY <1>2, <4>1 DEF SignupFits
    <3> QED BY <3>1, <3>2
  <2>14. DeskFits(d)'
    <3>1. DeskFits(d) BY <1>1
    <3> QED BY <1>2, <2>11, <3>1 DEF DeskFits
  <2>15. \A e \in Desks : DeskFits(e)' BY <1>1, <1>2, <2>10, <2>14, DesksFit
  <2>16. ~Telling(d) BY <1>2 DEF Telling
  <2>17. Telling(d)' => (desk'[d].lead = l /\ ~signup[l].sent /\ desk'[d].at = "send")
    BY <2>11 DEF Telling
  <2>18. TellsFits'
    <3>1. \A k \in WebinarLeadIds : signup[k].there => signup'[k].there BY <2>6, <2>7
    <3>2. Telling(d)' => signup'[desk'[d].lead].there BY <2>6, <2>7, <2>17
    <3>3. desk'[d].at \notin {"look", "upsert"} BY <2>11
    <3> QED BY <1>1, <1>2, <2>10, <3>1, <3>2, <3>3, TellsStillFit
  <2>19. ToldComing'
    <3>1. ASSUME ~deskErrors', ~deaf', NEW k \in WebinarLeadIds, signup'[k].there,
                 ~signup'[k].sent
          PROVE (signup[k].there /\ ~signup[k].sent) \/ (Telling(d)' /\ desk'[d].lead = k)
      <4>1. CASE k # l BY <2>7, <3>1, <4>1
      <4>2. CASE k = l
        <5>1. desk[d].meet BY <1>1, <1>2, <3>1 DEF TellsFits
        <5>2. ~signup[l].sent BY <2>6, <2>7, <3>1, <4>2
        <5>3. desk'[d].at = "send" /\ desk'[d].lead = l BY <2>11, <5>1, <5>2
        <5> QED BY <4>2, <5>3 DEF Telling
      <4> QED BY <4>1, <4>2
    <3> QED BY <1>1, <1>2, <2>10, <2>16, <3>1, ToldStillComing
  <2>20. OnceAlone'
    <3>1. Serial' => Serial BY <1>2 DEF Serial
    <3>2. \A k \in WebinarLeadIds : (signup[k].sent => signup'[k].sent) BY <2>6, <2>7
    <3>3. ASSUME Serial', desk'[d].at = "send" PROVE templatesSent[desk'[d].lead] = 0
      <4>1. /\ DesksApart /\ \A k \in WebinarLeadIds : SentOnce(k)
        BY <1>1, <3>1, <3>3, OnceIs
      <4>2. desk'[d].lead = l /\ ~signup[l].sent BY <2>11, <3>3
      <4>3. \A e \in Desks : desk[e].at # "note" BY <1>2, <4>1 DEF DesksApart
      <4>4. SentOnce(l) BY <2>1, <4>1
      <4> QED BY <4>2, <4>3, <4>4 DEF SentOnce
    <3>4. desk[d].at # "note" /\ desk[d].at # "idle" /\ desk'[d].at # "note" BY <1>2, <2>11
    <3> QED BY <1>1, <1>2, <2>10, <3>1, <3>2, <3>3, <3>4, OnceQuiet
  <2> QED BY <2>12, <2>13, <2>15, <2>18, <2>19, <2>20 DEF SignupsInv
<1> QED BY <1>4, <1>5 DEF UpsertSignup

LEMMA SendRegistrationKeeps ==
  ASSUME LeadsAssumption, SignupsInv, NEW d \in Desks, SendRegistration(d)
  PROVE SignupsInv'
<1> DEFINE l == desk[d].lead
<1>1. /\ SignupsTyped /\ TellsFits /\ ToldComing /\ OnceAlone
      /\ \A k \in WebinarLeadIds : SignupFits(k)
      /\ \A e \in Desks : DeskFits(e)
      /\ \A e \in Desks : desk[e] \in DeskRecords /\ desk[e].lead \in WebinarLeadIds
  BY SignupsParts
<1>2. /\ desk[d].at = "send" /\ signup' = signup /\ crm' = crm
      /\ leadRequests' = leadRequests /\ deskRaces' = deskRaces /\ deaf' = deaf
  BY DEF SendRegistration, leadDb
<1>3. l \in WebinarLeadIds BY <1>1
<1>4. templatesSent \in [WebinarLeadIds -> Nat] /\ templatesSent[l] \in Nat
  BY <1>1, <1>3 DEF SignupsTyped
<1>5. \A k \in WebinarLeadIds : SignupFits(k)' BY <1>1, <1>2, SignupsFit
<1>6. "note" \in DeskPlaces BY DEF DeskPlaces
<1>7. CASE /\ templatesSent' = [templatesSent EXCEPT ![l] = @ + 1]
           /\ DeskTo(d, "note") /\ deskErrors' = deskErrors
  <2>1. PICK record : DeskIs(d, record) BY <1>1, <1>6, <1>7, DeskMoves
  <2>2. desk'[d].at = "note" /\ desk'[d].lead = l /\ desk'[d].linked = desk[d].linked
    BY <1>1, <1>6, <1>7, DeskMoves
  <2>3. /\ templatesSent' \in [WebinarLeadIds -> Nat] /\ templatesSent'[l] = templatesSent[l] + 1
        /\ \A k \in WebinarLeadIds \ {l} : templatesSent'[k] = templatesSent[k]
    BY <1>3, <1>4, <1>7
  <2> HIDE DEF l
  <2>4. SignupsTyped' BY <1>1, <1>2, <1>7, <2>1, <2>3 DEF SignupsTyped, DeskIs
  <2>5. DeskFits(d)'
    <3>1. DeskFits(d) BY <1>1
    <3> QED BY <1>2, <2>2, <3>1 DEF DeskFits
  <2>6. \A e \in Desks : DeskFits(e)' BY <1>1, <1>2, <2>1, <2>5, DesksFit
  <2>7. TellsFits'
    <3>1. (~deskErrors') => signup'[desk'[d].lead].there
      BY <1>1, <1>2, <1>7, <2>2 DEF TellsFits, l
    <3>2. desk'[d].at \notin {"look", "upsert"} BY <2>2
    <3> QED BY <1>1, <1>2, <1>7, <2>1, <3>1, <3>2, TellsStillFit
  <2>8. ToldComing'
    <3>1. Telling(d)' /\ desk'[d].lead = desk[d].lead BY <2>2 DEF Telling, l
    <3> QED BY <1>1, <1>2, <1>7, <2>1, <3>1, ToldStillComing
  <2>9. OnceAlone'
    <3> SUFFICES ASSUME Serial'
                 PROVE /\ DesksApart' /\ \A k \in WebinarLeadIds : SentOnce(k)'
                       /\ \A e \in Desks : desk'[e].at = "send" =>
                            templatesSent'[desk'[e].lead] = 0
      BY OnceNext
    <3>1. Serial BY <1>2, <1>7 DEF Serial
    <3>2. /\ DesksApart /\ \A k \in WebinarLeadIds : SentOnce(k)
          /\ \A e \in Desks : desk[e].at = "send" => templatesSent[desk[e].lead] = 0
      BY <1>1, <3>1, OnceIs
    <3>3. DesksApart' BY <1>2, <2>1, <3>2, ApartNext
    <3>4. \A e \in Desks \ {d} : desk[e].at = "idle" /\ desk'[e].at = "idle"
      BY <1>2, <2>1, <3>2 DEF DesksApart, DeskIs
    <3>5. templatesSent'[l] = 1 BY <1>2, <2>3, <3>2 DEF l
    <3>6. \A k \in WebinarLeadIds : SentOnce(k)'
      <4> TAKE k \in WebinarLeadIds
      <4>1. CASE k = l BY <2>2, <3>5, <4>1 DEF SentOnce
      <4>2. CASE k # l
        <5>1. SentOnce(k) /\ templatesSent'[k] = templatesSent[k] BY <2>3, <3>2, <4>2
        <5>2. \A e \in Desks : desk[e].at # "note" BY <1>2, <3>4
        <5> QED BY <1>2, <5>1, <5>2 DEF SentOnce
      <4> QED BY <4>1, <4>2
    <3>7. \A e \in Desks : desk'[e].at # "send" BY <2>2, <3>4
    <3> QED BY <3>3, <3>6, <3>7
  <2> QED BY <1>5, <2>4, <2>6, <2>7, <2>8, <2>9 DEF SignupsInv
<1>8. CASE /\ templatesSent' \in {templatesSent, [templatesSent EXCEPT ![l] = @ + 1]}
           /\ EndDesk(d) /\ deskErrors' = TRUE
  <2>1. templatesSent' \in [WebinarLeadIds -> Nat]
    <3>1. [templatesSent EXCEPT ![l] = @ + 1] \in [WebinarLeadIds -> Nat] BY <1>3, <1>4
    <3> QED BY <1>4, <1>8, <3>1
  <2>2. DeskIs(d, NoDesk) /\ desk'[d].at = "idle" /\ ~desk'[d].linked
    BY <1>1, <1>8, DeskEnds
  <2>3. SignupsTyped' BY <1>1, <1>2, <1>8, <2>1, <2>2 DEF SignupsTyped, DeskIs
  <2>4. DeskFits(d)' BY <2>2 DEF DeskFits
  <2>5. \A e \in Desks : DeskFits(e)' BY <1>1, <1>2, <2>2, <2>4, DesksFit
  <2>6. TellsFits' /\ ToldComing' /\ OnceAlone' BY <1>8 DEF TellsFits, ToldComing, OnceAlone
  <2> QED BY <1>5, <2>3, <2>5, <2>6 DEF SignupsInv
<1> QED BY <1>7, <1>8 DEF SendRegistration

LEMMA NoteRegistrationKeeps ==
  ASSUME LeadsAssumption, SignupsInv, NEW d \in Desks, NoteRegistration(d)
  PROVE SignupsInv'
<1> DEFINE l == desk[d].lead
<1>1. /\ SignupsTyped /\ TellsFits /\ ToldComing /\ OnceAlone
      /\ \A k \in WebinarLeadIds : SignupFits(k)
      /\ \A e \in Desks : DeskFits(e)
      /\ \A e \in Desks : desk[e] \in DeskRecords /\ desk[e].lead \in WebinarLeadIds
  BY SignupsParts
<1>2. /\ desk[d].at = "note" /\ signup' = [signup EXCEPT ![l].sent = signup[l].there]
      /\ EndDesk(d) /\ crm' = crm /\ templatesSent' = templatesSent
      /\ leadRequests' = leadRequests /\ deskRaces' = deskRaces /\ deskErrors' = deskErrors
      /\ deaf' = deaf
  BY DEF NoteRegistration, leadHistory
<1>3. l \in WebinarLeadIds BY <1>1
<1>4. signup \in [WebinarLeadIds -> SignupRecords] /\ signup[l] \in SignupRecords
  BY <1>1, <1>3 DEF SignupsTyped
<1>5. signup[l].there \in BOOLEAN BY <1>4 DEF SignupRecords
<1> DEFINE record == [signup[l] EXCEPT !.sent = signup[l].there]
<1>6. signup' = [signup EXCEPT ![l] = record] BY <1>2, <1>3, <1>4
<1>7. /\ record \in SignupRecords /\ record.there = signup[l].there
      /\ record.sent = signup[l].there /\ record.linked = signup[l].linked
      /\ record.converted = signup[l].converted
  BY <1>4, <1>5 DEF SignupRecords
<1> HIDE DEF record
<1>8. /\ signup' \in [WebinarLeadIds -> SignupRecords] /\ signup'[l] = record
      /\ \A k \in WebinarLeadIds \ {l} : signup'[k] = signup[k]
  BY <1>3, <1>4, <1>6, <1>7
<1>9. DeskIs(d, NoDesk) /\ desk'[d].at = "idle" /\ ~desk'[d].linked
  BY <1>1, <1>2, DeskEnds
<1>10. ~deskErrors => signup[l].there BY <1>1, <1>2 DEF TellsFits
<1> HIDE DEF l
<1>11. SignupsTyped' BY <1>1, <1>2, <1>8, <1>9 DEF SignupsTyped, DeskIs
<1>12. \A k \in WebinarLeadIds : SignupFits(k)'
  <2> TAKE k \in WebinarLeadIds
  <2>1. SignupFits(k) BY <1>1
  <2>2. CASE k = l BY <1>2, <1>7, <1>8, <2>1, <2>2 DEF SignupFits
  <2>3. CASE k # l
    <3>1. signup'[k] = signup[k] BY <1>8, <2>3
    <3> QED BY <1>2, <2>1, <3>1 DEF SignupFits
  <2> QED BY <2>2, <2>3
<1>13. DeskFits(d)' BY <1>9 DEF DeskFits
<1>14. \A e \in Desks : DeskFits(e)' BY <1>1, <1>2, <1>9, <1>13, DesksFit
<1>15. ~Telling(d)' /\ desk'[d].at \notin {"look", "upsert"} BY <1>9 DEF Telling
<1>16. \A k \in WebinarLeadIds : signup[k].there => signup'[k].there BY <1>7, <1>8
<1>17. TellsFits' BY <1>1, <1>2, <1>9, <1>15, <1>16, TellsStillFit
<1>18. ToldComing'
  <2>1. ~deskErrors => signup'[desk[d].lead].sent BY <1>3, <1>7, <1>8, <1>10 DEF l
  <2>2. \A k \in WebinarLeadIds : (~deskErrors /\ signup'[k].there /\ ~signup'[k].sent) =>
          signup[k].there /\ ~signup[k].sent
    BY <1>7, <1>8, <1>10
  <2> QED BY <1>1, <1>2, <1>9, <2>1, <2>2, ToldStillComing
<1>19. OnceAlone'
  <2> SUFFICES ASSUME Serial'
               PROVE /\ DesksApart' /\ \A k \in WebinarLeadIds : SentOnce(k)'
                     /\ \A e \in Desks : desk'[e].at = "send" =>
                          templatesSent'[desk'[e].lead] = 0
    BY OnceNext
  <2>1. Serial /\ ~deskErrors BY <1>2 DEF Serial
  <2>2. DesksApart /\ \A k \in WebinarLeadIds : SentOnce(k) BY <1>1, <2>1, OnceIs
  <2>3. DesksApart' BY <1>2, <1>9, <2>2, ApartNext
  <2>4. \A e \in Desks : desk'[e].at = "idle"
    BY <1>2, <1>9, <2>2 DEF DesksApart, DeskIs
  <2>5. \A e \in Desks : desk[e].at = "note" => e = d BY <1>2, <2>2 DEF DesksApart
  <2>6. \A k \in WebinarLeadIds : SentOnce(k)'
    <3> TAKE k \in WebinarLeadIds
    <3>1. SentOnce(k) BY <2>2
    <3>2. CASE k = l
      <4>1. signup'[k].sent BY <1>7, <1>8, <1>10, <2>1, <3>2
      <4> QED BY <1>2, <3>1, <4>1 DEF SentOnce
    <3>3. CASE k # l
      <4>1. signup'[k] = signup[k] BY <1>8, <3>3
      <4>2. \A e \in Desks : ~(desk[e].at = "note" /\ desk[e].lead = k)
        BY <2>5, <3>3 DEF l
      <4> QED BY <1>2, <3>1, <4>1, <4>2 DEF SentOnce
    <3> QED BY <3>2, <3>3
  <2> QED BY <2>3, <2>4, <2>6
<1> QED BY <1>11, <1>12, <1>14, <1>17, <1>18, <1>19 DEF SignupsInv

LEMMA SaveConvertedKeeps ==
  ASSUME LeadsAssumption, SignupsInv, NEW d \in Desks, SaveConverted(d)
  PROVE SignupsInv'
<1> DEFINE l == desk[d].lead
<1>1. /\ SignupsTyped /\ TellsFits /\ ToldComing /\ OnceAlone
      /\ \A k \in WebinarLeadIds : SignupFits(k)
      /\ \A e \in Desks : DeskFits(e)
      /\ \A e \in Desks : desk[e] \in DeskRecords /\ desk[e].lead \in WebinarLeadIds
  BY SignupsParts
<1>2. /\ desk[d].at = "convert"
      /\ signup' = [signup EXCEPT ![l].converted = signup[l].there,
                                  ![l].linked = signup[l].there]
      /\ EndDesk(d) /\ crm' = crm /\ templatesSent' = templatesSent
      /\ leadRequests' = leadRequests /\ deskRaces' = deskRaces /\ deskErrors' = deskErrors
      /\ deaf' = deaf
  BY DEF SaveConverted, leadHistory
<1>3. l \in WebinarLeadIds BY <1>1
<1>4. signup \in [WebinarLeadIds -> SignupRecords] /\ signup[l] \in SignupRecords
  BY <1>1, <1>3 DEF SignupsTyped
<1>5. signup[l].there \in BOOLEAN BY <1>4 DEF SignupRecords
<1> DEFINE record == [signup[l] EXCEPT !.converted = signup[l].there, !.linked = signup[l].there]
<1>6. signup' = [signup EXCEPT ![l] = record] BY <1>2, <1>3, <1>4
<1>7. /\ record \in SignupRecords /\ record.there = signup[l].there
      /\ record.sent = signup[l].sent /\ record.linked = signup[l].there
      /\ record.converted = signup[l].there
  BY <1>4, <1>5 DEF SignupRecords
<1> HIDE DEF record
<1>8. /\ signup' \in [WebinarLeadIds -> SignupRecords] /\ signup'[l] = record
      /\ \A k \in WebinarLeadIds \ {l} : signup'[k] = signup[k]
  BY <1>3, <1>4, <1>6, <1>7
<1>9. DeskIs(d, NoDesk) /\ desk'[d].at = "idle" /\ ~desk'[d].linked
  BY <1>1, <1>2, DeskEnds
<1>10. crm
  <2>1. DeskFits(d) BY <1>1
  <2> QED BY <1>2, <2>1 DEF DeskFits
<1> HIDE DEF l
<1>11. SignupsTyped' BY <1>1, <1>2, <1>8, <1>9 DEF SignupsTyped, DeskIs
<1>12. \A k \in WebinarLeadIds : SignupFits(k)'
  <2> TAKE k \in WebinarLeadIds
  <2>1. SignupFits(k) BY <1>1
  <2>2. CASE k = l BY <1>2, <1>7, <1>8, <1>10, <2>2 DEF SignupFits
  <2>3. CASE k # l
    <3>1. signup'[k] = signup[k] BY <1>8, <2>3
    <3> QED BY <1>2, <2>1, <3>1 DEF SignupFits
  <2> QED BY <2>2, <2>3
<1>13. DeskFits(d)' BY <1>9 DEF DeskFits
<1>14. \A e \in Desks : DeskFits(e)' BY <1>1, <1>2, <1>9, <1>13, DesksFit
<1>15. ~Telling(d)' /\ ~Telling(d) /\ desk'[d].at \notin {"look", "upsert"}
  BY <1>2, <1>9 DEF Telling
<1>16. \A k \in WebinarLeadIds : /\ signup'[k].there = signup[k].there
                                 /\ signup'[k].sent = signup[k].sent
  BY <1>7, <1>8
<1>17. TellsFits' BY <1>1, <1>2, <1>9, <1>15, <1>16, TellsStillFit
<1>18. ToldComing' BY <1>1, <1>2, <1>9, <1>15, <1>16, ToldStillComing
<1>19. OnceAlone'
  <2>1. Serial' => Serial BY <1>2 DEF Serial
  <2> QED BY <1>1, <1>2, <1>9, <1>16, <2>1, OnceQuiet
<1> QED BY <1>11, <1>12, <1>14, <1>17, <1>18, <1>19 DEF SignupsInv

\* A deletion counts as an error: what is left to see is that the records fit.
LEMMA DeleteSignupKeeps ==
  ASSUME SignupsInv, NEW l \in WebinarLeadIds, DeleteSignup(l)
  PROVE SignupsInv'
<1>1. /\ SignupsTyped /\ \A k \in WebinarLeadIds : SignupFits(k)
      /\ \A e \in Desks : DeskFits(e)
  BY SignupsParts
<1>2. /\ leadRequests' = leadRequests + 1 /\ signup' = [signup EXCEPT ![l] = NoSignup]
      /\ deskErrors' = TRUE /\ crm' = crm /\ desk' = desk /\ templatesSent' = templatesSent
      /\ deskRaces' = deskRaces /\ deaf' = deaf
  BY DEF DeleteSignup
<1>3. /\ signup' \in [WebinarLeadIds -> SignupRecords] /\ signup'[l] = NoSignup
      /\ \A k \in WebinarLeadIds \ {l} : signup'[k] = signup[k]
  BY <1>1, <1>2, NoSignupIs DEF SignupsTyped
<1>4. leadRequests' \in Nat BY <1>1, <1>2, CountsOn DEF SignupsTyped
<1>5. SignupsTyped' BY <1>1, <1>2, <1>3, <1>4 DEF SignupsTyped
<1>6. \A k \in WebinarLeadIds : SignupFits(k)'
  <2> TAKE k \in WebinarLeadIds
  <2>1. CASE k = l BY <1>3, <2>1, NoSignupIs DEF SignupFits
  <2>2. CASE k # l
    <3>1. signup'[k] = signup[k] /\ SignupFits(k) BY <1>1, <1>3, <2>2
    <3> QED BY <1>2, <3>1 DEF SignupFits
  <2> QED BY <2>1, <2>2
<1>7. \A e \in Desks : DeskFits(e)' BY <1>1, <1>2 DEF DeskFits
<1>8. TellsFits' /\ ToldComing' /\ OnceAlone' BY <1>2 DEF TellsFits, ToldComing, OnceAlone
<1> QED BY <1>5, <1>6, <1>7, <1>8 DEF SignupsInv

LEMMA DeskCrashKeeps ==
  ASSUME LeadsAssumption, SignupsInv, DeskCrash
  PROVE SignupsInv'
<1>1. /\ SignupsTyped /\ \A k \in WebinarLeadIds : SignupFits(k) BY SignupsParts
<1>2. /\ desk' = [d \in Desks |-> NoDesk] /\ deskErrors' = TRUE
      /\ signup' = signup /\ crm' = crm /\ templatesSent' = templatesSent
      /\ leadRequests' = leadRequests /\ deskRaces' = deskRaces /\ deaf' = deaf
  BY DEF DeskCrash, leadDb
<1>3. desk' \in [Desks -> DeskRecords] BY <1>2, NoDeskIs
<1>4. SignupsTyped' BY <1>1, <1>2, <1>3 DEF SignupsTyped
<1>5. \A k \in WebinarLeadIds : SignupFits(k)' BY <1>1, <1>2, SignupsFit
<1>6. \A e \in Desks : desk'[e].at = "idle" /\ ~desk'[e].linked BY <1>2, NoDeskIs
<1>7. \A e \in Desks : DeskFits(e)' BY <1>6 DEF DeskFits
<1>8. TellsFits' /\ ToldComing' /\ OnceAlone' BY <1>2 DEF TellsFits, ToldComing, OnceAlone
<1> QED BY <1>4, <1>5, <1>7, <1>8 DEF SignupsInv

LEMMA SignupsUnchanged ==
  ASSUME SignupsInv, UNCHANGED signupVars
  PROVE SignupsInv'
<1>1. /\ SignupsTyped /\ TellsFits /\ ToldComing /\ OnceAlone
      /\ \A k \in WebinarLeadIds : SignupFits(k)
      /\ \A e \in Desks : DeskFits(e)
  BY SignupsParts
<1>2. /\ signup' = signup /\ crm' = crm /\ desk' = desk /\ templatesSent' = templatesSent
      /\ leadRequests' = leadRequests /\ deskRaces' = deskRaces
      /\ deskErrors' = deskErrors /\ deaf' = deaf
  BY DEF signupVars, leadDb, leadHistory
<1>3. SignupsTyped' BY <1>1, <1>2 DEF SignupsTyped
<1>4. \A k \in WebinarLeadIds : SignupFits(k)' BY <1>1, <1>2 DEF SignupFits
<1>5. \A e \in Desks : DeskFits(e)' BY <1>1, <1>2 DEF DeskFits
<1>6. TellsFits' BY <1>1, <1>2 DEF TellsFits
<1>7. ToldComing' BY <1>1, <1>2 DEF ToldComing
<1>8. OnceAlone' BY <1>1, <1>2 DEF OnceAlone
<1> QED BY <1>3, <1>4, <1>5, <1>6, <1>7, <1>8 DEF SignupsInv

-----------------------------------------------------------------------------
(* The webinars and the leads together                                        *)

LEMMA LeadsStep ==
  ASSUME LeadsAssumption, EventsTypeOK, SignupsInv, LeadsNext
  PROVE SignupsInv'
<1>1. ASSUME NEW d \in Desks, NEW l \in MetaForms, TakeWebinarForm(d, l)
      PROVE SignupsInv'
  BY <1>1, TakeWebinarFormKeeps
<1>2. ASSUME NEW d \in Desks, NEW l \in Entered, NEW w \in Webinars, NEW notify \in BOOLEAN,
             EnterLead(d, l, w, notify)
      PROVE SignupsInv'
  BY <1>2, EnterLeadKeeps
<1>3. ASSUME NEW d \in Desks, NEW l \in WebinarLeadIds, Convert(d, l)
      PROVE SignupsInv'
  BY <1>3, ConvertKeeps
<1>4. ASSUME NEW d \in Desks,
             LookCustomer(d) \/ UpsertSignup(d) \/ SendRegistration(d) \/ NoteRegistration(d)
               \/ LookUp(d) \/ CreateFromLead(d) \/ SaveConverted(d) \/ EndEntered(d)
      PROVE SignupsInv'
  BY <1>4, LookCustomerKeeps, UpsertSignupKeeps, SendRegistrationKeeps, NoteRegistrationKeeps,
     LookUpKeeps, CreateFromLeadKeeps, SaveConvertedKeeps, EndEnteredKeeps
<1>5. ASSUME NEW l \in WebinarLeadIds, DeleteSignup(l)
      PROVE SignupsInv'
  BY <1>5, DeleteSignupKeeps
<1>6. CASE DeskCrash BY <1>6, DeskCrashKeeps
<1> QED BY <1>1, <1>2, <1>3, <1>4, <1>5, <1>6 DEF LeadsNext

LEMMA WebinarStep ==
  ASSUME WebinarAssumption, LeadsAssumption, WebinarInv, [WebinarNext]_webinarVars
  PROVE WebinarInv'
<1>1. EventsInv /\ SignupsInv BY WebinarInvIs
<1>2. CASE LeadsNext
  <2>1. EventsTypeOK BY <1>1, EventsInvIs
  <2>2. SignupsInv' BY <1>1, <1>2, <2>1, LeadsStep
  <2>3. EventsInv' BY <1>1, <1>2, EventsUnchanged DEF LeadsNext
  <2> QED BY <2>2, <2>3, WebinarInvNext
<1>3. CASE EventsNext /\ UNCHANGED signupVars
  <2>1. EventsInv' BY <1>1, <1>3, EventsStep
  <2>2. SignupsInv' BY <1>1, <1>3, SignupsUnchanged
  <2> QED BY <2>1, <2>2, WebinarInvNext
<1>4. CASE UNCHANGED webinarVars
  <2>1. UNCHANGED eventVars /\ UNCHANGED signupVars BY <1>4 DEF webinarVars
  <2>2. EventsInv' BY <1>1, <2>1, EventsUnchanged
  <2>3. SignupsInv' BY <1>1, <2>1, SignupsUnchanged
  <2> QED BY <2>2, <2>3, WebinarInvNext
<1> QED BY <1>2, <1>3, <1>4 DEF WebinarNext

LEMMA WebinarStarts ==
  ASSUME WebinarAssumption, LeadsAssumption, LeadsInit
  PROVE WebinarInv
<1>1. /\ EventsInit /\ signup = [l \in WebinarLeadIds |-> NoSignup] /\ crm \in BOOLEAN
      /\ desk = [d \in Desks |-> NoDesk]
      /\ templatesSent = [l \in WebinarLeadIds |-> 0] /\ leadRequests = 0
      /\ deskRaces = FALSE /\ deskErrors = FALSE /\ deaf = FALSE
  BY DEF LeadsInit
<1>2. EventsInv BY <1>1, EventsStart
<1>3. \A l \in WebinarLeadIds : /\ ~signup[l].there /\ ~signup[l].converted
                                /\ ~signup[l].linked /\ templatesSent[l] = 0
  BY <1>1, NoSignupIs
<1>4. \A d \in Desks : desk[d].at = "idle" /\ ~desk[d].linked BY <1>1, NoDeskIs
<1>5. SignupsTyped
  <2>1. signup \in [WebinarLeadIds -> SignupRecords] BY <1>1, NoSignupIs
  <2>2. desk \in [Desks -> DeskRecords] BY <1>1, NoDeskIs
  <2>3. templatesSent \in [WebinarLeadIds -> Nat] /\ leadRequests \in Nat BY <1>1
  <2> QED BY <1>1, <2>1, <2>2, <2>3 DEF SignupsTyped
<1>6. \A l \in WebinarLeadIds : SignupFits(l) BY <1>3 DEF SignupFits
<1>7. \A d \in Desks : DeskFits(d) BY <1>4 DEF DeskFits
<1>8. TellsFits BY <1>4 DEF TellsFits
<1>9. ToldComing BY <1>3 DEF ToldComing
<1>10. OnceAlone BY <1>3, <1>4 DEF OnceAlone
<1> QED BY <1>2, <1>5, <1>6, <1>7, <1>8, <1>9, <1>10, WebinarInvIs DEF SignupsInv

LEMMA WebinarShows ==
  ASSUME WebinarInv
  PROVE WebinarsCorrect
<1>1. EventsInv /\ SignupsInv /\ LeadsTypeOK BY WebinarInvIs DEF WebinarInv
<1>2. OneActiveWebinar /\ CalendarMatches BY <1>1, EventsShow
<1>3. /\ SignupsTyped /\ ToldComing /\ OnceAlone
      /\ \A l \in WebinarLeadIds : SignupFits(l)
  BY <1>1, SignupsParts
<1>4. RegisteredOnce
  <2>1. Serial => \A l \in WebinarLeadIds : SentOnce(l) BY <1>3, OnceIs
  <2>2. \A l \in WebinarLeadIds : SentOnce(l) => templatesSent[l] <= 1 BY DEF SentOnce
  <2> QED BY <2>1, <2>2 DEF RegisteredOnce, Serial
<1>5. RegisteredIsTold BY <1>3 DEF RegisteredIsTold, ToldComing
<1>6. ConvertedIsCustomer BY <1>3 DEF ConvertedIsCustomer, SignupFits
<1> QED BY <1>1, <1>2, <1>4, <1>5, <1>6 DEF WebinarsCorrect

\* One webinar is active and each has its calendar entry, unless requests race or fail; a
\* lead is told once, and whoever is registered is told, unless handlers overlap or fail; a
\* converted lead is a customer, whatever happens.
THEOREM WebinarsAreCorrect == WebinarSpec => []WebinarsCorrect
<1>1. LeadsInit => WebinarInv BY WebinarStarts, WebinarAssumption, LeadsAssumption
<1>2. WebinarInv /\ [WebinarNext]_webinarVars => WebinarInv'
  BY WebinarStep, WebinarAssumption, LeadsAssumption
<1>3. WebinarInv => WebinarsCorrect BY WebinarShows
<1> QED BY <1>1, <1>2, <1>3, PTL DEF WebinarSpec

=============================================================================
