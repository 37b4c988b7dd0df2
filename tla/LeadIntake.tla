---------------------------- MODULE LeadIntake ----------------------------
(***************************************************************************)
(* How one person becomes a customer: his WhatsApp messages (the Meta       *)
(* webhook, with the flow form and the automatic replies) and his lead      *)
(* forms (the leadgen queue), delivered at least once and handled several   *)
(* at a time.  A customer is found by phone, and the phone of a form may    *)
(* lack the country code.  A step boundary is an await.                     *)
(***************************************************************************)
EXTENDS Naturals, Sequences, FiniteSets

CONSTANTS
  Ventors,              \* users the load balance may pick
  NoVentor,
  Handlers,             \* deliveries in the hands of the service at once
  MaxIngress,           \* bounds for TLC: deliveries, crashes
  MaxIntakeCrashes

ASSUME IntakeAssumption ==
  NoVentor \notin Ventors /\ {MaxIngress, MaxIntakeCrashes} \subseteq Nat

\* WhatsApp always gives the international number; a form, what was typed in.
Phones == {"international", "national"}
ChatIngresses == {"text", "flow"}
FormIngresses == {"conversation", "assign", "bbq"}
Ingresses == ChatIngresses \cup FormIngresses
Funnel == <<"none", "pending_flow", "completed_flow", "ready_for_llm">>

VARIABLES
  customer,             \* customers by phone: assignee, funnel, template sent
  order,                \* the phones of the customers, the oldest first
  lead,                 \* meta_lead_campaigns: status, notificationSentAt is set
  handler,              \* at, what was delivered, from which phone, what was read
  templates, notices,   \* history: first templates and BBQ notifications sent
  ingresses,            \* history: deliveries so far
  raced,                \* history: two deliveries were under way at once
  nationalFirst,        \* history: the first customer came from a national number
  unassigned,           \* history: no ventor could be picked
  intakeCrashes

intakeDb == <<customer, order, lead>>
intakeHistory ==
  <<templates, notices, ingresses, raced, nationalFirst, unassigned, intakeCrashes>>
intakeVars == <<intakeDb, handler, intakeHistory>>

Absent == [assigned |-> NoVentor, funnel |-> "absent", templated |-> FALSE]
Newborn == [assigned |-> NoVentor, funnel |-> "none", templated |-> FALSE]
NoHandler == [at |-> "idle", what |-> "text", phone |-> "international",
              seen |-> Absent, created |-> FALSE]

IntakeInit ==
  /\ customer = [p \in Phones |-> Absent] /\ order = <<>>
  /\ lead = [status |-> "none", notified |-> FALSE]
  /\ handler = [h \in Handlers |-> NoHandler]
  /\ templates = 0 /\ notices = 0 /\ ingresses = 0 /\ intakeCrashes = 0
  /\ raced = FALSE /\ nationalFirst = FALSE /\ unassigned = FALSE

HandlerAt(h, place, what) == handler[h].at = place /\ handler[h].what \in what
HandlerTo(h, place) == handler' = [handler EXCEPT ![h].at = place]
HandlerReads(h, place) ==
  handler' = [handler EXCEPT ![h].at = place, ![h].seen = customer[handler[h].phone]]
DropDelivery(h) == handler' = [handler EXCEPT ![h] = NoHandler]
WriteCustomer(h, doc) == customer' = [customer EXCEPT ![handler[h].phone] = doc]
DocOf(h) == customer[handler[h].phone]

\* The customers a look-up finds: a message matches its own number, a form also
\* the other form of it (buildCustomerPhoneCandidates), and takes the oldest.
FoundExactly(what, phone) == IF customer[phone] = Absent THEN <<>> ELSE <<phone>>
Found(what, phone) == IF what \in ChatIngresses THEN FoundExactly(what, phone) ELSE order

\* A delivery: leadgen first marks its campaign pending; both look for the customer
\* (and tag him, which nothing here depends on).
TakeDelivery(h, what, phone) ==
  /\ handler[h].at = "idle" /\ ingresses < MaxIngress
  /\ what \in ChatIngresses => phone = "international"
  /\ LET found == Found(what, phone)
     IN handler' = [handler EXCEPT ![h] =
          IF found = <<>>
          THEN [NoHandler EXCEPT !.at = "create", !.what = what, !.phone = phone]
          ELSE [NoHandler EXCEPT !.at = "assign", !.what = what, !.phone = Head(found),
                                 !.seen = customer[Head(found)]]]
  /\ lead' = IF what \in FormIngresses THEN [lead EXCEPT !.status = "pending"] ELSE lead
  /\ ingresses' = ingresses + 1
  /\ raced' = (raced \/ \E g \in Handlers : handler[g].at # "idle")
  /\ UNCHANGED <<customer, order, templates, notices, nationalFirst, unassigned, intakeCrashes>>

\* createCustomer: where the phone is taken by now it throws, and the queue drops
\* the message or the lead.
InsertCustomer(h) ==
  /\ handler[h].at = "create"
  /\ IF DocOf(h) # Absent
     THEN DropDelivery(h) /\ UNCHANGED <<customer, order, nationalFirst>>
     ELSE /\ WriteCustomer(h, Newborn)
          /\ order' = Append(order, handler[h].phone)
          /\ nationalFirst' = (nationalFirst \/ (order = <<>> /\ handler[h].phone = "national"))
          /\ handler' = [handler EXCEPT
               ![h].at = IF handler[h].what \in ChatIngresses THEN "pend" ELSE "assign",
               ![h].seen = Newborn, ![h].created = TRUE]
  /\ UNCHANGED <<lead, templates, notices, ingresses, raced, unassigned, intakeCrashes>>

\* A customer who wrote first is to fill in the flow; he is read again.
PendFlow(h) ==
  /\ handler[h].at = "pend"
  /\ WriteCustomer(h, [DocOf(h) EXCEPT !.funnel = "pending_flow"])
  /\ HandlerTo(h, "refetch")
  /\ UNCHANGED <<order, lead, intakeHistory>>

RefetchCustomer(h) ==
  /\ handler[h].at = "refetch"
  /\ HandlerReads(h, "assign")
  /\ UNCHANGED <<intakeDb, intakeHistory>>

AfterAssign(h) ==
  CASE handler[h].what = "text" -> "decide"
    [] handler[h].what = "flow" -> "flow read"
    [] handler[h].what = "bbq"  -> "ready"
    [] OTHER                    -> "processed"

\* Fault: whoever is read as assigned is given to somebody again.
AssignAnyway(h) ==
  /\ handler[h].at = "assign" /\ handler[h].what # "conversation"
  /\ \E v \in Ventors :
       /\ WriteCustomer(h, [DocOf(h) EXCEPT !.assigned = v])
       /\ handler' = [handler EXCEPT ![h].at = AfterAssign(h), ![h].seen.assigned = v]
  /\ UNCHANGED <<order, lead, intakeHistory>>

\* executeAssignCustomerIfUnassigned: to whom the load balance picks, or to nobody.
AssignIfUnassigned(h) ==
  /\ handler[h].at = "assign"
  /\ IF handler[h].what = "conversation" \/ handler[h].seen.assigned # NoVentor
     THEN HandlerTo(h, AfterAssign(h)) /\ UNCHANGED <<customer, unassigned>>
     ELSE \E v \in Ventors \cup {NoVentor} :
            /\ customer' = IF v = NoVentor THEN customer
                           ELSE [customer EXCEPT ![handler[h].phone].assigned = v]
            /\ handler' = [handler EXCEPT ![h].at = AfterAssign(h), ![h].seen.assigned = v]
            /\ unassigned' = (unassigned \/ v = NoVentor)
  /\ UNCHANGED <<order, lead, templates, notices, ingresses, raced, nationalFirst,
                 intakeCrashes>>

-----------------------------------------------------------------------------
(* A message                                                                 *)

\* The first template is for a customer who has not filled in the flow, once.
WantsTemplate(doc, created) ==
  /\ created \/ doc.funnel = "pending_flow"
  /\ ~doc.templated
  /\ doc.funnel # "ready_for_llm"

\* Without it a customer who is ready is answered with the contact of his ventor.
DecideTemplate(h) ==
  /\ HandlerAt(h, "decide", {"text"})
  /\ IF WantsTemplate(handler[h].seen, handler[h].created)
     THEN HandlerTo(h, "mark") ELSE DropDelivery(h)
  /\ UNCHANGED <<intakeDb, intakeHistory>>

\* The template is marked as sent ...
MarkTemplate(h) ==
  /\ HandlerAt(h, "mark", {"text"})
  /\ WriteCustomer(h, [DocOf(h) EXCEPT !.templated = TRUE, !.funnel = "pending_flow"])
  /\ HandlerTo(h, "emit")
  /\ UNCHANGED <<order, lead, intakeHistory>>

\* ... and then sent.
SendTemplate(h) ==
  /\ HandlerAt(h, "emit", {"text"})
  /\ templates' = templates + 1
  /\ DropDelivery(h)
  /\ UNCHANGED <<intakeDb, notices, ingresses, raced, nationalFirst, unassigned, intakeCrashes>>

\* executeProcessFlowCompleted reads the customer ...
FlowRead(h) ==
  /\ HandlerAt(h, "flow read", {"flow"})
  /\ HandlerReads(h, "flow save")
  /\ UNCHANGED <<intakeDb, intakeHistory>>

\* With a ventor he is ready, without one he has completed the flow.
FunnelAfterFlow(v) == IF v = NoVentor THEN "completed_flow" ELSE "ready_for_llm"

\* ... and saves him; save() writes a field only where it differs from what was read.
FlowSave(h) ==
  /\ HandlerAt(h, "flow save", {"flow"})
  /\ LET seen == handler[h].seen IN
     \E v \in Ventors \cup {NoVentor} :
       LET funnel == FunnelAfterFlow(v) IN
       /\ WriteCustomer(h, [DocOf(h) EXCEPT
            !.assigned = IF v # NoVentor /\ seen.assigned = NoVentor THEN v ELSE @,
            !.funnel = IF funnel = seen.funnel THEN @ ELSE funnel])
       /\ unassigned' = (unassigned \/ v = NoVentor)
  /\ DropDelivery(h)
  /\ UNCHANGED <<order, lead, templates, notices, ingresses, raced, nationalFirst,
                 intakeCrashes>>

-----------------------------------------------------------------------------
(* A form                                                                    *)

\* The guest of a BBQ counts as ready, whether or not somebody was picked.
SetReady(h) ==
  /\ HandlerAt(h, "ready", {"bbq"})
  /\ WriteCustomer(h, [DocOf(h) EXCEPT !.funnel = "ready_for_llm"])
  /\ HandlerTo(h, "processed")
  /\ UNCHANGED <<order, lead, intakeHistory>>

\* The campaign has its customer (and the customer the ids of the campaign).
ProcessLead(h) ==
  /\ HandlerAt(h, "processed", FormIngresses)
  /\ lead' = [lead EXCEPT !.status = "processed"]
  /\ IF handler[h].what = "bbq" THEN HandlerTo(h, "notify look") ELSE DropDelivery(h)
  /\ UNCHANGED <<customer, order, intakeHistory>>

\* executeSendBbqAsadoNotification looks at notificationSentAt, ...
NotifyLook(h) ==
  /\ HandlerAt(h, "notify look", {"bbq"})
  /\ IF lead.notified THEN DropDelivery(h) ELSE HandlerTo(h, "notify send")
  /\ UNCHANGED <<intakeDb, intakeHistory>>

\* ... sends, which may fail, ...
NotifySend(h) ==
  /\ HandlerAt(h, "notify send", {"bbq"})
  /\ \/ notices' = notices + 1 /\ HandlerTo(h, "notify mark")
     \/ notices' = notices /\ DropDelivery(h)
  /\ UNCHANGED <<intakeDb, templates, ingresses, raced, nationalFirst, unassigned,
                 intakeCrashes>>

\* ... and then notes that it has.
NotifyMark(h) ==
  /\ HandlerAt(h, "notify mark", {"bbq"})
  /\ lead' = [lead EXCEPT !.notified = TRUE]
  /\ DropDelivery(h)
  /\ UNCHANGED <<customer, order, intakeHistory>>

-----------------------------------------------------------------------------
\* The service dies; what it held is delivered again, as new deliveries are.
IntakeCrash ==
  /\ intakeCrashes < MaxIntakeCrashes
  /\ intakeCrashes' = intakeCrashes + 1
  /\ handler' = [h \in Handlers |-> NoHandler]
  /\ UNCHANGED <<intakeDb, templates, notices, ingresses, raced, nationalFirst, unassigned>>

IntakeNext ==
  \/ \E h \in Handlers :
       \/ \E what \in Ingresses, phone \in Phones : TakeDelivery(h, what, phone)
       \/ InsertCustomer(h) \/ PendFlow(h) \/ RefetchCustomer(h) \/ AssignIfUnassigned(h)
       \/ DecideTemplate(h) \/ MarkTemplate(h) \/ SendTemplate(h) \/ FlowRead(h) \/ FlowSave(h)
       \/ SetReady(h) \/ ProcessLead(h) \/ NotifyLook(h) \/ NotifySend(h) \/ NotifyMark(h)
  \/ IntakeCrash

IntakeSpec == IntakeInit /\ [][IntakeNext]_intakeVars

-----------------------------------------------------------------------------
(* Properties                                                                *)

Rank(funnel) == IF funnel = "absent" THEN 0
                ELSE CHOOSE i \in DOMAIN Funnel : Funnel[i] = funnel

CustomerDocs == [assigned : Ventors \cup {NoVentor}, templated : BOOLEAN,
         funnel : {Funnel[i] : i \in DOMAIN Funnel} \cup {"absent"}]

\* Every variable has its type.
IntakeTypeOK ==
  /\ customer \in [Phones -> CustomerDocs]
  /\ order \in Seq(Phones)
  /\ lead \in [status : {"none", "pending", "processed"}, notified : BOOLEAN]
  /\ handler \in [Handlers ->
       [at : {"idle", "create", "pend", "refetch", "assign", "decide", "mark", "emit",
              "flow read", "flow save", "ready", "processed", "notify look",
              "notify send", "notify mark"},
        what : Ingresses, phone : Phones, seen : CustomerDocs, created : BOOLEAN]]
  /\ {templates, notices, ingresses, intakeCrashes} \subseteq Nat
  /\ {raced, nationalFirst, unassigned} \subseteq BOOLEAN

\* One person is one customer, whatever he sends first and however he writes his
\* number in a form: unless two deliveries raced, or his first contact was a form
\* with a national number, which a later message does not find.
OnePersonOneCustomer == Len(order) <= 1 \/ raced \/ nationalFirst

\* The first template goes out once, across repeated deliveries and crashes, unless
\* deliveries race.
FirstTemplateOnce == templates <= 1 \/ raced \/ nationalFirst

\* The BBQ notification goes out once per lead ("idempotent"), unless deliveries
\* race or the service dies before it is noted.
NotifiedOnce == notices <= 1 \/ raced \/ intakeCrashes > 0

\* A customer who is ready for the bot has a ventor, at every step of every handler
\* that makes him so and whatever dies between them, as long as one can be picked.
ReadyHasVentor ==
  \A p \in Phones :
    (customer[p].funnel = "ready_for_llm" /\ ~unassigned) => customer[p].assigned # NoVentor

\* The intake takes no customer away from the ventor he has, unless two deliveries
\* have read him unassigned.
IntakeKeepsVentor ==
  [][\A p \in Phones : (customer[p].assigned # NoVentor /\ ~raced) =>
       customer'[p].assigned = customer[p].assigned]_customer

\* Nobody goes back in the funnel (and would be sent the flow, or kept from the bot,
\* again), unless deliveries race or nobody could be picked.
FunnelGoesForward ==
  [][\A p \in Phones : (~raced /\ ~unassigned') =>
       Rank(customer'[p].funnel) >= Rank(customer[p].funnel)]_customer

\* One customer per person, greeted and announced once, ready only with a ventor.
IntakeCorrect ==
  IntakeTypeOK /\ OnePersonOneCustomer /\ FirstTemplateOnce /\ NotifiedOnce /\ ReadyHasVentor

\* The intake takes nobody's ventor away and sends nobody back in the funnel.
IntakeGoesForward == IntakeKeepsVentor /\ FunnelGoesForward
=============================================================================
