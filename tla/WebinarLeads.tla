---------------------------- MODULE WebinarLeads ----------------------------
(***************************************************************************)
(* The registrations of one person for the webinars, and the template each  *)
(* is answered with: forms of Meta, which go to the webinar that is active  *)
(* and may come more than once, and leads an admin enters for a webinar; a  *)
(* lead may become a customer, or be deleted.  An error drops a form.       *)
(***************************************************************************)
EXTENDS WebinarEvents

CONSTANTS
  MetaForms, Entered,   \* leads: leadgen ids of the person's forms, ids of entered ones
  Desks,                \* deliveries and requests under way at once
  NoWebinarId,
  MaxLeadRequests

ASSUME LeadsAssumption ==
  /\ MetaForms \cup Entered # {} /\ MetaForms \cap Entered = {}
  /\ NoWebinarId \notin Webinars /\ MaxLeadRequests \in Nat

WebinarLeadIds == MetaForms \cup Entered

VARIABLES
  signup,               \* webinar_leads: there, webinar, notificationSentAt, status, customer
  crm,                  \* the person is a customer
  desk,                 \* handlers: at, lead, webinar read, its meet link, customer found
  templatesSent,        \* history: templates, by lead
  leadRequests,
  deskRaces,            \* history: two handlers of leads were under way at once
  deskErrors,           \* history: a sending failed, a lead was deleted, the service died
  deaf                  \* history: no webinar, or one without its link yet, was read,
                        \* or a lead was entered that was not to be told

leadDb == <<signup, crm>>
leadHistory == <<templatesSent, leadRequests, deskRaces, deskErrors, deaf>>
signupVars == <<leadDb, desk, leadHistory>>
webinarVars == <<eventVars, signupVars>>

NoSignup == [there |-> FALSE, webinar |-> NoWebinarId, sent |-> FALSE, converted |-> FALSE,
             linked |-> FALSE]
NoDesk == [at |-> "idle", lead |-> CHOOSE l \in WebinarLeadIds : TRUE, webinar |-> NoWebinarId,
           meet |-> FALSE, linked |-> FALSE]

LeadsInit ==
  /\ EventsInit
  /\ signup = [l \in WebinarLeadIds |-> NoSignup]
  /\ crm \in BOOLEAN
  /\ desk = [d \in Desks |-> NoDesk]
  /\ templatesSent = [l \in WebinarLeadIds |-> 0]
  /\ leadRequests = 0
  /\ deskRaces = FALSE /\ deskErrors = FALSE /\ deaf = FALSE

DeskTo(d, place) == desk' = [desk EXCEPT ![d].at = place]
EndDesk(d) == desk' = [desk EXCEPT ![d] = NoDesk]

BeginDesk(d, record) ==
  /\ desk[d].at = "idle" /\ leadRequests < MaxLeadRequests
  /\ desk' = [desk EXCEPT ![d] = record]
  /\ leadRequests' = leadRequests + 1
  /\ deskRaces' = (deskRaces \/ \E e \in Desks : desk[e].at # "idle")
  /\ UNCHANGED <<leadDb, templatesSent, deskErrors>>

\* Two leads of the person for one webinar: the unique index forbids them.
Taken(l, w) == \E k \in WebinarLeadIds \ {l} :
                 w # NoWebinarId /\ signup[k].there /\ signup[k].webinar = w

\* executeProcessWebinarLeadIngress reads the active webinar, if there is one, ...
TakeWebinarForm(d, l) ==
  \/ \E w \in Webinars :
       /\ webinar[w].status = "active"
       /\ BeginDesk(d, [NoDesk EXCEPT !.at = "look", !.lead = l, !.webinar = w,
                                      !.meet = webinar[w].meet])
       /\ deaf' = (deaf \/ ~webinar[w].meet)
  \/ /\ \A w \in Webinars : webinar[w].status # "active"
     /\ BeginDesk(d, [NoDesk EXCEPT !.at = "look", !.lead = l])
     /\ deaf' = TRUE

\* executeCreateOneLead is told the webinar, and ends where the person has a lead for it.
EnterLead(d, l, w, notify) ==
  /\ Exists(w) /\ ~signup[l].there
  /\ \A e \in Desks : desk[e].at # "idle" => desk[e].lead # l
  /\ BeginDesk(d, [NoDesk EXCEPT !.at = IF Taken(l, w) THEN "end" ELSE "look", !.lead = l,
                                 !.webinar = w, !.meet = notify /\ webinar[w].meet])
  /\ deaf' = (deaf \/ ~notify \/ ~webinar[w].meet)

\* ... and whether the person is a customer.
LookCustomer(d) ==
  /\ desk[d].at = "look"
  /\ desk' = [desk EXCEPT ![d].at = "upsert", ![d].linked = crm]
  /\ UNCHANGED <<leadDb, leadHistory>>

SentAlready(l) == signup[l].sent

\* The lead is inserted, or moved to the webinar that is active now; an index error ends
\* the handler.  A lead that had its template, and one without a link to send, gets none.
UpsertSignup(d) ==
  /\ desk[d].at = "upsert"
  /\ LET l == desk[d].lead
         w == desk[d].webinar
     IN IF Taken(l, w) THEN EndDesk(d) /\ UNCHANGED signup
        ELSE /\ signup' = [signup EXCEPT
                  ![l].there = TRUE, ![l].webinar = w,
                  ![l].linked = desk[d].linked \/ (signup[l].there /\ @)]
             /\ IF SentAlready(l) \/ ~desk[d].meet THEN EndDesk(d) ELSE DeskTo(d, "send")
  /\ UNCHANGED <<crm, templatesSent, leadRequests, deskRaces, deskErrors, deaf>>

\* executeSendRegistrationNotification: the template is sent; or it is not, or the answer
\* is lost, and then the error is noted.
SendRegistration(d) ==
  /\ desk[d].at = "send"
  /\ \/ /\ templatesSent' = [templatesSent EXCEPT ![desk[d].lead] = @ + 1]
        /\ DeskTo(d, "note") /\ UNCHANGED deskErrors
     \/ /\ templatesSent' \in {templatesSent, [templatesSent EXCEPT ![desk[d].lead] = @ + 1]}
        /\ EndDesk(d) /\ deskErrors' = TRUE
  /\ UNCHANGED <<leadDb, leadRequests, deskRaces, deaf>>

\* It is noted in the lead, if that is still there.
NoteRegistration(d) ==
  /\ desk[d].at = "note"
  /\ signup' = [signup EXCEPT ![desk[d].lead].sent = signup[desk[d].lead].there]
  /\ EndDesk(d)
  /\ UNCHANGED <<crm, leadHistory>>

\* executeConvert reads the lead: one that is converted is left as it is; one without a
\* customer is looked up by phone, ...
Convert(d, l) ==
  /\ signup[l].there /\ ~signup[l].converted
  /\ BeginDesk(d, [NoDesk EXCEPT !.at = IF signup[l].linked THEN "convert" ELSE "look up",
                                 !.lead = l])
  /\ UNCHANGED deaf

LookUp(d) ==
  /\ desk[d].at = "look up"
  /\ DeskTo(d, IF crm THEN "convert" ELSE "create")
  /\ UNCHANGED <<leadDb, leadHistory>>

\* ... a customer created, unless he is there by now, which ends the request, ...
CreateFromLead(d) ==
  /\ desk[d].at = "create"
  /\ crm' = TRUE
  /\ IF crm THEN EndDesk(d) ELSE DeskTo(d, "convert")
  /\ UNCHANGED <<signup, leadHistory>>

\* ... and the lead linked to him, if it is still there.
SaveConverted(d) ==
  /\ desk[d].at = "convert"
  /\ signup' = [signup EXCEPT ![desk[d].lead].converted = signup[desk[d].lead].there,
                              ![desk[d].lead].linked = signup[desk[d].lead].there]
  /\ EndDesk(d)
  /\ UNCHANGED <<crm, leadHistory>>

EndEntered(d) ==
  /\ desk[d].at = "end" /\ EndDesk(d)
  /\ UNCHANGED <<leadDb, leadHistory>>

\* executeDelete, of an entered lead: Meta's id may come again, an entered one does not.
DeleteSignup(l) ==
  /\ signup[l].there /\ leadRequests < MaxLeadRequests
  /\ leadRequests' = leadRequests + 1
  /\ signup' = [signup EXCEPT ![l] = NoSignup]
  /\ deskErrors' = TRUE
  /\ UNCHANGED <<crm, desk, templatesSent, deskRaces, deaf>>

\* The service dies; forms come again, as TakeWebinarForm may.
DeskCrash ==
  /\ \E d \in Desks : desk[d].at # "idle"
  /\ desk' = [d \in Desks |-> NoDesk] /\ deskErrors' = TRUE
  /\ UNCHANGED <<leadDb, templatesSent, leadRequests, deskRaces, deaf>>

LeadsNext ==
  /\ \/ \E d \in Desks :
          \/ \E l \in MetaForms : TakeWebinarForm(d, l)
          \/ \E l \in Entered, w \in Webinars, notify \in BOOLEAN : EnterLead(d, l, w, notify)
          \/ \E l \in WebinarLeadIds : Convert(d, l)
          \/ LookCustomer(d) \/ UpsertSignup(d) \/ SendRegistration(d) \/ NoteRegistration(d)
          \/ LookUp(d) \/ CreateFromLead(d) \/ SaveConverted(d) \/ EndEntered(d)
     \/ \E l \in WebinarLeadIds : DeleteSignup(l)
     \/ DeskCrash
  /\ UNCHANGED eventVars

WebinarNext == LeadsNext \/ (EventsNext /\ UNCHANGED signupVars)
WebinarSpec == LeadsInit /\ [][WebinarNext]_webinarVars

-----------------------------------------------------------------------------
(* Properties                                                                *)

\* Every variable has its type.
LeadsTypeOK ==
  /\ EventsTypeOK
  /\ signup \in [WebinarLeadIds ->
       [there : BOOLEAN, webinar : Webinars \cup {NoWebinarId}, sent : BOOLEAN,
        converted : BOOLEAN, linked : BOOLEAN]]
  /\ crm \in BOOLEAN
  /\ desk \in [Desks ->
       [at : {"idle", "look", "upsert", "send", "note", "look up", "create", "convert", "end"},
        lead : WebinarLeadIds, webinar : Webinars \cup {NoWebinarId}, meet : BOOLEAN,
        linked : BOOLEAN]]
  /\ templatesSent \in [WebinarLeadIds -> Nat] /\ leadRequests \in Nat
  /\ {deskRaces, deskErrors, deaf} \subseteq BOOLEAN

\* A lead gets one template, however often its form comes and whatever webinar is active
\* then, unless handlers overlap, a sending fails, or the service dies.
RegisteredOnce ==
  (~deskRaces /\ ~deskErrors) => \A l \in WebinarLeadIds : templatesSent[l] <= 1

\* Whoever is registered for a webinar has been told, when nothing is under way: unless
\* the webinar he was registered for had no link yet, or a sending failed.
RegisteredIsTold ==
  ((\A d \in Desks : desk[d].at = "idle") /\ ~deaf /\ ~deskErrors) =>
    \A l \in WebinarLeadIds : signup[l].there => signup[l].sent

\* A converted lead is linked to a customer who is there, whatever overlaps, fails or dies.
ConvertedIsCustomer ==
  \A l \in WebinarLeadIds : signup[l].converted => signup[l].linked /\ crm

\* One active webinar with its calendar entry; leads told once and converted to customers.
WebinarsCorrect ==
  /\ LeadsTypeOK
  /\ OneActiveWebinar /\ CalendarMatches
  /\ RegisteredOnce /\ RegisteredIsTold /\ ConvertedIsCustomer
=============================================================================
