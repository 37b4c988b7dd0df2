---------------------------- MODULE WebinarEvents ----------------------------
(***************************************************************************)
(* Webinars and their entries in Google Calendar: the requests of admins    *)
(* that create, activate, rename and delete them.  The document and the     *)
(* calendar are written one after the other, in an order that differs from  *)
(* request to request, and either write may fail.  A step boundary is an    *)
(* await.                                                                   *)
(***************************************************************************)
EXTENDS Naturals, FiniteSets

CONSTANTS
  Webinars,             \* documents that may be created
  WebinarAdmins,        \* requests under way at once
  MaxEntries, MaxWebinarRequests, MaxWebinarFailures   \* bounds for TLC

ASSUME WebinarAssumption ==
  Webinars # {} /\ {MaxEntries, MaxWebinarRequests, MaxWebinarFailures} \subseteq Nat

VARIABLES
  webinar,              \* webinar_events: status, googleCalendarEventId, meetLink is set
  entries,              \* the entries of the calendar
  admin,                \* requests: at, webinar, whether they activate it, what was read
  entriesMade, webinarRequests, webinarFailures,   \* history: so far
  activations,          \* history: two activations were under way at once
  jostled               \* history: two requests for one webinar were

webinarDb == <<webinar, entries>>
webinarHistory == <<entriesMade, webinarRequests, webinarFailures, activations, jostled>>
eventVars == <<webinarDb, admin, webinarHistory>>

NoWebinar == [status |-> "absent", entry |-> 0, meet |-> FALSE]
NoAdmin == [at |-> "idle", webinar |-> CHOOSE w \in Webinars : TRUE, status |-> "draft",
            rename |-> FALSE, seen |-> NoWebinar]

EventsInit ==
  /\ webinar = [w \in Webinars |-> NoWebinar]
  /\ entries = {}
  /\ admin = [a \in WebinarAdmins |-> NoAdmin]
  /\ entriesMade = 0 /\ webinarRequests = 0 /\ webinarFailures = 0
  /\ activations = FALSE /\ jostled = FALSE

AdminTo(a, place) == admin' = [admin EXCEPT ![a].at = place]
EndAdmin(a) == admin' = [admin EXCEPT ![a] = NoAdmin]
Exists(w) == webinar[w].status # "absent"
Underway(a) == admin[a].at # "idle"
Activates(record) == record.status = "active" /\ record.seen.status # "active"

BeginAdmin(a, record) ==
  /\ ~Underway(a) /\ webinarRequests < MaxWebinarRequests
  /\ admin' = [admin EXCEPT ![a] = record]
  /\ webinarRequests' = webinarRequests + 1
  /\ activations' = (activations \/ (Activates(record) /\
       \E b \in WebinarAdmins : Underway(b) /\ Activates(admin[b])))
  /\ jostled' = (jostled \/
       \E b \in WebinarAdmins : Underway(b) /\ admin[b].webinar = record.webinar)
  /\ UNCHANGED <<webinarDb, entriesMade, webinarFailures>>

\* executeCreate
CreateWebinar(a, w, status) ==
  /\ ~Exists(w) /\ \A b \in WebinarAdmins : Underway(b) => admin[b].webinar # w
  /\ BeginAdmin(a, [at |-> IF status = "active" THEN "clear" ELSE "insert", webinar |-> w,
                    status |-> status, rename |-> TRUE, seen |-> NoWebinar])

\* executeUpdate reads the webinar.
UpdateWebinar(a, w, status, rename) ==
  /\ Exists(w)
  /\ BeginAdmin(a, [at |-> IF status = "active" /\ webinar[w].status # "active" THEN "clear"
                           ELSE "save", webinar |-> w,
                    status |-> status, rename |-> rename, seen |-> webinar[w]])

Closed == "closed"

\* executeClearActiveEvents closes whatever is active but the webinar itself.
Clears(w, v) == v # w /\ webinar[v].status = "active"

ClearActive(a) ==
  /\ admin[a].at = "clear"
  /\ webinar' = [v \in Webinars |-> IF Clears(admin[a].webinar, v)
                                    THEN [webinar[v] EXCEPT !.status = Closed] ELSE webinar[v]]
  /\ AdminTo(a, IF admin[a].seen.status = "absent" THEN "insert" ELSE "save")
  /\ UNCHANGED <<entries, webinarHistory>>

InsertWebinar(a) ==
  /\ admin[a].at = "insert"
  /\ webinar' = [webinar EXCEPT
       ![admin[a].webinar] = [NoWebinar EXCEPT !.status = admin[a].status]]
  /\ AdminTo(a, "sync")
  /\ UNCHANGED <<entries, webinarHistory>>

\* save() writes the status where it differs from the one read, and throws where the
\* webinar was deleted meanwhile.
SaveWebinar(a) ==
  /\ admin[a].at = "save"
  /\ LET w == admin[a].webinar IN
     IF Exists(w)
     THEN /\ webinar' = [webinar EXCEPT ![w].status =
               IF admin[a].status = admin[a].seen.status THEN @ ELSE admin[a].status]
          /\ IF admin[a].rename THEN AdminTo(a, "sync") ELSE EndAdmin(a)
     ELSE EndAdmin(a) /\ UNCHANGED webinar
  /\ UNCHANGED <<entries, webinarHistory>>

HasEntry(a) == admin[a].seen.entry # 0

\* executeSyncGoogleCalendar: an entry the document had when it was read is patched, and
\* one is made for a document without.  Google may fail, which ends the request, or make
\* an entry without a Meet link, which ends it too: nobody knows that entry.
SyncCalendar(a) ==
  /\ admin[a].at = "sync"
  /\ \/ /\ HasEntry(a) /\ admin[a].seen.entry \in entries
        /\ EndAdmin(a) /\ UNCHANGED <<entries, entriesMade, webinarFailures>>
     \/ /\ ~HasEntry(a) /\ entriesMade < MaxEntries
        /\ entriesMade' = entriesMade + 1
        /\ entries' = entries \cup {entriesMade'}
        /\ admin' = [admin EXCEPT ![a].at = "note", ![a].seen.entry = entriesMade']
        /\ UNCHANGED webinarFailures
     \/ /\ \/ webinarFailures < MaxWebinarFailures
           \/ HasEntry(a) /\ admin[a].seen.entry \notin entries
        /\ webinarFailures' = webinarFailures + 1
        /\ EndAdmin(a) /\ UNCHANGED <<entries, entriesMade>>
     \/ /\ ~HasEntry(a) /\ entriesMade < MaxEntries /\ webinarFailures < MaxWebinarFailures
        /\ entriesMade' = entriesMade + 1
        /\ entries' = entries \cup {entriesMade'}
        /\ webinarFailures' = webinarFailures + 1
        /\ EndAdmin(a)
  /\ UNCHANGED <<webinar, webinarRequests, activations, jostled>>

\* The entry and its Meet link are saved in the webinar, if it is still there.
NoteEntry(a) ==
  /\ admin[a].at = "note"
  /\ LET w == admin[a].webinar IN
     webinar' = IF Exists(w)
                THEN [webinar EXCEPT ![w].entry = admin[a].seen.entry, ![w].meet = TRUE]
                ELSE webinar
  /\ EndAdmin(a)
  /\ UNCHANGED <<entries, webinarHistory>>

\* executeDelete reads the webinar, ...
DeleteWebinar(a, w) ==
  /\ Exists(w)
  /\ BeginAdmin(a, [NoAdmin EXCEPT !.at = "delete entry", !.webinar = w, !.seen = webinar[w]])

\* Fault: the entry stays in the calendar.
LeaveEntry(a) == entries

WithoutEntry(a) == entries \ {admin[a].seen.entry}

\* ... deletes its entry, where a failure is only logged, ...
DeleteEntry(a) ==
  /\ admin[a].at = "delete entry"
  /\ \/ entries' = WithoutEntry(a) /\ UNCHANGED webinarFailures
     \/ /\ webinarFailures < MaxWebinarFailures /\ webinarFailures' = webinarFailures + 1
        /\ UNCHANGED entries
  /\ AdminTo(a, "delete")
  /\ UNCHANGED <<webinar, entriesMade, webinarRequests, activations, jostled>>

\* ... and then the document.
DeleteDocument(a) ==
  /\ admin[a].at = "delete"
  /\ webinar' = [webinar EXCEPT ![admin[a].webinar] = NoWebinar]
  /\ EndAdmin(a)
  /\ UNCHANGED <<entries, webinarHistory>>

\* The service dies.
EventsCrash ==
  /\ webinarFailures < MaxWebinarFailures
  /\ webinarFailures' = webinarFailures + 1
  /\ admin' = [a \in WebinarAdmins |-> NoAdmin]
  /\ UNCHANGED <<webinarDb, entriesMade, webinarRequests, activations, jostled>>

EventsNext ==
  \/ \E a \in WebinarAdmins :
       \/ \E w \in Webinars :
            \/ \E status \in {"draft", "active"} : CreateWebinar(a, w, status)
            \/ \E status \in {"draft", "active", "closed"}, rename \in BOOLEAN :
                 UpdateWebinar(a, w, status, rename)
            \/ DeleteWebinar(a, w)
       \/ ClearActive(a) \/ InsertWebinar(a) \/ SaveWebinar(a) \/ SyncCalendar(a)
       \/ NoteEntry(a) \/ DeleteEntry(a) \/ DeleteDocument(a)
  \/ EventsCrash

EventsSpec == EventsInit /\ [][EventsNext]_eventVars

-----------------------------------------------------------------------------
(* Properties                                                                *)

Statuses == {"absent", "draft", "active", "closed"}
WebinarDocs == [status : Statuses, entry : Nat, meet : BOOLEAN]

\* Every variable has its type.
EventsTypeOK ==
  /\ webinar \in [Webinars -> WebinarDocs]
  /\ entries \subseteq 1..entriesMade
  /\ admin \in [WebinarAdmins ->
       [at : {"idle", "clear", "insert", "save", "sync", "note", "delete entry", "delete"},
        webinar : Webinars, status : Statuses, rename : BOOLEAN, seen : WebinarDocs]]
  /\ {entriesMade, webinarRequests, webinarFailures} \subseteq Nat
  /\ {activations, jostled} \subseteq BOOLEAN

\* At most one webinar is active, whatever other requests overlap and fail, unless two
\* activations were under way at once.
OneActiveWebinar ==
  activations \/ \A v, w \in Webinars :
    (webinar[v].status = "active" /\ webinar[w].status = "active") => v = w

\* When nothing is under way, the calendar has the entry of every webinar that has one
\* and no other, unless requests for one webinar overlapped or something failed.
CalendarMatches ==
  ((\A a \in WebinarAdmins : ~Underway(a)) /\ ~jostled /\ webinarFailures = 0) =>
    entries = {webinar[w].entry : w \in Webinars} \ {0}
=============================================================================
