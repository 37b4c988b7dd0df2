--------------------------- MODULE LeadConversation ---------------------------
(***************************************************************************)
(* One WhatsApp qualification session and everything that moves it at the   *)
(* same time: RabbitMQ handlers of the customer's messages, the outbound    *)
(* queue that sends the bot's sequences, the one-hour reminder job, and the *)
(* administrator who restarts or deletes the session.  A session document   *)
(* read before an await is the snapshot of the process that holds it; the   *)
(* only lock is the compare-and-set on its version.                         *)
(*                                                                          *)
(* Data is reduced to what the flow tells apart.  A message says one answer,*)
(* by button or as text; a question is its kind; lastQuestionAt is the      *)
(* version the question was asked at; bookSlot is one step (its own races   *)
(* are in LeadCallSlots).                                                   *)
(***************************************************************************)
EXTENDS Naturals, FiniteSets

CONSTANTS
  Messages,     \* WhatsApp message ids (wamid)
  Handlers,     \* RabbitMQ deliveries handled at once (prefetch)
  Slots,        \* starts of 30-minute calls
  Starts,       \* steps a run begins at: "none", or a question just asked
  Answers,      \* what the customer may say, a subset of Saying
  None,
  IntroLength,  \* messages of a project introduction
  Patient,      \* the customer only writes when the bot has finished talking,
                \* and the hour of the reminder is not over while a message is
                \* under way
  MaxDeliveries, MaxAborts, MaxFailures, MaxAdmin   \* bounds for TLC

MAX_TRANSITION_ATTEMPTS == 3
MAX_QUESTION_RETRIES == 2

QuestionSteps ==
  {"ask_project", "ask_lot_range", "ask_payment", "ask_schedule", "ask_call_slot"}
Steps == QuestionSteps \cup {"initial", "reminder_sent", "scheduled", "closed"}
Statuses == {"active", "scheduled", "disqualified", "abandoned"}
Kinds == {"none", "project", "lot", "payment", "period", "slot", "reminder"}
ScoreEvents == {"lot_range", "payment", "schedule", "reminder_declined"}
Saying == {"project", "all", "lot", "payment", "period", "yes", "no", "other"} \cup Slots

ASSUME NoneAssumption == None \notin Saying
ASSUME AnswersAssumption == Answers \subseteq Saying
ASSUME StartsAssumption == Starts \subseteq QuestionSteps \cup {"none"}
ASSUME LengthAssumption == IntroLength \in Nat \ {0}
ASSUME PatientAssumption == Patient \in BOOLEAN

VARIABLES
  session,    \* the session document
  exists,     \* it is in the collection
  call,       \* its pending call in ventor_schedule_events, or None
  metadata,   \* customer_metadata.scheduledCallAt, or None
  logged,     \* wamid -> id of the session its transcript row is in, 0 if none
  said,       \* what each message says, None before the customer writes it
  deliveries, \* how often each message was delivered
  inbound,    \* the handlers
  chains,     \* sequences in the outbound queue
  sender,     \* the outbound worker (concurrency 1)
  reminder,   \* the job reminder-{sessionId}
  admin,      \* the request that restarts or deletes
  applied,    \* history: transitions each message caused in this session's life
  reminders,  \* history: reminder messages queued
  shown,      \* history: the last question the customer was sent
  offered,    \* history: the kinds of question the customer was ever sent
  collided,   \* history: BullMQ ignored an add because the job was running
  aborts, failures, commands   \* history, bounded for TLC

store == <<session, exists, call, metadata, logged>>
queues == <<chains, sender, reminder>>
told == <<applied, reminders, shown, offered, collided>>
bounds == <<aborts, failures, commands>>
vars == <<store, said, deliveries, inbound, queues, admin, told, bounds>>

\* A new document: upserted by the first message, ids and versions never repeat.
Fresh(s) ==
  [id |-> s.version + 1, version |-> s.version + 1, step |-> "initial",
   before |-> "none", status |-> "active", asked |-> "none", askedAt |-> 0,
   retries |-> 0, reminded |-> FALSE, scored |-> {}, slot |-> None, heard |-> FALSE]

NoPlan == [step |-> "initial", status |-> "active", asks |-> "none", length |-> 0,
           expects |-> FALSE, retry |-> FALSE, scores |-> {}, slot |-> None]
NoReminder == [at |-> "none", question |-> 0, seen |-> 0]
NoChain == [sid |-> 0, left |-> 0, question |-> 0, asks |-> "none"]
NobodyAsks == [at |-> "idle", sid |-> 0, sends |-> FALSE, question |-> 0]

Nothing == [Fresh([version |-> 0]) EXCEPT !.id = 0, !.version = 0]
Free == [at |-> "idle", m |-> None, snap |-> Nothing, plan |-> NoPlan, tries |-> 0]

\* The question each step waits for an answer to.
KindOf == [s \in QuestionSteps \cup {"reminder_sent"} |->
  CASE s = "ask_project" -> "project"
    [] s = "ask_lot_range" -> "lot"
    [] s = "ask_payment" -> "payment"
    [] s = "ask_schedule" -> "period"
    [] s = "ask_call_slot" -> "slot"
    [] OTHER -> "reminder"]

\* A session that has come to a step by the shortest way (one update per step
\* after the upsert), its question sent and its reminder armed.
Depth(step) ==
  CASE step = "ask_project" -> 2 [] step = "ask_call_slot" -> 4 [] OTHER -> 3
Begun(step) ==
  [Fresh(Nothing) EXCEPT !.version = Depth(step), !.step = step, !.heard = TRUE,
     !.asked = KindOf[step], !.askedAt = Depth(step)]

Init ==
  /\ \/ "none" \in Starts /\ session = Nothing
     \/ \E step \in Starts \ {"none"} : session = Begun(step)
  /\ exists = (session # Nothing)
  /\ call = None /\ metadata = None
  /\ logged = [m \in Messages |-> 0]
  /\ said = [m \in Messages |-> None]
  /\ deliveries = [m \in Messages |-> 0]
  /\ inbound = [p \in Handlers |-> Free]
  /\ chains = {} /\ sender = [at |-> "idle", chain |-> NoChain]
  /\ reminder = IF exists THEN [NoReminder EXCEPT !.at = "waiting",
                                 !.question = session.askedAt]
                ELSE NoReminder
  /\ admin = NobodyAsks
  /\ applied = [m \in Messages |-> 0] /\ reminders = 0
  /\ shown = session.asked
  /\ offered = IF exists THEN {"project", session.asked} ELSE {}
  /\ collided = FALSE
  /\ aborts = 0 /\ failures = 0 /\ commands = 0

Live(sid) == exists /\ session.id = sid

-----------------------------------------------------------------------------
(* The state machine: what one message does to one snapshot                  *)

Options == [k \in Kinds |->
  CASE k = "project" -> {"project", "all"}
    [] k = "lot" -> {"lot"}
    [] k = "payment" -> {"payment"}
    [] k = "period" -> {"period"}
    [] k = "slot" -> Slots
    [] k = "reminder" -> {"yes", "no"}
    [] OTHER -> {}]

\* A button always names its option; a text only matches the pending ones.
Selected(s, m) ==
  IF m.button \/ m.says \in Options[s.asked] THEN m.says ELSE None

\* A button that the reminder does not offer belongs to the question before it.
EffectiveStep(s, m) ==
  IF /\ s.step = "reminder_sent" /\ s.before # "none"
     /\ m.button /\ m.says \notin Options[s.asked]
  THEN s.before ELSE s.step

Noop(step) == [NoPlan EXCEPT !.step = step]
Ask(step, kind, n) ==
  [Noop(step) EXCEPT !.asks = kind, !.length = n, !.expects = TRUE]

AskProject == Ask("ask_project", "project", 1)
AskSchedule == Ask("ask_schedule", "period", 1)
ProjectIntro == {Ask("ask_lot_range", "lot", IntroLength),
                 Ask("ask_payment", "payment", IntroLength)}
\* The list of free slots after n - 1 notices, or the period buttons again.
AskCallSlot(n) == {Ask("ask_call_slot", "slot", n), AskSchedule}

Exhausted(s) == s.retries >= MAX_QUESTION_RETRIES

\* Re-asks at most twice, then stays silent: lists are composed anew, any other
\* question is the last one stored, whatever step is being retried.
Retry(s, step) ==
  IF Exhausted(s) THEN {Noop(step)}
  ELSE {[t EXCEPT !.retry = TRUE] : t \in
          CASE step = "ask_call_slot" -> {[f EXCEPT !.length = 2] : f \in AskCallSlot(1)}
            [] step = "ask_project" -> {Ask(step, "project", 2)}
            [] OTHER -> {Ask(step, s.asked, IF s.asked = "none" THEN 0 ELSE 2)}}

Scores(plan, event) == [plan EXCEPT !.scores = {event}]
Confirmation(slot) ==
  [Noop("scheduled") EXCEPT !.status = "scheduled", !.length = 2,
     !.scores = {"schedule"}, !.slot = slot]
Declined ==
  [Noop("closed") EXCEPT !.status = "disqualified", !.length = 1,
     !.scores = {"reminder_declined"}]

\* The handler of each step, as the plans it may return.
Handle(s, step, m) ==
  LET option == Selected(s, m) IN
  CASE step = "initial" ->
         IF m.says = "project" THEN ProjectIntro ELSE {AskProject}
    [] step = "ask_project" ->
         IF option = "all" THEN {AskSchedule}
         ELSE IF m.says = "project" THEN ProjectIntro ELSE Retry(s, step)
    [] step = "ask_lot_range" ->
         IF option = "lot" THEN {Scores(Ask("ask_payment", "payment", 1), "lot_range")}
         ELSE Retry(s, step)
    [] step = "ask_payment" ->
         IF option = "payment" THEN {Scores(AskSchedule, "payment")} ELSE Retry(s, step)
    [] step = "ask_schedule" ->
         IF option = "period" THEN AskCallSlot(1) ELSE Retry(s, step)
    [] step = "ask_call_slot" ->
         IF option \in Slots THEN {Confirmation(option)} \cup AskCallSlot(2)
         ELSE Retry(s, step)
    [] step = "reminder_sent" ->
         IF option = "yes" THEN {AskSchedule}
         ELSE IF option = "no" THEN {Declined} ELSE Retry(s, step)
    [] OTHER -> {Noop(step)}

\* applyTransition: the document the plan turns the snapshot into.
Advanced(s, plan) ==
  LET question == plan.expects /\ plan.asks # "none" IN
  [s EXCEPT !.version = @ + 1, !.step = plan.step,
     !.status = IF plan.status = "active" THEN @ ELSE plan.status,
     !.scored = @ \cup plan.scores,
     !.slot = IF plan.slot = None THEN @ ELSE plan.slot,
     !.retries = IF plan.retry THEN @ + 1 ELSE 0,
     !.heard = TRUE,
     !.askedAt = IF question THEN s.version + 1 ELSE @,
     !.asked = IF question THEN plan.asks
               ELSE IF ~plan.expects /\ plan.length > 0 THEN "none" ELSE @]

NothingInTransit == \A m \in Messages : said[m] # None => deliveries[m] > 0
Silent == chains = {} /\ sender.at = "idle" /\ \A p \in Handlers : inbound[p].at = "idle"

-----------------------------------------------------------------------------
(* BullMQ's reminder job: one per session, by its jobId                      *)

\* remove(): a running job is locked and stays.
Cancelled(sid) ==
  IF reminder.at = "waiting" /\ sid = session.id THEN NoReminder ELSE reminder

\* add(): ignored while a job of that id is there.
Add(sid, question) ==
  /\ reminder' = IF reminder.at = "none" /\ Live(sid)
                 THEN [at |-> "waiting", question |-> question, seen |-> 0]
                 ELSE reminder
  /\ collided' = (collided \/ reminder.at \in {"active", "marked"})

-----------------------------------------------------------------------------
(* The customer and the gateway                                              *)

Write(m, answer) ==
  /\ said[m] = None
  /\ answer.button => \E k \in offered : answer.says \in Options[k]
  /\ Patient => Silent /\ NothingInTransit /\ reminder.at \notin {"active", "marked"}
  /\ said' = [said EXCEPT ![m] = answer]
  /\ UNCHANGED <<store, deliveries, inbound, queues, admin, told, bounds>>

\* The webhook reaches a handler, perhaps again; the session is found or created.
Deliver(p, m) ==
  /\ inbound[p].at = "idle" /\ said[m] # None /\ deliveries[m] < MaxDeliveries
  /\ deliveries' = [deliveries EXCEPT ![m] = @ + 1]
  /\ session' = IF exists THEN session ELSE Fresh(session)
  /\ call' = IF exists THEN call ELSE None
  /\ applied' = IF exists THEN applied ELSE [n \in Messages |-> 0]
  /\ exists' = TRUE
  /\ inbound' = [inbound EXCEPT ![p] =
                   [Free EXCEPT !.at = "log", !.m = m, !.snap = session']]
  /\ UNCHANGED <<metadata, logged, said, queues, admin, reminders, shown, offered,
                 collided, bounds>>

-----------------------------------------------------------------------------
(* LeadConversationInboundService.executeProcessMessage                      *)

Move(p, at) == inbound' = [inbound EXCEPT ![p].at = at]
Finish(p) == inbound' = [inbound EXCEPT ![p] = Free]

\* Fault: looks the wamid up instead of inserting its transcript row.
LogByReading(p) ==
  /\ inbound[p].at = "log"
  /\ IF logged[inbound[p].m] = 0 THEN Move(p, "cancel") ELSE Finish(p)
  /\ UNCHANGED <<store, said, deliveries, queues, admin, told, bounds>>

\* The unique wamid index lets one delivery of a message through.
LogMessage(p) ==
  /\ inbound[p].at = "log"
  /\ \/ /\ logged[inbound[p].m] = 0
        /\ logged' = [logged EXCEPT ![inbound[p].m] = inbound[p].snap.id]
        /\ Move(p, "cancel")
     \/ /\ logged[inbound[p].m] # 0
        /\ logged' = logged
        /\ Finish(p)
  /\ UNCHANGED <<session, exists, call, metadata, said, deliveries, queues, admin,
                 told, bounds>>

CancelReminder(p) ==
  /\ inbound[p].at = "cancel"
  /\ reminder' = Cancelled(inbound[p].snap.id)
  /\ Move(p, "decide")
  /\ UNCHANGED <<store, said, deliveries, chains, sender, admin, told, bounds>>

\* Fault: the previous call is cancelled before the new one is known to be free.
BookedCancelFirst(old, plan, picked) ==
  IF plan.slot # None THEN plan.slot ELSE IF picked THEN None ELSE old

\* bookSlot: the new call replaces the session's pending one once it exists.
Booked(old, plan, picked) == IF plan.slot # None THEN plan.slot ELSE old

\* The state machine decides on the snapshot; booking a call is part of deciding.
Decide(p) ==
  LET s == inbound[p].snap
      m == said[inbound[p].m]
      step == EffectiveStep(s, m)
  IN
  /\ inbound[p].at = "decide"
  /\ \E plan \in Handle(s, step, m) :
       /\ inbound' = [inbound EXCEPT ![p].at = "apply", ![p].plan = plan]
       /\ call' = IF s.id # session.id THEN call
                  ELSE Booked(call, plan, step = "ask_call_slot" /\ Selected(s, m) \in Slots)
  /\ UNCHANGED <<session, exists, metadata, logged, said, deliveries, queues, admin,
                 told, bounds>>

AfterApply(plan) == IF plan.slot # None THEN "qualify" ELSE "dispatch"

\* Fault: the update is not conditional on the version read.
CurrentById(s) == Live(s.id)
\* The filter {_id, version} matches: the snapshot is the document.
Current(s) == Live(s.id) /\ session.version = s.version

\* Compare-and-set on the version; a conflict re-reads, three drop the message.
Apply(p) ==
  LET h == inbound[p] IN
  /\ h.at = "apply"
  /\ \/ /\ Current(h.snap)
        /\ session' = Advanced(h.snap, h.plan)
        /\ applied' = [applied EXCEPT ![h.m] = @ + 1]
        /\ inbound' = [inbound EXCEPT ![p].at = AfterApply(h.plan), ![p].snap = session']
     \/ /\ ~Current(h.snap) /\ Live(h.snap.id)
        /\ h.tries + 1 < MAX_TRANSITION_ATTEMPTS
        /\ inbound' = [inbound EXCEPT ![p].at = "decide", ![p].snap = session,
                                      ![p].tries = @ + 1]
        /\ UNCHANGED <<session, applied>>
     \/ /\ ~Current(h.snap)
        /\ ~Live(h.snap.id) \/ h.tries + 1 >= MAX_TRANSITION_ATTEMPTS
        /\ Finish(p)
        /\ UNCHANGED <<session, applied>>
  /\ UNCHANGED <<exists, call, metadata, logged, said, deliveries, queues, admin,
                 reminders, shown, offered, collided, bounds>>

\* The answers of the scheduled session go to the customer's metadata.
Qualify(p) ==
  /\ inbound[p].at = "qualify"
  /\ metadata' = inbound[p].snap.slot
  /\ Move(p, "dispatch")
  /\ UNCHANGED <<session, exists, call, logged, said, deliveries, queues, admin,
                 told, bounds>>

\* Fault: a silent turn leaves the reminder cancelled.
NeverNeedsReminder(s) == FALSE
NeedsReminder(s) == s.status = "active" /\ ~s.reminded /\ s.askedAt # 0

\* Queues the bot's sequence; a silent turn arms the pending question again.
Dispatch(p) ==
  LET h == inbound[p] IN
  /\ h.at = "dispatch"
  /\ \/ /\ h.plan.length > 0
        /\ chains' = chains \cup {[sid |-> h.snap.id, left |-> h.plan.length,
                        question |-> IF h.plan.expects THEN h.snap.askedAt ELSE 0,
                        asks |-> h.plan.asks]}
        /\ Finish(p)
        /\ reminder' = reminder
     \/ /\ h.plan.length = 0 /\ NeedsReminder(h.snap)
        /\ reminder' = Cancelled(h.snap.id)
        /\ Move(p, "rearm")
        /\ chains' = chains
     \/ /\ h.plan.length = 0 /\ ~NeedsReminder(h.snap)
        /\ Finish(p)
        /\ UNCHANGED <<chains, reminder>>
  /\ UNCHANGED <<store, said, deliveries, sender, admin, told, bounds>>

Rearm(p) ==
  /\ inbound[p].at = "rearm"
  /\ Add(inbound[p].snap.id, inbound[p].snap.askedAt)
  /\ Finish(p)
  /\ UNCHANGED <<store, said, deliveries, chains, sender, admin, applied, reminders,
                 shown, offered, bounds>>

\* A crash, or an exception: the delivery is acknowledged in the finally block.
Abort(p) ==
  /\ inbound[p].at # "idle" /\ aborts < MaxAborts
  /\ aborts' = aborts + 1
  /\ Finish(p)
  /\ UNCHANGED <<store, said, deliveries, queues, admin, told, failures, commands>>

InboundNext == \E p \in Handlers :
  \/ \E m \in Messages : Deliver(p, m)
  \/ LogMessage(p) \/ CancelReminder(p) \/ Decide(p) \/ Apply(p)
  \/ Qualify(p) \/ Dispatch(p) \/ Rearm(p) \/ Abort(p)

-----------------------------------------------------------------------------
(* The outbound queue: one worker, one chained job per message               *)

\* The job's session check and the RPC; a deleted session drops the sequence.
SendMessage(c) ==
  /\ sender.at = "idle" /\ c \in chains
  /\ IF Live(c.sid)
     THEN sender' = [at |-> "sent", chain |-> c] /\ chains' = chains
     ELSE sender' = sender /\ chains' = chains \ {c}
  /\ shown' = IF Live(c.sid) /\ c.left = 1 /\ c.asks # "none" THEN c.asks ELSE shown
  /\ offered' = offered \cup ({shown'} \ {"none"})
  /\ UNCHANGED <<store, said, deliveries, inbound, reminder, admin, applied, reminders,
                 collided, bounds>>

\* The gateway answers success = false and the job goes on as if the message had
\* been shown; or all three attempts time out and the rest of the sequence is lost.
SendFails(c) ==
  /\ sender.at = "idle" /\ c \in chains /\ Live(c.sid) /\ failures < MaxFailures
  /\ failures' = failures + 1
  /\ \/ sender' = [at |-> "sent", chain |-> c] /\ chains' = chains
     \/ sender' = sender /\ chains' = chains \ {c}
  /\ UNCHANGED <<store, said, deliveries, inbound, reminder, admin, told,
                 aborts, commands>>

\* Fault: the question is not handed on to the next job.
RestForgetsQuestion(c) == [c EXCEPT !.left = @ - 1, !.question = 0]
Rest(c) == [c EXCEPT !.left = @ - 1]

\* executeContinue: the next message is queued; the last one cancels the
\* reminder that is there to arm its own.
Continue ==
  LET c == sender.chain IN
  /\ sender.at = "sent"
  /\ \/ /\ c.left > 1
        /\ chains' = (chains \ {c}) \cup {Rest(c)}
        /\ sender' = [at |-> "idle", chain |-> NoChain]
        /\ reminder' = reminder
     \/ /\ c.left = 1 /\ c.question = 0
        /\ chains' = chains \ {c}
        /\ sender' = [at |-> "idle", chain |-> NoChain]
        /\ reminder' = reminder
     \/ /\ c.left = 1 /\ c.question # 0
        /\ reminder' = Cancelled(c.sid)
        /\ sender' = [sender EXCEPT !.at = "arm"]
        /\ chains' = chains
  /\ UNCHANGED <<store, said, deliveries, inbound, admin, told, bounds>>

ArmReminder ==
  /\ sender.at = "arm"
  /\ Add(sender.chain.sid, sender.chain.question)
  /\ chains' = chains \ {sender.chain}
  /\ sender' = [at |-> "idle", chain |-> NoChain]
  /\ UNCHANGED <<store, said, deliveries, inbound, admin, applied, reminders, shown,
                 offered, bounds>>

\* A crash: BullMQ runs the stalled job again, and its message is sent again.
SenderCrash ==
  /\ sender.at # "idle" /\ aborts < MaxAborts
  /\ aborts' = aborts + 1
  /\ sender' = [at |-> "idle", chain |-> NoChain]
  /\ UNCHANGED <<store, said, deliveries, inbound, chains, reminder, admin, told,
                 failures, commands>>

OutboundNext ==
  \/ \E c \in chains : SendMessage(c) \/ SendFails(c)
  \/ Continue \/ ArmReminder \/ SenderCrash

-----------------------------------------------------------------------------
(* LeadReminderProcessor: fires after an hour of silence                     *)

Due(question) ==
  /\ exists /\ session.status = "active" /\ ~session.reminded
  /\ session.step \in QuestionSteps /\ session.askedAt = question

\* The job starts and reads the session; 0 is a version no session has.
FireReminder ==
  /\ reminder.at = "waiting"
  /\ Patient => Silent /\ NothingInTransit
  /\ reminder' = [reminder EXCEPT !.at = "active",
                    !.seen = IF Due(reminder.question) THEN session.version ELSE 0]
  /\ UNCHANGED <<store, said, deliveries, inbound, chains, sender, admin, told, bounds>>

\* Fault: the options stored stay those of the question before.
RemindedKeepsOptions(s) ==
  [s EXCEPT !.version = @ + 1, !.step = "reminder_sent", !.before = s.step,
     !.askedAt = s.version + 1, !.reminded = TRUE, !.retries = 0]
Reminded(s) ==
  [s EXCEPT !.version = @ + 1, !.step = "reminder_sent", !.before = s.step,
     !.asked = "reminder", !.askedAt = s.version + 1, !.reminded = TRUE, !.retries = 0]

\* Fault: the update is not conditional on the version read.
SeenDue == reminder.seen # 0
SeenCurrent == exists /\ session.version = reminder.seen

\* markReminderSent: compare-and-set on the version the job read.
MarkReminder ==
  /\ reminder.at = "active"
  /\ IF SeenCurrent
     THEN session' = Reminded(session) /\ reminder' = [reminder EXCEPT !.at = "marked"]
     ELSE session' = session /\ reminder' = NoReminder
  /\ UNCHANGED <<exists, call, metadata, logged, said, deliveries, inbound, chains,
                 sender, admin, told, bounds>>

SendReminder ==
  /\ reminder.at = "marked"
  /\ chains' = chains \cup {[sid |-> session.id, left |-> 1, question |-> 0,
                             asks |-> "reminder"]}
  /\ reminder' = NoReminder
  /\ reminders' = reminders + 1
  /\ UNCHANGED <<store, said, deliveries, inbound, sender, admin, applied, shown,
                 offered, collided, bounds>>

\* A crash: BullMQ runs the stalled job again.
ReminderCrash ==
  /\ reminder.at \in {"active", "marked"} /\ aborts < MaxAborts
  /\ aborts' = aborts + 1
  /\ reminder' = [reminder EXCEPT !.at = "waiting", !.seen = 0]
  /\ UNCHANGED <<store, said, deliveries, inbound, chains, sender, admin, told,
                 failures, commands>>

ReminderNext ==
  FireReminder \/ MarkReminder \/ SendReminder \/ ReminderCrash

-----------------------------------------------------------------------------
(* LeadConversationAdminService                                              *)

\* Restart or delete: the session is read, its reminder cancelled.  A restart
\* sends the welcome list if the customer wrote in the last 24 hours.
AdminCancel(at) ==
  /\ admin.at = "idle" /\ exists /\ commands < MaxAdmin
  /\ commands' = commands + 1
  /\ reminder' = Cancelled(session.id)
  /\ \E sends \in IF at = "reset" /\ session.heard THEN BOOLEAN ELSE {FALSE} :
       admin' = [at |-> at, sid |-> session.id, sends |-> sends, question |-> 0]
  /\ UNCHANGED <<store, said, deliveries, inbound, chains, sender, told, aborts, failures>>

Reset(s, sends) ==
  [Fresh(s) EXCEPT !.id = s.id, !.heard = s.heard,
     !.step = IF sends THEN "ask_project" ELSE "initial",
     !.asked = IF sends THEN "project" ELSE "none",
     !.askedAt = IF sends THEN s.version + 1 ELSE 0]

\* The reset increments the version, without a condition on it.
RestartReset ==
  /\ admin.at = "reset"
  /\ session' = IF Live(admin.sid) THEN Reset(session, admin.sends) ELSE session
  /\ applied' = IF Live(admin.sid) THEN [m \in Messages |-> 0] ELSE applied
  /\ admin' = IF admin.sends
              THEN [admin EXCEPT !.at = "welcome", !.question = session.version + 1]
              ELSE NobodyAsks
  /\ UNCHANGED <<exists, call, metadata, logged, said, deliveries, inbound, queues,
                 reminders, shown, offered, collided, bounds>>

RestartDispatch ==
  /\ admin.at = "welcome"
  /\ chains' = chains \cup {[sid |-> admin.sid, left |-> 1, question |-> admin.question,
                             asks |-> "project"]}
  /\ admin' = NobodyAsks
  /\ UNCHANGED <<store, said, deliveries, inbound, sender, reminder, told, bounds>>

\* The transcript goes first, the session after it.
DeleteMessages ==
  /\ admin.at = "purge"
  /\ logged' = [m \in Messages |-> IF logged[m] = admin.sid THEN 0 ELSE logged[m]]
  /\ admin' = [admin EXCEPT !.at = "drop"]
  /\ UNCHANGED <<session, exists, call, metadata, said, deliveries, inbound, queues,
                 told, bounds>>

\* Its call stays in the agenda, under a session id nobody looks up any more.
DeleteSession ==
  /\ admin.at = "drop"
  /\ exists' = (exists /\ session.id # admin.sid)
  /\ reminder' = IF session.id = admin.sid THEN NoReminder ELSE reminder
  /\ admin' = NobodyAsks
  /\ UNCHANGED <<session, call, metadata, logged, said, deliveries, inbound, chains,
                 sender, told, bounds>>

AdminNext ==
  \/ \E at \in {"reset", "purge"} : AdminCancel(at)
  \/ RestartReset \/ RestartDispatch \/ DeleteMessages \/ DeleteSession

-----------------------------------------------------------------------------

\* What the customer may write: an answer, by a button or as text.
Message == [says : Answers, button : BOOLEAN]

CustomerNext == \E m \in Messages, answer \in Message : Write(m, answer)

Next == CustomerNext \/ InboundNext \/ OutboundNext \/ ReminderNext \/ AdminNext

Spec == Init /\ [][Next]_vars

\* A process that is running goes on, the broker delivers what was written, the
\* outbound worker takes every queued job, the hour of a reminder ends.  The
\* customer, the administrator and the faults owe nothing.
FairSpec ==
  /\ Spec
  /\ \A m \in Messages : WF_vars(deliveries[m] = 0 /\ \E p \in Handlers : Deliver(p, m))
  /\ \A p \in Handlers :
       WF_vars(LogMessage(p) \/ CancelReminder(p) \/ Decide(p) \/ Apply(p)
               \/ Qualify(p) \/ Dispatch(p) \/ Rearm(p))
  /\ WF_vars(Continue \/ ArmReminder \/ \E c \in chains : SendMessage(c))
  /\ WF_vars(FireReminder) /\ WF_vars(MarkReminder) /\ WF_vars(SendReminder)

-----------------------------------------------------------------------------
(* Properties                                                                *)

SessionType ==
  [id : Nat, version : Nat, step : Steps, before : QuestionSteps \cup {"none"},
   status : Statuses, asked : Kinds, askedAt : Nat, retries : 0 .. MAX_QUESTION_RETRIES,
   reminded : BOOLEAN, scored : SUBSET ScoreEvents, slot : Slots \cup {None},
   heard : BOOLEAN]
PlanType ==
  [step : Steps, status : Statuses, asks : Kinds, length : Nat, expects : BOOLEAN,
   retry : BOOLEAN, scores : SUBSET ScoreEvents, slot : Slots \cup {None}]
HandlerType ==
  [at : {"idle", "log", "cancel", "decide", "apply", "qualify", "dispatch", "rearm"},
   m : Messages \cup {None}, snap : SessionType, plan : PlanType,
   tries : 0 .. MAX_TRANSITION_ATTEMPTS - 1]
ChainType == [sid : Nat, left : Nat, question : Nat, asks : Kinds]

\* Types; also that a question is retried at most twice (MAX_QUESTION_RETRIES),
\* whichever of the handlers, the reminder and the administrator saved last.
TypeOK ==
  /\ session \in SessionType /\ exists \in BOOLEAN
  /\ call \in Slots \cup {None} /\ metadata \in Slots \cup {None}
  /\ logged \in [Messages -> Nat]
  /\ said \in [Messages -> Message \cup {None}]
  /\ deliveries \in [Messages -> Nat]
  /\ inbound \in [Handlers -> HandlerType]
  /\ chains \subseteq ChainType
  /\ sender \in [at : {"idle", "sent", "arm"}, chain : ChainType]
  /\ reminder \in [at : {"none", "waiting", "active", "marked"}, question : Nat, seen : Nat]
  /\ admin \in [at : {"idle", "reset", "welcome", "purge", "drop"}, sid : Nat,
                 sends : BOOLEAN, question : Nat]
  /\ applied \in [Messages -> Nat] /\ reminders \in Nat
  /\ shown \in Kinds /\ offered \subseteq Kinds /\ collided \in BOOLEAN
  /\ aborts \in Nat /\ failures \in Nat /\ commands \in Nat

\* No update is lost: what the customer scored stays scored until the session
\* is restarted or a new one is created, however handlers and jobs overlap.
NothingScoredIsLost ==
  [][\/ session.scored \subseteq session'.scored
     \/ session'.id # session.id
     \/ admin.at = "reset" /\ admin'.at # "reset"]_vars

\* Meta delivers a message again and again, two handlers at a time: it moves a
\* session once (its transcript row is what forbids the second time, so a session
\* whose transcript is being deleted is left out).
AppliedOnce ==
  exists /\ admin.at # "drop" => \A m \in Messages : applied[m] <= 1

\* The reminder only interrupts an active session that is still waiting for the
\* very question the job was armed for: never a scheduled or closed one, never
\* one whose customer answered between the job's read and its write.
RemindsOnlyTheSilent ==
  [][session'.reminded /\ ~session.reminded =>
       /\ session.status = "active" /\ session.step \in QuestionSteps
       /\ session.askedAt = reminder.question]_vars

\* The customer gets the reminder once per session, and once more for each time
\* an administrator restarts or deletes it: not again when a job is armed again
\* for a retried question, nor when a stalled job runs a second time.
RemindedOnce == reminders <= 1 + commands

\* Whatever is delivered or run again, the customer's answer counts once and he is
\* reminded once.
OnceEach == AppliedOnce /\ RemindedOnce

\* A scheduled session has a pending call: a second slot picked while the first
\* is being saved may replace its call, never just remove it.
ScheduledHasCall == exists /\ session.status = "scheduled" => call # None

\* Everything has its type, no question is retried more than twice, and whoever is
\* scheduled has a call.
LeadSafe == TypeOK /\ ScheduledHasCall

Waiting ==
  exists /\ session.status = "active" /\ session.askedAt # 0
Quiet == Silent /\ admin.at = "idle" /\ reminder.at \notin {"active", "marked"}

\* Once the bot has finished talking, an unanswered question has its reminder
\* armed ("The last message of a question arms the reminder",
\* md_folder/lead-conversation.md), unless BullMQ ignored an add.
QuestionIsReminded ==
  Waiting /\ ~session.reminded /\ Quiet /\ ~collided =>
    reminder.at = "waiting" /\ reminder.question = session.askedAt

\* A question the customer does not answer does not stay as it is for ever: the
\* reminder interrupts it, unless BullMQ ignored its job.
LastVersion == 5 + Cardinality(Messages)
SilenceEnds == \A n \in 1 .. LastVersion :
  (Waiting /\ ~session.reminded /\ session.askedAt = n)
    ~> (session.reminded \/ session.askedAt # n \/ session.status # "active" \/ collided)

\* Once the bot has finished talking, the last question in the chat is the one
\* the session waits for an answer to.
ChatShowsTheQuestion == Waiting /\ Quiet => shown = session.asked

=============================================================================
