------------------------------ MODULE CallLog ------------------------------
(***************************************************************************)
(* The log of one call, fed by voice.call.created, voice.call.event and     *)
(* voice.call.transcription, which RabbitMQ delivers at least once, in any  *)
(* order and several at a time.  A step boundary is an await.               *)
(***************************************************************************)
EXTENDS CallOutcome, FiniteSets

CONSTANTS
  Consumers,            \* deliveries in the hands of the service at once
  Flows,                \* the signals of a call in the order of their timestamps
  SignalStatus,         \* the status each signal comes with, "none" without one
  Texts,                \* transcriptions the telephony service may send
  Nothing,
  MaxTakes, MaxCrashes  \* bounds for TLC: deliveries of one message, crashes

Elements(s) == {s[i] : i \in DOMAIN s}

\* The telephony reports each stage of a call once, however often it sends the report.
ASSUME FlowsAssumption ==
  /\ Flows \subseteq Seq(EventTypes)
  /\ \A f \in Flows : \A i, j \in DOMAIN f : f[i] = f[j] => i = j
\* A status that is sent is not empty: the list and the report differ on one that is.
ASSUME StatusAssumption ==
  DOMAIN SignalStatus = EventTypes /\ \A t \in EventTypes : SignalStatus[t] # "empty"
ASSUME TextsAssumption == Nothing \notin Texts
ASSUME CallBoundsAssumption == {MaxTakes, MaxCrashes} \subseteq Nat

Created == <<"created", "call">>
Signal(t) == <<"event", t>>
Transcription(v) == <<"text", v>>
Messages == {Created} \cup {Signal(t) : t \in EventTypes}
              \cup {Transcription(v) : v \in Texts}

VARIABLES
  flow,        \* the signals this call will have
  header,      \* customer_call_logs.status, "none" without one
  agent,       \* agentExternalRef is stored
  events,      \* customer_call_logs.events, in the order of their insertion
  text,        \* transcript
  crm,         \* CALL_CRM events of this call in customer_events
  due,         \* analyses put off by setImmediate
  at, msg,     \* where each consumer is, and its message
  takes,       \* history: deliveries of each message
  settled,     \* history: messages acknowledged or rejected for good
  crmRaced,    \* history: two deliveries of 'created' were under way at once
  unheard,     \* history: the text was changed and no analysis asked for
  crashes

callDb == <<flow, header, agent, events, text, crm>>
callHistory == <<takes, settled, crmRaced, unheard, crashes>>
callVars == <<callDb, due, at, msg, callHistory>>

CallInit ==
  /\ flow \in Flows
  /\ header = "none" /\ agent = FALSE /\ events = <<>> /\ text = Nothing
  /\ crm = 0 /\ due = 0
  /\ at = [c \in Consumers |-> "idle"]
  /\ msg = [c \in Consumers |-> Nothing]
  /\ takes = [m \in Messages |-> 0]
  /\ settled = {} /\ crmRaced = FALSE /\ unheard = FALSE /\ crashes = 0

Stored == Elements(events)
TimeOf(t) == CHOOSE i \in DOMAIN flow : flow[i] = t

\* The consumer gets a message and makes its first write with it.
Deliver(c, m, next) ==
  /\ at[c] = "idle" /\ takes[m] < MaxTakes
  /\ takes' = [takes EXCEPT ![m] = @ + 1]
  /\ at' = [at EXCEPT ![c] = next]
  /\ msg' = [msg EXCEPT ![c] = m]

CallGoto(c, place) == at' = [at EXCEPT ![c] = place]

\* ack, or nack without requeue: the message does not come back by itself.  A
\* transcription asks for an analysis in the same turn of the event loop.
Ack(c) ==
  /\ at[c] = "ack"
  /\ settled' = settled \cup {msg[c]}
  /\ due' = IF msg[c][1] = "text" THEN due + 1 ELSE due
  /\ CallGoto(c, "idle")
  /\ msg' = [msg EXCEPT ![c] = Nothing]
  /\ UNCHANGED <<callDb, takes, crmRaced, unheard, crashes>>

-----------------------------------------------------------------------------
\* createVoiceCall: createOrUpdateCallHeader ...
TakeCreated(c) ==
  /\ Deliver(c, Created, "crm look")
  /\ header' = "initiated" /\ agent' = TRUE
  /\ crmRaced' = (crmRaced \/ \E d \in Consumers : msg[d] = Created)
  /\ UNCHANGED <<flow, events, text, crm, due, settled, unheard, crashes>>

\* ... createCallCrmEvent looks for the dedupeKey of the call, if its customer is
\* there ...
CrmLook(c) ==
  /\ at[c] = "crm look"
  /\ \/ CallGoto(c, IF crm > 0 THEN "ack" ELSE "crm create")
     \/ CallGoto(c, "ack")
  /\ UNCHANGED <<callDb, due, msg, callHistory>>

\* ... and writes the event.
CrmCreate(c) ==
  /\ at[c] = "crm create"
  /\ crm' = crm + 1
  /\ CallGoto(c, "ack")
  /\ UNCHANGED <<flow, header, agent, events, text, due, msg, callHistory>>

-----------------------------------------------------------------------------
\* appendVoiceCallEvent: ensureCallExists, whose upsert changes nothing we keep ...
TakeSignal(c, t) ==
  /\ t \in Elements(flow)
  /\ Deliver(c, Signal(t), "signal")
  /\ UNCHANGED <<callDb, due, settled, crmRaced, unheard, crashes>>

\* ... updateCallHeaderTranscription with what the event brings, if anything ...
SignalText(c) ==
  /\ at[c] = "signal"
  /\ \/ UNCHANGED <<text, unheard>>
     \/ /\ msg[c] = Signal("transcription-updated")
        /\ text' \in Texts /\ unheard' = TRUE
  /\ CallGoto(c, "update")
  /\ UNCHANGED <<flow, header, agent, events, crm, due, msg, takes, settled, crmRaced, crashes>>

\* Fault: a call without a row of this type is left as it is.
UpdateOnly(c) ==
  /\ at[c] = "update"
  /\ CallGoto(c, "ack")
  /\ UNCHANGED <<callDb, due, msg, callHistory>>

\* ... appendOrUpdateEvent replaces the event of this type ...
Update(c) ==
  /\ at[c] = "update"
  /\ CallGoto(c, IF msg[c][2] \in Stored THEN "ack" ELSE "push")
  /\ UNCHANGED <<callDb, due, msg, callHistory>>

\* Fault: the push does not ask again whether the type is there.
PushAnyway(c) ==
  /\ at[c] = "push"
  /\ events' = Append(events, msg[c][2])
  /\ CallGoto(c, "ack")
  /\ UNCHANGED <<flow, header, agent, text, crm, due, msg, callHistory>>

\* ... or pushes it where the type is still missing.  Where it is not, the upsert
\* runs into the unique callSid: the handler throws and the message is rejected.
Push(c) ==
  /\ at[c] = "push"
  /\ events' = IF msg[c][2] \in Stored THEN events ELSE Append(events, msg[c][2])
  /\ CallGoto(c, "ack")
  /\ UNCHANGED <<flow, header, agent, text, crm, due, msg, callHistory>>

-----------------------------------------------------------------------------
\* saveVoiceCallTranscription: ensureCallExists, then the text.
TakeText(c, v) ==
  /\ Deliver(c, Transcription(v), "text")
  /\ UNCHANGED <<callDb, due, settled, crmRaced, unheard, crashes>>

SaveText(c) ==
  /\ at[c] = "text"
  /\ text' = msg[c][2] /\ unheard' = FALSE
  /\ CallGoto(c, "ack")
  /\ UNCHANGED <<flow, header, agent, events, crm, due, msg, takes, settled, crmRaced, crashes>>

\* The service dies: its messages are delivered again, what was put off is lost.
CallCrash ==
  /\ crashes < MaxCrashes
  /\ crashes' = crashes + 1
  /\ at' = [c \in Consumers |-> "idle"]
  /\ msg' = [c \in Consumers |-> Nothing]
  /\ due' = 0
  /\ UNCHANGED <<callDb, takes, settled, crmRaced, unheard>>

CallSteps == \E c \in Consumers :
  \/ TakeCreated(c) \/ CrmLook(c) \/ CrmCreate(c)
  \/ \E t \in EventTypes : TakeSignal(c, t)
  \/ SignalText(c) \/ Update(c) \/ Push(c)
  \/ \E v \in Texts : TakeText(c, v)
  \/ SaveText(c) \/ Ack(c)

CallNext == CallSteps \/ CallCrash
CallSpec == CallInit /\ [][CallNext]_callVars

-----------------------------------------------------------------------------
(* Properties                                                                *)

\* Every variable has its type.
CallTypeOK ==
  /\ flow \in Flows /\ header \in {"none", "initiated"} /\ agent \in BOOLEAN
  /\ events \in Seq(EventTypes) /\ text \in Texts \cup {Nothing}
  /\ crm \in Nat /\ due \in Nat
  /\ at \in [Consumers -> {"idle", "crm look", "crm create", "signal", "update",
                           "push", "text", "ack"}]
  /\ msg \in [Consumers -> Messages \cup {Nothing}]
  /\ takes \in [Messages -> Nat] /\ settled \subseteq Messages
  /\ crmRaced \in BOOLEAN /\ unheard \in BOOLEAN /\ crashes \in Nat

\* The list of a call has one row per type, whichever deliveries of one signal
\* race between the update and the push.
OneEventPerType == \A i, j \in DOMAIN events : events[i] = events[j] => i = j

\* A call has one CALL_CRM event unless two deliveries of its creation overlapped:
\* repetitions and crashes alone do not duplicate it.
OneCrmEvent == crmRaced \/ crm <= 1

Rows == [i \in DOMAIN events |->
           [type |-> events[i], time |-> TimeOf(events[i]),
            status |-> SignalStatus[events[i]]]]

\* What happened last before the call ended, by the clock of the telephony.
TrueOutcome ==
  LET ends == {i \in DOMAIN flow : flow[i] = "completed"}
      n == IF ends = {} THEN Len(flow) ELSE (CHOOSE i \in ends : TRUE) - 1
      status == SignalStatus[flow[n]]
  IN IF n = 0 THEN StatusOutcome(header)
     ELSE EventOutcome(flow[n], IF status = "none" THEN header ELSE status)

\* In whatever order its signals arrived, and however often, a call whose signals
\* have all arrived is shown with the last signal before its end; and the staff report,
\* which is to be kept in sync, counts it as what the list shows, all the while.
OutcomeIsLastSignal ==
  /\ (\A t \in Elements(flow) : Signal(t) \in settled) => Resolved(Rows, header) = TrueOutcome
  /\ ReportedOutcome(Rows, header) = Resolved(Rows, header)

\* The log implements the history of the call: nothing that left the queue is
\* missing from it, duplicates, crashes and rejected messages included.
Reported == INSTANCE CallHistory WITH
  Signals <- EventTypes,
  reported <- Stored,
  taken <- {t \in EventTypes : Signal(t) \in settled}

ImplementsHistory == Reported!HistorySpec

\* However often messages come, the log and the history of the customer have each once.
CallCorrect == CallTypeOK /\ OneEventPerType /\ OneCrmEvent
=============================================================================
