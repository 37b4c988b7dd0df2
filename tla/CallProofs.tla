----------------------------- MODULE CallProofs -----------------------------
(***************************************************************************)
(* The log of a call implements its history, for any number of consumers,   *)
(* deliveries and crashes: a signal's message is only ever left behind by a *)
(* consumer that found the signal in the list or put it there.  The call    *)
(* has one event in the history of its customer, its outcome is the same in *)
(* the list and in the report, and its audits are of the text it shows.     *)
(***************************************************************************)
EXTENDS CallAudit, FiniteSetTheorems, TLAPS

Places == {"idle", "crm look", "crm create", "signal", "update", "push", "text", "ack"}

\* What a consumer at each place holds.
Holds(c) ==
  /\ at[c] \in {"crm look", "crm create"} => msg[c] = Created
  /\ at[c] \in {"signal", "update", "push"} => \E t \in EventTypes : msg[c] = Signal(t)
  /\ at[c] = "text" => \E v \in Texts : msg[c] = Transcription(v)
  /\ at[c] # "idle" => msg[c] \in Messages

\* A message about to leave the queue has its signal in the list.
Recorded(c) == at[c] = "ack" => \A t \in EventTypes : msg[c] = Signal(t) => t \in Stored

LogInv ==
  /\ CallTypeOK
  /\ \A c \in Consumers : Holds(c) /\ Recorded(c)
  /\ \A t \in EventTypes : Signal(t) \in settled => t \in Stored
  /\ OneEventPerType

\* The messages of the three queues differ.
LEMMA MessagesDiffer ==
  /\ \A t \in EventTypes : Signal(t) # Created /\ Signal(t)[1] = "event" /\ Signal(t)[2] = t
  /\ \A t \in EventTypes, v \in Texts : Signal(t) # Transcription(v)
  /\ \A t, u \in EventTypes : Signal(t) = Signal(u) => t = u
  /\ \A v \in Texts : Transcription(v)[2] = v
BY DEF Signal, Created, Transcription

\* Appending a signal adds it to those stored, and nothing else.
LEMMA Appended ==
  ASSUME events \in Seq(EventTypes), NEW t \in EventTypes, events' = Append(events, t)
  PROVE  /\ events' \in Seq(EventTypes)
         /\ Stored' = Stored \cup {t}
         /\ Len(events') = Len(events) + 1
         /\ \A i \in DOMAIN events : events'[i] = events[i]
         /\ events'[Len(events) + 1] = t
<1>1. events' \in Seq(EventTypes) /\ Len(events') = Len(events) + 1
  OBVIOUS
<1>2. \A i \in DOMAIN events : events'[i] = events[i]
  OBVIOUS
<1>3. events'[Len(events) + 1] = t
  OBVIOUS
<1>4. DOMAIN events' = DOMAIN events \cup {Len(events) + 1}
  BY <1>1
<1> QED
  BY <1>1, <1>2, <1>3, <1>4 DEF Stored, Elements

\* The counters are numbers.
LEMMA Counters ==
  ASSUME CallTypeOK
  PROVE  crm \in Nat /\ due \in Nat /\ crashes \in Nat /\ takes \in [Messages -> Nat]
BY Zenon DEF CallTypeOK

LEMMA InitLog == CallInit => LogInv
<1> SUFFICES ASSUME CallInit PROVE LogInv
  OBVIOUS
<1>1. CallTypeOK
  <2>1. agent \in BOOLEAN /\ crmRaced \in BOOLEAN /\ unheard \in BOOLEAN
    BY DEF CallInit
  <2>2. events \in Seq(EventTypes)
    BY DEF CallInit
  <2> QED
    BY <2>1, <2>2 DEF CallInit, CallTypeOK
<1>2. \A c \in Consumers : Holds(c) /\ Recorded(c)
  BY DEF CallInit, Holds, Recorded
<1>3. (\A t \in EventTypes : Signal(t) \in settled => t \in Stored) /\ OneEventPerType
  BY DEF CallInit, OneEventPerType
<1> QED
  BY <1>1, <1>2, <1>3 DEF LogInv

\* Steps that leave the list and what has left the queue alone.
LEMMA QuietStep ==
  ASSUME LogInv, NEW c \in Consumers, CallTypeOK', UNCHANGED <<events, settled>>,
         \A d \in Consumers \ {c} : at'[d] = at[d] /\ msg'[d] = msg[d],
         Holds(c)', Recorded(c)'
  PROVE  LogInv'
<1>1. Stored' = Stored
  BY DEF Stored, Elements
<1>2. ASSUME NEW d \in Consumers PROVE Holds(d)' /\ Recorded(d)'
  BY <1>1 DEF LogInv, Holds, Recorded
<1> QED
  BY <1>1, <1>2 DEF LogInv, OneEventPerType

LEMMA DeliverTypes ==
  ASSUME CallTypeOK, NEW c \in Consumers, NEW m \in Messages, NEW place \in Places,
         Deliver(c, m, place)
  PROVE  /\ takes' \in [Messages -> Nat]
         /\ at' \in [Consumers -> Places] /\ at'[c] = place
         /\ msg' \in [Consumers -> Messages \cup {Nothing}] /\ msg'[c] = m
         /\ \A d \in Consumers \ {c} : at'[d] = at[d] /\ msg'[d] = msg[d]
<1>1. takes' \in [Messages -> Nat]
  BY Counters DEF Deliver
<1>2. at' \in [Consumers -> Places] /\ at'[c] = place
  BY DEF CallTypeOK, Deliver, Places
<1>3. msg' \in [Consumers -> Messages \cup {Nothing}] /\ msg'[c] = m
  BY DEF CallTypeOK, Deliver
<1>4. \A d \in Consumers \ {c} : at'[d] = at[d] /\ msg'[d] = msg[d]
  BY DEF CallTypeOK, Deliver
<1> QED
  BY <1>1, <1>2, <1>3, <1>4

LEMMA GotoTypes ==
  ASSUME CallTypeOK, NEW c \in Consumers, NEW place \in Places, CallGoto(c, place)
  PROVE  /\ at' \in [Consumers -> Places] /\ at'[c] = place
         /\ \A d \in Consumers \ {c} : at'[d] = at[d]
BY DEF CallTypeOK, CallGoto, Places

\* The creation of a call.
LEMMA CreatedStep ==
  ASSUME LogInv, NEW c \in Consumers, TakeCreated(c) \/ CrmLook(c) \/ CrmCreate(c)
  PROVE  LogInv'
<1> USE DEF LogInv
<1>1. CASE TakeCreated(c)
  <2>1. Created \in Messages /\ "crm look" \in Places /\ Deliver(c, Created, "crm look")
    BY <1>1 DEF Messages, Places, TakeCreated
  <2>2. /\ takes' \in [Messages -> Nat]
        /\ at' \in [Consumers -> Places] /\ at'[c] = "crm look"
        /\ msg' \in [Consumers -> Messages \cup {Nothing}] /\ msg'[c] = Created
        /\ \A d \in Consumers \ {c} : at'[d] = at[d] /\ msg'[d] = msg[d]
    BY <2>1, DeliverTypes
  <2>3. CallTypeOK'
    BY <1>1, <2>2 DEF CallTypeOK, TakeCreated, Places
  <2>4. Holds(c)' /\ Recorded(c)'
    BY <2>1, <2>2 DEF Holds, Recorded
  <2> QED
    BY <1>1, <2>2, <2>3, <2>4, QuietStep DEF TakeCreated
<1>2. CASE CrmLook(c)
  <2>1. /\ at' \in [Consumers -> Places] /\ at'[c] \in {"ack", "crm create"}
        /\ \A d \in Consumers \ {c} : at'[d] = at[d]
    BY <1>2 DEF CrmLook, CallGoto, CallTypeOK, Places
  <2>2. CallTypeOK'
    BY <1>2, <2>1 DEF CallTypeOK, CrmLook, callDb, callHistory, Places
  <2>3. msg[c] = Created
    BY <1>2 DEF CrmLook, Holds
  <2>4. Holds(c)' /\ Recorded(c)'
    BY <1>2, <2>1, <2>3, MessagesDiffer DEF Holds, Recorded, CrmLook, Messages
  <2> QED
    BY <1>2, <2>1, <2>2, <2>4, QuietStep DEF CrmLook, callDb, callHistory
<1>3. CASE CrmCreate(c)
  <2>1. /\ at' \in [Consumers -> Places] /\ at'[c] = "ack"
        /\ \A d \in Consumers \ {c} : at'[d] = at[d]
    BY <1>3, GotoTypes DEF CrmCreate, Places
  <2>2. CallTypeOK'
    <3>1. agent' \in BOOLEAN /\ crmRaced' \in BOOLEAN /\ unheard' \in BOOLEAN
      BY <1>3 DEF CallTypeOK, CrmCreate, callHistory
    <3>2. crm' \in Nat
      <4>1. crm' = crm + 1 /\ CallTypeOK
        BY <1>3 DEF CrmCreate
      <4> QED
        BY <4>1, Counters
    <3> QED
      BY <1>3, <2>1, <3>1, <3>2, Zenon DEF CallTypeOK, CrmCreate, callHistory, Places
  <2>3. msg[c] = Created
    BY <1>3 DEF CrmCreate, Holds
  <2>4. Holds(c)' /\ Recorded(c)'
    BY <1>3, <2>1, <2>3, MessagesDiffer DEF Holds, Recorded, CrmCreate, Messages
  <2> QED
    BY <1>3, <2>1, <2>2, <2>4, QuietStep DEF CrmCreate, callHistory
<1> QED
  BY <1>1, <1>2, <1>3

\* A signal, up to the update that finds it in the list or not.
LEMMA SignalStep ==
  ASSUME LogInv, NEW c \in Consumers,
         (\E t \in EventTypes : TakeSignal(c, t)) \/ SignalText(c) \/ Update(c)
  PROVE  LogInv'
<1> USE DEF LogInv
<1>1. ASSUME NEW t \in EventTypes, TakeSignal(c, t) PROVE LogInv'
  <2>1. Signal(t) \in Messages /\ "signal" \in Places /\ Deliver(c, Signal(t), "signal")
    BY <1>1 DEF Messages, Places, TakeSignal
  <2>2. /\ takes' \in [Messages -> Nat]
        /\ at' \in [Consumers -> Places] /\ at'[c] = "signal"
        /\ msg' \in [Consumers -> Messages \cup {Nothing}] /\ msg'[c] = Signal(t)
        /\ \A d \in Consumers \ {c} : at'[d] = at[d] /\ msg'[d] = msg[d]
    BY <2>1, DeliverTypes
  <2>3. CallTypeOK'
    BY <1>1, <2>2 DEF CallTypeOK, TakeSignal, callDb, Places
  <2>4. Holds(c)' /\ Recorded(c)'
    BY <2>1, <2>2 DEF Holds, Recorded
  <2> QED
    BY <1>1, <2>2, <2>3, <2>4, QuietStep DEF TakeSignal, callDb
<1>2. CASE SignalText(c)
  <2>1. /\ at' \in [Consumers -> Places] /\ at'[c] = "update"
        /\ \A d \in Consumers \ {c} : at'[d] = at[d]
    BY <1>2, GotoTypes DEF SignalText, Places
  <2>2. CallTypeOK'
    BY <1>2, <2>1 DEF CallTypeOK, SignalText, Places
  <2>3. Holds(c)' /\ Recorded(c)'
    BY <1>2, <2>1 DEF Holds, Recorded, SignalText
  <2> QED
    BY <1>2, <2>1, <2>2, <2>3, QuietStep DEF SignalText
<1>3. CASE Update(c)
  <2>1. /\ at' \in [Consumers -> Places]
        /\ at'[c] = IF msg[c][2] \in Stored THEN "ack" ELSE "push"
        /\ \A d \in Consumers \ {c} : at'[d] = at[d]
    BY <1>3 DEF Update, CallGoto, CallTypeOK, Places
  <2>2. CallTypeOK'
    BY <1>3, <2>1 DEF CallTypeOK, Update, callDb, callHistory, Places
  <2>3. PICK t \in EventTypes : msg[c] = Signal(t)
    BY <1>3 DEF Update, Holds
  <2>4. Stored' = Stored /\ msg' = msg
    BY <1>3 DEF Update, callDb, Stored, Elements
  <2>5. Holds(c)'
    BY <1>3, <2>1, <2>3, <2>4 DEF Holds, Update
  <2>6. Recorded(c)'
    BY <2>1, <2>3, <2>4, MessagesDiffer DEF Recorded
  <2> QED
    BY <1>3, <2>1, <2>2, <2>5, <2>6, QuietStep DEF Update, callDb, callHistory
<1> QED
  BY <1>1, <1>2, <1>3

\* The push adds the signal of its message where it is missing; only then does the
\* message leave.
LEMMA PushStep ==
  ASSUME LogInv, NEW c \in Consumers, Push(c)
  PROVE  LogInv' /\ \E t \in EventTypes : Stored' = Stored \cup {t}
<1> USE DEF LogInv
<1>1. PICK t \in EventTypes : msg[c] = Signal(t)
  BY DEF Push, Holds
<1>2. msg[c][2] = t /\ msg' = msg /\ settled' = settled
  BY <1>1, MessagesDiffer DEF Push, callHistory
<1>3. events \in Seq(EventTypes)
  BY DEF CallTypeOK
<1>4. /\ events' \in Seq(EventTypes) /\ Stored' = Stored \cup {t} /\ OneEventPerType'
  <2>1. CASE t \in Stored
    <3>1. events' = events
      BY <1>2, <2>1 DEF Push
    <3> QED
      BY <1>3, <2>1, <3>1 DEF Stored, Elements, OneEventPerType
  <2>2. CASE t \notin Stored
    <3>1. events' = Append(events, t)
      BY <1>2, <2>2 DEF Push
    <3>2. /\ events' \in Seq(EventTypes) /\ Stored' = Stored \cup {t}
          /\ Len(events') = Len(events) + 1
          /\ \A i \in DOMAIN events : events'[i] = events[i]
          /\ events'[Len(events) + 1] = t
      BY <1>3, <3>1, Appended
    <3>3. ASSUME NEW i \in DOMAIN events', NEW j \in DOMAIN events', events'[i] = events'[j]
          PROVE  i = j
      <4>1. DOMAIN events' = DOMAIN events \cup {Len(events) + 1}
        BY <1>3, <3>2
      <4>2. \A k \in DOMAIN events : events[k] # t
        BY <2>2 DEF Stored, Elements
      <4> QED
        BY <3>2, <3>3, <4>1, <4>2 DEF OneEventPerType
    <3> QED
      BY <3>2, <3>3 DEF OneEventPerType
  <2> QED
    BY <2>1, <2>2
<1>5. /\ at' \in [Consumers -> Places] /\ at'[c] = "ack"
      /\ \A d \in Consumers \ {c} : at'[d] = at[d]
  BY GotoTypes DEF Push, Places
<1>6. CallTypeOK'
  BY <1>4, <1>5 DEF CallTypeOK, Push, callHistory, Places
<1>7. ASSUME NEW d \in Consumers PROVE Holds(d)' /\ Recorded(d)'
  <2>1. CASE d = c
    <3>1. msg[c] \in Messages
      BY DEF Holds, Push
    <3>2. Holds(c)'
      BY <1>2, <1>5, <3>1 DEF Holds
    <3>3. Recorded(c)'
      BY <1>1, <1>2, <1>4, MessagesDiffer DEF Recorded
    <3> QED
      BY <2>1, <3>2, <3>3
  <2>2. CASE d # c
    BY <1>2, <1>4, <1>5, <2>2 DEF Holds, Recorded
  <2> QED
    BY <2>1, <2>2
<1> QED
  BY <1>2, <1>4, <1>6, <1>7

\* A transcription.
LEMMA TextStep ==
  ASSUME LogInv, NEW c \in Consumers, (\E v \in Texts : TakeText(c, v)) \/ SaveText(c)
  PROVE  LogInv'
<1> USE DEF LogInv
<1>1. ASSUME NEW v \in Texts, TakeText(c, v) PROVE LogInv'
  <2>1. Transcription(v) \in Messages /\ "text" \in Places /\ Deliver(c, Transcription(v), "text")
    BY <1>1 DEF Messages, Places, TakeText
  <2>2. /\ takes' \in [Messages -> Nat]
        /\ at' \in [Consumers -> Places] /\ at'[c] = "text"
        /\ msg' \in [Consumers -> Messages \cup {Nothing}] /\ msg'[c] = Transcription(v)
        /\ \A d \in Consumers \ {c} : at'[d] = at[d] /\ msg'[d] = msg[d]
    BY <2>1, DeliverTypes
  <2>3. CallTypeOK'
    BY <1>1, <2>2 DEF CallTypeOK, TakeText, callDb, Places
  <2>4. Holds(c)' /\ Recorded(c)'
    BY <2>1, <2>2 DEF Holds, Recorded
  <2> QED
    BY <1>1, <2>2, <2>3, <2>4, QuietStep DEF TakeText, callDb
<1>2. CASE SaveText(c)
  <2>1. /\ at' \in [Consumers -> Places] /\ at'[c] = "ack"
        /\ \A d \in Consumers \ {c} : at'[d] = at[d]
    BY <1>2, GotoTypes DEF SaveText, Places
  <2>2. PICK v \in Texts : msg[c] = Transcription(v)
    BY <1>2 DEF SaveText, Holds
  <2>3. CallTypeOK'
    <3>1. agent' \in BOOLEAN /\ crmRaced' \in BOOLEAN /\ unheard' \in BOOLEAN
      BY <1>2 DEF CallTypeOK, SaveText
    <3>2. text' \in Texts \cup {Nothing}
      BY <1>2, <2>2, MessagesDiffer DEF SaveText
    <3> QED
      BY <1>2, <2>1, <3>1, <3>2, Zenon DEF CallTypeOK, SaveText, Places
  <2>4. Holds(c)' /\ Recorded(c)'
    BY <1>2, <2>1, <2>2, MessagesDiffer DEF Holds, Recorded, SaveText
  <2> QED
    BY <1>2, <2>1, <2>3, <2>4, QuietStep DEF SaveText
<1> QED
  BY <1>1, <1>2

\* The message leaves; its signal is in the list.
LEMMA AckStep ==
  ASSUME LogInv, NEW c \in Consumers, Ack(c)
  PROVE  /\ LogInv' /\ Stored' = Stored
         /\ \/ \E t \in Stored : msg[c] = Signal(t)
            \/ \A t \in EventTypes : msg[c] # Signal(t)
<1> USE DEF LogInv
<1>1. Stored' = Stored
  BY DEF Ack, callDb, Stored, Elements
<1>2. msg[c] \in Messages
  BY DEF Ack, Holds
<1>3. CallTypeOK'
  <2>1. agent' \in BOOLEAN /\ crmRaced' \in BOOLEAN /\ unheard' \in BOOLEAN
    BY DEF CallTypeOK, Ack, callDb
  <2>2. due' \in Nat
    BY Counters DEF Ack
  <2>3. at' \in [Consumers -> Places] /\ msg' \in [Consumers -> Messages \cup {Nothing}]
    BY DEF CallTypeOK, Ack, CallGoto, Places
  <2>4. settled' \subseteq Messages
    BY <1>2 DEF CallTypeOK, Ack
  <2> QED
    BY <2>1, <2>2, <2>3, <2>4, Zenon DEF CallTypeOK, Ack, callDb, Places
<1>4. ASSUME NEW d \in Consumers PROVE Holds(d)' /\ Recorded(d)'
  BY <1>1 DEF Holds, Recorded, Ack, CallGoto, CallTypeOK
<1>5. \A t \in EventTypes : msg[c] = Signal(t) => t \in Stored
  BY DEF Recorded, Ack
<1>6. \A t \in EventTypes : Signal(t) \in settled' => t \in Stored'
  BY <1>1, <1>5 DEF Ack
<1> QED
  BY <1>1, <1>3, <1>4, <1>5, <1>6 DEF OneEventPerType, Ack, callDb

LEMMA CrashStep == ASSUME LogInv, CallCrash PROVE LogInv' /\ Stored' = Stored
<1> USE DEF LogInv, CallCrash
<1>1. Stored' = Stored
  BY DEF callDb, Stored, Elements
<1>2. CallTypeOK'
  <2>1. agent' \in BOOLEAN /\ crmRaced' \in BOOLEAN /\ unheard' \in BOOLEAN
    BY DEF CallTypeOK, callDb
  <2>2. crashes' \in Nat /\ due' \in Nat
    BY Counters
  <2>3. at' \in [Consumers -> Places] /\ msg' \in [Consumers -> Messages \cup {Nothing}]
    BY DEF Places
  <2> QED
    BY <2>1, <2>2, <2>3, Zenon DEF CallTypeOK, callDb, Places
<1>3. ASSUME NEW d \in Consumers PROVE Holds(d)' /\ Recorded(d)'
  BY DEF Holds, Recorded
<1> QED
  BY <1>1, <1>2, <1>3 DEF OneEventPerType, callDb

LEMMA LogStep == LogInv /\ [CallNext]_callVars => LogInv'
<1> SUFFICES ASSUME LogInv, [CallNext]_callVars PROVE LogInv'
  OBVIOUS
<1>1. CASE CallSteps
  BY <1>1, CreatedStep, SignalStep, PushStep, TextStep, AckStep DEF CallSteps
<1>2. CASE CallCrash
  BY <1>2, CrashStep
<1>3. CASE UNCHANGED callVars
  <2>1. UNCHANGED <<callDb, due, at, msg, callHistory>>
    BY <1>3 DEF callVars
  <2>2. CallTypeOK'
    BY <2>1, Zenon DEF LogInv, CallTypeOK, callDb, callHistory
  <2>3. Stored' = Stored /\ OneEventPerType'
    BY <2>1 DEF LogInv, callDb, Stored, Elements, OneEventPerType
  <2>4. ASSUME NEW d \in Consumers PROVE Holds(d)' /\ Recorded(d)'
    BY <2>1, <2>3 DEF LogInv, Holds, Recorded
  <2> QED
    BY <2>1, <2>2, <2>3, <2>4 DEF LogInv, callHistory
<1> QED
  BY <1>1, <1>2, <1>3 DEF CallNext

LEMMA LogInvariant == CallSpec => []LogInv
BY InitLog, LogStep, PTL DEF CallSpec

\* Whatever arrives how often and dies where, the variables keep their types.
THEOREM CallTypeCorrect == CallSpec => []CallTypeOK
<1>1. LogInv => CallTypeOK
  BY DEF LogInv
<1> QED
  BY <1>1, LogInvariant, PTL

\* For any number of consumers and deliveries a signal is in the list once.
THEOREM OneEventPerTypeCorrect == CallSpec => []OneEventPerType
<1>1. LogInv => OneEventPerType
  BY DEF LogInv
<1> QED
  BY <1>1, LogInvariant, PTL

-----------------------------------------------------------------------------
(* The refinement                                                            *)

\* The signals whose message has left the queue.
Taken == {t \in EventTypes : Signal(t) \in settled}

LEMMA InitHistory == CallInit => Reported!HistoryInit
BY DEF CallInit, Reported!HistoryInit, Stored, Elements

\* A step of the log adds a signal, lets one go that is there, or changes neither.
LEMMA HistoryStep ==
  LogInv /\ [CallNext]_callVars => [Reported!HistoryNext]_(Reported!History)
<1> SUFFICES ASSUME LogInv, [CallNext]_callVars
             PROVE  [Reported!HistoryNext]_(Reported!History)
  OBVIOUS
<1> USE DEF Reported!HistoryNext, Reported!History, Reported!Report, Reported!Take
<1>1. ASSUME NEW c \in Consumers, Push(c) PROVE Reported!HistoryNext
  <2>1. PICK t \in EventTypes : Stored' = Stored \cup {t}
    BY <1>1, PushStep
  <2>2. settled' = settled
    BY <1>1 DEF Push, callHistory
  <2> QED
    BY <2>1, <2>2
<1>2. ASSUME NEW c \in Consumers, Ack(c) PROVE [Reported!HistoryNext]_(Reported!History)
  <2>1. settled' = settled \cup {msg[c]} /\ Stored' = Stored
    BY <1>2, AckStep DEF Ack
  <2>2. CASE \E t \in Stored : msg[c] = Signal(t)
    <3>1. PICK t \in Stored : msg[c] = Signal(t)
      BY <2>2
    <3>2. t \in EventTypes
      <4>1. events \in Seq(EventTypes)
        BY DEF LogInv, CallTypeOK
      <4>2. PICK i \in DOMAIN events : t = events[i]
        BY <3>1 DEF Stored, Elements
      <4> QED
        BY <4>1, <4>2
    <3>3. Taken' = Taken \cup {t}
      BY <2>1, <3>1, <3>2, MessagesDiffer DEF Taken
    <3> QED
      BY <2>1, <3>1, <3>2, <3>3 DEF Taken
  <2>3. CASE \A t \in EventTypes : msg[c] # Signal(t)
    BY <2>1, <2>3
  <2> QED
    BY <1>2, <2>2, <2>3, AckStep
<1>3. ASSUME NEW c \in Consumers,
             \/ TakeCreated(c) \/ CrmLook(c) \/ CrmCreate(c)
             \/ \E t \in EventTypes : TakeSignal(c, t)
             \/ SignalText(c) \/ Update(c)
             \/ \E v \in Texts : TakeText(c, v)
             \/ SaveText(c)
      PROVE  UNCHANGED <<events, settled>>
  BY <1>3 DEF TakeCreated, CrmLook, CrmCreate, TakeSignal, SignalText, Update, TakeText,
              SaveText, callDb, callHistory
<1>4. UNCHANGED <<events, settled>> => UNCHANGED Reported!History
  BY DEF Stored, Elements
<1>5. CASE CallSteps
  BY <1>1, <1>2, <1>3, <1>4, <1>5 DEF CallSteps
<1>6. CASE CallCrash
  BY <1>4, <1>6 DEF CallCrash, callDb
<1>7. CASE UNCHANGED callVars
  BY <1>4, <1>7 DEF callVars, callDb, callHistory
<1> QED
  BY <1>5, <1>6, <1>7 DEF CallNext

\* The log implements the history of the call: through repeated, racing and rejected
\* messages and crashes, what has left the queue is in the list, and stays there.
THEOREM ImplementsHistoryCorrect == CallSpec => ImplementsHistory
BY InitHistory, HistoryStep, LogInvariant, PTL
   DEF CallSpec, ImplementsHistory, Reported!HistorySpec
-----------------------------------------------------------------------------
(* One event in the history of the customer                                  *)

CrmPlaces == {"crm look", "crm create"}

\* One delivery at a time is between the look and the creation, and creates only
\* where there is nothing.
CrmInv ==
  ~crmRaced =>
    /\ crm <= 1
    /\ \A c, d \in Consumers : at[c] \in CrmPlaces /\ at[d] \in CrmPlaces => c = d
    /\ \A c \in Consumers : at[c] = "crm create" => crm = 0

\* A step that brings no consumer among those places keeps it.
LEMMA CrmAway ==
  ASSUME CrmInv, crm' = crm, crmRaced' = crmRaced,
         \A c \in Consumers : at'[c] \in CrmPlaces => at'[c] = at[c]
  PROVE  CrmInv'
<1> SUFFICES ASSUME ~crmRaced'
             PROVE  /\ crm' <= 1
                    /\ \A c, d \in Consumers :
                         at'[c] \in CrmPlaces /\ at'[d] \in CrmPlaces => c = d
                    /\ \A c \in Consumers : at'[c] = "crm create" => crm' = 0
  BY Zenon DEF CrmInv
<1>1. ~crmRaced
  OBVIOUS
<1>2. /\ crm <= 1
      /\ \A c, d \in Consumers : at[c] \in CrmPlaces /\ at[d] \in CrmPlaces => c = d
      /\ \A c \in Consumers : at[c] = "crm create" => crm = 0
  BY <1>1, Zenon DEF CrmInv
<1> QED
  BY <1>2 DEF CrmPlaces

LEMMA CrmCreatedStep ==
  ASSUME LogInv, CrmInv, NEW c \in Consumers, TakeCreated(c) \/ CrmLook(c) \/ CrmCreate(c)
  PROVE  CrmInv'
<1> SUFFICES ASSUME ~crmRaced'
             PROVE  /\ crm' <= 1
                    /\ \A d, e \in Consumers :
                         at'[d] \in CrmPlaces /\ at'[e] \in CrmPlaces => d = e
                    /\ \A d \in Consumers : at'[d] = "crm create" => crm' = 0
  BY Zenon DEF CrmInv
<1>1. ~crmRaced
  BY DEF TakeCreated, CrmLook, CrmCreate, callHistory
<1>2. /\ crm <= 1
      /\ \A d, e \in Consumers : at[d] \in CrmPlaces /\ at[e] \in CrmPlaces => d = e
      /\ \A d \in Consumers : at[d] = "crm create" => crm = 0
  BY <1>1, Zenon DEF CrmInv
<1>3. CallTypeOK /\ \A d \in Consumers : at[d] \in CrmPlaces => msg[d] = Created
  BY DEF LogInv, Holds, CrmPlaces
<1>4. crm \in Nat /\ at \in [Consumers -> Places]
  BY <1>3, Counters DEF CallTypeOK, Places
<1>5. CASE TakeCreated(c)
  <2>1. ~ \E d \in Consumers : msg[d] = Created
    BY <1>5, Zenon DEF TakeCreated
  <2>2. crm' = crm /\ at' = [at EXCEPT ![c] = "crm look"]
    BY <1>5 DEF TakeCreated, Deliver
  <2> QED
    BY <1>2, <1>3, <1>4, <2>1, <2>2 DEF CrmPlaces
<1>6. CASE CrmLook(c)
  <2>1. crm' = crm /\ at[c] = "crm look"
        /\ \/ at' = [at EXCEPT ![c] = IF crm > 0 THEN "ack" ELSE "crm create"]
           \/ at' = [at EXCEPT ![c] = "ack"]
    BY <1>6 DEF CrmLook, CallGoto, callDb
  <2>2. at'[c] = "crm create" => crm = 0
    <3>1. CASE crm > 0
      <4>1. at' = [at EXCEPT ![c] = "ack"]
        BY <2>1, <3>1
      <4> QED
        BY <1>4, <4>1
    <3>2. CASE ~(crm > 0)
      <4>1. crm \in Nat
        BY <1>4
      <4>2. crm = 0
        BY <3>2, <4>1
      <4> QED
        BY <4>2
    <3> QED
      BY <3>1, <3>2
  <2>3. \A d \in Consumers \ {c} : at'[d] = at[d]
    BY <1>4, <2>1
  <2> QED
    <3>1. crm' <= 1 /\ \A d \in Consumers : at'[d] = "crm create" => crm' = 0
      BY <1>2, <2>1, <2>2, <2>3
    <3>2. ASSUME NEW d \in Consumers, at'[d] \in CrmPlaces PROVE at[d] \in CrmPlaces
      BY <2>1, <2>3, <3>2 DEF CrmPlaces
    <3> QED
      BY <1>2, <3>1, <3>2
<1>7. CASE CrmCreate(c)
  <2>1. crm' = crm + 1 /\ at[c] = "crm create" /\ at' = [at EXCEPT ![c] = "ack"]
    BY <1>7 DEF CrmCreate, CallGoto
  <2>2. crm = 0 /\ \A d \in Consumers : at[d] \in CrmPlaces => d = c
    BY <1>2, <2>1 DEF CrmPlaces
  <2>3. \A d \in Consumers : at'[d] \notin CrmPlaces
    BY <1>4, <2>1, <2>2 DEF CrmPlaces
  <2>4. crm' = 1
    <3>1. crm' = crm + 1 /\ crm = 0
      BY <2>1, <2>2
    <3> QED
      BY <3>1
  <2>5. crm' <= 1
    BY <2>4
  <2> QED
    BY <2>3, <2>5 DEF CrmPlaces
<1> QED
  BY <1>5, <1>6, <1>7

LEMMA CrmOtherStep ==
  ASSUME LogInv, CrmInv, NEW c \in Consumers,
         \/ \E t \in EventTypes : TakeSignal(c, t)
         \/ SignalText(c) \/ Update(c) \/ Push(c)
         \/ \E v \in Texts : TakeText(c, v)
         \/ SaveText(c) \/ Ack(c)
  PROVE  CrmInv'
<1>1. at \in [Consumers -> Places]
  BY DEF LogInv, CallTypeOK, Places
<1>2. crm' = crm /\ crmRaced' = crmRaced
  BY DEF TakeSignal, SignalText, Update, Push, TakeText, SaveText, Ack, callDb, callHistory
<1>3. PICK place \in Places \ CrmPlaces : at' = [at EXCEPT ![c] = place]
  BY DEF TakeSignal, SignalText, Update, Push, TakeText, SaveText, Ack, Deliver, CallGoto,
         Places, CrmPlaces
<1> QED
  BY <1>1, <1>2, <1>3, CrmAway

LEMMA CrmStep == LogInv /\ CrmInv /\ [CallNext]_callVars => CrmInv'
<1> SUFFICES ASSUME LogInv, CrmInv, [CallNext]_callVars PROVE CrmInv'
  OBVIOUS
<1>1. CASE CallSteps
  BY <1>1, CrmCreatedStep, CrmOtherStep DEF CallSteps
<1>2. CASE CallCrash
  BY <1>2, CrmAway DEF CallCrash, callDb, CrmPlaces
<1>3. CASE UNCHANGED callVars
  BY <1>3, CrmAway DEF callVars, callDb, callHistory
<1> QED
  BY <1>1, <1>2, <1>3 DEF CallNext

LEMMA InitCrm == CallInit => CrmInv
BY DEF CallInit, CrmInv, CrmPlaces

LEMMA LogIsCorrect == LogInv /\ CrmInv => CallCorrect
<1>1. CrmInv => OneCrmEvent
  BY Zenon DEF CrmInv, OneCrmEvent
<1> QED
  BY <1>1 DEF LogInv, CallCorrect

\* However many deliveries of however many messages, in whatever order: a signal is in
\* the list once, and the call once in the history of its customer unless two
\* deliveries of its creation overlapped.
THEOREM CallIsCorrect == CallSpec => []CallCorrect
BY InitLog, LogStep, InitCrm, CrmStep, LogIsCorrect, PTL DEF CallSpec

-----------------------------------------------------------------------------
(* The audits of the call                                                    *)

\* The desk's steps are steps of the log, but for an analysis that takes its turn.
LEMMA DeskInit == AuditInit => LogInv
BY InitLog DEF AuditInit

LEMMA AnalyseStep == ASSUME LogInv, NEW a \in Analysts, Analyse(a) PROVE LogInv'
<1>1. UNCHANGED <<callDb, at, msg, callHistory>>
  BY DEF Analyse
<1>2. due' \in Nat
  <2>1. due \in Nat
    BY Counters DEF LogInv
  <2>2. due' = due \/ (due > 0 /\ due' = due - 1)
    BY DEF Analyse
  <2> QED
    BY <2>1, <2>2
<1>3. CallTypeOK'
  BY <1>1, <1>2, Zenon DEF LogInv, CallTypeOK, callDb, callHistory
<1>4. Stored' = Stored /\ OneEventPerType'
  BY <1>1 DEF LogInv, callDb, Stored, Elements, OneEventPerType
<1>5. ASSUME NEW d \in Consumers PROVE Holds(d)' /\ Recorded(d)'
  BY <1>1, <1>4 DEF LogInv, Holds, Recorded
<1> QED
  BY <1>1, <1>3, <1>4, <1>5 DEF LogInv, callHistory

LEMMA DeskStep == LogInv /\ [AuditNext]_deskVars => LogInv'
<1> SUFFICES ASSUME LogInv, [AuditNext]_deskVars PROVE LogInv'
  OBVIOUS
<1>1. CASE CallSteps
  BY <1>1, LogStep DEF CallNext
<1>2. ASSUME NEW a \in Analysts, Analyse(a) PROVE LogInv'
  BY <1>2, AnalyseStep
<1>3. ASSUME NEW a \in Analysts, AnalysisStep(a) PROVE UNCHANGED callVars
  BY <1>3 DEF AnalysisStep, MarkPending, LlmAnswers, SaveCompleted, SaveFailed, AuditWriteFails, AnalysisEnds
<1>4. ASSUME NEW h \in Auditors, HumanLook(h) \/ HumanSubmit(h) PROVE UNCHANGED callVars
  BY <1>4 DEF HumanLook, HumanSubmit
<1>5. CASE AuditCrash
  BY <1>5, CrashStep DEF AuditCrash
<1>6. CASE UNCHANGED deskVars
  BY <1>6, LogStep DEF deskVars
<1> QED
  BY <1>1, <1>2, <1>3, <1>4, <1>5, <1>6, LogStep DEF AuditNext

\* What the audits add to the types of the log.
AuditTypes ==
  /\ aiStatus \in {"none", "pending", "completed", "failed"}
  /\ aiOf \in Texts \cup {Nothing}
  /\ job \in [Analysts -> {"idle", "read", "llm", "complete", "fail"}]
  /\ jobText \in [Analysts -> Texts \cup {Nothing}]
  /\ auditor \in Auditors \cup {Nothing} /\ author \in Auditors \cup {Nothing}
  /\ look \in [Auditors -> {"idle", "first", "again"}]
  /\ manual \in Nat
  /\ aiRaced \in BOOLEAN /\ humanRaced \in BOOLEAN /\ unsaved \in BOOLEAN

LEMMA InitAuditTypes == AuditInit => AuditTypes
<1> SUFFICES ASSUME AuditInit PROVE AuditTypes
  OBVIOUS
<1>1. aiRaced \in BOOLEAN /\ humanRaced \in BOOLEAN /\ unsaved \in BOOLEAN
  BY DEF AuditInit
<1>2. /\ aiStatus \in {"none", "pending", "completed", "failed"}
      /\ aiOf \in Texts \cup {Nothing}
      /\ job \in [Analysts -> {"idle", "read", "llm", "complete", "fail"}]
      /\ jobText \in [Analysts -> Texts \cup {Nothing}]
      /\ auditor \in Auditors \cup {Nothing} /\ author \in Auditors \cup {Nothing}
      /\ look \in [Auditors -> {"idle", "first", "again"}]
      /\ manual \in Nat
  BY DEF AuditInit
<1> QED
  BY <1>1, <1>2 DEF AuditTypes

LEMMA AuditTypeStep == LogInv /\ AuditTypes /\ [AuditNext]_deskVars => AuditTypes'
<1> SUFFICES ASSUME LogInv, AuditTypes, [AuditNext]_deskVars PROVE AuditTypes'
  OBVIOUS
<1>1. text \in Texts \cup {Nothing}
  BY DEF LogInv, CallTypeOK
<1>2. ASSUME NEW a \in Analysts, Analyse(a) PROVE AuditTypes'
  <2>1. UNCHANGED <<auditDb, look, humanRaced, unsaved>>
    BY <1>2 DEF Analyse
  <2>2. manual' \in Nat
    <3>1. manual \in Nat
      BY Zenon DEF AuditTypes
    <3>2. manual' = manual \/ manual' = manual + 1
      BY <1>2 DEF Analyse
    <3> QED
      BY <3>1, <3>2
  <2>3. /\ job' \in [Analysts -> {"idle", "read", "llm", "complete", "fail"}]
        /\ jobText' \in [Analysts -> Texts \cup {Nothing}]
    BY <1>1, <1>2 DEF Analyse, AuditTypes
  <2>4. aiRaced' \in BOOLEAN
    BY <1>2, Zenon DEF Analyse, AuditTypes
  <2> QED
    BY <2>1, <2>2, <2>3, <2>4, Zenon DEF AuditTypes, auditDb
<1>3. ASSUME NEW a \in Analysts, AnalysisStep(a) PROVE AuditTypes'
  <2>1. /\ UNCHANGED <<auditor, author, look, manual, aiRaced, humanRaced>>
        /\ unsaved' \in {unsaved, TRUE}
    BY <1>3 DEF AnalysisStep, MarkPending, LlmAnswers, SaveCompleted, SaveFailed, AuditWriteFails,
                AnalysisEnds, auditDb, auditHistory
  <2>2. /\ job' \in [Analysts -> {"idle", "read", "llm", "complete", "fail"}]
        /\ jobText' \in [Analysts -> Texts \cup {Nothing}]
        /\ aiStatus' \in {"none", "pending", "completed", "failed"}
        /\ aiOf' \in Texts \cup {Nothing}
    BY <1>3 DEF AnalysisStep, MarkPending, LlmAnswers, SaveCompleted, SaveFailed, AuditWriteFails,
                AnalysisEnds, AnalysisGoto, AuditTypes, auditDb
  <2>3. unsaved' \in BOOLEAN
    BY <2>1, Zenon DEF AuditTypes
  <2> QED
    BY <2>1, <2>2, <2>3, Zenon DEF AuditTypes
<1>4. ASSUME NEW h \in Auditors, HumanLook(h) \/ HumanSubmit(h) PROVE AuditTypes'
  <2>1. UNCHANGED <<aiStatus, aiOf, job, jobText, manual, aiRaced, unsaved>>
    BY <1>4 DEF HumanLook, HumanSubmit, auditDb, auditHistory
  <2>2. /\ look' \in [Auditors -> {"idle", "first", "again"}]
        /\ auditor' \in Auditors \cup {Nothing} /\ author' \in Auditors \cup {Nothing}
    BY <1>4 DEF HumanLook, HumanSubmit, AuditTypes, auditDb
  <2>3. humanRaced' \in BOOLEAN
    BY <1>4, Zenon DEF HumanLook, HumanSubmit, AuditTypes, auditHistory
  <2> QED
    BY <2>1, <2>2, <2>3, Zenon DEF AuditTypes
<1>5. CASE AuditCrash
  <2>1. UNCHANGED <<auditDb, auditHistory>>
    BY <1>5 DEF AuditCrash
  <2>2. /\ job' \in [Analysts -> {"idle", "read", "llm", "complete", "fail"}]
        /\ jobText' \in [Analysts -> Texts \cup {Nothing}]
        /\ look' \in [Auditors -> {"idle", "first", "again"}]
    BY <1>5 DEF AuditCrash
  <2> QED
    BY <2>1, <2>2, Zenon DEF AuditTypes, auditDb, auditHistory
<1>6. CASE UNCHANGED auditVars
  BY <1>6, Zenon DEF AuditTypes, auditVars, auditDb, auditHistory
<1> QED
  BY <1>2, <1>3, <1>4, <1>5, <1>6 DEF AuditNext, deskVars

\* One submission at a time has looked, and saw the auditor the call has.
HumanInv ==
  ~humanRaced =>
    /\ author = auditor
    /\ \A g, h \in Auditors : look[g] # "idle" /\ look[h] # "idle" => g = h
    /\ \A h \in Auditors : /\ look[h] = "first" => auditor = Nothing
                           /\ look[h] = "again" => auditor = h

LEMMA InitHuman == AuditInit => HumanInv
BY DEF AuditInit, HumanInv

LEMMA HumanStep == AuditTypes /\ HumanInv /\ [AuditNext]_deskVars => HumanInv'
<1> SUFFICES ASSUME AuditTypes, HumanInv, [AuditNext]_deskVars, ~humanRaced'
             PROVE  /\ author' = auditor'
                    /\ \A g, h \in Auditors : look'[g] # "idle" /\ look'[h] # "idle" => g = h
                    /\ \A h \in Auditors : /\ look'[h] = "first" => auditor' = Nothing
                                           /\ look'[h] = "again" => auditor' = h
  BY Zenon DEF HumanInv
<1>1. ~humanRaced
  BY DEF AuditNext, auditVars, auditHistory, deskVars, Analyse, AnalysisStep, MarkPending,
         LlmAnswers, SaveCompleted, SaveFailed, AuditWriteFails, AnalysisEnds, HumanLook, HumanSubmit,
         AuditCrash
<1>2. /\ author = auditor
      /\ \A g, h \in Auditors : look[g] # "idle" /\ look[h] # "idle" => g = h
      /\ \A h \in Auditors : /\ look[h] = "first" => auditor = Nothing
                             /\ look[h] = "again" => auditor = h
  BY <1>1, Zenon DEF HumanInv
<1>3. look \in [Auditors -> {"idle", "first", "again"}]
  BY DEF AuditTypes
<1>4. ASSUME NEW h \in Auditors, HumanLook(h)
      PROVE  /\ UNCHANGED <<author, auditor>> /\ auditor \in {Nothing, h}
             /\ look' = [look EXCEPT ![h] = IF auditor = Nothing THEN "first" ELSE "again"]
             /\ ~ \E g \in Auditors : look[g] # "idle"
  <2>1. ~ \E g \in Auditors : look[g] # "idle"
    BY <1>4, Zenon DEF HumanLook
  <2> QED
    BY <1>4, <2>1 DEF HumanLook, auditDb
<1>5. ASSUME NEW h \in Auditors, HumanSubmit(h)
      PROVE  /\ look[h] # "idle" /\ author' = h
             /\ auditor' = IF look[h] = "first" THEN h ELSE auditor
             /\ look' = [look EXCEPT ![h] = "idle"]
  BY <1>5 DEF HumanSubmit
<1>6. ASSUME NEW a \in Analysts, Analyse(a) \/ AnalysisStep(a)
      PROVE  UNCHANGED <<author, auditor, look>>
  BY <1>6 DEF Analyse, AnalysisStep, MarkPending, LlmAnswers, SaveCompleted, SaveFailed, AuditWriteFails,
              AnalysisEnds, auditDb
<1>7. CASE AuditCrash
  BY <1>2, <1>7 DEF AuditCrash, auditDb
<1>8. CASE UNCHANGED auditVars
  BY <1>2, <1>8 DEF auditVars, auditDb
<1>9. CASE \E h \in Auditors : HumanLook(h)
  BY <1>2, <1>3, <1>4, <1>9
<1>10. CASE \E h \in Auditors : HumanSubmit(h)
  BY <1>2, <1>3, <1>5, <1>10
<1> QED
  BY <1>2, <1>6, <1>7, <1>8, <1>9, <1>10 DEF AuditNext, deskVars

LEMMA PendingStep ==
  LogInv /\ AuditTypes /\ PendingIsAnalysed /\ [AuditNext]_deskVars => PendingIsAnalysed'
<1> SUFFICES ASSUME LogInv, AuditTypes, PendingIsAnalysed, [AuditNext]_deskVars,
                    aiStatus' = "pending"
             PROVE  \/ crashes' > 0 \/ unsaved'
                    \/ \E a \in Analysts : job'[a] \in {"llm", "complete", "fail"}
  BY DEF PendingIsAnalysed
<1>1. crashes \in Nat
  BY Counters DEF LogInv
<1>2. job \in [Analysts -> {"idle", "read", "llm", "complete", "fail"}]
  BY DEF AuditTypes
<1>3. CASE AuditCrash
  <2>1. crashes' = crashes + 1
    BY <1>3 DEF AuditCrash, CallCrash
  <2>2. crashes' > 0
    BY <1>1, <2>1
  <2> QED
    BY <2>2
<1>4. ASSUME NEW a \in Analysts, Analyse(a) \/ AnalysisStep(a)
      PROVE  crashes' = crashes
  BY <1>4 DEF Analyse, AnalysisStep, MarkPending, LlmAnswers, SaveCompleted, SaveFailed, AuditWriteFails,
              AnalysisEnds, callVars, callHistory
<1>5. ASSUME NEW a \in Analysts, Analyse(a)
      PROVE  \/ crashes' > 0 \/ unsaved'
             \/ \E b \in Analysts : job'[b] \in {"llm", "complete", "fail"}
  <2>1. aiStatus = "pending" /\ unsaved' = unsaved
    BY <1>5 DEF Analyse, auditDb
  <2>2. \A b \in Analysts : job[b] # "idle" => job'[b] = job[b]
    BY <1>2, <1>5 DEF Analyse
  <2> QED
    BY <1>4, <1>5, <2>1, <2>2 DEF PendingIsAnalysed
<1>6. ASSUME NEW a \in Analysts, MarkPending(a) \/ LlmAnswers(a)
      PROVE  job'[a] \in {"llm", "complete", "fail"}
  BY <1>2, <1>6 DEF MarkPending, LlmAnswers, AnalysisGoto
<1>7. ASSUME NEW a \in Analysts, SaveCompleted(a) \/ SaveFailed(a) PROVE FALSE
  BY <1>7 DEF SaveCompleted, SaveFailed
<1>13. ASSUME NEW a \in Analysts, AuditWriteFails(a)
       PROVE  unsaved' \/ job'[a] \in {"llm", "complete", "fail"}
  BY <1>2, <1>13 DEF AuditWriteFails, AnalysisGoto
<1>8. ASSUME UNCHANGED <<aiStatus, job, crashes, unsaved>>
      PROVE  \/ crashes' > 0 \/ unsaved'
             \/ \E b \in Analysts : job'[b] \in {"llm", "complete", "fail"}
  BY <1>8 DEF PendingIsAnalysed
<1>9. ASSUME NEW c \in Consumers,
             \/ TakeCreated(c) \/ CrmLook(c) \/ CrmCreate(c)
             \/ \E t \in EventTypes : TakeSignal(c, t)
             \/ SignalText(c) \/ Update(c) \/ Push(c)
             \/ \E v \in Texts : TakeText(c, v)
             \/ SaveText(c) \/ Ack(c)
      PROVE  crashes' = crashes
  BY <1>9 DEF TakeCreated, CrmLook, CrmCreate, TakeSignal, SignalText, Update, Push, TakeText,
              SaveText, Ack, callHistory
<1>10. CASE CallSteps /\ UNCHANGED auditVars
  <2>1. UNCHANGED <<aiStatus, job, unsaved>>
    BY <1>10 DEF auditVars, auditDb, auditHistory
  <2> QED
    BY <1>8, <1>9, <1>10, <2>1 DEF CallSteps
<1>11. ASSUME NEW h \in Auditors, HumanLook(h) \/ HumanSubmit(h)
       PROVE  UNCHANGED <<aiStatus, job, crashes, unsaved>>
  BY <1>11 DEF HumanLook, HumanSubmit, callVars, callHistory, auditDb, auditHistory
<1>12. CASE UNCHANGED deskVars
  BY <1>8, <1>12 DEF deskVars, callVars, callHistory, auditVars, auditDb, auditHistory
<1> QED
  BY <1>3, <1>5, <1>6, <1>7, <1>8, <1>10, <1>11, <1>12, <1>13 DEF AuditNext, AnalysisStep

Working(a) == job[a] # "idle"

\* A transcription was saved whose analysis has not begun.
Awaited ==
  \/ due > 0
  \/ \E c \in Consumers : at[c] = "ack" /\ \E v \in Texts : msg[c] = Transcription(v)

\* The analyses have read the text there is, and so has a completed one before them.
UpToDate ==
  /\ \A a \in Analysts : Working(a) => jobText[a] = text
  /\ (\A a \in Analysts : ~Working(a)) /\ aiStatus = "completed" => aiOf = text

\* Nothing is analysed before there is a text and an agent; unless two overlapped one
\* analysis works at a time; and a text saved last is scored or waits to be.
Unscored == (text = Nothing \/ ~agent) => aiStatus = "none" /\ \A a \in Analysts : ~Working(a)
OneAnalysis ==
  ~aiRaced => \A a, b \in Analysts : Working(a) /\ Working(b) => a = b
Heard == (~aiRaced /\ ~unheard /\ ~unsaved /\ crashes = 0) => Awaited \/ UpToDate

LEMMA InitText == AuditInit => Unscored /\ OneAnalysis /\ Heard
BY DEF AuditInit, CallInit, Unscored, OneAnalysis, Heard, UpToDate, Working

LEMMA QuietTextIsScored == LogInv /\ Heard => AuditIsOfTheText
<1> SUFFICES ASSUME LogInv, Heard, DeskIsQuiet, aiStatus = "completed", ~aiRaced, ~unheard,
                    ~unsaved, crashes = 0
             PROVE  aiOf = text
  BY Zenon DEF AuditIsOfTheText
<1>1. Awaited \/ UpToDate
  BY Zenon DEF Heard
<1>2. due = 0 /\ (\A a \in Analysts : ~Working(a)) /\ \A c \in Consumers : at[c] = "idle"
  BY DEF DeskIsQuiet, Working
<1>3. ~(due > 0)
  BY <1>2
<1>4. ~Awaited
  BY <1>2, <1>3 DEF Awaited
<1> QED
  BY <1>1, <1>2, <1>4 DEF UpToDate

\* A step of the log takes neither its text nor its agent away.
LEMMA TextAndAgentStay ==
  ASSUME LogInv, CallSteps, text' = Nothing \/ ~agent'
  PROVE  text = Nothing \/ ~agent
<1>1. ASSUME NEW c \in Consumers, TakeCreated(c) PROVE text = Nothing
  <2>1. agent'
    BY <1>1, Zenon DEF TakeCreated
  <2>2. text' = text
    BY <1>1 DEF TakeCreated
  <2> QED
    BY <2>1, <2>2
<1>2. ASSUME NEW c \in Consumers, SaveText(c) \/ SignalText(c) PROVE text = Nothing \/ ~agent
  <2>1. text' = text \/ text' \in Texts
    <3>1. CASE SaveText(c)
      <4>1. PICK v \in Texts : msg[c] = Transcription(v)
        BY <3>1 DEF LogInv, Holds, SaveText
      <4> QED
        BY <3>1, <4>1, MessagesDiffer DEF SaveText
    <3>2. CASE SignalText(c)
      BY <3>2 DEF SignalText
    <3> QED
      BY <1>2, <3>1, <3>2
  <2>2. agent' = agent
    BY <1>2 DEF SaveText, SignalText
  <2>3. CASE text' = Nothing
    BY <2>1, <2>3, TextsAssumption
  <2>4. CASE ~agent'
    BY <2>2, <2>4
  <2> QED
    BY <2>3, <2>4
<1>3. ASSUME UNCHANGED <<text, agent>> PROVE text = Nothing \/ ~agent
  BY <1>3
<1>4. ASSUME NEW c \in Consumers,
             \/ CrmLook(c) \/ CrmCreate(c)
             \/ \E t \in EventTypes : TakeSignal(c, t)
             \/ Update(c) \/ Push(c)
             \/ \E v \in Texts : TakeText(c, v)
             \/ Ack(c)
      PROVE  UNCHANGED <<text, agent>>
  BY <1>4 DEF CrmLook, CrmCreate, TakeSignal, Update, Push, TakeText, Ack, callDb
<1> QED
  BY <1>1, <1>2, <1>3, <1>4 DEF CallSteps

LEMMA AnalyseEffect ==
  ASSUME AuditTypes, NEW a \in Analysts, Analyse(a)
  PROVE  /\ UNCHANGED <<text, agent, at, msg, unheard, crashes, aiStatus, aiOf, unsaved>>
         /\ ~Working(a)
         /\ \/ /\ text = Nothing \/ ~agent
               /\ UNCHANGED <<job, jobText, aiRaced>>
            \/ /\ text # Nothing /\ agent
               /\ Working(a)' /\ jobText'[a] = text
               /\ \A b \in Analysts \ {a} : job'[b] = job[b] /\ jobText'[b] = jobText[b]
               /\ aiRaced' = (aiRaced \/ \E b \in Analysts : Working(b))
<1>1. UNCHANGED <<text, agent, at, msg, unheard, crashes, aiStatus, aiOf, unsaved>> /\ ~Working(a)
  BY DEF Analyse, callDb, callHistory, auditDb, Working
<1>2. CASE text = Nothing \/ ~agent
  <2>1. UNCHANGED <<job, jobText, aiRaced>>
    BY <1>2, Zenon DEF Analyse
  <2> QED
    BY <1>1, <1>2, <2>1
<1>3. CASE text # Nothing /\ agent
  <2>1. /\ job' = [job EXCEPT ![a] = "read"] /\ jobText' = [jobText EXCEPT ![a] = text]
        /\ aiRaced' = (aiRaced \/ \E b \in Analysts : job[b] # "idle")
    BY <1>3, Zenon DEF Analyse
  <2>2. /\ Working(a)' /\ jobText'[a] = text
        /\ \A b \in Analysts \ {a} : job'[b] = job[b] /\ jobText'[b] = jobText[b]
    BY <2>1 DEF AuditTypes, Working
  <2>3. aiRaced' = (aiRaced \/ \E b \in Analysts : Working(b))
    BY <2>1, Zenon DEF Working
  <2> QED
    BY <1>1, <1>3, <2>2, <2>3, Zenon
<1> QED
  BY <1>2, <1>3, Zenon

\* An analysis goes on or ends; no other one begins.
LEMMA AnalysisEffect ==
  ASSUME AuditTypes, NEW a \in Analysts, AnalysisStep(a)
  PROVE  /\ UNCHANGED <<text, agent, due, at, msg, unheard, crashes, aiRaced>>
         /\ Working(a)
         /\ \A b \in Analysts \ {a} : job'[b] = job[b] /\ jobText'[b] = jobText[b]
         /\ \/ Working(a)' /\ jobText' = jobText
            \/ ~Working(a)' /\ aiStatus' = "completed" /\ aiOf' = jobText[a]
            \/ ~Working(a)' /\ aiStatus' = "failed"
            \/ ~Working(a)' /\ unsaved'
         /\ unsaved => unsaved'
<1>1. UNCHANGED <<text, agent, due, at, msg, unheard, crashes, aiRaced>>
  BY DEF AnalysisStep, MarkPending, LlmAnswers, SaveCompleted, SaveFailed, AuditWriteFails, AnalysisEnds,
         callVars, callDb, callHistory, auditHistory
<1>2. job[a] # "idle"
  BY DEF AnalysisStep, MarkPending, LlmAnswers, SaveCompleted, SaveFailed, AuditWriteFails
<1>3. CASE MarkPending(a) \/ LlmAnswers(a)
  BY <1>1, <1>2, <1>3 DEF AuditTypes, MarkPending, LlmAnswers, AnalysisGoto, Working,
                          auditHistory
<1>4. CASE SaveCompleted(a) \/ SaveFailed(a)
  BY <1>1, <1>2, <1>4 DEF AuditTypes, SaveCompleted, SaveFailed, AnalysisEnds, Working,
                          auditHistory
<1>5. CASE AuditWriteFails(a)
  BY <1>1, <1>2, <1>5 DEF AuditTypes, AuditWriteFails, AnalysisGoto, Working
<1> QED
  BY <1>3, <1>4, <1>5 DEF AnalysisStep

LEMMA HumanEffect ==
  ASSUME NEW h \in Auditors, HumanLook(h) \/ HumanSubmit(h)
  PROVE  UNCHANGED <<callVars, aiStatus, aiOf, job, jobText, aiRaced, unsaved>>
BY DEF HumanLook, HumanSubmit, auditDb, auditHistory

LEMMA UnscoredStep ==
  LogInv /\ AuditTypes /\ Unscored /\ [AuditNext]_deskVars => Unscored'
<1> SUFFICES ASSUME LogInv, AuditTypes, Unscored, [AuditNext]_deskVars,
                    text' = Nothing \/ ~agent'
             PROVE  aiStatus' = "none" /\ \A a \in Analysts : job'[a] = "idle"
  BY Zenon DEF Unscored, Working
<1> DEFINE Rest == aiStatus = "none" /\ \A a \in Analysts : job[a] = "idle"
<1>1. text = Nothing \/ ~agent => Rest
  BY Zenon DEF Unscored, Working
<1>2. ASSUME UNCHANGED <<aiStatus, job>>, text = Nothing \/ ~agent PROVE Rest'
  BY <1>1, <1>2
<1>3. CASE CallSteps /\ UNCHANGED auditVars
  BY <1>2, <1>3, TextAndAgentStay DEF auditVars, auditDb
<1>4. ASSUME NEW a \in Analysts, Analyse(a) PROVE Rest'
  <2>1. text = Nothing \/ ~agent
    BY <1>4, AnalyseEffect
  <2>2. UNCHANGED <<aiStatus, job>>
    BY <1>4, <2>1, AnalyseEffect
  <2> QED
    BY <1>2, <2>1, <2>2
<1>5. ASSUME NEW a \in Analysts, AnalysisStep(a) PROVE Rest'
  <2>1. Working(a) /\ (text = Nothing \/ ~agent)
    BY <1>5, AnalysisEffect
  <2> QED
    BY <1>1, <2>1 DEF Working
<1>6. ASSUME NEW h \in Auditors, HumanLook(h) \/ HumanSubmit(h) PROVE Rest'
  <2>1. UNCHANGED <<aiStatus, job, text, agent>>
    BY <1>6, HumanEffect DEF callVars, callDb
  <2> QED
    BY <1>2, <2>1
<1>7. CASE AuditCrash
  <2>1. UNCHANGED <<aiStatus, text, agent>> /\ \A a \in Analysts : job'[a] = "idle"
    BY <1>7 DEF AuditCrash, CallCrash, auditDb, callDb
  <2> QED
    BY <1>1, <2>1
<1>8. CASE UNCHANGED deskVars
  <2>1. UNCHANGED <<aiStatus, job, text, agent>>
    BY <1>8 DEF deskVars, callVars, callDb, auditVars, auditDb
  <2> QED
    BY <1>2, <2>1
<1> QED
  BY <1>3, <1>4, <1>5, <1>6, <1>7, <1>8 DEF AuditNext

LEMMA OneAnalysisStep == AuditTypes /\ OneAnalysis /\ [AuditNext]_deskVars => OneAnalysis'
<1> SUFFICES ASSUME AuditTypes, OneAnalysis, [AuditNext]_deskVars, ~aiRaced',
                    NEW a \in Analysts, NEW b \in Analysts, Working(a)', Working(b)'
             PROVE  a = b
  BY Zenon DEF OneAnalysis
<1>1. ASSUME ~aiRaced, Working(a), Working(b) PROVE a = b
  BY <1>1, Zenon DEF OneAnalysis
<1>2. ASSUME NEW e \in Analysts, Analyse(e) PROVE a = b
  <2>1. CASE UNCHANGED <<job, aiRaced>>
    BY <1>1, <2>1 DEF Working
  <2>2. CASE ~ UNCHANGED <<job, aiRaced>>
    <3>1. aiRaced' = (aiRaced \/ \E d \in Analysts : Working(d))
      BY <1>2, <2>2, AnalyseEffect
    <3>2. ~ \E d \in Analysts : Working(d)
      BY <3>1, Zenon
    <3>3. \A d \in Analysts \ {e} : job'[d] = job[d]
      BY <1>2, <2>2, AnalyseEffect
    <3> QED
      BY <3>2, <3>3 DEF Working
  <2> QED
    BY <2>1, <2>2
<1>3. ASSUME NEW e \in Analysts, AnalysisStep(e) PROVE a = b
  <2>1. aiRaced' = aiRaced /\ Working(e) /\ \A d \in Analysts \ {e} : job'[d] = job[d]
    BY <1>3, AnalysisEffect
  <2> QED
    BY <1>1, <2>1 DEF Working
<1>4. ASSUME UNCHANGED <<job, aiRaced>> PROVE a = b
  BY <1>1, <1>4 DEF Working
<1>5. CASE AuditCrash
  BY <1>5 DEF AuditCrash, Working
<1> QED
  BY <1>2, <1>3, <1>4, <1>5, HumanEffect
     DEF AuditNext, auditVars, auditHistory, deskVars

\* A text in the hands of a consumer about to let its message go is awaited.
SavedText(c) == at[c] = "ack" /\ \E v \in Texts : msg[c] = Transcription(v)

\* The steps of the log: a text is changed by a consumer that will ask for an analysis,
\* or unheard; the consumer that lets it go asks.
LEMMA HeardLogStep ==
  ASSUME LogInv, CallSteps, UNCHANGED auditVars, Heard PROVE Heard'
<1> SUFFICES ASSUME ~aiRaced', ~unheard', ~unsaved', crashes' = 0 PROVE Awaited' \/ UpToDate'
  BY Zenon DEF Heard
<1> USE DEF LogInv
<1>1. at \in [Consumers -> Places] /\ msg \in [Consumers -> Messages \cup {Nothing}]
  BY DEF CallTypeOK, Places
<1>2. ~aiRaced /\ ~unsaved /\ UNCHANGED <<aiStatus, aiOf, job, jobText>>
  BY DEF auditVars, auditDb, auditHistory
<1>3. PICK c \in Consumers :
        \/ TakeCreated(c) \/ CrmLook(c) \/ CrmCreate(c)
        \/ \E t \in EventTypes : TakeSignal(c, t)
        \/ SignalText(c) \/ Update(c) \/ Push(c)
        \/ \E v \in Texts : TakeText(c, v)
        \/ SaveText(c) \/ Ack(c)
  BY DEF CallSteps
<1>4. crashes = 0
  BY <1>3 DEF TakeCreated, CrmLook, CrmCreate, TakeSignal, SignalText, Update, Push, TakeText,
              SaveText, Ack, callHistory
<1>5. CASE SaveText(c)
  <2>1. PICK v \in Texts : msg[c] = Transcription(v)
    BY <1>5 DEF Holds, SaveText
  <2>2. at'[c] = "ack" /\ msg'[c] = Transcription(v)
    BY <1>1, <1>5, <2>1 DEF SaveText, CallGoto
  <2> QED
    BY <2>2 DEF Awaited
<1>6. ASSUME ~unheard PROVE Awaited \/ UpToDate
  BY <1>2, <1>4, <1>6, Zenon DEF Heard
<1>7. CASE Ack(c)
  <2>1. ~unheard /\ text' = text
    BY <1>7 DEF Ack, callDb
  <2>2. due \in Nat
    BY Counters
  <2>3. CASE msg[c][1] = "text"
    <3>1. due' = due + 1
      BY <1>7, <2>3 DEF Ack
    <3>2. due' > 0
      BY <2>2, <3>1
    <3> QED
      BY <3>2 DEF Awaited
  <2>4. CASE msg[c][1] # "text"
    <3>1. due' = due /\ \A d \in Consumers \ {c} : at'[d] = at[d] /\ msg'[d] = msg[d]
      BY <1>1, <1>7, <2>4 DEF Ack, CallGoto
    <3>2. ~ \E v \in Texts : msg[c] = Transcription(v)
      BY <2>4 DEF Transcription
    <3>3. Awaited => Awaited'
      BY <3>1, <3>2 DEF Awaited
    <3>4. UpToDate => UpToDate'
      BY <1>2, <2>1 DEF UpToDate, Working
    <3> QED
      BY <1>6, <2>1, <3>3, <3>4
  <2> QED
    BY <2>3, <2>4
<1>8. ASSUME UNCHANGED <<text, due, unheard>>, at[c] # "ack",
             \A d \in Consumers \ {c} : at'[d] = at[d] /\ msg'[d] = msg[d]
      PROVE  Awaited' \/ UpToDate'
  <2>1. ~unheard
    BY <1>8
  <2>2. Awaited => Awaited'
    BY <1>8 DEF Awaited
  <2>3. UpToDate => UpToDate'
    BY <1>2, <1>8 DEF UpToDate, Working
  <2> QED
    BY <1>6, <2>1, <2>2, <2>3
<1>9. CASE SignalText(c)
  <2>1. UNCHANGED <<text, unheard>>
    <3>1. ~(unheard' = TRUE)
      OBVIOUS
    <3> QED
      BY <1>9, <3>1 DEF SignalText
  <2>2. due' = due /\ at[c] = "signal" /\ msg' = msg /\ at' = [at EXCEPT ![c] = "update"]
    BY <1>9 DEF SignalText, CallGoto
  <2> QED
    BY <1>1, <1>8, <2>1, <2>2
<1>10. CASE \/ TakeCreated(c) \/ CrmLook(c) \/ CrmCreate(c)
            \/ \E t \in EventTypes : TakeSignal(c, t)
            \/ Update(c) \/ Push(c)
            \/ \E v \in Texts : TakeText(c, v)
  <2>1. UNCHANGED <<text, due, unheard>> /\ at[c] # "ack"
    BY <1>10 DEF TakeCreated, CrmLook, CrmCreate, TakeSignal, Update, Push, TakeText,
                 Deliver, callDb, callHistory
  <2>2. PICK place, m : /\ at' = [at EXCEPT ![c] = place]
                        /\ msg' = msg \/ msg' = [msg EXCEPT ![c] = m]
    BY <1>10 DEF TakeCreated, CrmLook, CrmCreate, TakeSignal, Update, Push, TakeText,
                 Deliver, CallGoto
  <2>3. \A d \in Consumers \ {c} : at'[d] = at[d] /\ msg'[d] = msg[d]
    BY <1>1, <2>2
  <2> QED
    BY <1>8, <2>1, <2>3
<1> QED
  BY <1>3, <1>5, <1>7, <1>9, <1>10

LEMMA HeardStep ==
  LogInv /\ AuditTypes /\ Unscored /\ OneAnalysis /\ Heard /\ [AuditNext]_deskVars => Heard'
<1> SUFFICES ASSUME LogInv, AuditTypes, Unscored, OneAnalysis, Heard, [AuditNext]_deskVars,
                    ~aiRaced', ~unheard', ~unsaved', crashes' = 0
             PROVE  Awaited' \/ UpToDate'
  BY Zenon DEF Heard
<1>1. ASSUME ~aiRaced, ~unheard, ~unsaved, crashes = 0 PROVE Awaited \/ UpToDate
  BY <1>1, Zenon DEF Heard
<1>2. CASE CallSteps /\ UNCHANGED auditVars
  BY <1>2, HeardLogStep, Zenon DEF Heard
<1>3. ASSUME NEW a \in Analysts, Analyse(a) PROVE UpToDate' \/ Awaited'
  <2>1. CASE text = Nothing \/ ~agent
    <3>1. aiStatus = "none" /\ \A b \in Analysts : ~Working(b)
      BY <2>1, Zenon DEF Unscored
    <3>2. UNCHANGED <<job, aiStatus>>
      BY <1>3, <2>1, AnalyseEffect
    <3> QED
      BY <3>1, <3>2 DEF UpToDate, Working
  <2>2. CASE ~(text = Nothing \/ ~agent)
    <3>1. /\ text' = text /\ Working(a)' /\ jobText'[a] = text
          /\ \A b \in Analysts \ {a} : job'[b] = job[b]
          /\ aiRaced' = (aiRaced \/ \E b \in Analysts : Working(b))
      BY <1>3, <2>2, AnalyseEffect
    <3>2. ~ \E b \in Analysts : Working(b)
      BY <3>1, Zenon
    <3>3. \A b \in Analysts : Working(b)' => b = a
      BY <3>1, <3>2 DEF Working
    <3> QED
      BY <3>1, <3>3 DEF UpToDate
  <2> QED
    BY <2>1, <2>2
<1>4. ASSUME NEW a \in Analysts, AnalysisStep(a) PROVE Awaited' \/ UpToDate'
  <2>1. /\ UNCHANGED <<text, due, at, msg, unheard, crashes, aiRaced>> /\ Working(a)
        /\ \A b \in Analysts \ {a} : job'[b] = job[b] /\ jobText'[b] = jobText[b]
        /\ \/ Working(a)' /\ jobText' = jobText
           \/ ~Working(a)' /\ aiStatus' = "completed" /\ aiOf' = jobText[a]
           \/ ~Working(a)' /\ aiStatus' = "failed"
    BY <1>4, AnalysisEffect
  <2>2. ~aiRaced /\ ~unheard /\ ~unsaved /\ crashes = 0
    BY <1>4, <2>1, AnalysisEffect
  <2>3. \A b \in Analysts : Working(b) => b = a
    BY <2>1, <2>2, Zenon DEF OneAnalysis
  <2>4. Awaited => Awaited'
    BY <2>1 DEF Awaited
  <2>5. UpToDate => UpToDate'
    BY <2>1, <2>3 DEF UpToDate, Working
  <2> QED
    BY <1>1, <2>2, <2>4, <2>5
<1>5. ASSUME UNCHANGED <<callVars, aiStatus, aiOf, job, jobText, aiRaced, unsaved>>
      PROVE  Awaited' \/ UpToDate'
  <2>1. UNCHANGED <<text, due, at, msg, unheard, crashes, aiStatus, aiOf, job, jobText, aiRaced,
                   unsaved>>
    BY <1>5 DEF callVars, callDb, callHistory
  <2>2. ~aiRaced /\ ~unheard /\ ~unsaved /\ crashes = 0
    BY <2>1
  <2>3. (Awaited => Awaited') /\ (UpToDate => UpToDate')
    BY <2>1 DEF Awaited, UpToDate, Working
  <2> QED
    BY <1>1, <2>2, <2>3
<1>6. CASE AuditCrash
  <2>1. crashes' = crashes + 1 /\ crashes \in Nat
    BY <1>6, Counters DEF AuditCrash, CallCrash, LogInv
  <2>2. crashes' # 0
    BY <2>1
  <2> QED
    BY <2>2
<1> QED
  BY <1>2, <1>3, <1>4, <1>5, <1>6, HumanEffect
     DEF AuditNext, deskVars, auditVars, auditDb, auditHistory

AuditInv ==
  /\ LogInv /\ CrmInv /\ AuditTypes /\ HumanInv
  /\ PendingIsAnalysed /\ Unscored /\ OneAnalysis /\ Heard

LEMMA AuditInvariant == AuditSpec => []AuditInv
<1>1. AuditInit => AuditInv
  <2>1. AuditInit => CrmInv /\ PendingIsAnalysed
    BY InitCrm DEF AuditInit, PendingIsAnalysed
  <2> QED
    BY <2>1, DeskInit, InitAuditTypes, InitHuman, InitText DEF AuditInv
<1>2. AuditInv /\ [AuditNext]_deskVars => AuditInv'
  <2> SUFFICES ASSUME AuditInv, [AuditNext]_deskVars PROVE AuditInv'
    OBVIOUS
  <2> USE DEF AuditInv
  <2>1. CrmInv'
    <3>1. CASE CallSteps \/ CallCrash \/ UNCHANGED callVars
      BY <3>1, CrmStep DEF CallNext
    <3>2. ASSUME NEW a \in Analysts, Analyse(a) PROVE CrmInv'
      BY <3>2, CrmAway DEF Analyse, callDb, callHistory
    <3>3. ASSUME NEW a \in Analysts, AnalysisStep(a) PROVE UNCHANGED callVars
      BY <3>3 DEF AnalysisStep, MarkPending, LlmAnswers, SaveCompleted, SaveFailed, AuditWriteFails,
                  AnalysisEnds
    <3> QED
      BY <3>1, <3>2, <3>3, HumanEffect DEF AuditNext, AuditCrash, deskVars
  <2> QED
    BY <2>1, DeskStep, AuditTypeStep, HumanStep, PendingStep, UnscoredStep,
       OneAnalysisStep, HeardStep
<1> QED
  BY <1>1, <1>2, PTL DEF AuditSpec

\* The audits are right for any number of analyses, submissions and deliveries: one
\* shown as pending is being made, a completed one is of the text the log shows, and
\* the checklist is that of the auditor the call has, but for the overlaps, crashes
\* and unheard changes the properties name.
THEOREM AuditIsCorrect == AuditSpec => []AuditCorrect
<1>1. AuditInv => AuditCorrect
  <2> SUFFICES ASSUME AuditInv PROVE AuditCorrect
    OBVIOUS
  <2>1. AuditTypeOK
    BY Zenon DEF AuditInv, LogInv, AuditTypes, AuditTypeOK
  <2>2. ChecklistIsTheAuditors
    BY Zenon DEF AuditInv, HumanInv, ChecklistIsTheAuditors
  <2> QED
    BY <2>1, <2>2, QuietTextIsScored DEF AuditInv, AuditCorrect
<1> QED
  BY <1>1, AuditInvariant, PTL

\* The log keeps what it promises when its analyses and checklists run beside it.
THEOREM AuditedCallIsCorrect == AuditSpec => []CallCorrect
<1>1. AuditInv => CallCorrect
  BY LogIsCorrect DEF AuditInv
<1> QED
  BY <1>1, AuditInvariant, PTL

-----------------------------------------------------------------------------
(* The outcome of a call                                                     *)

\* A list of signals that have timestamps.
Timed(evts) ==
  /\ Len(evts) \in Nat /\ DOMAIN evts = 1 .. Len(evts)
  /\ \A k \in DOMAIN evts : evts[k].time \in Nat

\* Those of S that come before i.
Before(evts, S, i) == {j \in S : Earlier(evts, j, i)}

\* The stable sort is a strict total order.
LEMMA EarlierOrders ==
  ASSUME NEW evts, Timed(evts),
         NEW i \in DOMAIN evts, NEW j \in DOMAIN evts
  PROVE  /\ ~Earlier(evts, i, i)
         /\ Earlier(evts, i, j) => ~Earlier(evts, j, i)
         /\ i # j => Earlier(evts, i, j) \/ Earlier(evts, j, i)
         /\ \A k \in DOMAIN evts :
              Earlier(evts, i, j) /\ Earlier(evts, j, k) => Earlier(evts, i, k)
<1>1. \A k \in DOMAIN evts : k \in Nat /\ evts[k].time \in Nat
  BY DEF Timed
<1> QED
  BY <1>1 DEF Earlier

\* Counting those before numbers the members of S in their order, without a gap.
LEMMA Ranks ==
  ASSUME NEW evts, Timed(evts),
         NEW S \in SUBSET DOMAIN evts
  PROVE  /\ IsFiniteSet(S) /\ Cardinality(S) \in Nat
         /\ \A i \in S : Cardinality(Before(evts, S, i)) \in 0 .. (Cardinality(S) - 1)
         /\ \A i, j \in S : Earlier(evts, i, j)
              <=> Cardinality(Before(evts, S, i)) < Cardinality(Before(evts, S, j))
         /\ \A n \in 0 .. (Cardinality(S) - 1) :
              \E i \in S : Cardinality(Before(evts, S, i)) = n
<1> DEFINE N == Cardinality(S)
           rank == [i \in S |-> Cardinality(Before(evts, S, i))]
<1>1. IsFiniteSet(S) /\ N \in Nat
  <2>1. IsFiniteSet(DOMAIN evts)
    BY FS_Interval DEF Timed
  <2> QED
    BY <2>1, FS_Subset, FS_CardinalityType
<1>2. ASSUME NEW i \in S
      PROVE  /\ IsFiniteSet(Before(evts, S, i))
             /\ Cardinality(Before(evts, S, i)) \in 0 .. (N - 1)
  <2>1. Before(evts, S, i) \in SUBSET (S \ {i})
    BY EarlierOrders DEF Before
  <2>2. IsFiniteSet(S \ {i}) /\ Cardinality(S \ {i}) = N - 1
    BY <1>1, FS_RemoveElement
  <2>3. /\ IsFiniteSet(Before(evts, S, i))
        /\ Cardinality(Before(evts, S, i)) <= N - 1
    BY <2>1, <2>2, FS_Subset
  <2>4. Cardinality(Before(evts, S, i)) \in Nat
    BY <2>3, FS_CardinalityType
  <2> QED
    BY <1>1, <2>3, <2>4
<1>3. ASSUME NEW i \in S, NEW j \in S, Earlier(evts, i, j)
      PROVE  Cardinality(Before(evts, S, i)) < Cardinality(Before(evts, S, j))
  <2>1. Before(evts, S, i) \in SUBSET Before(evts, S, j)
    BY <1>3, EarlierOrders DEF Before
  <2>2. Before(evts, S, i) # Before(evts, S, j)
    BY <1>3, EarlierOrders DEF Before
  <2>3. /\ Cardinality(Before(evts, S, i)) <= Cardinality(Before(evts, S, j))
        /\ Cardinality(Before(evts, S, i)) # Cardinality(Before(evts, S, j))
    BY <1>2, <2>1, <2>2, FS_Subset
  <2>4. /\ Cardinality(Before(evts, S, i)) \in Nat
        /\ Cardinality(Before(evts, S, j)) \in Nat
    BY <1>2, FS_CardinalityType
  <2> QED
    BY <2>3, <2>4
<1>4. \A i, j \in S : Earlier(evts, i, j)
        <=> Cardinality(Before(evts, S, i)) < Cardinality(Before(evts, S, j))
  <2> SUFFICES ASSUME NEW i \in S, NEW j \in S, ~Earlier(evts, i, j)
               PROVE  ~(Cardinality(Before(evts, S, i)) < Cardinality(Before(evts, S, j)))
    BY <1>3
  <2>1. /\ Cardinality(Before(evts, S, i)) \in Nat
        /\ Cardinality(Before(evts, S, j)) \in Nat
    BY <1>2, FS_CardinalityType
  <2>2. CASE i = j
    BY <2>1, <2>2
  <2>3. CASE i # j
    <3>1. Earlier(evts, j, i)
      BY <2>3, EarlierOrders
    <3>2. Cardinality(Before(evts, S, j)) < Cardinality(Before(evts, S, i))
      BY <1>3, <3>1
    <3> QED
      BY <2>1, <3>2
  <2> QED
    BY <2>2, <2>3
<1>5. rank \in Injection(S, 0 .. (N - 1))
  <2>1. rank \in [S -> 0 .. (N - 1)]
    BY <1>2
  <2>2. ASSUME NEW i \in S, NEW j \in S, rank[i] = rank[j] PROVE i = j
    <3>1. Cardinality(Before(evts, S, i)) = Cardinality(Before(evts, S, j))
      BY <2>2
    <3>2. Cardinality(Before(evts, S, j)) \in Nat
      BY <1>2, FS_CardinalityType
    <3>3. ~(Cardinality(Before(evts, S, i)) < Cardinality(Before(evts, S, j)))
          /\ ~(Cardinality(Before(evts, S, j)) < Cardinality(Before(evts, S, i)))
      BY <3>1, <3>2
    <3>4. ~Earlier(evts, i, j) /\ ~Earlier(evts, j, i)
      BY <1>4, <3>3
    <3> QED
      BY <3>4, EarlierOrders
  <2>3. \A i, j \in S : rank[i] = rank[j] => i = j
    BY <2>2
  <2> HIDE DEF rank
  <2> QED
    BY <2>1, <2>3 DEF Injection, IsInjective
<1>6. IsFiniteSet(0 .. (N - 1)) /\ Cardinality(0 .. (N - 1)) = N
  <2>1. N - 1 \in Int /\ (IF 0 > N - 1 THEN 0 ELSE (N - 1) - 0 + 1) = N
    BY <1>1
  <2> HIDE DEF N
  <2> QED
    BY <2>1, FS_Interval
<1>7. rank \in Surjection(S, 0 .. (N - 1))
  BY <1>5, <1>6, FS_Injection
<1>8. \A n \in 0 .. (N - 1) : \E i \in S : rank[i] = n
  BY <1>7 DEF Surjection
<1> QED
  BY <1>1, <1>2, <1>4, <1>8

\* Some signals have one that comes after all the others, and it is the only one.
LEMMA Latest ==
  ASSUME NEW evts, Timed(evts),
         NEW S \in SUBSET DOMAIN evts, S # {}
  PROVE  /\ LatestOf(evts, S) \in S
         /\ \A j \in S \ {LatestOf(evts, S)} : Earlier(evts, j, LatestOf(evts, S))
         /\ \A i \in S : (\A j \in S \ {i} : Earlier(evts, j, i)) => i = LatestOf(evts, S)
<1> DEFINE N == Cardinality(S)
<1>1. IsFiniteSet(S) /\ N \in Nat /\ N # 0
  BY Ranks, FS_EmptySet
<1>2. N - 1 \in 0 .. (N - 1)
  BY <1>1
<1>3. PICK i \in S : Cardinality(Before(evts, S, i)) = N - 1
  BY <1>2, Ranks
<1>4. Before(evts, S, i) = S \ {i}
  <2>1. Before(evts, S, i) \in SUBSET (S \ {i})
    BY EarlierOrders DEF Before
  <2>2. IsFiniteSet(S \ {i}) /\ Cardinality(S \ {i}) = N - 1
    BY <1>1, FS_RemoveElement
  <2> QED
    BY <1>3, <2>1, <2>2, FS_Subset
<1>5. i \in S /\ \A j \in S \ {i} : Earlier(evts, j, i)
  BY <1>4 DEF Before
<1>6. /\ LatestOf(evts, S) \in S
      /\ \A j \in S \ {LatestOf(evts, S)} : Earlier(evts, j, LatestOf(evts, S))
  BY <1>5 DEF LatestOf
<1>7. ASSUME NEW k \in S, \A j \in S \ {k} : Earlier(evts, j, k)
      PROVE  k = LatestOf(evts, S)
  BY <1>6, <1>7, EarlierOrders
<1> QED
  BY <1>6, <1>7

LEMMA UpTo == ASSUME NEW n \in Nat PROVE IsFiniteSet(1 .. n) /\ Cardinality(1 .. n) = n
BY FS_Interval

\* The n-th in the order of the timestamps has n - 1 before it.
LEMMA SortedAt ==
  ASSUME NEW evts, Timed(evts), NEW i \in DOMAIN evts
  PROVE  LET n == Cardinality(Before(evts, DOMAIN evts, i)) + 1
         IN n \in DOMAIN evts /\ Sorted(evts)[n] = evts[i]
<1> DEFINE D == DOMAIN evts
           n == Cardinality(Before(evts, D, i)) + 1
<1>1. Cardinality(D) = Len(evts) /\ Len(evts) \in Nat
  <2>1. Len(evts) \in Nat /\ D = 1 .. Len(evts)
    BY DEF Timed
  <2>2. Cardinality(1 .. Len(evts)) = Len(evts)
    BY <2>1, UpTo
  <2> QED
    BY <2>1, <2>2
<1>2. /\ \A k \in D : Cardinality(Before(evts, D, k)) \in 0 .. (Cardinality(D) - 1)
      /\ \A k, j \in D : Earlier(evts, k, j)
           <=> Cardinality(Before(evts, D, k)) < Cardinality(Before(evts, D, j))
  BY Ranks
<1>3. n \in D /\ n - 1 = Cardinality(Before(evts, D, i))
  <2>1. Cardinality(Before(evts, D, i)) \in 0 .. (Len(evts) - 1)
    BY <1>1, <1>2
  <2> HIDE DEF D
  <2>2. n \in 1 .. Len(evts) /\ n - 1 = Cardinality(Before(evts, D, i))
    BY <1>1, <2>1
  <2> QED
    BY <2>2 DEF Timed, D
<1>4. ASSUME NEW k \in D, Cardinality(Before(evts, D, k)) = n - 1 PROVE k = i
  <2>1. Cardinality(Before(evts, D, i)) \in Nat
    BY <1>1, <1>2
  <2>2. /\ ~(Cardinality(Before(evts, D, i)) < Cardinality(Before(evts, D, k)))
        /\ ~(Cardinality(Before(evts, D, k)) < Cardinality(Before(evts, D, i)))
    BY <1>3, <1>4, <2>1
  <2> QED
    BY <1>2, <2>2, EarlierOrders
<1>5. (CHOOSE k \in D : Cardinality(Before(evts, D, k)) = n - 1) = i
  BY <1>3, <1>4
<1>6. Sorted(evts)[n] = evts[CHOOSE k \in D : Cardinality(Before(evts, D, k)) = n - 1]
  BY <1>3 DEF Sorted, Before
<1> QED
  BY <1>3, <1>5, <1>6

\* Whatever signals the log has, with whatever timestamps and in whatever order they came,
\* the staff report counts the call as what the list of calls shows, if no status is
\* empty.
THEOREM ReportsTheSame ==
  ASSUME NEW evts, Timed(evts), \A i \in DOMAIN evts : evts[i].status # "empty", NEW status
  PROVE  ReportedOutcome(evts, status) = Resolved(evts, status)
<1> DEFINE D == DOMAIN evts
           At(i) == Cardinality(Before(evts, D, i)) + 1
           done == {i \in D : evts[i].type = "completed"}
           ends == {n \in D : Sorted(evts)[n].type = "completed"}
           end == IF ends = {} THEN Len(evts) + 1
                  ELSE CHOOSE n \in ends : \A k \in ends : k <= n
           Said(e) == EventOutcome(e.type, IF e.status = "none" THEN status ELSE e.status)
           Counted(e) ==
             EventOutcome(e.type, IF e.status \in {"none", "empty"} THEN status ELSE e.status)
<1>1. /\ ReportedOutcome(evts, status) =
           IF end = 1 THEN StatusOutcome(status) ELSE Counted(Sorted(evts)[end - 1])
      /\ Resolved(evts, status) =
           IF Preceding(evts) = {} THEN StatusOutcome(status)
           ELSE Said(evts[LatestOf(evts, Preceding(evts))])
  BY DEF ReportedOutcome, Resolved
<1>2. \A i \in D : At(i) \in D /\ Sorted(evts)[At(i)] = evts[i]
  BY SortedAt
<1>3. Len(evts) \in Nat /\ D = 1 .. Len(evts)
  BY DEF Timed
<1>4. \A i, j \in D : Earlier(evts, i, j) <=> At(i) < At(j)
  <2>1. \A i, j \in D : Earlier(evts, i, j)
          <=> Cardinality(Before(evts, D, i)) < Cardinality(Before(evts, D, j))
    BY Ranks
  <2>2. \A i \in D : Cardinality(Before(evts, D, i)) \in Nat
    <3>1. \A i \in D : Cardinality(Before(evts, D, i)) \in 0 .. (Cardinality(D) - 1)
      BY Ranks
    <3> QED
      BY <3>1
  <2> QED
    BY <2>1, <2>2
<1>5. \A n \in D : \E i \in D : At(i) = n
  <2>1. Cardinality(D) = Len(evts)
    BY <1>3, UpTo
  <2>2. \A n \in 0 .. (Cardinality(D) - 1) : \E i \in D : Cardinality(Before(evts, D, i)) = n
    BY Ranks
  <2> SUFFICES ASSUME NEW n \in D PROVE \E i \in D : At(i) = n
    OBVIOUS
  <2>3. n \in Int /\ n - 1 \in 0 .. (Len(evts) - 1)
    BY <1>3
  <2>4. PICK i \in D : Cardinality(Before(evts, D, i)) = n - 1
    BY <2>1, <2>2, <2>3
  <2> QED
    BY <2>3, <2>4
<1> HIDE DEF At
<1>6. ASSUME NEW m \in D, NEW S \in SUBSET D, S = {i \in D : At(i) <= m}
      PROVE  S # {} /\ Sorted(evts)[m] = evts[LatestOf(evts, S)]
  <2>1. PICK i \in D : At(i) = m
    BY <1>5
  <2>2. m \in Int
    BY <1>3
  <2>3. i \in S
    BY <1>6, <2>1, <2>2
  <2>4. ASSUME NEW j \in S \ {i} PROVE Earlier(evts, j, i)
    <3>1. At(j) <= m /\ At(j) \in Int /\ ~(At(i) < At(j))
      BY <1>2, <1>3, <1>6, <2>1
    <3>2. ~Earlier(evts, i, j)
      BY <1>4, <3>1
    <3> QED
      BY <3>2, EarlierOrders
  <2>5. i = LatestOf(evts, S)
    BY <2>3, <2>4, Latest
  <2> QED
    BY <1>2, <2>1, <2>3, <2>5
<1>7. end \in 1 .. (Len(evts) + 1) /\ Preceding(evts) = {i \in D : At(i) <= end - 1}
  <2>1. CASE done = {}
    <3>1. ends = {}
      <4> SUFFICES ASSUME NEW n \in D, Sorted(evts)[n].type = "completed" PROVE FALSE
        OBVIOUS
      <4>1. PICK i \in D : At(i) = n
        BY <1>5
      <4> QED
        BY <1>2, <2>1, <4>1
    <3>2. end = Len(evts) + 1 /\ Preceding(evts) = D
      BY <2>1, <3>1 DEF Preceding
    <3>3. \A i \in D : At(i) <= Len(evts)
      BY <1>2, <1>3
    <3> HIDE DEF end
    <3>4. end - 1 = Len(evts) /\ end \in 1 .. (Len(evts) + 1)
      BY <1>3, <3>2
    <3> QED
      BY <3>2, <3>3, <3>4
  <2>2. CASE done # {}
    <3> DEFINE last == LatestOf(evts, done)
    <3>1. last \in done /\ \A j \in done \ {last} : Earlier(evts, j, last)
      BY <2>2, Latest
    <3>2. Preceding(evts) = {i \in D : Earlier(evts, i, last)}
      BY <2>2 DEF Preceding
    <3> HIDE DEF last
    <3>3. last \in D /\ At(last) \in ends
      BY <1>2, <3>1
    <3>4. ASSUME NEW n \in ends PROVE n <= At(last)
      <4>1. PICK i \in D : At(i) = n
        BY <1>5
      <4>2. i \in done
        BY <1>2, <4>1
      <4>3. At(i) \in Int
        BY <1>2, <1>3
      <4>4. CASE i = last
        BY <4>1, <4>3, <4>4
      <4>5. CASE i # last
        <5>1. At(i) < At(last)
          BY <1>4, <3>1, <3>3, <4>2, <4>5
        <5>2. At(last) \in Int
          BY <1>3, <3>3
        <5> QED
          BY <4>1, <4>3, <5>1, <5>2
      <4> QED
        BY <4>4, <4>5
    <3>5. ASSUME NEW n \in ends, \A k \in ends : k <= n PROVE n = At(last)
      <4>1. n \in Int /\ At(last) \in Int
        BY <1>3, <3>3
      <4>2. n <= At(last) /\ At(last) <= n
        BY <3>3, <3>4, <3>5
      <4> QED
        BY <4>1, <4>2
    <3>6. end = At(last)
      BY <3>3, <3>4, <3>5
    <3>7. At(last) \in 1 .. (Len(evts) + 1)
      BY <1>3, <3>3
    <3>8. \A i \in D : At(i) < At(last) <=> At(i) <= At(last) - 1
      BY <1>2, <1>3, <3>3
    <3> QED
      BY <1>4, <3>2, <3>3, <3>6, <3>7, <3>8
  <2> QED
    BY <2>1, <2>2
<1>10. \A i \in D : Counted(evts[i]) = Said(evts[i])
  OBVIOUS
<1> HIDE DEF end, Said, Counted, done, ends
<1>8. CASE end = 1
  <2>1. \A i \in D : ~(At(i) <= end - 1)
    BY <1>2, <1>3, <1>8
  <2>2. Preceding(evts) = {}
    BY <1>7, <2>1
  <2> QED
    BY <1>1, <1>8, <2>2
<1>9. CASE end # 1
  <2>1. end - 1 \in D
    BY <1>3, <1>7, <1>9
  <2>2. Preceding(evts) \in SUBSET D
    BY <1>7
  <2>3. Preceding(evts) # {} /\ Sorted(evts)[end - 1] = evts[LatestOf(evts, Preceding(evts))]
    BY <1>6, <1>7, <2>1, <2>2
  <2>4. LatestOf(evts, Preceding(evts)) \in D
    BY <2>2, <2>3, Latest
  <2> QED
    BY <1>1, <1>9, <1>10, <2>3, <2>4
<1> QED
  BY <1>8, <1>9

\* Only signals of the call are ever in the list.
FlowInv ==
  /\ Stored \subseteq Elements(flow)
  /\ \A c \in Consumers : at[c] \in {"signal", "update", "push"} => msg[c][2] \in Elements(flow)

LEMMA InitFlow == CallInit => FlowInv
BY DEF CallInit, FlowInv, Stored, Elements

LEMMA FlowStep == LogInv /\ FlowInv /\ [CallNext]_callVars => FlowInv'
<1> SUFFICES ASSUME LogInv, FlowInv, [CallNext]_callVars PROVE FlowInv'
  OBVIOUS
<1> DEFINE Between(c) == at[c] \in {"signal", "update", "push"}
<1>1. at \in [Consumers -> Places] /\ msg \in [Consumers -> Messages \cup {Nothing}]
  BY DEF LogInv, CallTypeOK, Places
<1>2. /\ Stored \subseteq Elements(flow)
      /\ \A c \in Consumers : Between(c) => msg[c][2] \in Elements(flow)
  BY DEF FlowInv
<1>3. ASSUME UNCHANGED <<flow, events>>,
             \A c \in Consumers : Between(c)' => Between(c) /\ msg'[c] = msg[c]
      PROVE  FlowInv'
  <2>1. Stored' = Stored /\ Elements(flow)' = Elements(flow)
    BY <1>3 DEF Stored, Elements
  <2> QED
    BY <1>2, <1>3, <2>1 DEF FlowInv
<1>4. ASSUME NEW c \in Consumers, NEW t \in EventTypes, TakeSignal(c, t) PROVE FlowInv'
  <2>1. /\ UNCHANGED <<flow, events>> /\ t \in Elements(flow) /\ Signal(t)[2] = t
        /\ at' = [at EXCEPT ![c] = "signal"] /\ msg' = [msg EXCEPT ![c] = Signal(t)]
    BY <1>4, MessagesDiffer DEF TakeSignal, Deliver, callDb
  <2>2. Stored' = Stored /\ Elements(flow)' = Elements(flow)
    BY <2>1 DEF Stored, Elements
  <2>3. \A d \in Consumers : at'[d] \in {"signal", "update", "push"}
                               => msg'[d][2] \in Elements(flow)
    <3>1. \A d \in Consumers \ {c} : at'[d] = at[d] /\ msg'[d] = msg[d]
      BY <1>1, <2>1
    <3>2. msg'[c] = Signal(t)
      BY <1>1, <2>1
    <3> HIDE DEF Between
    <3> QED
      BY <1>2, <2>1, <3>1, <3>2 DEF Between
  <2> QED
    BY <1>2, <2>2, <2>3 DEF FlowInv
<1>5. ASSUME NEW c \in Consumers, Push(c) PROVE FlowInv'
  <2>1. Between(c) /\ flow' = flow /\ msg' = msg /\ at' = [at EXCEPT ![c] = "ack"]
    BY <1>5 DEF Push, CallGoto
  <2>2. Stored' \subseteq Stored \cup {msg[c][2]}
    <3>1. PICK t \in EventTypes : msg[c] = Signal(t)
      BY <1>5 DEF LogInv, Holds, Push
    <3>2. msg[c][2] = t
      BY <3>1, MessagesDiffer
    <3>3. CASE t \in Stored
      <4>1. events' = events
        BY <1>5, <3>2, <3>3 DEF Push
      <4> QED
        BY <4>1 DEF Stored, Elements
    <3>4. CASE t \notin Stored
      <4>1. events' = Append(events, t) /\ events \in Seq(EventTypes)
        BY <1>5, <3>2, <3>4 DEF Push, LogInv, CallTypeOK
      <4> QED
        BY <3>2, <4>1, Appended
    <3> QED
      BY <3>3, <3>4
  <2>3. \A d \in Consumers : Between(d)' => Between(d)
    BY <1>1, <2>1
  <2>4. Elements(flow)' = Elements(flow)
    BY <2>1 DEF Elements
  <2>5. Stored' \subseteq Elements(flow)
    BY <1>2, <2>1, <2>2
  <2> QED
    BY <1>2, <2>1, <2>3, <2>4, <2>5 DEF FlowInv
<1>6. ASSUME NEW c \in Consumers, SignalText(c) \/ Update(c) PROVE FlowInv'
  <2>1. UNCHANGED <<flow, events, msg>> /\ Between(c)
    BY <1>6 DEF SignalText, Update, callDb
  <2>2. \A d \in Consumers : Between(d)' => Between(d)
    BY <1>1, <1>6, <2>1 DEF SignalText, Update, CallGoto
  <2> QED
    BY <1>3, <2>1, <2>2
<1>7. ASSUME NEW c \in Consumers,
             \/ TakeCreated(c) \/ CrmLook(c) \/ CrmCreate(c)
             \/ \E v \in Texts : TakeText(c, v)
             \/ SaveText(c) \/ Ack(c)
      PROVE  FlowInv'
  <2>1. UNCHANGED <<flow, events>>
    BY <1>7 DEF TakeCreated, CrmLook, CrmCreate, TakeText, SaveText, Ack, callDb
  <2>2. PICK place \in Places \ {"signal", "update", "push"} :
          /\ at' = [at EXCEPT ![c] = place]
          /\ msg' = msg \/ \E m : msg' = [msg EXCEPT ![c] = m]
    BY <1>7 DEF TakeCreated, CrmLook, CrmCreate, TakeText, SaveText, Ack, Deliver, CallGoto,
                Places
  <2>3. \A d \in Consumers : Between(d)' => Between(d) /\ msg'[d] = msg[d]
    BY <1>1, <2>2
  <2> QED
    BY <1>3, <2>1, <2>3
<1>8. CASE CallCrash
  BY <1>3, <1>8 DEF CallCrash, callDb
<1>9. CASE UNCHANGED callVars
  BY <1>3, <1>9 DEF callVars, callDb
<1> QED
  BY <1>4, <1>5, <1>6, <1>7, <1>8, <1>9 DEF CallNext, CallSteps

\* The signals of the call differ, so that each has its place.
LEMMA TimeOfSignal ==
  ASSUME LogInv, NEW n \in DOMAIN flow
  PROVE  flow[n] \in EventTypes /\ n \in Nat /\ TimeOf(flow[n]) = n
<1>1. flow \in Seq(EventTypes) /\ \A i, j \in DOMAIN flow : flow[i] = flow[j] => i = j
  BY FlowsAssumption DEF LogInv, CallTypeOK
<1>2. flow[n] \in EventTypes /\ n \in Nat
  BY <1>1
<1>3. \A i \in DOMAIN flow : flow[i] = flow[n] => i = n
  BY <1>1
<1> QED
  BY <1>2, <1>3 DEF TimeOf

\* The rows have the timestamps of their signals, which differ.
LEMMA RowsTimed ==
  ASSUME LogInv, FlowInv
  PROVE  /\ Timed(Rows) /\ DOMAIN Rows = DOMAIN events
         /\ \A i \in DOMAIN events :
              /\ events[i] \in Elements(flow)
              /\ Rows[i].type = events[i] /\ Rows[i].status = SignalStatus[events[i]]
              /\ Rows[i].time \in DOMAIN flow /\ flow[Rows[i].time] = events[i]
         /\ \A i, j \in DOMAIN events : Rows[i].time = Rows[j].time => i = j
<1>1. events \in Seq(EventTypes) /\ OneEventPerType
  BY DEF LogInv, CallTypeOK
<1>2. /\ DOMAIN Rows = DOMAIN events
      /\ \A i \in DOMAIN events : /\ Rows[i].type = events[i] /\ Rows[i].status = SignalStatus[events[i]]
                                  /\ Rows[i].time = TimeOf(events[i])
  BY DEF Rows
<1>3. ASSUME NEW i \in DOMAIN events
      PROVE  /\ events[i] \in Elements(flow)
             /\ Rows[i].time \in DOMAIN flow /\ flow[Rows[i].time] = events[i]
             /\ Rows[i].time \in Nat
  <2>1. events[i] \in Elements(flow)
    BY DEF FlowInv, Stored, Elements
  <2>2. PICK n \in DOMAIN flow : events[i] = flow[n]
    BY <2>1 DEF Elements
  <2>3. Rows[i].time = n /\ n \in Nat
    BY <1>2, <2>2, TimeOfSignal
  <2> QED
    BY <2>1, <2>2, <2>3
<1>4. ASSUME NEW i \in DOMAIN events, NEW j \in DOMAIN events, Rows[i].time = Rows[j].time
      PROVE  i = j
  BY <1>1, <1>3, <1>4 DEF OneEventPerType
<1>5. Len(Rows) = Len(events) /\ DOMAIN events = 1 .. Len(events) /\ Len(events) \in Nat
  <2>1. DOMAIN events = 1 .. Len(events) /\ Len(events) \in Nat
    BY <1>1
  <2>2. Rows \in Seq({Rows[i] : i \in DOMAIN events})
    BY <2>1 DEF Rows
  <2> QED
    BY <1>2, <2>1, <2>2
<1> QED
  BY <1>2, <1>3, <1>4, <1>5 DEF Timed

\* With all its signals in the list, what comes last in it is what happened last.
LEMMA OutcomeOfAll ==
  ASSUME LogInv, FlowInv, \A t \in Elements(flow) : Signal(t) \in settled
  PROVE  Resolved(Rows, header) = TrueOutcome
<1> DEFINE D == DOMAIN events
           ends == {i \in DOMAIN flow : flow[i] = "completed"}
           n == IF ends = {} THEN Len(flow) ELSE (CHOOSE i \in ends : TRUE) - 1
<1>1. /\ Timed(Rows) /\ DOMAIN Rows = D
      /\ \A i \in D : /\ events[i] \in Elements(flow)
                      /\ Rows[i].type = events[i] /\ Rows[i].status = SignalStatus[events[i]]
                      /\ Rows[i].time \in DOMAIN flow /\ flow[Rows[i].time] = events[i]
      /\ \A i, j \in D : Rows[i].time = Rows[j].time => i = j
  BY RowsTimed
<1>2. /\ Len(flow) \in Nat /\ DOMAIN flow = 1 .. Len(flow)
      /\ \A i, j \in DOMAIN flow : flow[i] = flow[j] => i = j
  <2>1. flow \in Seq(EventTypes) /\ \A i, j \in DOMAIN flow : flow[i] = flow[j] => i = j
    BY FlowsAssumption DEF LogInv, CallTypeOK
  <2> QED
    BY <2>1
<1>3. ASSUME NEW m \in DOMAIN flow PROVE \E i \in D : Rows[i].time = m
  <2>1. flow[m] \in Elements(flow) /\ flow[m] \in EventTypes
    BY TimeOfSignal DEF Elements
  <2>2. flow[m] \in Stored
    BY <2>1 DEF LogInv
  <2>3. PICK i \in D : events[i] = flow[m]
    BY <2>2 DEF Stored, Elements
  <2> QED
    BY <1>1, <1>2, <2>3
<1>4. /\ TrueOutcome =
           IF n = 0 THEN StatusOutcome(header)
           ELSE EventOutcome(flow[n], IF SignalStatus[flow[n]] = "none" THEN header
                                      ELSE SignalStatus[flow[n]])
      /\ Resolved(Rows, header) =
           IF Preceding(Rows) = {} THEN StatusOutcome(header)
           ELSE LET last == Rows[LatestOf(Rows, Preceding(Rows))]
                IN EventOutcome(last.type, IF last.status = "none" THEN header ELSE last.status)
  BY DEF TrueOutcome, Resolved
<1>5. n \in 0 .. Len(flow) /\ Preceding(Rows) = {i \in D : Rows[i].time <= n}
  <2> DEFINE done == {i \in D : Rows[i].type = "completed"}
  <2>1. \A i \in D : Rows[i].time \in Nat /\ Rows[i].time <= Len(flow)
    BY <1>1, <1>2
  <2>2. CASE ends = {}
    <3>1. done = {}
      BY <1>1, <2>2
    <3>2. Preceding(Rows) = D
      BY <1>1, <3>1 DEF Preceding
    <3>3. n = Len(flow)
      BY <2>2
    <3> HIDE DEF n
    <3>4. n \in 0 .. Len(flow)
      BY <1>2, <3>3
    <3>5. D = {i \in D : Rows[i].time <= n}
      BY <2>1, <3>3
    <3> QED
      BY <3>2, <3>4, <3>5
  <2>3. CASE ends # {}
    <3>1. PICK k \in DOMAIN flow : flow[k] = "completed"
      BY <2>3
    <3>2. (CHOOSE i \in ends : TRUE) = k
      BY <1>2, <3>1
    <3>3. n = k - 1 /\ k \in Nat /\ n \in 0 .. Len(flow)
      BY <1>2, <2>3, <3>2
    <3>4. PICK r \in D : Rows[r].time = k
      BY <1>3
    <3>5. done = {r}
      BY <1>1, <1>2, <3>1, <3>4
    <3>6. LatestOf(Rows, done) = r
      BY <1>1, <3>5, Latest
    <3>7. Preceding(Rows) = {i \in D : Earlier(Rows, i, r)}
      BY <1>1, <3>5, <3>6 DEF Preceding
    <3>8. ASSUME NEW i \in D PROVE Earlier(Rows, i, r) <=> Rows[i].time < k
      BY <1>1, <3>4, EarlierOrders DEF Earlier
    <3>9. ASSUME NEW i \in D PROVE Rows[i].time < k <=> Rows[i].time <= n
      BY <2>1, <3>3
    <3> HIDE DEF n
    <3>10. Preceding(Rows) = {i \in D : Rows[i].time <= n}
      BY <3>7, <3>8, <3>9
    <3> QED
      BY <3>3, <3>10
  <2> QED
    BY <2>2, <2>3
<1> HIDE DEF n
<1>6. CASE n = 0
  <2>1. \A i \in D : ~(Rows[i].time <= n)
    BY <1>1, <1>2, <1>6
  <2> QED
    BY <1>4, <1>5, <1>6, <2>1
<1>7. CASE n # 0
  <2>1. n \in DOMAIN flow /\ n \in Nat
    BY <1>2, <1>5, <1>7
  <2>2. PICK i \in D : Rows[i].time = n
    BY <1>3, <2>1
  <2>3. i \in Preceding(Rows) /\ Preceding(Rows) \in SUBSET D
    BY <1>5, <2>1, <2>2
  <2>4. ASSUME NEW j \in Preceding(Rows) \ {i} PROVE Earlier(Rows, j, i)
    <3>1. Rows[j].time <= n /\ Rows[j].time # n /\ Rows[j].time \in Nat
      BY <1>1, <1>2, <1>5, <2>2, <2>4
    <3>2. Rows[j].time < Rows[i].time
      BY <2>1, <2>2, <3>1
    <3> QED
      BY <3>2 DEF Earlier
  <2>5. LatestOf(Rows, Preceding(Rows)) = i
    BY <1>1, <2>3, <2>4, Latest
  <2>6. Rows[i].type = flow[n] /\ Rows[i].status = SignalStatus[flow[n]]
    BY <1>1, <2>2
  <2> QED
    BY <1>4, <1>7, <2>3, <2>5, <2>6
<1> QED
  BY <1>6, <1>7

LEMMA OutcomeIsRight == LogInv /\ FlowInv => OutcomeIsLastSignal
<1> SUFFICES ASSUME LogInv, FlowInv PROVE OutcomeIsLastSignal
  OBVIOUS
<1>1. ReportedOutcome(Rows, header) = Resolved(Rows, header)
  <2>1. \A i \in DOMAIN Rows : Rows[i].status # "empty"
    <3>1. events \in Seq(EventTypes)
      BY DEF LogInv, CallTypeOK
    <3>2. \A i \in DOMAIN events : events[i] \in EventTypes
      BY <3>1
    <3> QED
      BY <3>2, RowsTimed, StatusAssumption
  <2> QED
    BY <2>1, RowsTimed, ReportsTheSame
<1> QED
  BY <1>1, OutcomeOfAll DEF OutcomeIsLastSignal

\* In whatever order the signals of a call arrived, whichever deliveries raced and
\* whatever died: once all have arrived the call is shown with the last one before its
\* end, and the report and the list agree on it at every moment.
THEOREM OutcomeIsLastSignalCorrect == CallSpec => []OutcomeIsLastSignal
BY InitLog, LogStep, InitFlow, FlowStep, OutcomeIsRight, PTL DEF CallSpec

=============================================================================
