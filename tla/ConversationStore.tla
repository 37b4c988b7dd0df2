-------------------------- MODULE ConversationStore --------------------------
(***************************************************************************)
(* One WhatsApp chat as the CRM keeps it: its messages, the time of the     *)
(* last one, and the messages whose customer was not known.  Messages come  *)
(* from the sessions of the users (resolved by phone) or from Meta (with    *)
(* the customer); they are upserted, the chat before the message.           *)
(***************************************************************************)
EXTENDS Naturals, FiniteSets

CONSTANTS
  MaxTimestamp,         \* messages are known by their timestamps, 1 to this one
  Upserters,            \* deliveries under way at once
  MaxUpserts, MaxUpsertFailures       \* bounds for TLC

ASSUME StoreAssumption == {MaxTimestamp, MaxUpserts, MaxUpsertFailures} \subseteq Nat

Timestamps == 1..MaxTimestamp

VARIABLES
  known,                \* the phone is that of a customer
  chatLast,             \* lastMessageTimestamp of the chat; 0: there is no chat
  stored, unresolved,   \* customer_whatsapp_messages, customer_whatsapp_unresolved
  upsert,               \* handlers: at, message
  came,                 \* history: messages handled to the end
  upserts, upsertFailures,
  backwards,            \* history: a message came after a later one, or beside another
  dropped               \* history: messages whose unresolved row could not be written

storeDb == <<known, chatLast, stored, unresolved>>
storeVars == <<storeDb, upsert, came, upserts, upsertFailures, backwards, dropped>>

NoUpsert == [at |-> "idle", message |-> 0]

StoreInit ==
  /\ known \in BOOLEAN
  /\ chatLast = 0 /\ stored = {} /\ unresolved = {}
  /\ upsert = [h \in Upserters |-> NoUpsert]
  /\ came = {} /\ upserts = 0 /\ upsertFailures = 0 /\ backwards = FALSE
  /\ dropped = {}

UpsertTo(h, place) == upsert' = [upsert EXCEPT ![h].at = place]

BeginUpsert(h, m, place) ==
  /\ upsert[h].at = "idle" /\ upserts < MaxUpserts
  /\ upserts' = upserts + 1
  /\ upsert' = [upsert EXCEPT ![h] = [at |-> place, message |-> m]]
  /\ backwards' = (backwards \/ (\E k \in came : k > m)
                    \/ \E g \in Upserters : upsert[g].message \notin {0, m})
  /\ UNCHANGED <<storeDb, came, upsertFailures, dropped>>

\* executeUpsertFromEvent resolves the customer by phone; Meta's handlers pass him.
TakeEvent(h, m) == BeginUpsert(h, m, IF known THEN "chat" ELSE "unresolved")
TakeMeta(h, m) == known /\ BeginUpsert(h, m, "chat")

\* saveUnresolvedEvent, which swallows its errors: the message is done with in any
\* case.
SaveUnresolved(h) ==
  /\ upsert[h].at = "unresolved"
  /\ \/ /\ unresolved' = unresolved \cup {upsert[h].message}
        /\ UNCHANGED <<upsertFailures, dropped>>
     \/ /\ upsertFailures < MaxUpsertFailures /\ upsertFailures' = upsertFailures + 1
        /\ dropped' = dropped \cup {upsert[h].message} /\ unresolved' = unresolved
  /\ came' = came \cup {upsert[h].message}
  /\ upsert' = [upsert EXCEPT ![h] = NoUpsert]
  /\ UNCHANGED <<known, chatLast, stored, upserts, backwards>>

NewLast(m) == m

\* Fault: the message is stored first.
MessageFirst(h) ==
  /\ \/ /\ upsert[h].at = "chat" /\ stored' = stored \cup {upsert[h].message}
        /\ UpsertTo(h, "message") /\ UNCHANGED <<chatLast, came>>
     \/ /\ upsert[h].at = "message" /\ chatLast' = NewLast(upsert[h].message)
        /\ came' = came \cup {upsert[h].message}
        /\ upsert' = [upsert EXCEPT ![h] = NoUpsert] /\ UNCHANGED stored
  /\ UNCHANGED <<known, unresolved, upserts, upsertFailures, backwards, dropped>>

\* The chat is upserted with the time of this message, and then the message.
StoreMessage(h) ==
  /\ \/ /\ upsert[h].at = "chat" /\ chatLast' = NewLast(upsert[h].message)
        /\ UpsertTo(h, "message") /\ UNCHANGED <<stored, came>>
     \/ /\ upsert[h].at = "message" /\ stored' = stored \cup {upsert[h].message}
        /\ came' = came \cup {upsert[h].message}
        /\ upsert' = [upsert EXCEPT ![h] = NoUpsert] /\ UNCHANGED chatLast
  /\ UNCHANGED <<known, unresolved, upserts, upsertFailures, backwards, dropped>>

\* A write fails, which drops the message, or the service dies, and it may come again.
LoseUpsert(h) ==
  /\ upsert[h].at # "idle" /\ upsertFailures < MaxUpsertFailures
  /\ upsertFailures' = upsertFailures + 1
  /\ upsert' = [upsert EXCEPT ![h] = NoUpsert]
  /\ UNCHANGED <<storeDb, came, upserts, backwards, dropped>>

\* The person becomes a customer.
BecomeKnown ==
  /\ ~known /\ known' = TRUE
  /\ UNCHANGED <<chatLast, stored, unresolved, upsert, came, upserts, upsertFailures,
                 backwards, dropped>>

StoreNext ==
  \/ \E h \in Upserters :
       \/ \E m \in Timestamps : TakeEvent(h, m) \/ TakeMeta(h, m)
       \/ SaveUnresolved(h) \/ StoreMessage(h) \/ LoseUpsert(h)
  \/ BecomeKnown

StoreSpec == StoreInit /\ [][StoreNext]_storeVars

-----------------------------------------------------------------------------
(* Properties                                                                *)

\* Every variable has its type.
StoreTypeOK ==
  /\ {known, backwards} \subseteq BOOLEAN
  /\ chatLast \in 0..MaxTimestamp
  /\ stored \subseteq Timestamps /\ unresolved \subseteq Timestamps
  /\ came \subseteq Timestamps /\ dropped \subseteq Timestamps
  /\ upsert \in [Upserters -> [at : {"idle", "unresolved", "chat", "message"},
                               message : 0..MaxTimestamp]]
  /\ {upserts, upsertFailures} \subseteq Nat

\* A message that was handled to the end can be found, if the row of one that nobody
\* is known for could be written, and so can the chat of every message stored,
\* wherever a handler died.
HandledIsKept ==
  /\ came \subseteq stored \cup unresolved \cup dropped
  /\ stored # {} => chatLast # 0

\* The chat shows the time of its last message when nothing is under way, unless a
\* message came after a later one or beside another, or a handler died half-way.
ChatShowsLatest ==
  ((\A h \in Upserters : upsert[h].at = "idle") /\ ~backwards /\ upsertFailures = 0) =>
    \A m \in stored : m <= chatLast

\* No message that was handled is lost, and the chat shows its last one.
StoreCorrect == StoreTypeOK /\ HandledIsKept /\ ChatShowsLatest
=============================================================================
