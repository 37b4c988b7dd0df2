------------------------- MODULE MarketingCampaign -------------------------
(***************************************************************************)
(* One WhatsApp marketing campaign and the programs that work on it at the *)
(* same time: the cron ticks that dispatch it in batches, the HTTP requests *)
(* that launch it, cancel it and retry one recipient, and the handlers of   *)
(* Meta's delivery receipts.  Every await of the TypeScript is a step       *)
(* boundary; a document loaded before one and saved after it is the local   *)
(* snapshot (todo, cur, seen) of the process that holds it.                 *)
(*                                                                          *)
(* Time is reduced to what the dispatcher asks of nextBatchAt: is it due?   *)
(***************************************************************************)
EXTENDS Naturals, FiniteSets

CONSTANTS
  Recipients,   \* customers an audience of the campaign may resolve to
  Workers,      \* ticks of the dispatch cron that may be under way at once
  Launchers, Cancellers, Retriers,   \* HTTP requests in progress
  Hooks,        \* RabbitMQ deliveries of receipts handled at once (prefetch)
  None,         \* "no recipient"
  BatchSize,    \* campaign.batchSize
  MaxLaunches, MaxCancels, MaxRetries, MaxAborts, MaxLapses  \* bounds for TLC

Senders == Workers \cup Retriers
Procs == Senders \cup Launchers \cup Cancellers \cup Hooks

ASSUME NoneAssumption == None \notin Recipients
ASSUME RecipientsAssumption == IsFiniteSet(Recipients)
ASSUME BatchSizeAssumption == BatchSize \in Nat \ {0}
ASSUME BoundsAssumption ==
  {MaxLaunches, MaxCancels, MaxRetries, MaxAborts, MaxLapses} \subseteq Nat
ASSUME ProcsAssumption ==
  /\ Workers \cap (Retriers \cup Launchers \cup Cancellers \cup Hooks) = {}
  /\ Retriers \cap (Launchers \cup Cancellers \cup Hooks) = {}
  /\ Launchers \cap (Cancellers \cup Hooks) = {}
  /\ Cancellers \cap Hooks = {}

CampaignStatus ==
  {"draft", "building", "sending", "completed", "cancelled", "failed"}
ReceiptStatus == {"sent", "delivered", "read", "failed"}
RecipientStatus == {"absent", "pending", "sending", "cancelled"} \cup ReceiptStatus

\* A recipient the dispatcher still owes a send, or an answer to one.
Unsettled == {"pending", "sending"}

VARIABLES
  status,      \* campaign.status in MongoDB
  gate,        \* campaign.nextBatchAt: "due" (null or past), "delayed" (a batch
               \* delay ahead), "claimed" (DISPATCH_CLAIM_MS ahead)
  recipient,   \* recipient.status in MongoDB, "absent" before the insert
  hasMessageId,\* recipient.whatsappMessageId is stored
  pc,          \* where each process is; "idle" when it is not running
  todo,        \* recipients a process has read and not handled yet
  cur,         \* the recipient a process is working on
  seen,        \* what a process has read or been told and acts on later
  sends,       \* history: messages the Cloud API accepted for each recipient
  retries,     \* history: retries accepted for each recipient
  revived,     \* history: cancelled recipients that a send overwrote
  refused,     \* history: a launch met recipients of another and threw
  launches, cancels, aborts, lapses   \* history, bounded for TLC

db == <<status, gate, recipient, hasMessageId>>
local == <<pc, todo, cur, seen>>
history == <<sends, retries, revived, refused, launches, cancels, aborts, lapses>>
vars == <<db, local, history>>

Init ==
  /\ status = "draft"
  /\ gate = "due"
  /\ recipient = [r \in Recipients |-> "absent"]
  /\ hasMessageId = [r \in Recipients |-> FALSE]
  /\ pc = [p \in Procs |-> "idle"]
  /\ todo = [p \in Procs |-> {}]
  /\ cur = [p \in Procs |-> None]
  /\ seen = [p \in Procs |-> "nothing"]
  /\ sends = [r \in Recipients |-> 0]
  /\ retries = [r \in Recipients |-> 0]
  /\ revived = 0 /\ refused = FALSE
  /\ launches = 0 /\ cancels = 0 /\ aborts = 0 /\ lapses = 0

\* The process moves on, or ends and forgets its snapshots.
Goto(p, label) == pc' = [pc EXCEPT ![p] = label]
Finish(p) ==
  /\ pc' = [pc EXCEPT ![p] = "idle"]
  /\ todo' = [todo EXCEPT ![p] = {}]
  /\ cur' = [cur EXCEPT ![p] = None]
  /\ seen' = [seen EXCEPT ![p] = "nothing"]

-----------------------------------------------------------------------------
(* Sending one recipient: executeSendOneRecipient, shared by batch and retry *)

\* recipient.status = 'sending'; save(): whatever the document says by now.
StartSend(p, r) ==
  /\ p \in Senders /\ pc[p] = "send" /\ r \in todo[p]
  /\ recipient' = [recipient EXCEPT ![r] = "sending"]
  /\ revived' = IF recipient[r] = "cancelled" THEN revived + 1 ELSE revived
  /\ todo' = [todo EXCEPT ![p] = @ \ {r}]
  /\ cur' = [cur EXCEPT ![p] = r]
  /\ Goto(p, "rpc")
  /\ UNCHANGED <<status, gate, hasMessageId, seen, sends, retries, refused, launches,
                 cancels, aborts, lapses>>

RpcOutcome == {"accepted", "rejected", "answer lost"}

\* The RPC to whatsapp_cloud_ms: the message may have been accepted although
\* the answer that reaches the caller is an error.
Rpc(p, outcome) ==
  /\ pc[p] = "rpc"
  /\ sends' = IF outcome = "rejected" THEN sends ELSE [sends EXCEPT ![cur[p]] = @ + 1]
  /\ seen' = [seen EXCEPT ![p] = IF outcome = "accepted" THEN "ok" ELSE "error"]
  /\ Goto(p, "answered")
  /\ UNCHANGED <<db, todo, cur, retries, revived, refused, launches, cancels, aborts,
                 lapses>>

\* Fault: an error answer leaves the recipient as it is.
SaveOutcomeOnlyOk(p) ==
  /\ pc[p] = "answered"
  /\ recipient' = IF seen[p] = "ok" THEN [recipient EXCEPT ![cur[p]] = "sent"] ELSE recipient
  /\ hasMessageId' = [hasMessageId EXCEPT ![cur[p]] = @ \/ seen[p] = "ok"]
  /\ cur' = [cur EXCEPT ![p] = None]
  /\ seen' = [seen EXCEPT ![p] = "nothing"]
  /\ Goto(p, IF p \in Retriers THEN "idle"
             ELSE IF todo[p] = {} THEN "delay" ELSE "send")
  /\ UNCHANGED <<status, gate, todo, history>>

\* Saves 'sent' with the message id, or 'failed'; a batch goes on with the next
\* recipient of its snapshot, a retry is over.
SaveOutcome(p) ==
  /\ pc[p] = "answered"
  /\ recipient' = [recipient EXCEPT ![cur[p]] =
                     IF seen[p] = "ok" THEN "sent" ELSE "failed"]
  /\ hasMessageId' = [hasMessageId EXCEPT ![cur[p]] = @ \/ seen[p] = "ok"]
  /\ cur' = [cur EXCEPT ![p] = None]
  /\ seen' = [seen EXCEPT ![p] = "nothing"]
  /\ Goto(p, IF p \in Retriers THEN "idle"
             ELSE IF todo[p] = {} THEN "delay" ELSE "send")
  /\ UNCHANGED <<status, gate, todo, history>>

SendNext == \E p \in Senders :
  \/ \E r \in Recipients : StartSend(p, r)
  \/ \E outcome \in RpcOutcome : Rpc(p, outcome)
  \/ SaveOutcome(p)

-----------------------------------------------------------------------------
(* The dispatcher: executeProcessCampaignBatch, once per tick                *)

\* Fault: the tick reads the due campaign and does not claim it.
ClaimByReading(w) ==
  /\ pc[w] = "idle"
  /\ status = "sending" /\ gate = "due"
  /\ Goto(w, "load")
  /\ UNCHANGED <<db, todo, cur, seen, history>>

\* The atomic findOneAndUpdate that claims a due campaign for 30 minutes.
Claim(w) ==
  /\ pc[w] = "idle"
  /\ status = "sending" /\ gate = "due"
  /\ gate' = "claimed"
  /\ Goto(w, "load")
  /\ UNCHANGED <<status, recipient, hasMessageId, todo, cur, seen, history>>

\* Fault: the query without its limit.
LoadUnlimited(w) ==
  LET pending == {r \in Recipients : recipient[r] = "pending"} IN
  /\ pc[w] = "load"
  /\ todo' = [todo EXCEPT ![w] = pending]
  /\ Goto(w, IF pending = {} THEN "count" ELSE "send")
  /\ UNCHANGED <<db, cur, seen, history>>

\* Reads up to BatchSize pending recipients; with none left, goes to finalize.
Load(w) ==
  LET pending == {r \in Recipients : recipient[r] = "pending"} IN
  /\ pc[w] = "load"
  /\ \E batch \in SUBSET pending :
       /\ Cardinality(batch) <= BatchSize
       /\ batch = pending \/ Cardinality(batch) = BatchSize
       /\ todo' = [todo EXCEPT ![w] = batch]
       /\ Goto(w, IF batch = {} THEN "count" ELSE "send")
  /\ UNCHANGED <<db, cur, seen, history>>

\* nextBatchAt = now + batchDelayMs, whoever holds the claim by now.
Delay(w) ==
  /\ pc[w] = "delay"
  /\ gate' = "delayed"
  /\ Goto(w, "count")
  /\ UNCHANGED <<status, recipient, hasMessageId, todo, cur, seen, history>>

\* Fault: the count forgets the recipients that are still pending.
CountSending(w) ==
  /\ pc[w] = "count"
  /\ Goto(w, IF \E r \in Recipients : recipient[r] = "sending"
             THEN "idle" ELSE "complete")
  /\ UNCHANGED <<db, todo, cur, seen, history>>

\* Fault: the count takes failed recipients for unfinished ones.
CountFailedToo(w) ==
  /\ pc[w] = "count"
  /\ Goto(w, IF \E r \in Recipients : recipient[r] \in Unsettled \cup {"failed"}
             THEN "idle" ELSE "complete")
  /\ UNCHANGED <<db, todo, cur, seen, history>>

\* executeFinalizeCampaignIfDone counts pending and sending recipients ...
Count(w) ==
  /\ pc[w] = "count"
  /\ Goto(w, IF \E r \in Recipients : recipient[r] \in Unsettled
             THEN "idle" ELSE "complete")
  /\ UNCHANGED <<db, todo, cur, seen, history>>

\* ... and with none saves 'completed' and nextBatchAt = null over whatever the
\* campaign has become: the status it checks is the one read by the claim.
Complete(w) ==
  /\ pc[w] = "complete"
  /\ status' = "completed"
  /\ gate' = "due"
  /\ Goto(w, "idle")
  /\ UNCHANGED <<recipient, hasMessageId, todo, cur, seen, history>>

WorkerNext == \E w \in Workers :
  Claim(w) \/ Load(w) \/ Delay(w) \/ Count(w) \/ Complete(w)

\* The clock passes nextBatchAt.  A claim that runs out under a batch that is
\* still going on (no call of the batch has a timeout) is a lapse.
InBatch(w) == pc[w] \in {"load", "send", "rpc", "answered", "delay"}

DelayElapses ==
  /\ gate = "delayed"
  /\ gate' = "due"
  /\ UNCHANGED <<status, recipient, hasMessageId, local, history>>

\* Fault: the claim is a lock that nobody releases for a tick that died.
ClaimNeverElapses ==
  /\ gate = "claimed" /\ FALSE
  /\ UNCHANGED vars

ClaimElapses ==
  /\ gate = "claimed"
  /\ gate' = "due"
  /\ lapses' = IF \E w \in Workers : InBatch(w) THEN lapses + 1 ELSE lapses
  /\ lapses' <= MaxLapses
  /\ UNCHANGED <<status, recipient, hasMessageId, local, sends, retries, revived,
                 refused, launches, cancels, aborts>>

-----------------------------------------------------------------------------
(* POST .../launch: executeLaunchCampaign                                    *)

LaunchRead(l) ==
  /\ pc[l] = "idle" /\ launches < MaxLaunches
  /\ status = "draft"
  /\ launches' = launches + 1
  /\ Goto(l, "check")
  /\ UNCHANGED <<db, todo, cur, seen, sends, retries, revived, refused, cancels, aborts,
                 lapses>>

\* ConflictException when the campaign already has recipients.
LaunchCheck(l) ==
  /\ pc[l] = "check"
  /\ Goto(l, IF \E r \in Recipients : recipient[r] # "absent" THEN "idle" ELSE "build")
  /\ UNCHANGED <<db, todo, cur, seen, history>>

LaunchBuild(l) ==
  /\ pc[l] = "build"
  /\ status' = "building"
  /\ Goto(l, "preview")
  /\ UNCHANGED <<gate, recipient, hasMessageId, todo, cur, seen, history>>

\* The preview finds nobody, or the audience is resolved again and whoever has
\* a phone by then is to be inserted.
LaunchPreview(l) ==
  /\ pc[l] = "preview"
  /\ \/ Goto(l, "reject") /\ UNCHANGED todo
     \/ \E audience \in SUBSET Recipients :
          todo' = [todo EXCEPT ![l] = audience] /\ Goto(l, "insert")
  /\ UNCHANGED <<db, cur, seen, history>>

\* Fault: the audience turns out empty and the status stays 'building'.
LaunchRejectUnsaved(l) ==
  /\ pc[l] = "reject"
  /\ Goto(l, "idle")
  /\ UNCHANGED <<db, todo, cur, seen, history>>

LaunchReject(l) ==
  /\ pc[l] = "reject"
  /\ status' = "failed"
  /\ Goto(l, "idle")
  /\ UNCHANGED <<gate, recipient, hasMessageId, todo, cur, seen, history>>

\* The unordered bulkWrite: a recipient the unique index refuses does not stop
\* the others, but makes the call throw in the end.
LaunchInsert(l, r) ==
  /\ pc[l] = "insert" /\ r \in todo[l]
  /\ todo' = [todo EXCEPT ![l] = @ \ {r}]
  /\ IF recipient[r] = "absent"
     THEN recipient' = [recipient EXCEPT ![r] = "pending"] /\ UNCHANGED seen
     ELSE seen' = [seen EXCEPT ![l] = "duplicate"] /\ UNCHANGED recipient
  /\ UNCHANGED <<status, gate, hasMessageId, pc, cur, history>>

LaunchThrow(l) ==
  /\ pc[l] = "insert" /\ todo[l] = {} /\ seen[l] = "duplicate"
  /\ Finish(l)
  /\ refused' = TRUE
  /\ UNCHANGED <<db, sends, retries, revived, launches, cancels, aborts, lapses>>

LaunchStart(l) ==
  /\ pc[l] = "insert" /\ todo[l] = {} /\ seen[l] # "duplicate"
  /\ status' = "sending"
  /\ gate' = "due"
  /\ Finish(l)
  /\ UNCHANGED <<recipient, hasMessageId, history>>

LaunchNext == \E l \in Launchers :
  \/ LaunchRead(l) \/ LaunchCheck(l) \/ LaunchBuild(l) \/ LaunchPreview(l)
  \/ LaunchReject(l) \/ LaunchThrow(l) \/ LaunchStart(l)
  \/ \E r \in Recipients : LaunchInsert(l, r)

-----------------------------------------------------------------------------
(* POST .../cancel: executeCancelCampaign                                    *)

CancelRead(c) ==
  /\ pc[c] = "idle" /\ cancels < MaxCancels
  /\ status \in {"sending", "building"}
  /\ cancels' = cancels + 1
  /\ Goto(c, "mark")
  /\ UNCHANGED <<db, todo, cur, seen, sends, retries, revived, refused, launches, aborts,
                 lapses>>

CancelMark(c) ==
  /\ pc[c] = "mark"
  /\ recipient' = [r \in Recipients |->
       IF recipient[r] \in Unsettled THEN "cancelled" ELSE recipient[r]]
  /\ Goto(c, "save")
  /\ UNCHANGED <<status, gate, hasMessageId, todo, cur, seen, history>>

CancelSave(c) ==
  /\ pc[c] = "save"
  /\ status' = "cancelled"
  /\ Goto(c, "idle")
  /\ UNCHANGED <<gate, recipient, hasMessageId, todo, cur, seen, history>>

CancelNext == \E c \in Cancellers : CancelRead(c) \/ CancelMark(c) \/ CancelSave(c)

-----------------------------------------------------------------------------
(* POST .../recipients/:id/retry: executeRetryRecipient                      *)

RetryRead(t) ==
  /\ pc[t] = "idle" /\ \E r \in Recipients : retries[r] < MaxRetries
  /\ seen' = [seen EXCEPT ![t] = status]
  /\ Goto(t, "find")
  /\ UNCHANGED <<db, todo, cur, history>>

\* Only failed recipients can be retried; any other is a 409 and no change.
RetryFind(t, r) ==
  /\ pc[t] = "find" /\ retries[r] < MaxRetries
  /\ recipient[r] = "failed"
  /\ cur' = [cur EXCEPT ![t] = r]
  /\ Goto(t, "requeue")
  /\ UNCHANGED <<db, todo, seen, history>>

RetryConflict(t) ==
  /\ pc[t] = "find"
  /\ \E r \in Recipients : recipient[r] # "failed"
  /\ Finish(t)
  /\ UNCHANGED <<db, history>>

RetryRequeue(t) ==
  /\ pc[t] = "requeue"
  /\ recipient' = [recipient EXCEPT ![cur[t]] = "pending"]
  /\ retries' = [retries EXCEPT ![cur[t]] = @ + 1]
  /\ todo' = [todo EXCEPT ![t] = {cur[t]}]
  /\ Goto(t, IF seen[t] \in {"completed", "cancelled"} THEN "reopen" ELSE "send")
  /\ UNCHANGED <<status, gate, hasMessageId, cur, seen, sends, revived, refused, launches,
                 cancels, aborts, lapses>>

\* The campaign it read was over: back to 'sending', nextBatchAt as it is.
RetryReopen(t) ==
  /\ pc[t] = "reopen"
  /\ status' = "sending"
  /\ Goto(t, "send")
  /\ UNCHANGED <<gate, recipient, hasMessageId, todo, cur, seen, history>>

RetryNext == \E t \in Retriers :
  \/ RetryRead(t) \/ RetryConflict(t) \/ RetryRequeue(t) \/ RetryReopen(t)
  \/ \E r \in Recipients : RetryFind(t, r)

-----------------------------------------------------------------------------
(* A receipt of Meta: executeApplyMessageStatus                              *)

Rank == [s \in RecipientStatus |->
  CASE s = "sending" -> 1 [] s = "sent" -> 2 [] s = "delivered" -> 3
    [] s = "read" -> 4 [] s = "failed" -> 5 [] s = "cancelled" -> 6
    [] OTHER -> 0]

ShouldApplyWebhookStatus(current, incoming) ==
  /\ current # incoming
  /\ incoming = "failed" \/ Rank[incoming] >= Rank[current]

\* findOne by whatsappMessageId: a receipt that comes before the id is stored
\* finds nobody and is dropped.
HookRead(h, r, s) ==
  /\ pc[h] = "idle" /\ hasMessageId[r]
  /\ ShouldApplyWebhookStatus(recipient[r], s)
  /\ cur' = [cur EXCEPT ![h] = r]
  /\ seen' = [seen EXCEPT ![h] = s]
  /\ Goto(h, "apply")
  /\ UNCHANGED <<db, todo, history>>

HookApply(h) ==
  /\ pc[h] = "apply"
  /\ recipient' = [recipient EXCEPT ![cur[h]] = seen[h]]
  /\ Finish(h)
  /\ UNCHANGED <<status, gate, hasMessageId, history>>

HookNext == \E h \in Hooks :
  \/ \E r \in Recipients, s \in ReceiptStatus : HookRead(h, r, s)
  \/ HookApply(h)

-----------------------------------------------------------------------------
\* A process dies between two awaits: a crash of the service, or a database
\* call that throws out of the handler.  What it had read is gone.
Abort(p) ==
  /\ pc[p] # "idle" /\ aborts < MaxAborts
  /\ aborts' = aborts + 1
  /\ Finish(p)
  /\ UNCHANGED <<db, sends, retries, revived, refused, launches, cancels, lapses>>

Next ==
  \/ SendNext \/ WorkerNext \/ DelayElapses \/ ClaimElapses
  \/ LaunchNext \/ CancelNext \/ RetryNext \/ HookNext
  \/ \E p \in Procs : Abort(p)

Spec == Init /\ [][Next]_vars

\* What goes on by itself: handlers that were started, the cron, the clock.  That
\* an RPC is answered at all is assumed of whatsapp_cloud_ms.  Requests, receipts
\* and crashes may or may not come.
Step(p) ==
  \/ \E r \in Recipients : StartSend(p, r) \/ LaunchInsert(p, r) \/ RetryFind(p, r)
  \/ \E outcome \in RpcOutcome : Rpc(p, outcome)
  \/ SaveOutcome(p)
  \/ p \in Workers /\ (Claim(p) \/ Load(p) \/ Delay(p) \/ Count(p) \/ Complete(p))
  \/ LaunchCheck(p) \/ LaunchBuild(p) \/ LaunchPreview(p) \/ LaunchReject(p)
  \/ LaunchThrow(p) \/ LaunchStart(p)
  \/ CancelMark(p) \/ CancelSave(p)
  \/ RetryConflict(p) \/ RetryRequeue(p) \/ RetryReopen(p)
  \/ HookApply(p)

Fairness ==
  /\ \A p \in Procs : WF_vars(Step(p))
  /\ WF_vars(DelayElapses) /\ WF_vars(ClaimElapses)

FairSpec == Spec /\ Fairness

-----------------------------------------------------------------------------
(* Properties                                                                *)

PcValues == {"idle", "load", "send", "rpc", "answered", "delay", "count",
             "complete", "check", "build", "preview", "reject", "insert", "mark",
             "save", "find", "requeue", "reopen", "apply"}
SeenValues == {"nothing", "ok", "error", "duplicate"}
                \cup CampaignStatus \cup ReceiptStatus

\* Every variable has its type.
TypeOK ==
  /\ status \in CampaignStatus
  /\ gate \in {"due", "delayed", "claimed"}
  /\ recipient \in [Recipients -> RecipientStatus]
  /\ hasMessageId \in [Recipients -> BOOLEAN]
  /\ pc \in [Procs -> PcValues]
  /\ todo \in [Procs -> SUBSET Recipients]
  /\ cur \in [Procs -> Recipients \cup {None}]
  /\ seen \in [Procs -> SeenValues]
  /\ sends \in [Recipients -> Nat]
  /\ retries \in [Recipients -> Nat]
  /\ revived \in Nat /\ refused \in BOOLEAN /\ launches \in Nat /\ cancels \in Nat
  /\ aborts \in Nat /\ lapses \in Nat

\* The process has set the recipient to 'sending' and not yet saved the outcome.
Calling(p, r) == pc[p] \in {"rpc", "answered"} /\ cur[p] = r

\* A process that will still send to the recipient, or save what came of it.
InHand(r) == \E p \in Senders :
  \/ Calling(p, r)
  \/ pc[p] \in {"send", "reopen"} /\ r \in todo[p]

\* Nothing but a process that died leaves a recipient in 'sending': the
\* dispatcher never reads such a recipient again and the campaign never ends.
SendingIsInHand ==
  aborts = 0 => \A r \in Recipients :
    recipient[r] = "sending" => \E p \in Senders : Calling(p, r)

\* Every process holds what it may hold, and every recipient marked sending is in
\* the hands of one of them.
DispatchSafe == TypeOK /\ SendingIsInHand

\* The claim does its job: as long as no batch outlives its claim and the launch
\* was not requested twice, a recipient nobody retried gets one message, however
\* ticks, retries of others, cancels, receipts and crashes interleave.
OneMessagePerRecipient ==
  (lapses = 0 /\ launches <= 1) =>
    \A r \in Recipients : retries[r] = 0 => sends[r] <= 1

\* Cancelling does not stop the batch under way, which sends to recipients that
\* are already 'cancelled'; but no more than that one batch.
CancelLeaksOneBatch ==
  (lapses = 0 /\ launches <= 1 /\ \A r \in Recipients : retries[r] = 0) =>
    revived <= BatchSize

\* A campaign is 'completed' only when every recipient is settled or about to be:
\* nobody is forgotten in 'pending', which no tick would look at again.
CompletedForgetsNobody ==
  (status = "completed" /\ aborts = 0 /\ launches <= 1) =>
    \A r \in Recipients : recipient[r] \in Unsettled => InHand(r)

\* A pending recipient of a sending campaign is picked up in the end, even when
\* the tick that had it dies: the claim runs out and another tick reads it again.
PendingIsDispatched == \A r \in Recipients :
  (status = "sending" /\ recipient[r] = "pending")
    ~> (status # "sending" \/ recipient[r] # "pending")

\* A campaign that is sending gets out of it, unless a process died with a
\* recipient in its hands.
CampaignEnds == status = "sending" ~> (status # "sending" \/ aborts > 0)

\* A campaign being built gets out of it, however often and overlapping it was launched
\* and whether or not somebody is found, unless a launch died or one was refused by the
\* unique index: that one leaves the 'building' it has saved, over 'sending' even.
BuildingEnds ==
  status = "building" ~> (status # "building" \/ aborts > 0 \/ refused)
=============================================================================
