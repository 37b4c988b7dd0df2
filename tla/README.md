# TLA+ verification of the CRM customers service

The repository is a NestJS micro-service over MongoDB (Mongoose), RabbitMQ, BullMQ (Redis)
and a cron. It keeps the customers of a real-estate CRM: it takes leads in, talks to them on
WhatsApp, books calls and visits for the sales users ("ventors"), runs marketing campaigns,
records calls and payments, and reports on the staff. No collection is written inside a
transaction: what holds between two awaits of a handler is a unique index, a conditional
`findOneAndUpdate` or a version compare-and-set, and nothing else. The project therefore
models handlers await by await and asks what survives their interleavings, crashes and
retries.

Source paths below are relative to `src/src/`, documents to `src/`. `PROJECT.json` maps every
definition that stands for code to its lines.

## 1. Inventory

| Part | State | Operations | Talks to | What is hard | Must hold |
|---|---|---|---|---|---|
| WhatsApp marketing: campaign, dispatch, receipts (`whatsapp-marketing/`) | campaign (status, `nextBatchAt`), recipients (status, message id) | launch, cancel, retry, cron batch, delivery receipt | WhatsApp MS by RPC, receipts by RabbitMQ, customers | documents read before and saved after many awaits; a claim by time; crashes; lost answers | one message per recipient, nobody forgotten, cancelled stays quiet, campaigns end |
| Marketing replies (`whatsapp-marketing-recovery-reply.service.ts`) | `replyHandledAt`, outcome, the customer's ventor and step | handle a reply | assignment, conversation store, WhatsApp MS | check-then-act, several writes that may fail, the mark last | acted on once, answered in the name of the ventor in charge |
| Lead conversation (`lead-conversation/`) | session with `version`, transcript, reminder job, outbound queue | inbound message, outbound job, reminder job, restart, delete | customer, qualification, agenda, WhatsApp MS | duplicated and concurrent messages, a reminder racing an answer, sequences overtaking each other | no answer lost, one reminder, the chat and the session agree |
| Lead call agenda (`lead-call-slot.service.ts`, `lead-call-schedule-admin.service.ts`) | `ventor_schedule_events`, assignee of the customer, mirror on the session | book, reassign, reschedule, close | session, customer, metadata | look-then-insert, look-then-update by id | no double booking, no call lost, one call per session |
| Lead customer (`lead-customer.service.ts`, leads admin, linking a call) | the customer documents of one number, the session's, the call's | find or create by WhatsApp id, unify at a booking, link, convert | agenda, lead forms | several documents for one person, written one after the other | call, session and assignment of one document; a customer stays one |
| Down payments (`customer-payment/customer-down-payment.service.ts`) | down payment (totals, status), fees, files | create, add fee | file system, push | rollback by hand, totals from a stale read | one document, totals backed by fees and within the value agreed |
| Single payments and access (`customer-payment/`) | payment row and file | create with evidence, summarise; may this user record it? | file system, users MS | row before file, undo by deletion; three questions one after the other | what was answered holds; who may record can, others cannot |
| Customer core (`customer/customer.service.ts`) | customer document | create, update, assign, step, search | everything | shared by all writers | what is logged agrees with the document |
| Intake: Meta webhook, lead forms, inbound replies, flows | customer, funnel, `metaPotentialTemplateSent`, campaign lead | find or create by phone, assign, greet, notify | WhatsApp MS, assignment | find-or-create, check-then-send, redelivery, crashes | one customer per person, one greeting, ready only with a ventor |
| Assignment (`customer-ventor-assignment.service.ts`, push) | `assignedTo` | count and pick, assign if unassigned, push | push MS | counts that are stale when used | loads stay even |
| Audit trail and events (`customer-audit.service.ts`, `customer-events.service.ts`) | assignment log, step log, events, `lastUpdate` | save hooks, attended marks, events, recomputation | every writer of a customer | hooks nobody awaits, snapshots, two writes | whoever was in charge is in the log |
| Assignment audit and staff performance | the log read back | report, list | call logs | no snapshot between queries | what is reported adds up |
| Call logs (`customer-call-logs.service.ts`) | call header with events, transcription | telephony events, texts, Meet sync | audit, customer events | at-least-once, any order, update-else-push | no signal lost or doubled, the outcome shown is the last signal |
| Call audit (`customer/call-audit/`) | AI audit and human checklist per call | analyse, submit | LLM | overlapping analyses, crash while pending | an audit is of the text and the auditor shown |
| Conversation store (`customer-conversations/`) | chats, messages, unresolved ones | upsert | – | any order, two upserts | no message lost, the chat shows the last |
| Meta lead forms (`meta-lead-forms/`) | form lead, delayed job, settings | schedule, cancel on a message, send | WhatsApp MS, BullMQ | cancel racing the job, retries of the job | one template per form, none forgotten |
| Visits (`ventor-schedule/`) | field visits, virtual visits, Meet subscriptions, the visit's call log | create, status, guides, subscribe, sweep, sync | Google, push, events | external calls between reads and writes, syncs from three sides | history and phones agree with the visit; it is covered when it begins |
| Webinars (`webinar/`) | webinars, calendar entries, leads | create, activate, rename, delete; form, entered lead, convert | WhatsApp MS, Google, customers | document and calendar written one after the other, check-then-send | one active webinar, each lead told once |
| Conversions API, metadata, steps, config, auth | single documents or none | append, upsert, read | Meta | little | – |

`PROJECT.json` lists the same parts under `components` with their status, and under `hazards`
what is hard to test, at its line, with the properties about it.

### How the parts interact

* A receipt (RabbitMQ) and a batch (cron) write the same recipient document; the campaign
  document is written by the batch, the finaliser, launch, cancel and retry; a reply reads both
  and writes the recipient, the customer and the chat.
* An inbound WhatsApp message (RabbitMQ) may book a call on the agenda before it saves the
  session; the session's reply goes through the BullMQ outbound queue, whose last job of a
  sequence arms the reminder job; the reminder job saves the session and enqueues again.
* The administrator's agenda requests write the call event, then the customer, the session
  mirror and the metadata, one after the other. So does the unification of a person's documents.
* `assignedTo` is written by the CRM's requests, the intake, the marketing replies and the
  agenda; the save hook of the audit logs it afterwards, the push tells the users, and the staff
  report and the load balance read the customer and the log.
* The log of a call is fed by RabbitMQ (telephony) or by the syncs of a virtual visit; a saved
  text sets off an analysis; the outcome of a call is derived twice, in the list by a function
  and in the staff report by an aggregation.

## 2. Modules

| Module | Models | TLC | Proofs |
|---|---|---|---|
| `MarketingCampaign` | launch, cancel, retry, dispatch tick, receipts of one campaign | `MCMarketingCampaign` | `MarketingCampaignProofs` |
| `MarketingReply` | the reply of one customer to a campaign | `MCCustomers` | `CustomerProofs` |
| `LeadConversation` | one session: inbound handlers, outbound worker, reminder, administrator | `MCLeadConversation` | `LeadProofs` |
| `LeadCallSlots` | booking and administration of calls | `MCLeadCallSlots` | `LeadCallSlotsProofs` |
| `LeadRecord` | the documents of one person of the leads line | `MCCalls` | `LeadProofs` |
| `DownPayment` | a down payment: creation with rollback, payments | `MCDownPayment`, `MCCalls` | `PaymentProofs` |
| `PaymentReceipts`, `PaymentAccess` | payments with evidence; who may record them | `MCCalls` | `PaymentProofs` |
| `CustomerTrail` | assignee, step and last event of a customer, and what is written down of them | `MCCustomers` | `CustomerProofs` |
| `LeadIntake` | how one person becomes a customer | `MCCustomers` | `LeadFormProofs` |
| `LeadFormNudge` | the delayed template after a lead form | `MCCustomers` | `LeadFormProofs` |
| `VentorBalance` | the choice of a ventor by load | `MCCustomers` | `CustomerProofs` |
| `ConversationStore` | one chat as it is stored | `MCCustomers` | `CustomerProofs` |
| `StaffReport` (extends `CallOutcome`) | the report and the list of assignments | `MCCustomers` | `CustomerProofs` |
| `WebinarEvents`, `WebinarLeads` (extends it) | webinars and their calendar; their leads | `MCCustomers` | `LeadFormProofs` |
| `CallOutcome` | functions: the outcome of a call, in the list and in the report | – | `CallProofs` |
| `CallHistory` | abstract: what the log of a call promises | – | |
| `CallLog` (extends `CallOutcome`, implements `CallHistory`) | the log of one call | `MCCalls` | `CallProofs` |
| `CallAudit` (extends `CallLog`) | the analyses and the checklist, composed with the log | `MCCalls` | `CallProofs` |
| `FieldVisit` | a visit to the land | `MCCalls` | `VisitProofs` |
| `MeetVisit` (extends `CallOutcome`) | a virtual visit, its subscription and its log | `MCCalls` | `VisitProofs` |

In all of them a process is a handler in flight. Its program counter names the next await,
and the documents it holds in memory are its local variables. Two steps of one process can
have steps of any other in between. A definition commented "Fault:" is a variant of the one
after it, as a plausible mistake would leave it; no specification uses it. The properties were
tried against these variants.

History variables remember that something happened which the code gives no answer to (two
handlers overlapped, the service died half-way): a property names the ones it excludes, and
every other combination is covered. They guard no action.

### MarketingCampaign

State: the campaign's `status`; `gate`, which is `nextBatchAt` reduced to due, delayed (after a
batch) or claimed (by a tick); each recipient's status and whether its message id is stored.
`Workers` are cron ticks (`Claim`, `Load`, `StartSend`, `Rpc`, `SaveOutcome`, `Delay`, `Count`,
`Complete`), `Launchers`, `Cancellers` and `Retriers` are HTTP requests, `Hooks` receipts.
A retry sends with the same code as a batch (`StartSend` to `SaveOutcome`).

Mongoose saves only the fields that were changed: an action writes just those, over whatever
the document says by then. That is how a batch overwrites `cancelled` recipients and a
finaliser a cancelled campaign. `Rpc` has three outcomes, one of them that WhatsApp accepted
and the answer was lost. `Abort` is a crash of the process or a database error nobody catches.

`refused` remembers that a launch met recipients of another and threw.

Left out: the statistics recomputed after each step, edits and deletion of drafts, the order
inside a batch (any), more than one campaign, and the recipient status `replied`, which a
reply sets and no property asks about.

### MarketingReply

A reply quotes the campaign's message (`TakeReply`). The customer is read and, for a recovery
campaign, given to another ventor unless his step preserves the one he has (`ReadClient`,
`AssignSeller`); his step may advance (`AdvanceStep`); he is answered (`Answer`), logged in the
chat, and the recipient marked as handled last (`CloseReply`). `FailReply` is an error in any
of these, which drops the reply; `ReplyCrash` brings it again; `Manage` is an administrator
who writes the customer meanwhile. `ReplyActsOnce` excludes replies that overlap or die: the
check of `replyHandledAt` and its mark are apart in the code. Left out: a reply without
`phoneNumberId` where none is configured either (`recovery-reply.service.ts:213`), which would be
marked and not stored; the webhook always gives the one it came in on.

### LeadConversation

State: the session (`version`, step, status, question, retries, scores, slot), the transcript
rows by message id, the queued sequences (`chains`), the outbound worker (concurrency 1), the
reminder job, the handlers (`inbound`). A message goes `Deliver` – `LogMessage` (the unique
index drops duplicates) – `CancelReminder` – `Decide` – `Apply` (compare-and-set; on a conflict
up to `MAX_TRANSITION_ATTEMPTS` turns) – `Qualify` – `Dispatch` – `Rearm`. The reminder goes
`FireReminder` – `MarkReminder` – `SendReminder`.

Data: a message says one of `Answers`, as a button (only one that was offered) or as text; a
question is its kind; `lastQuestionAt` is the version at which the question was asked;
`lastQuestion` and its options are one value, `asked`. Free slots are any; `bookSlot` is one
step here and taken apart in `LeadCallSlots`. The three attempts of a job are one. A send
fails in two ways (`SendFails`): WhatsApp answers that it did not, and the job goes on with a
message that was not shown; or nobody answers, and at last the rest of the sequence is dropped.
Conflict and re-read are one step.
A crash of the outbound worker runs its job again; one after it has queued the next job is not
modelled. BullMQ ignores an add whose id is that of an active job: `collided` remembers it.

`Patient` is an assumption about the customer, stated as a constant: with TRUE he writes when
the bot has finished talking, with FALSE at any time.

Left out: the projects of interest and the ventor mirrored on the session. The customer of a
session is `LeadRecord`'s, the form's delayed message `LeadFormNudge`'s.

### LeadCallSlots

State: the call events, the other pending events of the users (`visits`), the customer's
assignee, the mirrored ventor and date of the session. Bookers run `BookFind`, `BookLook`,
`BookCreate`, `BookCancel`, `BookAssign`; administrators find a pending call and then reassign
(`ReassignLook`, `Move`, `Own`, `Mirror`) or reschedule it (`RescheduleLook`, which asks who is
free, `RescheduleRecheck`, which asks again for the current user where he is not, `Shift`, `Own`,
`Patch`), or close it (`Close`). Meanwhile the users place events of their own and end them
(`PlaceVisit`, `EndVisit`), looking at nobody's calls, and set calls that were over back to
pending (`Reopen`). A call a user enters for himself is one of `visits`.

The unique partial index is the guard `IndexAdmits` of every write that can make a call pending or
move it. It knows nothing of visits: one placed between the search of a request and its write is
not refused, and `job.late` remembers it. `BookedOutsideVisits` says that nothing else puts a call
over a visit: not another request, nor a search that missed one. It is about users who are given
a call; the one who keeps a call that is rescheduled is only asked about his calls
(`isUserFreeAtSlot`).

Slots do not overlap, a session stands for its customer, the pool of users is fixed, and which of
the free users is least loaded is left open (any). `disturbed` remembers that a request began while
another one on its session was under way, or that a call was taken up again;
`OneCallOfTheAssignee` is about behaviours without either.

### LeadRecord

State: the documents of one number, by their age (`known`), those a lead form is linked to
(`formed`), the lifecycle and the assignee of each, the document the session is of (`person`),
the call events of the session. `Stranger` is a document of another number, to which a link may
move the call. A message finds or creates its document (`TakeMessage` to `OpenSession`); a
booking makes the call, resolves the document again, moves call and session to it and assigns
it (`TakeBooking`, `BookCall`, `MatchAgain`, `Prefer`, `RematchCall`, `RematchSession`,
`ReadHolder`, `SaveHolder`); `TakeLink` is a link of a call by the office, `TakeMove` a
reassignment, `Office` the writes that are one step, `FormComes` and `NumberComes` what else
changes the documents. The booking of a slot is one step here, as its parts are
`LeadCallSlots`'. `crossed` remembers that two requests wrote the customer of a call at once, or
of a call already closed; `moved` the same of its user.

### DownPayment

State: the down-payment documents by the creation that inserted them, the fees by the request
that inserted them, and the requests. A creation runs `CreateLook`, `CreateRow` (unique index),
`SaveContract`, `CreateFee`, `CreateTotals`; a failure in between goes to `UndoFees`, `UndoRow`.
A payment runs `PayRead`, `PayFee`, then `PayEvidenceFails` or `PaySave`. `PaySave` writes the
totals computed from the document read, and the status only if it differs from the one read;
the save of a document that is gone throws and leaves the fee. A request that is refused
changes nothing and is left out, as are files' contents, listings and the push notification.
`Abort` is a crash, or a database error where the code has no `try`; an error inside the
creation's `try` is `CreateFails`.

The history variable `overlapped` remembers that a payment began while another request for its
document was under way: `FeeHasItsDownPayment` and `LedgerIsExact` are about behaviours where
none did, the other properties about all.

### PaymentReceipts and PaymentAccess

`PaymentReceipts`: a payment is inserted (`InsertReceipt`), its file written under the id
(`WriteEvidence`), the document told of it (`NameEvidence`); an error deletes the document
(`UndoReceipt`), which may fail too. `Summarise` is the summary of the customer; what it
returned is compared with what had been confirmed by then.

`PaymentAccess`: `AskOffice` (the users MS: is he a physical ventor?), `LookCustomer` (has he
the customer? one that does not exist is refused), `LookEvents` (was he the guide of an event?),
`RecordPayment`, while `Transfer` changes any of the three facts. The facts that were true of a user at some time since the
request came, and all the time, are kept as history: no answer can promise more than the first,
nor refuse the second.

### CustomerTrail

State: the assignee and the log of his changes, with who attended which row; the users whose
last push gave them the customer; the step and its log; the events, `lastUpdate` and its
recomputation. The ways to a new assignee (`AssignWays`) differ in who writes the log:
`assignCustomerAssignee` and `updateCustomerAdmin` do it themselves (`LoggedWays`), the others
leave it to the save hook, which the audit adds after the model is compiled (`hooked` says
whether such hooks run at all) and which nobody awaits (`LogAssignment`). A handler that reads,
picks and saves does so in three steps; a document made in memory by the same request ("own")
has no snapshot for the hook to compare with. `RecordEvent`, `BumpLastUpdate`, `MarkAttended`
are the parts of an event; `Recompute` and `SetLastUpdate` those of the recomputation. A change is
logged once: a document that one request saves twice keeps its snapshot in the code and has two
equal rows in the log, of which the attendance marks the later.

### LeadIntake

One person, who writes (`text`, `flow`) or sends lead forms (`conversation`, `assign`, `bbq`).
`Phones` are the two ways his number is written: WhatsApp gives the international one, a form
what was typed in; a message finds only its own, a form both (`Found`). `TakeDelivery` finds
the customer or goes to create one; `AssignIfUnassigned` gives him a ventor or finds none;
`DecideTemplate` to `SendTemplate` are the greeting, `FlowRead` and `FlowSave` the flow,
`SetReady` to `NotifyMark` the BBQ form. `IntakeCrash` kills all handlers; what they held comes
again as new deliveries. Left out: click ids and the answers of a form.

### LeadFormNudge

The queue holds one job per number; the leadgen handler puts it there, after removing an
earlier one (`ScheduleNudge`) and reading the delay from the settings, which the first form
creates (`ReadDelay`, `CreateDelay`). The person's message cancels it (`CancelByWaId`) before
it is noted in the session (`ApplyMessage`). The job fires, looks at the session and at the
campaign, sends and marks (`Fire`, `LookSession`, `LookCampaign`, `SendNudge`, `MarkNudge`). An
answer that it was not sent and a call without an answer are noted alike and end the job, which
has one attempt; a stalled lock brings it again. The campaign is there, as nothing deletes one. `SilentIsNudged`: whoever never wrote is not
forgotten.

### VentorBalance

`Count` counts the assignments of one ventor, a query each; `AssignTo` gives the customer to one
of those with the fewest (`Fewest`). `EvenLoad`: no ventor is ahead of another by more than
there are requests. Assignments do not grow old, nobody is reassigned.

### ConversationStore

A message is identified with its timestamp. `TakeEvent` and `TakeMeta` are its two ways in; the
chat is upserted before the message (`NewLast`, `StoreMessage`), a message without a customer
goes to the unresolved ones (`SaveUnresolved`), where an error of the database is logged and the
message acknowledged all the same: `dropped` remembers these, the only ones that `HandledIsKept`
gives up. `backwards` remembers a message after a later one: the chat's time
is `$set`, not `$max`.

### StaffReport

The aggregate of the report takes the members one by one, with three look-ups each
(`LookCustomers`, `LookCalls`, `LookAttendance`); the list is three queries at once
(`ListQuery`). `HandOver`, `HookLogs`, `MarkRow`, `MoveStage`, `PlaceCall` and others change what
they read, at any time; `shaken` remembers that something changed while a report ran.

### WebinarEvents and WebinarLeads

`WebinarEvents`: creation, activation (`ClearActive` before the webinar is inserted or saved),
renaming, deletion; the calendar entry is made or updated after the document (`SyncCalendar`,
`NoteEntry`) and deleted before it (`DeleteEntry`, `DeleteDocument`). Google may fail, or make an
entry without a Meet link, which the service throws at and forgets. `WebinarLeads` adds the
leads of one person to the same state: a form goes to the active webinar (`TakeWebinarForm`), an
entered lead to a given one; the lead is upserted, told and marked (`UpsertSignup`,
`SendRegistration`, `NoteRegistration`) and may be converted or deleted.

### CallOutcome, CallHistory, CallLog, CallAudit

`CallOutcome`: `Resolved` is `deriveResolvedCallOutcome` of the list, `ReportedOutcome` the
aggregation of the report, which is "to be kept in sync" with it. A signal is its type, time and
status. The two differ on a status that is there and empty: `??` takes it in the list, `||` passes
over it in the report; `ReportsTheSame` assumes that none is empty. The list's `in_progress` for a
virtual visit that was only scheduled is not part of either.

`CallLog`: a consumer takes a message of one of three queues; a signal is updated where its type
is in the list and else pushed, the push guarded by the type again (`Update`, `Push`;
`UpdateOnly` and `PushAnyway` are faults), and acknowledged (`Ack`); `SignalStatus` is the status
that comes with each type. A created call looks for its CRM event before it makes one, and makes
none if nobody knows the customer; a text that is saved leaves an analysis due. Deliveries repeat,
race and come in any order; `CallCrash` returns what is in hand.

`CallHistory` is the promise: a growing set of signals, and a message leaves the queue only when
its signal is in the set. `CallLog` implements it (`ImplementsHistory`) with
`reported <- Stored` and `taken <-` the signals whose message is settled.

`CallAudit` composes analyses (`Analyse`, `MarkPending`, `LlmAnswers`, `SaveCompleted`,
`SaveFailed`) and checklists (`HumanLook`, `HumanSubmit`) with the log: it reads the log's text
and takes its due analyses. The database may refuse any write of an analysis (`AuditWriteFails`):
a result that is not saved is saved as failed, and if that is refused too the audit stays pending
with nobody at it, which `unsaved` remembers and the properties leave out.

### FieldVisit

The visit, its guide, the events of the customer about it, what the last appointment event
names, and the phones that believe the visit is theirs. A status change reads, and writes only
if its user still may (`ReadStatus`, `SetStatus`, `RecordStatus`; `SetStatusById` is the
fault); an appointment writes, logs and pushes (`Appoint`, `LogAgent`, `PushAgents`).

### MeetVisit

Hours are counted (`Tick`), the sweep runs in each (`SweepLook`, `SweepSubscribe`, `SweepSave`,
`SweepMark`), the visit is for one of `VisitHours`, and the conference may be held at any time
(`Confer`). `Ttl` is the 24 h for which a subscription lasts, which is also how far the sweep
looks ahead. A booking is five writes (`Place` to `LogVisit`). A sync fetches what Google has
or takes a client's word, then looks at the log and saves, guarded by `__v` where it replaces a
signal (`FetchArtifacts`, `ToldByClient`, `Fetched`, `LookLog`, `SaveSync`).

## 3. Runs

| Run | Checks | Shows |
|---|---|---|
| `campaign_safety` | `CancelLeaksOneBatch`, `DispatchSafe` (`TypeOK`, `SendingIsInHand`), `OneMessagePerRecipient`, `CompletedForgetsNobody` | as long as no claim lapses a cancellation lets at most the batch under way out; a retry, two ticks and receipts: one message each, and completed means nobody is left waiting |
| `campaign_progress` | `PendingIsDispatched`, `BuildingEnds`, `CampaignEnds` | a batch whose tick died is picked up again after the claim; a campaign leaves `building` unless a launch was refused by the unique index; a sending campaign ends unless a process died with a recipient in hand |
| `lead_safety` | `NothingScoredIsLost`, `RemindsOnlyTheSilent`, `LeadSafe` (`TypeOK`, `ScheduledHasCall`), `OnceEach` (`AppliedOnce`, `RemindedOnce`) | two handlers, the reminder and the sender at once, with duplicates, a crash, a send that is refused or lost, restart and delete |
| `lead_patient` | `QuestionIsReminded`, `ChatShowsTheQuestion`, `SilenceEnds` | three turns of a patient customer, up to the last retry: what he sees is what the bot waits for, and his silence is interrupted by the reminder |
| `slots_safety` | `AgendaSafe` (`TypeOK`, `NoDoubleBooking`), `OneCallOfTheAssignee` (`OneCallPerSession`, `AssigneeCalls`), `BookedOutsideVisits`, `RebookingKeepsACall` | a booking, an administrator and a closure at once, or two bookings, while users place and end events and take up calls that were over |
| `customers` | `TrailCorrect`, `IntakeCorrect`, `IntakeGoesForward`, `ReplyCorrect`, `NudgeCorrect`, `WebinarsCorrect`, `EvenLoad`, `StoreCorrect`, `ReportCorrect` | the eight components of `MCCustomers`, each for itself |
| `calls` | `CallCorrect`, `OutcomeIsLastSignal`, `ImplementsHistory`, `AuditCorrect`, `VisitCorrect`, `WithdrawnDoesNotWrite`, `MeetCorrect`, `SyncKeeps`, `DownPaymentSafe`, `FeesBackTotals`, `ReceiptsCorrect`, `AccessCorrect`, `RecordCorrect` | the seven components of `MCCalls`, each for itself |

`MCCustomers` and `MCCalls` hold components that do not meet in one run each: `awake` names the
component whose behaviour it is, the others stay in one named initial state. The state graph is
the disjoint union of theirs, and says of each what a run of its own would. What a component
promises is one conjunction, whose named parts are:

| Property | Parts beside the types |
|---|---|
| `TrailCorrect` | `EveryAssigneeIsLogged`, `PhonesAgree`, `StepIsLogged`, `LastUpdateKeepsUp`, `ActedIsAttended` |
| `IntakeCorrect` | `OnePersonOneCustomer`, `FirstTemplateOnce`, `NotifiedOnce`, `ReadyHasVentor` |
| `IntakeGoesForward` | `IntakeKeepsVentor`, `FunnelGoesForward` (what a step may never do) |
| `ReplyCorrect` | `ReplyActsOnce`, `AnswerNamesTheOwner`, `HandledIsInChat`, `RecoveryHasSeller` |
| `NudgeCorrect` | `NudgedOnce`, `SentIsNudged`, `SilentIsNudged`, `AtMostOneLateNudge` |
| `WebinarsCorrect` | `OneActiveWebinar`, `CalendarMatches`, `RegisteredOnce`, `RegisteredIsTold`, `ConvertedIsCustomer` |
| `StoreCorrect` | `HandledIsKept`, `ChatShowsLatest` |
| `ReportCorrect` | `CallsAddUp`, `StepsWithinTotal`, `CountedOnce`, `CountedIsAwaited`, `ListAgrees` |
| `CallCorrect` | `OneEventPerType`, `OneCrmEvent` |
| `AuditCorrect` | `PendingIsAnalysed`, `AuditIsOfTheText`, `ChecklistIsTheAuditors` |
| `VisitCorrect` | `FinalIsRecorded`, `LastRecordIsStatus`, `AgentKnows` |
| `MeetCorrect` | `OneRowPerSignal`, `OneMindIsShown`, `CoveredAtStart`, `OneSubscription` |
| `SyncKeeps` | `AttendedStays`, `TranscriptStays` (what a step may never do) |
| `DownPaymentSafe` | `OneDownPayment`, `PaidWithinExpected`, `FeeHasItsDownPayment` |
| `FeesBackTotals` | `PaidIsBacked`, `LedgerIsExact` |
| `ReceiptsCorrect` | `EvidenceIsThere`, `AnswersHold`, `SummaryCounts` |
| `AccessCorrect` | `RecordedByTheirVentor`, `VentorIsNotRefused` |
| `RecordCorrect` | `ConvertedStays`, `CallHasAdviser`, `RecordsAgree`, `BookedUnderOneRecord` |

Five more runs end in a violation. Each checks one sentence of the repository that the code
does not keep:

| Run | Sentence | What happens |
|---|---|---|
| `lead_overtaking` | "The last message of a question arms the reminder." (`md_folder/lead-conversation.md`) | the last message of an older sequence re-arms it with its own time; the newer question is never reminded |
| `slots_two_taps` | "Idempotent per session" (same file) | two bookings at once leave two pending calls (`BookingIsIdempotent`; `OneCallPerSession` is the same for requests that do not overlap) |
| `payment_overpaid` | "Only fee payments can be added until the expected value is reached." (`customer-down-payment.service.ts`) | two payments at once exceed it |
| `assignment_unlogged` | "Append-only log when a customer's `assignedTo` changes (admin assign, create with assignee, ventor auto-assign)." (`customer-assignment-change-log.schema.ts`) | a customer the lead-form handler has just made is given to a ventor and saved without a snapshot: the ventor is in charge and not in the log |
| `meet_outcome` | "UI should show the last *non-completed* signal …" (`call-log-outcome.util.ts`) | a visit first synced as unattended and then as attended keeps its answer behind its end and is shown as unanswered |

Other disagreements met while reading the code for the models, which no run checks:

* Two slots picked at once: the session may keep as `fechaLlamada` the date of the call the
  other pick cancelled, as `bookSlot` runs before the compare-and-set
  (`handlers/ask-call-slot.handler.ts:37`).
* After the reminder, an older button makes `buildRetry` re-send `lastQuestion`, which by then
  is the reminder (`lead-flow-transitions.service.ts:79`).
* "Sí" to the reminder goes to the schedule question, not to `stepBeforeReminder`
  (`handlers/reminder-reply.handler.ts:21`); after the last retry the bot falls silent and the
  session stays active, not `abandoned` (`lead-flow-transitions.service.ts:80`).
* A call closed after `findPendingCall` is still moved by `_id`
  (`lead-call-schedule-admin.service.ts:242`); a reschedule keeps a user who has a visit in the
  new slot (`:192`).
* A payment that saves after a completing one that overlapped it puts the total back and leaves
  `completed`, as Mongoose writes only the fields the request changed
  (`customer-down-payment.service.ts:228`).
* A reply to a standard campaign is said to assign the unassigned
  (`md_folder/whatsapp-marketing-gateway-ingress.md:7`); the code only logs
  (`whatsapp-marketing-recovery-reply.service.ts:205`). A second reply to the same message is
  never stored in the chat.
* "Inbound on leads line cancels job by phone/waId. On fire: skip if session already has
  inbound" (`md_folder/meta-lead-forms.md:21`): with a form whose number lacks the country code
  neither applies (`LeadFormNudge`'s lateNudges are of the person's own number).
* "Sends … once per leadgenId (idempotent)" (`customer-meta-leadgen.service.ts:350`) fails where
  the service dies between the sending and the mark, or two deliveries overlap
  (`NotifiedOnce` names both).
* `ready_for_llm` is "after ventor assignment" (`customer.schema.ts:80`); the BBQ form sets it
  even where no ventor could be picked (`customer-meta-leadgen.service.ts:289`). `ReadyHasVentor`
  names that case.
* A BBQ form renews `assignedDate` without a row in the assignment log, so the staff report
  counts the customer as assigned and neither as attended nor as unattended.
* The conflict of two creations of one phone, or of the settings of the lead forms, is an
  exception: the consumer acknowledges the message and the text or form is lost.
* A link of a call to another customer is undone by the next booking of the session, which
  looks the customer up by the number again; a link of an old call, which is not refused, moves
  the session and assigns the customer to the old call's user.
* "Calendar organizer (always auditoria for SA-created Meets)"
  (`ventor-schedule-event.schema.ts:65`): the organizer is the ventor.
* A subscription made by the sweep lasts exactly as long as the sweep looks ahead; it may lapse
  within the hour in which the visit begins, and is not renewed once the visit is past.

### Bounds

Unbounded things are cut by constants named `Max...`, which guard only the actions they name
(launches, cancellations, retries, aborts, lapsed claims, deliveries, failures, administrator's
commands, closures, requests, crashes). The hazards are pairs: two ticks, two handlers, two
bookings, two payments, one fault; each run has the two actors and the fault its question needs,
and one recipient, message or slot more than the smallest case (three recipients and batches of
two in `campaign_safety`, so that a cancellation falls inside a batch with another batch to come;
payments that are partial, exact and too large against the value agreed). The `lead_*` runs
start from the steps in `Starts`, each the state reached by the shortest way, so that few
messages reach the end of the flow or the last retry; `lead_patient` and `lead_safety` also start
from nothing.

In `customers` and `calls` there are two handlers of each kind and three or four requests in a
behaviour, so that a third one comes after two that overlapped, one crash and one failure. A
lead record has two documents and two calls, so that the call can be of either and be replaced
while an older one is there to be linked. `MeetVisit` has four hours, a `Ttl` of two and visits
in the first, second and fourth hour: one that is near when it is booked, one at the edge, one
that only a sweep can cover and whose subscription may expire before it. `LeadFormNudge` has two
forms, which may give the number in the same or in different ways.

Some runs hold several instances: a state constraint admits the states of either
(`OneInstance` in the MC modules of the first three components, `TrailInstance`,
`IntakeInstance`, `ReplyInstance`, `WebinarInstance`, `BalanceInstance`, `StaffInstance`,
`CallInstance`, `MeetInstance`, `ReceiptsInstance`, `PaymentsInstance`). They say which counts of
requests, crashes and failures come together, for example a retry with receipts or a cancellation
with a crash, not all four. In `slots_safety` one visit at a time is there or placed, with two
calls and without closures. The runs of liveness have no constraint, and no symmetry.
`BalanceInstance` bounds the loads by `MaxLoad`; the theorem about them has no bound.

Processes of a kind, recipients, messages and slots are interchangeable and symmetry sets are
used in safety runs only. `CHECK_DEADLOCK FALSE` everywhere: requests are finite in number and
a quiet system has nothing to do.

### Fairness

`FairSpec` of `MarketingCampaign`: weak fairness of each process that was started (Node runs
every pending continuation; that the WhatsApp service answers an RPC at all is an assumption),
of the clock (`DelayElapses`, `ClaimElapses`), and of the cron. No fairness for requests,
receipts or aborts. `FairSpec` of `LeadConversation`: the broker delivers what was written, the
handlers go on, the outbound worker takes its jobs, the hour of a reminder ends. None for the
customer, the administrator and the faults. The other components state safety, and what must
have happened "when nothing is under way" (`SilentIsNudged`, `RegisteredIsTold`,
`EveryAssigneeIsLogged`, `CallHasAdviser`), which needs no fairness.

## 4. Proofs

| Theorem | Says | Argument |
|---|---|---|
| `MarketingCampaignProofs!TypeCorrect`, `!SendingCorrect`, `!DispatchSafeCorrect` | `[]DispatchSafe` | `TypeInv`: types with `HookSeen` and `Held`, what a process holds where its code uses it; `SendingIsInHand` is inductive with it |
| `MarketingCampaignProofs!OneMessageCorrect` | `[]OneMessagePerRecipient` | `OneMessageInv`: before the start nothing is in hand (`QuietUntilStarted`); the claim keeps a second tick out while somebody waits for the first message (`ClaimProtects`); whoever owes a recipient its first message is the only one (`FirstMessage`) |
| `LeadCallSlotsProofs!TypeCorrect`, `!NoDoubleBookingCorrect`, `!AgendaSafeCorrect` | `[]AgendaSafe` | `TypeInv`: a request has found its call or user by the step that writes it; every write that makes or moves a pending call passes the index (`IndexHolds`) |
| `LeadCallSlotsProofs!BookedOutsideVisitsCorrect` | `BookedOutsideVisits` | `CandidatesAreFree`: whoever a request still has to write to had no event in its slot when it searched, or has one that is in `late`; `CandidatesStep`: whatever places an event meanwhile puts its user there |
| `LeadCallSlotsProofs!RebookingKeepsACallCorrect` | `[]RebookingKeepsACall` | `KeepsOne`: a session with a call has a pending one that nobody is about to cancel, the last one made, because a handler only cancels what was there before its own insert (`CarriesOwnCall`: and only its session's) |
| `LeadProofs!TypeCorrect` | `[]TypeOK`, the limit on retries included | `TypeInv`: a plan that asks again was made for a snapshot whose retries last (`HandleAllowed`, `HandlersFit`); a document still at the version the reminder job read is still due (`ReminderFits`) |
| `LeadProofs!NothingScoredIsLostCorrect`, `!RemindsOnlyTheSilentCorrect` | the two action properties | `Snapshots`: versions never go back and a snapshot with the document's version is the document (`VersionStep`: every write is a version of its own), so what passes the compare-and-set was made from what it replaces (`SavedFromCurrent`) |
| `LeadProofs!AppliedOnceCorrect` | `[]AppliedOnce` | `OneCarrier`: while a handler carries a message, its transcript row is there, nobody else carries it and it has moved nothing; `AdminKnows`: only the request that deletes a session removes its rows |
| `LeadProofs!ScheduledHasCallCorrect`, `!LeadSafeCorrect` | `[]LeadSafe` | `CallIsBooked`: whoever is about to save `scheduled` has booked; a call is replaced, never removed, while its session lives |
| `LeadProofs!RemindedOnceCorrect`, `!OnceEachCorrect` | `[]OnceEach` | `Credit`: reminders queued, the one marked, the one still owed to an unmarked session and the administrator's request in hand add up to at most one plus the requests so far |
| `PaymentProofs!TypeCorrect`, `!OneDownPaymentCorrect`, `!PaidWithinExpectedCorrect` | three parts of `DownPaymentSafe` | `IInv`: a request in hand knows that its document was inserted, with the agreed value it read, and that its payment fits in what it read (`CreatorKnows`, `PayerKnows`) |
| `PaymentProofs!FeeHasItsDownPaymentCorrect`, `!DownPaymentSafeCorrect` | the fourth; `[]DownPaymentSafe` | `SerialInv`, as long as nothing overlapped: a payment under way has its document, whose creation is over; a creation deletes its document when it has no fees |
| `CustomerProofs!EvenLoadCorrect` | `[]EvenLoad` | `Bounded`: for every level that one ventor has reached, the load of another and the requests that would still pick him at that level are together at most the level plus the requests; `CountsAreStale`: a count is never above the load |
| `CallProofs!CallTypeCorrect`, `!OneEventPerTypeCorrect` | `[]CallTypeOK`, `[]OneEventPerType` | `LogInv`: what a consumer at each place holds (`Holds`); a push is guarded by the type |
| `CallProofs!ImplementsHistoryCorrect` | the refinement | a message about to leave the queue has its signal in the list (`Recorded`); every step of the log adds a signal, settles a stored one, or stutters |
| `LeadProofs!RecordTypeCorrect` | `[]RecordTypeOK` | `TypesInv`: what a request at each place has read (`DeskFits`); no session without a document (`PersonFits`) |
| `LeadProofs!ConvertedStaysCorrect` | `[]ConvertedStays` | `LifeInv`: who was converted has his number |
| `LeadProofs!CallHasAdviserCorrect` | `[]CallHasAdviser` | `AdvisedInv`: a pending call's document has an adviser or a request that owes it one (`Obliged`), and a document somebody was read on keeps somebody (`HolderFits`), whatever overlaps |
| `LeadProofs!RecordsAgreeCorrect` | `[]RecordsAgree` | `AgreeInv`: unless two crossed there is one request that rematches the call, and `AgreeFits` says how far it is; `HeldInv` and `HeldFits` the same of the call's user |
| `LeadProofs!BookedUnderOneRecordCorrect`, `!RecordIsCorrect` | the fourth part; `[]RecordCorrect` | `RightInv`: since the booking began nothing has changed which document is the right one, so what it found is all there is (`RightFits`) |
| `MarketingCampaignProofs!CompletedForgetsNobodyCorrect` | `[]CompletedForgetsNobody` | `OverForgetsNobody`: once a tick has counted nobody left the campaign is over for good, and who is pending then is in the list of a retry on its way to send or to reopen |
| `MarketingCampaignProofs!CancelLeaksOneBatchCorrect` | `[]CancelLeaksOneBatch` | `OneBatchLeft`: one worker at most has a list; those it has revived and those on its list are together at most a batch; while anybody is pending nobody was revived |
| `LeadCallSlotsProofs!OneCallOfTheAssigneeCorrect` | `[]OneCallOfTheAssignee` | `OneEach`, as long as nothing disturbed a session: one request is under way for it, its step says which calls of the session are pending and of whom (`Stage`), and a session at rest has one, of its assignee (`InOrder`) |
| `PaymentProofs!PaidIsBackedCorrect` | `[]PaidIsBacked` | `BackedInv`: the fees of a document that nobody will take back are worth at least its total, and at least the total that a payment has read; over lemmas about the sum of a finite set (`WorthIsSum`, adding, removing and comparing) |
| `PaymentProofs!LedgerIsExactCorrect`, `!FeesBackTotalsCorrect` | `[]FeesBackTotals` | `LedgerInv`, as long as nothing overlapped: whose fee is whose (`FeesInv`), what a document says by how far its creation has come (`DocumentOf`), and that the one payment in hand has read the document as it is (`OnlyOne`) |
| `PaymentProofs!ReceiptsAreCorrect` | `[]ReceiptsCorrect` | `ReceiptsInv`: a request under way has a payment of its own without evidence or answer (`CashiersInv`); the numbers of payments identify them (`NumbersInv`); payments left open are counted by the failures and the requests a death took (`AnswersInv`) |
| `PaymentProofs!AccessIsCorrect` | `[]AccessCorrect` | `Grounds`: by the place of a request, what must have been true of its user at some time, and what cannot have been true all the while |
| `CallProofs!CallIsCorrect` | `[]CallCorrect` | `CrmInv`: unless two deliveries of the creation overlapped, one consumer is between the look-up and the insert, and what it found still holds |
| `CallProofs!OutcomeIsLastSignalCorrect`, `!ReportsTheSame` | `[]OutcomeIsLastSignal`; the two derivations agree for any list | `FlowInv`: what is stored or in hand is of the flow of signals; the latest of the signals but the end is one element whatever their order, from lemmas about the folds of `CallOutcome` |
| `CallProofs!AuditIsCorrect`, `!AuditedCallIsCorrect` | `[]AuditCorrect`; `[]CallCorrect` of the composition | `AuditInv`: a pending audit has a live analysis; unless two overlapped, an analysis is of the text or another is due (`OneAnalysis`, `Heard`); `HumanInv`: what an auditor looked up still holds; steps of the desk leave the log as it is |
| `VisitProofs!VisitIsCorrect`, `!WithdrawnDoesNotWriteCorrect` | `[]VisitCorrect`, the action property | `VisitInv`: a final status somebody has read or written is known to the history or in the hands of who records it (`FinalInv`); unless two overlapped, what the one request holds is the visit (`LastInv`, `AgentInv`) |
| `VisitProofs!MeetIsCorrect`, `!SyncKeepsCorrect` | `[]MeetCorrect`, the action properties | `MeetInv`: how long a subscription lasts by the state of booking and sweep (`CoverInv`), how many there are (`CountInv`), which signals a sync knows (`RowsInv`, `AloneInv`), that an outcome's two signals come in pairs (`PairInv`), that nobody attends what was not held (`HeldInv`) |
| `CustomerProofs!TrailIsCorrect` | `[]TrailCorrect` | `TrailInv`: whoever was in charge is logged or in the hands of the hook that logs him (`AssigneesComing`); unless two crossed, one request is under way and the phones and the log follow it (`AloneFits`, `PhonesFollow`); the last update is that of the last event or is being set (`UpdateComing`); an event past its bump owes the latest of its author's assignments its mark (`AttendedComing`) |
| `CustomerProofs!StoreIsCorrect` | `[]StoreCorrect` | `StoreInv`: who stores a message has made its chat (`UpsertsUnderWay`); unless messages came backwards, those under way are of the last one, and no message stored is later than the chat (`LastIsLast`) |
| `CustomerProofs!ReplyIsCorrect` | `[]ReplyCorrect` | `ReplyInv`: what a handler at each place has decided and written (`ReplyUnderWay`); unless rivals, it is alone and what it read is the customer (`ReplyIsAlone`); unless something failed, a reply that has acted is saved or still at work, and none is at work once one is saved (`ReplyActsThenSaves`) |
| `CustomerProofs!ReportIsCorrect` | `[]ReportCorrect` | `StaffInv`: as long as nothing changes, a row is what its look-ups would still answer (`RowFits`), and so are the answers of the list (`ListFits`); whoever has a customer is in the log as given him (`HoldingsBacked`), which gives the injection of the customers counted into the rows that count as attended or not. The columns of a row are a sum over a finite set, with the lemmas of `PaymentProofs` |
| `LeadProofs!ChatShowsTheQuestionCorrect`, `!QuestionIsRemindedCorrect` | `[]ChatShowsTheQuestion`, `[]QuestionIsReminded`, assuming `Orderly`: the customer writes when the bot has finished, no process is lost, no send fails, no administrator steps in; messages may be redelivered, to any handlers | `OrderInv`: of the handler that answers, the sequence being sent and the reminder at work one at most is there (`OneAtATime`), each as far as its step says (`StepFits`), and the chat shows, or that one is about to send, what the session waits for, with its reminder armed or about to be (`Remembers`) |
| `LeadFormProofs!IntakeIsCorrect`, `!IntakeGoesOnward` | `[]IntakeCorrect`, the action properties | `IntakeInv`: what was read of a customer is not more than he has (`SeenStays`); unless two raced, one handler is at work and has read the customer as he is (`AloneSees`), the first document is the one that is found (`FirstIsFound`), and templates and notices are counted by their marks or by the handler about to mark (`TemplateIsMarked`, `NoticeIsMarked`) |
| `LeadFormProofs!NudgeIsCorrect` | `[]NudgeCorrect` | `NudgeInv`: a form was nudged once at most, and is then marked or in the job about to mark it (`NudgeIsNoted`); of a form that counts as processed the number was nudged, has a job, or has a handler that will add one (`Coming`, `NudgeIsComing`); after a message is heard one job at most is past its check (`LateIsLast`) |
| `LeadFormProofs!WebinarsAreCorrect` | `[]WebinarsCorrect` | `EventsInv`: of activations that do not overlap one is under way and past its clearing no other webinar is active (`ActivatesAlone`); unless jostled, a request knows its webinar (`AdminKnows`) and the calendar has the entries of the webinars but of those being deleted, and those made and not yet noted (`CalendarFollows`). `WebinarInv`: with it, whoever is there and not told is in the hands of who tells him (`ToldComing`), and alone he is told once (`OnceAlone`) |

They hold for every value of the constants that the `ASSUME`s of the modules admit: disjoint
sets of processes, `None` outside, positive amounts, any bounds. Sets need not be finite, but
for those that a property counts or adds up: the recipients of a campaign, the cashiers, the
requests of a down payment and of `VentorBalance`, the columns of a staff report. There is a form, a webinar and a lead id at
least, which is where an idle process points. Nothing else is assumed.

The inductive invariants were checked by TLC, on the instances of the runs, before they were
proved. Most have the same shape. One part says what a process holds at each of its places,
whatever overlaps. The other, under a history variable that says that nothing of a kind has
overlapped so far, says that one process is at work and that what it has read is still so; with
that each write is what the property wants. A last part follows what is owed: a row to be logged,
a template to be marked, an entry to be noted is there already or in the hands of a process that
will see to it.

Only model-checked: liveness (`PendingIsDispatched`, `BuildingEnds`, `CampaignEnds`,
`SilenceEnds`), which under fairness is out of the prover's reach. The two conversation
theorems that assume `Orderly` are of what the run `lead_patient` explores: when a process dies
or a send fails the question may be missing from the chat, or its reminder, and nothing in the
code repairs that.

## 5. Not modelled

* The audience of a campaign and all listings and queries: they change nothing; where a handler
  depends on one its result is a choice. The statistics of a campaign, which are rewritten after
  every step, and edits of drafts.
* Project detection, the composer's texts, the LLM's answers: text, whose result is one of the
  answers of `LeadConversation` or an outcome of an analysis.
* The Meta conversions API: outgoing calls without local state. Google and the WhatsApp service
  are modelled by the answers they may give.
* Customer metadata and steps: single documents written as a whole.
* The catalogue of lead forms: which kind a form is of is an input of `LeadIntake`.
* The bulk normalisation of phone numbers, which reads all customers and saves them one by one,
  over a number changed in between (`customer/customer.service.ts:207`).
* Monthly progress and listings of the call audit.
* Authentication and configuration: stateless.

Some hazards are covered by half, and `PROJECT.json` says so at each: a process that dies leaves its
recipient in `sending` and the campaign without an end; a recipient that is retried may be sent to
by the retry and by the tick that loaded him in between; a launch that the unique index refuses
leaves `building`; a call may be booked by a transition that is then dropped. The code has nothing
that repairs these, and no text of the repository denies them.

Two hazards have no property, since what a property would say fails in the code and nothing in
the repository promises it: two receipts of one recipient that race may put its status back
(`whatsapp-marketing-status.service.ts:40`), and a message is logged before its transition, so a
crash in between loses the answer (`lead-conversation-inbound.service.ts:54`).

What could come next: an abstract agenda that `LeadCallSlots` implements; `CustomerTrail` composed
with `StaffReport`.
