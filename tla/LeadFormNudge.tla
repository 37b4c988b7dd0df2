---------------------------- MODULE LeadFormNudge ----------------------------
(***************************************************************************)
(* The delayed WhatsApp template for a person who has sent a lead form and  *)
(* not written yet: one job per phone in a BullMQ queue, put there by the   *)
(* leadgen handler, taken away by his first message, and checked again when *)
(* it fires.  A step boundary is an await.                                  *)
(***************************************************************************)
EXTENDS Naturals, FiniteSets

CONSTANTS
  Forms,                \* leadgen ids: the forms the person has sent
  FormHandlers,         \* leadgen deliveries in the hands of the service at once
  MaxForms, MaxWritten, MaxNudgeCrashes    \* bounds for TLC

ASSUME NudgeAssumption == Forms # {} /\ {MaxForms, MaxWritten, MaxNudgeCrashes} \subseteq Nat

\* How a form gives the number: as WhatsApp does, or without the country code.
Numbers == {"international", "national"}

VARIABLES
  number,               \* the number in each form
  processed, sent,      \* meta_lead_campaigns: status processed, qualificationOutboundSentAt
  settings,             \* meta_lead_form_settings has its one document
  job,                  \* the queue: by number, where the job is and for which form
  former,               \* leadgen handlers: at, form
  inbound,              \* the handler of a message of his
  heard,                \* lastInboundAt of his session is set
  nudges,               \* history: templates sent, by form
  lateNudges,           \* history: those sent to his own number after he was heard
  forms, written,       \* history: deliveries of forms, messages
  undone,               \* history: an attempt failed or timed out
  doubled,              \* history: a template may have gone out without its answer
  clashed,              \* history: a form came to nothing as the settings were made twice
  nudgeCrashes

nudgeDb == <<number, processed, sent, heard, settings>>
nudgeHistory == <<nudges, lateNudges, forms, written, undone, doubled, clashed,
                  nudgeCrashes>>
nudgeVars == <<nudgeDb, job, former, inbound, nudgeHistory>>

NoJob(l) == [at |-> "none", form |-> l]
SomeForm == CHOOSE l \in Forms : TRUE
Idle == [at |-> "idle", form |-> SomeForm]

NudgeInit ==
  /\ number \in [Forms -> Numbers]
  /\ processed = {} /\ sent = {} /\ heard = FALSE /\ settings = FALSE
  /\ job = [n \in Numbers |-> NoJob(SomeForm)]
  /\ former = [h \in FormHandlers |-> Idle] /\ inbound = "idle"
  /\ nudges = [l \in Forms |-> 0] /\ lateNudges = 0
  /\ forms = 0 /\ written = 0 /\ nudgeCrashes = 0
  /\ undone = FALSE /\ doubled = FALSE /\ clashed = FALSE

\* queue.remove: an active job is locked, and the error is swallowed.
Remove(n) == IF job[n].at = "delayed" THEN [job EXCEPT ![n].at = "none"] ELSE job

FormAt(h, place) == former[h].at = place
FormTo(h, place) == former' = [former EXCEPT ![h].at = place]

\* executeLeadConversationFormPath: the campaign counts as processed ...
TakeForm(h, l) ==
  /\ FormAt(h, "idle") /\ forms < MaxForms
  /\ processed' = processed \cup {l}
  /\ former' = [former EXCEPT ![h] = [at |-> "cancel", form |-> l]]
  /\ forms' = forms + 1
  /\ UNCHANGED <<number, sent, heard, settings, job, inbound, nudges, lateNudges, written,
                 undone, doubled, clashed, nudgeCrashes>>

Added(l) == IF job[number[l]].at = "none"
            THEN [job EXCEPT ![number[l]] = [at |-> "delayed", form |-> l]] ELSE job

\* Fault: the job is added before the old one is removed.
AddThenCancel(h) ==
  /\ \/ FormAt(h, "cancel") /\ job' = Added(former[h].form) /\ FormTo(h, "delay")
     \/ /\ FormAt(h, "add") /\ job' = Remove(number[former[h].form])
        /\ former' = [former EXCEPT ![h] = Idle]
  /\ UNCHANGED <<nudgeDb, inbound, nudgeHistory>>

\* ... executeSchedule removes the job of an earlier form of this number, and, when it
\* knows the delay, adds one, which the queue ignores while it has a job of that id.
ScheduleNudge(h) ==
  /\ \/ FormAt(h, "cancel") /\ job' = Remove(number[former[h].form]) /\ FormTo(h, "delay")
     \/ /\ FormAt(h, "add") /\ job' = Added(former[h].form)
        /\ former' = [former EXCEPT ![h] = Idle]
  /\ UNCHANGED <<nudgeDb, inbound, nudgeHistory>>

\* executeEnsureSettings looks for the delay ...
ReadDelay(h) ==
  /\ FormAt(h, "delay")
  /\ FormTo(h, IF settings THEN "add" ELSE "default")
  /\ UNCHANGED <<nudgeDb, job, inbound, nudgeHistory>>

\* ... and creates its default.  If there is one by now the unique key refuses it: the
\* form is acknowledged as processed, and no job was added.
CreateDelay(h) ==
  /\ FormAt(h, "default")
  /\ settings' = TRUE
  /\ IF settings THEN former' = [former EXCEPT ![h] = Idle] /\ clashed' = TRUE
     ELSE FormTo(h, "add") /\ UNCHANGED clashed
  /\ UNCHANGED <<number, processed, sent, heard, job, inbound, nudges, lateNudges, forms,
                 written, undone, doubled, nudgeCrashes>>

\* executeUpdateSettings: an administrator sets the delay, which is one upsert.
UpdateSettings ==
  /\ ~settings
  /\ settings' = TRUE
  /\ UNCHANGED <<number, processed, sent, heard, job, former, inbound, nudgeHistory>>

-----------------------------------------------------------------------------
JobTo(n, place) == job' = [job EXCEPT ![n].at = place]

\* The delay is over, and the processor takes the job.
Fire(n) ==
  /\ job[n].at = "delayed"
  /\ JobTo(n, "look")
  /\ UNCHANGED <<nudgeDb, former, inbound, nudgeHistory>>

\* A session is found by the number of the form only if that is the one of WhatsApp.
Answered(n) == heard /\ n = "international"

\* executeDelayedOutbound: whoever has written gets nothing, ...
LookSession(n) ==
  /\ job[n].at = "look"
  /\ JobTo(n, IF Answered(n) THEN "none" ELSE "campaign")
  /\ UNCHANGED <<nudgeDb, former, inbound, nudgeHistory>>

SentBefore(l) == l \in sent

\* ... nor does a form that had its template, ...
LookCampaign(n) ==
  /\ job[n].at = "campaign"
  /\ JobTo(n, IF SentBefore(job[n].form) THEN "none" ELSE "send")
  /\ UNCHANGED <<nudgeDb, former, inbound, nudgeHistory>>

AfterFailure == "none"

\* ... the template is sent; or it is not, or it is and the call times out, and then the
\* error is noted and the job ends, as it has one attempt.
SendNudge(n) ==
  /\ job[n].at = "send"
  /\ \/ nudges' = [nudges EXCEPT ![job[n].form] = @ + 1] /\ JobTo(n, "mark")
        /\ UNCHANGED <<undone, doubled>>
     \/ nudges' = [nudges EXCEPT ![job[n].form] = @ + 1] /\ JobTo(n, "none")
        /\ undone' = TRUE /\ doubled' = TRUE
     \/ undone' = TRUE /\ JobTo(n, AfterFailure) /\ UNCHANGED <<nudges, doubled>>
  /\ lateNudges' = IF nudges' # nudges /\ heard /\ n = "international"
                   THEN lateNudges + 1 ELSE lateNudges
  /\ UNCHANGED <<nudgeDb, former, inbound, forms, written, clashed, nudgeCrashes>>

\* ... and noted in the campaign.
MarkNudge(n) ==
  /\ job[n].at = "mark"
  /\ sent' = sent \cup {job[n].form}
  /\ JobTo(n, "none")
  /\ UNCHANGED <<number, processed, heard, settings, former, inbound, nudgeHistory>>

-----------------------------------------------------------------------------
\* He writes: the message is logged, ...
WriteMessage ==
  /\ inbound = "idle" /\ written < MaxWritten
  /\ inbound' = "cancel" /\ written' = written + 1
  /\ UNCHANGED <<nudgeDb, job, former, nudges, lateNudges, forms, undone, doubled,
                 clashed, nudgeCrashes>>

\* ... the job of his number removed (executeCancelByWaId), ...
CancelByWaId ==
  /\ inbound = "cancel"
  /\ job' = Remove("international")
  /\ inbound' = "apply"
  /\ UNCHANGED <<nudgeDb, former, nudgeHistory>>

\* ... and the transition sets lastInboundAt.
ApplyMessage ==
  /\ inbound = "apply"
  /\ heard' = TRUE /\ inbound' = "idle"
  /\ UNCHANGED <<number, processed, sent, settings, job, former, nudgeHistory>>

\* The service dies.  The forms it held come again, as TakeForm may; a logged message is
\* lost; an active job stalls and goes back to the queue.
NudgeCrash ==
  /\ nudgeCrashes < MaxNudgeCrashes
  /\ nudgeCrashes' = nudgeCrashes + 1
  /\ former' = [h \in FormHandlers |-> Idle] /\ inbound' = "idle"
  /\ job' = [n \in Numbers |-> IF job[n].at = "none" THEN job[n]
                               ELSE [job[n] EXCEPT !.at = "delayed"]]
  /\ UNCHANGED <<nudgeDb, nudges, lateNudges, forms, written, undone, doubled, clashed>>

NudgeNext ==
  \/ \E h \in FormHandlers : (\E l \in Forms : TakeForm(h, l)) \/ ScheduleNudge(h)
                               \/ ReadDelay(h) \/ CreateDelay(h)
  \/ UpdateSettings
  \/ \E n \in Numbers :
       Fire(n) \/ LookSession(n) \/ LookCampaign(n) \/ SendNudge(n) \/ MarkNudge(n)
  \/ WriteMessage \/ CancelByWaId \/ ApplyMessage
  \/ NudgeCrash

NudgeSpec == NudgeInit /\ [][NudgeNext]_nudgeVars

-----------------------------------------------------------------------------
(* Properties                                                                *)

JobPlaces == {"none", "delayed", "look", "campaign", "send", "mark"}

\* Every variable has its type.
NudgeTypeOK ==
  /\ number \in [Forms -> Numbers]
  /\ processed \subseteq Forms /\ sent \subseteq Forms /\ {heard, settings} \subseteq BOOLEAN
  /\ job \in [Numbers -> [at : JobPlaces, form : Forms]]
  /\ former \in [FormHandlers -> [at : {"idle", "cancel", "delay", "default", "add"},
                                  form : Forms]]
  /\ inbound \in {"idle", "cancel", "apply"}
  /\ nudges \in [Forms -> Nat]
  /\ {lateNudges, forms, written, nudgeCrashes} \subseteq Nat
  /\ {undone, doubled, clashed} \subseteq BOOLEAN

\* A form is followed by one template, however often it is delivered and whatever
\* overlaps, unless the service dies or the call times out after the sending.
NudgedOnce == (nudgeCrashes = 0 /\ ~doubled) => \A l \in Forms : nudges[l] <= 1

\* The campaign of a form that counts as sent has had its template.
SentIsNudged == \A l \in sent : nudges[l] > 0

\* Whoever has sent a form and never written is not forgotten: when nothing is under way
\* and no job waits, a template went to every number that a form was processed for, even
\* where a second form found the job of the first under way, unless the settings were
\* made twice at once, which can only be before they are there.
SilentIsNudged ==
  (written = 0 /\ ~undone /\ ~clashed /\ nudgeCrashes = 0
     /\ (\A h \in FormHandlers : FormAt(h, "idle")) /\ (\A n \in Numbers : job[n].at = "none"))
    => \A l \in processed : \E k \in processed : number[k] = number[l] /\ nudges[k] > 0

\* Once a message from the number of the form has been heard, at most the one template
\* that was under way follows it, over any number of forms, crashes and retries.
AtMostOneLateNudge == lateNudges <= 1

\* A form is followed by one template unless its person has written before.
NudgeCorrect ==
  NudgeTypeOK /\ NudgedOnce /\ SentIsNudged /\ SilentIsNudged /\ AtMostOneLateNudge
=============================================================================
