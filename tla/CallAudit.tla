----------------------------- MODULE CallAudit -----------------------------
(***************************************************************************)
(* The two audits of the call of CallLog: the one an LLM writes whenever a  *)
(* transcription is saved or an administrator asks, and the one a human     *)
(* coach writes.  Nothing keeps two analyses of one call apart.             *)
(***************************************************************************)
EXTENDS CallLog

CONSTANTS
  Analysts,             \* analyses under way at once
  Auditors,             \* users that may submit the checklist of this call
  MaxManual             \* bound for TLC: analyses asked for by an administrator

ASSUME AuditAssumption == MaxManual \in Nat /\ Nothing \notin Auditors

VARIABLES
  aiStatus, aiOf,       \* the AI audit: its status, and the text it scored
  job, jobText,         \* where each analysis is, and the text it has read
  auditor, author,      \* the human audit: auditorUserId, and whose checklist it is
  look,                 \* what each submission has read, "idle" when none is open
  manual,               \* history: analyses asked for by an administrator
  aiRaced, humanRaced,  \* history: two analyses, two submissions overlapped
  unsaved               \* history: an analysis could not write its first or last word

auditDb == <<aiStatus, aiOf, auditor, author>>
auditHistory == <<manual, aiRaced, humanRaced, unsaved>>
auditVars == <<auditDb, job, jobText, look, auditHistory>>
deskVars == <<callVars, auditVars>>

AuditInit ==
  /\ CallInit
  /\ aiStatus = "none" /\ aiOf = Nothing
  /\ job = [a \in Analysts |-> "idle"]
  /\ jobText = [a \in Analysts |-> Nothing]
  /\ auditor = Nothing /\ author = Nothing
  /\ look = [h \in Auditors |-> "idle"]
  /\ manual = 0 /\ aiRaced = FALSE /\ humanRaced = FALSE /\ unsaved = FALSE

\* analyzeCallByCallSid, off the queue of setImmediate or by request, reads the
\* log: without a text or an agent it gives up.
Analyse(a) ==
  /\ job[a] = "idle"
  /\ \/ due > 0 /\ due' = due - 1 /\ UNCHANGED manual
     \/ manual < MaxManual /\ manual' = manual + 1 /\ UNCHANGED due
  /\ IF text = Nothing \/ ~agent THEN UNCHANGED <<job, jobText, aiRaced>>
     ELSE /\ job' = [job EXCEPT ![a] = "read"]
          /\ jobText' = [jobText EXCEPT ![a] = text]
          /\ aiRaced' = (aiRaced \/ \E b \in Analysts : job[b] # "idle")
  /\ UNCHANGED <<callDb, at, msg, callHistory, auditDb, look, humanRaced, unsaved>>

AnalysisGoto(a, place) == job' = [job EXCEPT ![a] = place]

\* upsertAuditPending: the scores of an earlier analysis are gone.
MarkPending(a) ==
  /\ job[a] = "read"
  /\ aiStatus' = "pending" /\ aiOf' = Nothing
  /\ AnalysisGoto(a, "llm")
  /\ UNCHANGED <<callVars, jobText, auditor, author, look, auditHistory>>

\* DeepSeek answers, or not, or something unusable.
LlmAnswers(a) ==
  /\ job[a] = "llm"
  /\ \/ AnalysisGoto(a, "complete")
     \/ AnalysisGoto(a, "fail")
  /\ UNCHANGED <<callVars, auditDb, jobText, look, auditHistory>>

AnalysisEnds(a) ==
  /\ job' = [job EXCEPT ![a] = "idle"]
  /\ jobText' = [jobText EXCEPT ![a] = Nothing]
  /\ UNCHANGED <<callVars, auditor, author, look, auditHistory>>

\* saveAiAuditCompleted
SaveCompleted(a) ==
  /\ job[a] = "complete"
  /\ aiStatus' = "completed" /\ aiOf' = jobText[a]
  /\ AnalysisEnds(a)

\* Fault: the error of the LLM is only logged.
LogFailureOnly(a) ==
  /\ job[a] = "fail"
  /\ UNCHANGED <<aiStatus, aiOf>>
  /\ AnalysisEnds(a)

\* saveAiAuditFailed leaves the scores as they are, whoever wrote them.
SaveFailed(a) ==
  /\ job[a] = "fail"
  /\ aiStatus' = "failed" /\ UNCHANGED aiOf
  /\ AnalysisEnds(a)

\* A write of an analysis fails: if its result cannot be saved, its failure is; if
\* that or the mark cannot, it ends and the audit stays as it is.
AuditWriteFails(a) ==
  /\ \/ /\ job[a] = "complete" /\ AnalysisGoto(a, "fail")
        /\ UNCHANGED <<jobText, unsaved>>
     \/ /\ job[a] \in {"read", "fail"} /\ unsaved' = TRUE
        /\ AnalysisGoto(a, "idle") /\ jobText' = [jobText EXCEPT ![a] = Nothing]
  /\ UNCHANGED <<callVars, auditDb, look, manual, aiRaced, humanRaced>>

\* submitHumanAudit reads who audited the call; another user is refused.
HumanLook(h) ==
  /\ look[h] = "idle" /\ agent /\ auditor \in {Nothing, h}
  /\ look' = [look EXCEPT ![h] = IF auditor = Nothing THEN "first" ELSE "again"]
  /\ humanRaced' = (humanRaced \/ \E g \in Auditors : look[g] # "idle")
  /\ UNCHANGED <<callVars, auditDb, job, jobText, manual, aiRaced, unsaved>>

\* The checklist is stored, and the auditor with it if there was none to be seen.
HumanSubmit(h) ==
  /\ look[h] # "idle"
  /\ author' = h
  /\ auditor' = IF look[h] = "first" THEN h ELSE auditor
  /\ look' = [look EXCEPT ![h] = "idle"]
  /\ UNCHANGED <<callVars, aiStatus, aiOf, job, jobText, auditHistory>>

AnalysisStep(a) ==
  MarkPending(a) \/ LlmAnswers(a) \/ SaveCompleted(a) \/ SaveFailed(a) \/ AuditWriteFails(a)

\* A crash takes the analyses and the submissions with it.
AuditCrash ==
  /\ CallCrash
  /\ job' = [a \in Analysts |-> "idle"]
  /\ jobText' = [a \in Analysts |-> Nothing]
  /\ look' = [h \in Auditors |-> "idle"]
  /\ UNCHANGED <<auditDb, auditHistory>>

AuditNext ==
  \/ CallSteps /\ UNCHANGED auditVars
  \/ \E a \in Analysts : Analyse(a) \/ AnalysisStep(a)
  \/ \E h \in Auditors : HumanLook(h) \/ HumanSubmit(h)
  \/ AuditCrash

AuditSpec == AuditInit /\ [][AuditNext]_deskVars

-----------------------------------------------------------------------------
(* Properties                                                                *)

\* Every variable has its type.
AuditTypeOK ==
  /\ CallTypeOK
  /\ aiStatus \in {"none", "pending", "completed", "failed"}
  /\ aiOf \in Texts \cup {Nothing}
  /\ job \in [Analysts -> {"idle", "read", "llm", "complete", "fail"}]
  /\ jobText \in [Analysts -> Texts \cup {Nothing}]
  /\ auditor \in Auditors \cup {Nothing} /\ author \in Auditors \cup {Nothing}
  /\ look \in [Auditors -> {"idle", "first", "again"}]
  /\ manual \in Nat /\ aiRaced \in BOOLEAN /\ humanRaced \in BOOLEAN /\ unsaved \in BOOLEAN

\* An audit the page shows as pending is being analysed: unless the service died or
\* the database refused the failure too, no order of analyses that overlap leaves
\* 'pending' behind.
PendingIsAnalysed ==
  aiStatus = "pending" =>
    crashes > 0 \/ unsaved \/ \E a \in Analysts : job[a] \in {"llm", "complete", "fail"}

DeskIsQuiet ==
  /\ due = 0
  /\ \A a \in Analysts : job[a] = "idle"
  /\ \A c \in Consumers : at[c] = "idle"

\* When all is quiet a completed audit is about the text the log shows, unless
\* analyses overlapped or could not be saved, the service died, or an event changed
\* the text unheard.
AuditIsOfTheText ==
  (DeskIsQuiet /\ aiStatus = "completed" /\ ~aiRaced /\ ~unheard /\ ~unsaved /\ crashes = 0)
    => aiOf = text

\* As long as no two submissions overlap, the checklist is that of the one auditor
\* the call has.
ChecklistIsTheAuditors == humanRaced \/ author = auditor

\* The audit shown is being made, or is of the text and the auditor the call has.
AuditCorrect == AuditTypeOK /\ PendingIsAnalysed /\ AuditIsOfTheText /\ ChecklistIsTheAuditors
=============================================================================
