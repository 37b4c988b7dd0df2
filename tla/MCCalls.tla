------------------------------- MODULE MCCalls -------------------------------
(* Calls, visits and payments for TLC, in one run: in each of its behaviours  *)
(* one component is awake and the others stay as they are initially, so the   *)
(* run is their disjoint union and says of each what a run of its own would.  *)
EXTENDS CallAudit, FieldVisit, MeetVisit, DownPayment, PaymentReceipts, PaymentAccess,
        LeadRecord, TLC

VARIABLE awake   \* the component whose behaviour this is

Symmetry == Permutations(Consumers) \cup Permutations(Analysts) \cup Permutations(Texts)

MCFlows ==
  {<<"ringing", "answered", "completed">>, <<"busy", "completed", "transcription-updated">>,
   <<"transcription-updated">>, <<"completed">>}

MCSignalStatus ==
  [t \in EventTypes |->
     IF t \in {"ringing", "created"} THEN "none"
     ELSE IF t = "transcription-updated" THEN "completed" ELSE t]

(* Of the initial states of a component at rest one is named, so that the others'  *)
(* behaviours are not repeated for each.                                          *)
CallsRest == flow = <<"completed">>
MeetRests == meetAt = 1
AccessRests ==
  /\ exists
  /\ is = [fact \in Facts |-> {}]
  /\ \A r \in Slips : By(r) = CHOOSE u \in Recorders : TRUE

RecordsRest == known = {}

Components ==
  {"calls", "field", "meet", "down payments", "receipts", "access", "records"}

SuiteInit ==
  /\ awake \in Components
  /\ AuditInit /\ (awake = "calls" \/ CallsRest)
  /\ VisitInit
  /\ MeetInit /\ (awake = "meet" \/ MeetRests)
  /\ Init /\ ReceiptsInit
  /\ AccessInit /\ (awake = "access" \/ AccessRests)
  /\ RecordInit /\ (awake = "records" \/ RecordsRest)

SuiteNext ==
  /\ UNCHANGED awake
  /\ \/ /\ awake = "calls" /\ AuditNext
        /\ UNCHANGED <<visitVars, meetVars, vars, receiptVars, accessVars, recordVars>>
     \/ /\ awake = "field" /\ VisitNext
        /\ UNCHANGED <<deskVars, meetVars, vars, receiptVars, accessVars, recordVars>>
     \/ /\ awake = "meet" /\ MeetNext
        /\ UNCHANGED <<deskVars, visitVars, vars, receiptVars, accessVars, recordVars>>
     \/ /\ awake = "down payments" /\ Next
        /\ UNCHANGED <<deskVars, visitVars, meetVars, receiptVars, accessVars, recordVars>>
     \/ /\ awake = "receipts" /\ ReceiptsNext
        /\ UNCHANGED <<deskVars, visitVars, meetVars, vars, accessVars, recordVars>>
     \/ /\ awake = "access" /\ AccessNext
        /\ UNCHANGED <<deskVars, visitVars, meetVars, vars, receiptVars, recordVars>>
     \/ /\ awake = "records" /\ RecordNext
        /\ UNCHANGED <<deskVars, visitVars, meetVars, vars, receiptVars, accessVars>>

suiteVars ==
  <<awake, deskVars, visitVars, meetVars, vars, receiptVars, accessVars, recordVars>>
SuiteSpec == SuiteInit /\ [][SuiteNext]_suiteVars

-----------------------------------------------------------------------------
(* The instances: which deliveries, requests and crashes may come together   *)

NoHumans == author = Nothing /\ \A h \in Auditors : look[h] = "idle"
NoAnalyses == manual = 0 /\ \A v \in Texts : takes[Transcription(v)] = 0
Again == {m \in {Created} \cup {Signal(t) : t \in Elements(flow)} : takes[m] > 1}

\* The signals of a call; its texts and their analyses; its checklist.
CallInstance ==
  \/ /\ Len(flow) > 1 /\ NoHumans /\ NoAnalyses
     /\ Cardinality(Again) + crashes
          <= IF flow[1] = "ringing" \/ Created \in Again THEN 1 ELSE 2
  \/ /\ flow = <<"transcription-updated">> /\ NoHumans
     /\ takes[Created] <= 1 /\ takes[Signal("transcription-updated")] + manual + crashes <= 1
     /\ \A v \in Texts : takes[Transcription(v)] + crashes <= 1 + 2 * crashes
  \/ /\ flow = <<"completed">> /\ NoAnalyses
     /\ takes[Created] <= 1 /\ takes[Signal("completed")] = 0

\* Syncs concern the visit of hour 2; the other hours are for the sweeps.
MeetInstance ==
  syncsMade + ended > 0 =>
    /\ meetAt = 2 /\ hour <= 3 /\ live = 1 /\ subscription # "failed"
    /\ sweep = "swept" \/ \A h \in Syncs : sync[h] = NoSync
    /\ syncsMade + meetFailures + meetCrashes <= 3

ReceiptsInstance == receiptCount + receiptFailures + receiptCrashes <= 3

\* Two creations beside one payment, or two payments after one creation.
PaymentsInstance == \E r \in Creators \cup Payers : request[r].at = "idle"

Instance == CallInstance /\ MeetInstance /\ ReceiptsInstance /\ PaymentsInstance

\* One component, for the run that looks for the violation of a property of it.
MeetOnly == awake = "meet" /\ MeetInstance

=============================================================================
