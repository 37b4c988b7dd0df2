---------------------------- MODULE StaffReport ----------------------------
(***************************************************************************)
(* The staff performance report and the list of a ventor's assignments,     *)
(* while customers change hands.  The report is one aggregate with three    *)
(* look-ups for each member of the staff, and the list three queries at     *)
(* once; neither reads from a snapshot.  The rows that the report counts as *)
(* attended or not are those of the assignment log, which the save hook     *)
(* writes some time after the customer.                                     *)
(***************************************************************************)
EXTENDS CallOutcome, FiniteSets, FiniteSetsExt
Seqs == INSTANCE SequencesExt

CONSTANTS
  Clients, Staff, Stages,    \* customers, ventors, pipeline steps
  Catalogues,                \* the sets of steps that may be active
  NoMember,                  \* nobody in charge, no step
  Period, CallPeriod,        \* the times of assignments and of calls in question
  LastTime, MaxChanges       \* bounds for TLC

ASSUME StaffAssumption ==
  /\ NoMember \notin Staff \cup Stages /\ Catalogues \subseteq SUBSET Stages
  /\ Period \cup CallPeriod \subseteq Nat
  /\ \A columns \in Catalogues : IsFiniteSet(columns)
  /\ LastTime \in Nat \ {0} /\ MaxChanges \in Nat

VARIABLES
  time,                 \* the clock
  holding,               \* customers: assignedTo, assignedDate, customerStepId, enabled
  changeLog,            \* customer_assignment_change_logs; saved is the time of the save,
                        \* logged that of the row, 0 while the hook has not written it
  callLog,              \* customer_call_logs, with the outcome their signals make
  report,               \* the report: where it is, whose turn it is, and its rows
  list,                 \* the list of one ventor: the queries without an answer, the answers
  refreshed,            \* history: an assignedDate was renewed without an assignment
  changed               \* history: changes so far

staffDb == <<holding, changeLog, callLog>>
staffVars == <<time, staffDb, report, list, refreshed, changed>>

NoReport == [at |-> "idle", staff |-> <<>>, columns |-> {}, rows |-> <<>>, shaken |-> FALSE]
NoList == [to |-> NoMember, open |-> {}, items |-> 0, total |-> 0, attended |-> 0,
           shaken |-> FALSE]

StaffInit ==
  /\ time = 1
  /\ holding = [c \in Clients |->
       [to |-> NoMember, since |-> 0, stage |-> NoMember, enabled |-> TRUE]]
  /\ changeLog = <<>> /\ callLog = <<>>
  /\ report = NoReport /\ list = NoList
  /\ refreshed = FALSE /\ changed = 0

Reporting == report.at \notin {"idle", "done"}

\* Bound: what changes after the answers are given is of no concern.
Awaited == report.at # "done" /\ (list.to = NoMember \/ list.open # {})

\* Something the readers look at changes.
Change ==
  /\ changed < MaxChanges /\ Awaited
  /\ changed' = changed + 1
  /\ report' = [report EXCEPT !.shaken = @ \/ Reporting]
  /\ list' = [list EXCEPT !.shaken = @ \/ list.open # {}]

-----------------------------------------------------------------------------
\* assignedTo and assignedDate are saved; the row is up to the hook.
HandOver(c, u) ==
  /\ u # holding[c].to
  /\ Change
  /\ holding' = [holding EXCEPT ![c].to = u, ![c].since = time]
  /\ changeLog' = Append(changeLog,
       [client |-> c, to |-> u, saved |-> time, logged |-> 0, attended |-> 0])
  /\ UNCHANGED <<time, callLog, refreshed>>

Unlogged == {i \in DOMAIN changeLog : changeLog[i].logged = 0}

HookLogs(i) ==
  /\ i \in Unlogged /\ Awaited
  /\ changeLog' = [changeLog EXCEPT ![i].logged = time]
  /\ report' = [report EXCEPT !.shaken = @ \/ Reporting]
  /\ list' = [list EXCEPT !.shaken = @ \/ list.open # {}]
  /\ UNCHANGED <<time, holding, callLog, refreshed, changed>>

\* The form of a barbecue keeps the ventor and renews the date.
RefreshDate(c) ==
  /\ holding[c].to # NoMember
  /\ Change
  /\ holding' = [holding EXCEPT ![c].since = time]
  /\ refreshed' = TRUE
  /\ UNCHANGED <<time, changeLog, callLog>>

\* The ventor has done something for the customer.
MarkRow(i) ==
  /\ changeLog[i].logged > 0 /\ changeLog[i].attended = 0
  /\ Change
  /\ changeLog' = [changeLog EXCEPT ![i].attended = time]
  /\ UNCHANGED <<time, holding, callLog, refreshed>>

MoveStage(c, s) ==
  /\ s # holding[c].stage
  /\ Change
  /\ holding' = [holding EXCEPT ![c].stage = s]
  /\ UNCHANGED <<time, changeLog, callLog, refreshed>>

DisableClient(c) ==
  /\ holding[c].enabled
  /\ Change
  /\ holding' = [holding EXCEPT ![c].enabled = FALSE]
  /\ UNCHANGED <<time, changeLog, callLog, refreshed>>

PlaceCall(u, outcome) ==
  /\ Change
  /\ callLog' = Append(callLog, [by |-> u, time |-> time, outcome |-> outcome])
  /\ UNCHANGED <<time, holding, changeLog, refreshed>>

Pass ==
  /\ time < LastTime /\ Awaited
  /\ time' = time + 1
  /\ UNCHANGED <<staffDb, report, list, refreshed, changed>>

-----------------------------------------------------------------------------
(* The report                                                                *)

\* Fault: a member named twice is reported twice.
AsNamed(ids) == ids

\* buildStaffMembersFromBody: each member once, in the order of the request.
StaffMembers(ids) ==
  Seqs!FoldLeft(LAMBDA out, id : IF id \in Seqs!ToSet(out) THEN out ELSE Append(out, id),
                <<>>, ids)

\* getReport: the active steps are read first, and are the columns.
StartReport(ids, columns) ==
  /\ report.at = "idle" /\ list.to = NoMember
  /\ report' = [NoReport EXCEPT !.at = "customers", !.staff = StaffMembers(ids),
                                !.columns = columns, !.shaken = Unlogged # {}]
  /\ UNCHANGED <<time, staffDb, list, refreshed, changed>>

Member == report.staff[Len(report.rows) + 1]
LastRow == report.rows[Len(report.rows)]

\* The customers assigned in the period whom the member still has.
AssignedCustomers(u) ==
  {c \in Clients : holding[c].to = u /\ holding[c].since \in Period /\ holding[c].enabled}

\* buildStepCountsExpression
StepCounts(columns, customers) ==
  [s \in columns |-> Cardinality({c \in customers : holding[c].stage = s})]

NoCalls == [totalCalls |-> 0, answered |-> 0, dontAnswered |-> 0, failed |-> 0]
NoAttendance == [attendedCount |-> 0, unattendedCount |-> 0, timesToAttend |-> {}]

LookCustomers ==
  /\ report.at = "customers"
  /\ LET customers == AssignedCustomers(Member)
     IN report' = [report EXCEPT !.at = "calls", !.rows = Append(@,
          [user |-> Member, customers |-> customers,
           steps |-> StepCounts(report.columns, customers),
           calls |-> NoCalls, attendance |-> NoAttendance])]
  /\ UNCHANGED <<time, staffDb, list, refreshed, changed>>

DontAnswered == {"no_answer", "busy", "canceled", "ringing", "unknown", "in_progress"}

CallsOf(u) == {i \in DOMAIN callLog : callLog[i].by = u /\ callLog[i].time \in CallPeriod}

CallCounts(u) ==
  LET of(outcomes) == Cardinality({i \in CallsOf(u) : callLog[i].outcome \in outcomes})
  IN [totalCalls |-> Cardinality(CallsOf(u)), answered |-> of({"answered"}),
      dontAnswered |-> of(DontAnswered), failed |-> of({"failed"})]

LookCalls ==
  /\ report.at = "calls"
  /\ report' = [report EXCEPT !.at = "attendance",
                  !.rows[Len(report.rows)].calls = CallCounts(LastRow.user)]
  /\ UNCHANGED <<time, staffDb, list, refreshed, changed>>

RowsOf(u) == {i \in DOMAIN changeLog : changeLog[i].to = u /\ changeLog[i].logged \in Period}
AttendedOf(u) == {i \in RowsOf(u) : changeLog[i].attended > 0}

\* The times to attend, of which the average is taken; there is none of none.
Attendance(u) ==
  [attendedCount |-> Cardinality(AttendedOf(u)),
   unattendedCount |-> Cardinality(RowsOf(u) \ AttendedOf(u)),
   timesToAttend |-> {changeLog[i].attended - changeLog[i].logged : i \in AttendedOf(u)}]

LookAttendance ==
  /\ report.at = "attendance"
  /\ report' = [report EXCEPT
       !.rows[Len(report.rows)].attendance = Attendance(LastRow.user),
       !.at = IF Len(report.rows) = Len(report.staff) THEN "done" ELSE "customers"]
  /\ UNCHANGED <<time, staffDb, list, refreshed, changed>>

-----------------------------------------------------------------------------
(* The list of a ventor's assignments: a page, the total and the summary     *)

StartList(u) ==
  /\ list.to = NoMember /\ report.at = "idle"
  /\ list' = [NoList EXCEPT !.to = u, !.open = {"page", "total", "summary"}]
  /\ UNCHANGED <<time, staffDb, report, refreshed, changed>>

ListQuery ==
  /\ \/ /\ "page" \in list.open
        /\ list' = [list EXCEPT !.items = Cardinality(RowsOf(list.to)), !.open = @ \ {"page"}]
     \/ /\ "total" \in list.open
        /\ list' = [list EXCEPT !.total = Cardinality(RowsOf(list.to)), !.open = @ \ {"total"}]
     \/ /\ "summary" \in list.open
        /\ list' = [list EXCEPT !.attended = Cardinality(AttendedOf(list.to)),
                                !.open = @ \ {"summary"}]
  /\ UNCHANGED <<time, staffDb, report, refreshed, changed>>

StaffNext ==
  \/ \E c \in Clients :
       \/ \E u \in Staff \cup {NoMember} : HandOver(c, u)
       \/ RefreshDate(c) \/ DisableClient(c)
       \/ \E s \in Stages : MoveStage(c, s)
  \/ \E i \in DOMAIN changeLog : HookLogs(i) \/ MarkRow(i)
  \/ \E u \in Staff : StartList(u) \/ \E outcome \in Outcomes : PlaceCall(u, outcome)
  \/ Pass
  \/ \E u, v \in Staff, columns \in Catalogues : StartReport(<<u, v>>, columns)
  \/ LookCustomers \/ LookCalls \/ LookAttendance
  \/ ListQuery

StaffSpec == StaffInit /\ [][StaffNext]_staffVars
-----------------------------------------------------------------------------
(* Properties                                                                *)

Times == 0..LastTime

\* Every variable has its type.
StaffTypeOK ==
  /\ time \in Times
  /\ holding \in [Clients -> [to : Staff \cup {NoMember}, since : Times,
                            stage : Stages \cup {NoMember}, enabled : BOOLEAN]]
  /\ changeLog \in Seq([client : Clients, to : Staff \cup {NoMember}, saved : Times,
                       logged : Times, attended : Times])
  /\ callLog \in Seq([by : Staff, time : Times, outcome : Outcomes])
  /\ report.at \in {"idle", "customers", "calls", "attendance", "done"}
  /\ report.staff \in Seq(Staff) /\ report.columns \subseteq Stages
  /\ Len(report.rows) <= Len(report.staff)
  /\ list.to \in Staff \cup {NoMember} /\ {list.items, list.total, list.attended} \subseteq Nat
  /\ {report.shaken, list.shaken, refreshed} \subseteq BOOLEAN /\ changed \in Nat

Finished == IF report.at = "done" THEN DOMAIN report.rows ELSE {}

\* Every call of a member falls under one of the three counts, whatever its signals
\* came to; a report that forgot an outcome would lose the calls that are under way.
CallsAddUp ==
  \A i \in Finished :
    LET calls == report.rows[i].calls
    IN calls.totalCalls = calls.answered + calls.dontAnswered + calls.failed

\* Unless customers were changing while it ran, no customer is counted for two members, not
\* even if the request names a member twice.
CountedOnce ==
  ~report.shaken =>
    \A i, j \in Finished :
      i # j => report.rows[i].customers \cap report.rows[j].customers = {}

\* What a member was assigned in the period is attended or not: no customer is counted
\* whose assignment is not, unless the date was renewed without one, the hook wrote the
\* row at another time than the customer, or something was changing while it ran.
CountedIsAwaited ==
  (/\ ~report.shaken /\ ~refreshed
   /\ \A i \in DOMAIN changeLog : changeLog[i].logged = changeLog[i].saved) =>
    \A i \in Finished :
      LET seen == report.rows[i].attendance
      IN Cardinality(report.rows[i].customers) <= seen.attendedCount + seen.unattendedCount

\* No column of steps counts a customer that the total does not.
StepsWithinTotal ==
  \A i \in Finished :
    LET row == report.rows[i]
    IN MapThenSumSet(LAMBDA s : row.steps[s], report.columns) <= Cardinality(row.customers)

\* The three queries of the list agree unless a row came in or was marked between them.
ListAgrees ==
  (list.open = {} /\ ~list.shaken) => list.items = list.total /\ list.attended <= list.total

\* What is reported of the staff adds up and is true of one moment, if there was one.
ReportCorrect ==
  /\ StaffTypeOK /\ CallsAddUp /\ StepsWithinTotal
  /\ CountedOnce /\ CountedIsAwaited /\ ListAgrees
=============================================================================
