----------------------------- MODULE LeadProofs -----------------------------
(***************************************************************************)
(* Theorems of LeadConversation, for any numbers of messages, handlers and  *)
(* slots and any bounds, and of LeadRecord, the documents of a person, for  *)
(* any documents, advisers and requests.                                    *)
(***************************************************************************)
EXTENDS LeadConversation, LeadRecord, SequenceTheorems, WellFoundedInduction, TLAPS

-----------------------------------------------------------------------------
(* What the session's updates do to a document                               *)

\* A session's first version is one above whatever came before it.
LEMMA FreshType ==
  ASSUME NEW s, s.version \in Nat
  PROVE  /\ Fresh(s) \in SessionType
         /\ Fresh(s).version = s.version + 1 /\ Fresh(s).id = s.version + 1
         /\ Fresh(s).status = "active" /\ ~Fresh(s).reminded
  BY DEF Fresh, SessionType, Steps, Statuses, Kinds, MAX_QUESTION_RETRIES

LEMMA NothingType ==
  Nothing \in SessionType /\ Nothing.version = 0 /\ Nothing.id = 0
<1>1. Fresh([version |-> 0]) \in SessionType BY FreshType
<1> QED BY <1>1 DEF Nothing, SessionType

LEMMA FreeType == Free \in HandlerType /\ Free.at = "idle"
<1>1. NoPlan \in PlanType
  BY DEF NoPlan, PlanType, Steps, Statuses, Kinds
<1> QED BY <1>1, NothingType DEF Free, HandlerType, MAX_TRANSITION_ATTEMPTS

LEMMA KindOfType ==
  ASSUME NEW step \in QuestionSteps \cup {"reminder_sent"}
  PROVE  KindOf[step] \in Kinds
  BY DEF KindOf, Kinds, QuestionSteps

LEMMA BegunType ==
  ASSUME NEW step \in QuestionSteps
  PROVE  /\ Begun(step) \in SessionType
         /\ Begun(step).version > 0 /\ Begun(step).id = 1
         /\ Begun(step).status = "active" /\ ~Begun(step).reminded
<1>1. Fresh(Nothing) \in SessionType /\ Fresh(Nothing).id = 1
      /\ Fresh(Nothing).status = "active" /\ ~Fresh(Nothing).reminded
  BY NothingType, FreshType
<1>2. KindOf[step] \in Kinds BY KindOfType
<1>3. Depth(step) \in Nat \ {0} BY DEF Depth
<1>4. step \in Steps BY DEF Steps
<1> DEFINE b == [Fresh(Nothing) EXCEPT !.version = Depth(step), !.step = step,
                   !.heard = TRUE, !.asked = KindOf[step], !.askedAt = Depth(step)]
<1>5. b \in SessionType BY <1>1, <1>2, <1>3, <1>4 DEF SessionType
<1>6. b = Begun(step) BY DEF Begun
<1>7. b.version > 0 BY <1>1, <1>3 DEF SessionType
<1>8. b.id = 1 /\ b.status = "active" /\ ~b.reminded BY <1>1 DEF SessionType
<1> QED BY <1>5, <1>6, <1>7, <1>8

\* applyTransition moves the version by one, keeps whose session it is, whether
\* it was reminded and all it scored, and is scheduled only by a plan that is.
LEMMA AdvancedType ==
  ASSUME NEW s \in SessionType, NEW plan \in PlanType,
         plan.retry => s.retries < MAX_QUESTION_RETRIES
  PROVE  /\ Advanced(s, plan) \in SessionType
         /\ Advanced(s, plan).version = s.version + 1
         /\ Advanced(s, plan).id = s.id
         /\ Advanced(s, plan).reminded = s.reminded
         /\ s.scored \subseteq Advanced(s, plan).scored
         /\ Advanced(s, plan).status \in {s.status, plan.status}
<1> DEFINE question == plan.expects /\ plan.asks # "none"
           status == IF plan.status = "active" THEN s.status ELSE plan.status
           scored == s.scored \cup plan.scores
           slot == IF plan.slot = None THEN s.slot ELSE plan.slot
           retries == IF plan.retry THEN s.retries + 1 ELSE 0
           askedAt == IF question THEN s.version + 1 ELSE s.askedAt
           asked == IF question THEN plan.asks
                    ELSE IF ~plan.expects /\ plan.length > 0 THEN "none" ELSE s.asked
           a == [s EXCEPT !.version = s.version + 1, !.step = plan.step,
                   !.status = status, !.scored = scored, !.slot = slot,
                   !.retries = retries, !.heard = TRUE, !.askedAt = askedAt,
                   !.asked = asked]
<1>1. /\ status \in Statuses /\ slot \in Slots \cup {None} /\ askedAt \in Nat
      /\ asked \in Kinds /\ scored \in SUBSET ScoreEvents
  BY DEF SessionType, PlanType, Kinds
<1>2. retries \in 0 .. MAX_QUESTION_RETRIES
  BY DEF SessionType, MAX_QUESTION_RETRIES
<1>3. plan.step \in Steps /\ s.version + 1 \in Nat BY DEF SessionType, PlanType
<1>4. a = Advanced(s, plan) BY DEF Advanced, SessionType
<1>5. a \in SessionType
  <2> HIDE DEF status, scored, slot, retries, askedAt, asked
  <2> QED BY <1>1, <1>2, <1>3 DEF SessionType
<1>6. /\ Advanced(s, plan).version = s.version + 1
      /\ Advanced(s, plan).id = s.id
      /\ Advanced(s, plan).reminded = s.reminded
  BY DEF Advanced, SessionType
<1>7. s.scored \subseteq Advanced(s, plan).scored BY DEF Advanced, SessionType
<1>8. Advanced(s, plan).status \in {s.status, plan.status}
  BY DEF Advanced, SessionType
<1> QED BY <1>4, <1>5, <1>6, <1>7, <1>8

\* markReminderSent and resetSessionState move the version too.
LEMMA RemindedType ==
  ASSUME NEW s \in SessionType, s.step \in QuestionSteps
  PROVE  /\ Reminded(s) \in SessionType
         /\ Reminded(s).version = s.version + 1 /\ Reminded(s).id = s.id
         /\ Reminded(s).reminded /\ Reminded(s).scored = s.scored
         /\ Reminded(s).status = s.status
<1>1. /\ "reminder_sent" \in Steps /\ "reminder" \in Kinds
      /\ 0 \in 0 .. MAX_QUESTION_RETRIES /\ s.version + 1 \in Nat
  BY DEF SessionType, Steps, Kinds, MAX_QUESTION_RETRIES
<1>2. Reminded(s) \in SessionType BY <1>1 DEF Reminded, SessionType
<1>3. /\ Reminded(s).version = s.version + 1 /\ Reminded(s).id = s.id
      /\ Reminded(s).reminded /\ Reminded(s).scored = s.scored
      /\ Reminded(s).status = s.status
  BY DEF Reminded, SessionType
<1> QED BY <1>2, <1>3

LEMMA ResetType ==
  ASSUME NEW s \in SessionType, NEW sends \in BOOLEAN
  PROVE  /\ Reset(s, sends) \in SessionType
         /\ Reset(s, sends).version = s.version + 1 /\ Reset(s, sends).id = s.id
         /\ Reset(s, sends).status = "active" /\ ~Reset(s, sends).reminded
<1> DEFINE f == Fresh(s)
           step == IF sends THEN "ask_project" ELSE "initial"
           asked == IF sends THEN "project" ELSE "none"
           askedAt == IF sends THEN s.version + 1 ELSE 0
<1>1. f \in SessionType BY FreshType DEF SessionType
<1>2. step \in Steps /\ asked \in Kinds /\ askedAt \in Nat
  BY DEF Steps, QuestionSteps, Kinds, SessionType
<1>3. s.id \in Nat /\ s.heard \in BOOLEAN BY DEF SessionType
<1>4. Reset(s, sends) \in SessionType
  <2> HIDE DEF f, step, asked, askedAt
  <2>1. [f EXCEPT !.id = s.id, !.heard = s.heard, !.step = step, !.asked = asked,
           !.askedAt = askedAt] \in SessionType
    BY <1>1, <1>2, <1>3 DEF SessionType
  <2> QED BY <2>1 DEF Reset, f, step, asked, askedAt
<1>5. /\ Reset(s, sends).version = s.version + 1 /\ Reset(s, sends).id = s.id
      /\ Reset(s, sends).status = "active" /\ ~Reset(s, sends).reminded
  BY DEF Reset, Fresh
<1> QED BY <1>4, <1>5

-----------------------------------------------------------------------------
(* What the state machine may plan                                           *)

LEMMA AskType ==
  ASSUME NEW step \in Steps, NEW kind \in Kinds, NEW n \in Nat
  PROVE  /\ Ask(step, kind, n) \in PlanType /\ ~Ask(step, kind, n).retry
         /\ Ask(step, kind, n).status = "active" /\ Ask(step, kind, n).slot = None
  BY DEF Ask, Noop, NoPlan, PlanType, Statuses

LEMMA NoopType ==
  ASSUME NEW step \in Steps
  PROVE  /\ Noop(step) \in PlanType /\ ~Noop(step).retry
         /\ Noop(step).status = "active" /\ Noop(step).slot = None
  BY DEF Noop, NoPlan, PlanType, Statuses, Kinds

\* A plan that asks again is made while the question's retries last.
Allowed(s, plan) ==
  /\ plan \in PlanType
  /\ plan.retry => s.retries < MAX_QUESTION_RETRIES
  /\ plan.status = "scheduled" => plan.slot # None

LEMMA FirstAskAllowed ==
  ASSUME NEW s, NEW step \in Steps, NEW kind \in Kinds, NEW n \in Nat
  PROVE  Allowed(s, Ask(step, kind, n))
  BY AskType DEF Allowed

LEMMA RetryAllowed ==
  ASSUME NEW s \in SessionType, NEW step \in Steps, NEW plan \in Retry(s, step)
  PROVE  Allowed(s, plan)
<1>1. CASE Exhausted(s) BY <1>1, NoopType DEF Retry, Allowed
<1>2. CASE ~Exhausted(s)
  <2>1. s.retries < MAX_QUESTION_RETRIES
    BY <1>2 DEF Exhausted, SessionType, MAX_QUESTION_RETRIES
  <2>2. ASSUME NEW t \in PlanType, t.status = "active", plan = [t EXCEPT !.retry = TRUE]
        PROVE  Allowed(s, plan)
    BY <2>1, <2>2 DEF Allowed, PlanType
  <2>3. ASSUME NEW f \in AskCallSlot(1)
        PROVE  /\ [f EXCEPT !.length = 2] \in PlanType
               /\ [f EXCEPT !.length = 2].status = "active"
    <3>1. f \in PlanType /\ f.status = "active"
      BY AskType DEF AskCallSlot, AskSchedule, Steps, QuestionSteps, Kinds
    <3> QED BY <3>1 DEF PlanType
  <2>4. /\ "project" \in Kinds /\ s.asked \in Kinds
        /\ (IF s.asked = "none" THEN 0 ELSE 2) \in Nat
    BY DEF Kinds, SessionType
  <2>5. CASE step = "ask_call_slot"
    <3>1. PICK f \in AskCallSlot(1) : plan = [[f EXCEPT !.length = 2] EXCEPT !.retry = TRUE]
      BY <1>2, <2>5 DEF Retry
    <3> QED BY <2>2, <2>3, <3>1
  <2>6. CASE step = "ask_project"
    <3>1. plan = [Ask(step, "project", 2) EXCEPT !.retry = TRUE]
      BY <1>2, <2>6 DEF Retry
    <3> QED BY <2>2, <2>4, <3>1, AskType
  <2>7. CASE step \notin {"ask_call_slot", "ask_project"}
    <3> DEFINE n == IF s.asked = "none" THEN 0 ELSE 2
    <3>1. plan = [Ask(step, s.asked, n) EXCEPT !.retry = TRUE]
      BY <1>2, <2>7 DEF Retry
    <3> QED BY <2>2, <2>4, <3>1, AskType
  <2> QED BY <2>5, <2>6, <2>7
<1> QED BY <1>1, <1>2

LEMMA EffectiveStepType ==
  ASSUME NEW s \in SessionType, NEW m PROVE EffectiveStep(s, m) \in Steps
  BY DEF EffectiveStep, SessionType, Steps

\* Whatever the customer says, the handler of the step plans what may be planned.
LEMMA HandleAllowed ==
  ASSUME NEW s \in SessionType, NEW step \in Steps, NEW m \in Message,
         NEW plan \in Handle(s, step, m)
  PROVE  Allowed(s, plan)
<1> DEFINE option == Selected(s, m)
<1>1. /\ "project" \in Kinds /\ "period" \in Kinds /\ "lot" \in Kinds
      /\ "payment" \in Kinds /\ "slot" \in Kinds
  BY DEF Kinds
<1>2. QuestionSteps \subseteq Steps BY DEF Steps
<1>3. ASSUME NEW t \in ProjectIntro PROVE Allowed(s, t)
  BY <1>1, FirstAskAllowed, LengthAssumption DEF ProjectIntro, Steps, QuestionSteps
<1>4. Allowed(s, AskProject)
  BY <1>1, FirstAskAllowed DEF AskProject, Steps, QuestionSteps
<1>5. Allowed(s, AskSchedule)
  BY <1>1, FirstAskAllowed DEF AskSchedule, Steps, QuestionSteps
<1>6. ASSUME NEW n \in Nat, NEW t \in AskCallSlot(n) PROVE Allowed(s, t)
  BY <1>1, <1>5, FirstAskAllowed DEF AskCallSlot, Steps, QuestionSteps
<1>7. ASSUME NEW slot \in Slots PROVE Allowed(s, Confirmation(slot))
  <2>1. Noop("scheduled") \in PlanType /\ ~Noop("scheduled").retry
    BY NoopType DEF Steps
  <2>2. slot # None BY NoneAssumption DEF Saying
  <2>3. /\ Confirmation(slot) \in PlanType /\ ~Confirmation(slot).retry
        /\ Confirmation(slot).slot = slot
    BY <2>1 DEF Confirmation, PlanType, Statuses, ScoreEvents
  <2> QED BY <2>2, <2>3 DEF Allowed
<1>8. Allowed(s, Declined)
  <2>1. Noop("closed") \in PlanType /\ ~Noop("closed").retry
    BY NoopType DEF Steps
  <2>2. /\ Declined \in PlanType /\ ~Declined.retry /\ Declined.status = "disqualified"
    BY <2>1 DEF Declined, PlanType, Statuses, ScoreEvents
  <2> QED BY <2>2 DEF Allowed
<1>9. ASSUME NEW event \in ScoreEvents, NEW t \in PlanType, ~t.retry, t.status = "active"
      PROVE  Allowed(s, Scores(t, event))
  BY <1>9 DEF Allowed, Scores, PlanType
<1>10. ASSUME NEW t \in Retry(s, step) PROVE Allowed(s, t)
  BY RetryAllowed
<1>11. CASE step = "initial" BY <1>3, <1>4, <1>11 DEF Handle
<1>12. CASE step = "ask_project" BY <1>3, <1>5, <1>10, <1>12 DEF Handle
<1>13. CASE step = "ask_lot_range"
  <2>1. Allowed(s, Scores(Ask("ask_payment", "payment", 1), "lot_range"))
    BY <1>1, <1>9, AskType DEF ScoreEvents, Steps, QuestionSteps
  <2> QED BY <1>10, <1>13, <2>1 DEF Handle
<1>14. CASE step = "ask_payment"
  <2>1. Allowed(s, Scores(AskSchedule, "payment"))
    BY <1>1, <1>9, AskType DEF AskSchedule, ScoreEvents, Steps, QuestionSteps
  <2> QED BY <1>10, <1>14, <2>1 DEF Handle
<1>15. CASE step = "ask_schedule" BY <1>6, <1>10, <1>15 DEF Handle
<1>16. CASE step = "ask_call_slot"
  BY <1>6, <1>7, <1>10, <1>16 DEF Handle
<1>17. CASE step = "reminder_sent" BY <1>5, <1>8, <1>10, <1>17 DEF Handle
<1>18. CASE step \in {"scheduled", "closed"}
  <2>1. plan = Noop(step) BY <1>18 DEF Handle
  <2> QED BY <2>1, NoopType DEF Allowed
<1> QED
  BY <1>11, <1>12, <1>13, <1>14, <1>15, <1>16, <1>17, <1>18 DEF Steps, QuestionSteps

-----------------------------------------------------------------------------
(* Types                                                                     *)

\* A handler has a message to answer; what it is about to save may be planned
\* for the snapshot it will save it to.
HandlerFits(h) ==
  /\ h.at # "idle" => h.m \in Messages /\ said[h.m] \in Message
  /\ h.at = "apply" => Allowed(h.snap, h.plan)
HandlersFit == \A p \in Handlers : HandlerFits(inbound[p])

\* If the document is still the one the reminder job read, it is still due.
ReminderFits ==
  /\ exists => session.version > 0
  /\ reminder.at = "active" =>
       /\ reminder.seen <= session.version
       /\ exists /\ reminder.seen = session.version => Due(reminder.question)

TypeInv == TypeOK /\ HandlersFit /\ ReminderFits

LEMMA InitTypeInv == Init => TypeInv
<1> SUFFICES ASSUME Init PROVE TypeInv
  OBVIOUS
<1>1. session \in SessionType /\ exists \in BOOLEAN /\ (exists => session.version > 0)
  <2>1. CASE session = Nothing BY <2>1, NothingType DEF Init
  <2>2. ASSUME NEW step \in Starts \ {"none"}, session = Begun(step)
        PROVE  session \in SessionType /\ session.version > 0
    BY <2>2, BegunType, StartsAssumption
  <2> QED BY <2>1, <2>2 DEF Init
<1>2. reminder \in [at : {"none", "waiting"}, question : Nat, seen : Nat]
  <2>1. session.askedAt \in Nat BY <1>1 DEF SessionType
  <2> QED BY <2>1 DEF Init, NoReminder
<1>3. /\ sender \in [at : {"idle", "sent", "arm"}, chain : ChainType]
      /\ admin \in [at : {"idle", "reset", "welcome", "purge", "drop"}, sid : Nat,
                    sends : BOOLEAN, question : Nat]
  BY DEF Init, NoChain, ChainType, Kinds, NobodyAsks
<1>4. session.asked \in Kinds BY <1>1 DEF SessionType
<1>5. shown \in Kinds /\ offered \subseteq Kinds BY <1>4 DEF Init, Kinds
<1>6. inbound \in [Handlers -> HandlerType] /\ HandlersFit
  BY FreeType DEF Init, HandlersFit, HandlerFits
<1>7. ReminderFits BY <1>1, <1>2 DEF ReminderFits
<1>8. TypeOK
  BY <1>1, <1>2, <1>3, <1>5, <1>6 DEF Init, TypeOK
<1> QED BY <1>6, <1>7, <1>8 DEF TypeInv

\* One handler moves at a time, and nobody unsays anything.
LEMMA HandlerWritten ==
  ASSUME TypeInv, NEW p \in Handlers, NEW h \in HandlerType, HandlerFits(h),
         inbound' = [inbound EXCEPT ![p] = h], said' = said
  PROVE  inbound' \in [Handlers -> HandlerType] /\ HandlersFit'
  BY DEF TypeInv, TypeOK, HandlersFit, HandlerFits, Allowed

LEMMA HandlerFinished ==
  ASSUME TypeInv, NEW p \in Handlers, Finish(p), said' = said
  PROVE  inbound' \in [Handlers -> HandlerType] /\ HandlersFit'
<1>1. Free \in HandlerType /\ HandlerFits(Free) BY FreeType DEF HandlerFits
<1> QED BY <1>1, HandlerWritten DEF Finish

\* To any label but 'apply', which has a plan to bring.
LEMMA HandlerMoved ==
  ASSUME TypeInv, NEW p \in Handlers, inbound[p].at # "idle",
         NEW at \in {"cancel", "decide", "qualify", "dispatch", "rearm"},
         Move(p, at), said' = said
  PROVE  inbound' \in [Handlers -> HandlerType] /\ HandlersFit'
<1> DEFINE h == [inbound[p] EXCEPT !.at = at]
<1>1. h \in HandlerType /\ HandlerFits(h)
  BY DEF TypeInv, TypeOK, HandlersFit, HandlerFits, HandlerType
<1>2. inbound' = [inbound EXCEPT ![p] = h] BY DEF Move
<1> QED BY <1>1, <1>2, HandlerWritten

LEMMA HandlersUntouched ==
  ASSUME TypeInv, inbound' = inbound, said' = said
  PROVE  inbound' \in [Handlers -> HandlerType] /\ HandlersFit'
  BY DEF TypeInv, TypeOK, HandlersFit, HandlerFits, Allowed

ReminderType == [at : {"none", "waiting", "active", "marked"}, question : Nat, seen : Nat]

\* A document that moves is not the one a running reminder job read.
LEMMA ReminderOfMoved ==
  ASSUME TypeInv, session' \in SessionType, session'.version = session.version + 1,
         reminder' = reminder
  PROVE  ReminderFits'
  BY DEF TypeInv, TypeOK, ReminderFits, SessionType

LEMMA ReminderUntouched ==
  ASSUME TypeInv, session' = session, exists' => exists,
         reminder' \in ReminderType, reminder'.at # "active" \/ reminder' = reminder
  PROVE  ReminderFits'
  BY DEF TypeInv, TypeOK, ReminderFits, Due

\* remove() and add() start nothing.
LEMMA CancelledType ==
  ASSUME TypeInv, NEW sid
  PROVE  /\ Cancelled(sid) \in ReminderType
         /\ Cancelled(sid) = reminder \/ Cancelled(sid).at = "none"
  BY DEF TypeInv, TypeOK, Cancelled, NoReminder, ReminderType

LEMMA AddType ==
  ASSUME TypeInv, NEW sid, NEW question \in Nat, Add(sid, question)
  PROVE  /\ reminder' \in ReminderType /\ collided' \in BOOLEAN
         /\ reminder' = reminder \/ reminder'.at = "waiting"
  BY DEF TypeInv, TypeOK, Add, ReminderType

\* The webhook finds the session or creates it.
LEMMA DeliverTypes ==
  ASSUME TypeInv, NEW p \in Handlers, NEW m \in Messages, Deliver(p, m)
  PROVE  TypeInv'
<1>1. /\ session' \in SessionType /\ session'.version > 0
      /\ session' = session \/ session'.version = session.version + 1
      /\ exists => session' = session
  BY FreshType DEF Deliver, TypeInv, TypeOK, ReminderFits, SessionType
<1>2. inbound' \in [Handlers -> HandlerType] /\ HandlersFit'
  <2> DEFINE h == [Free EXCEPT !.at = "log", !.m = m, !.snap = session']
  <2>1. /\ inbound' = [inbound EXCEPT ![p] = h] /\ said' = said /\ said[m] \in Message
    BY DEF Deliver, TypeInv, TypeOK
  <2>2. h \in HandlerType /\ HandlerFits(h)
    BY <1>1, <2>1, FreeType DEF HandlerType, HandlerFits
  <2> QED BY <2>1, <2>2, HandlerWritten
<1>3. ReminderFits'
  <2>1. reminder' = reminder BY DEF Deliver, queues
  <2>2. CASE session'.version = session.version + 1
    BY <1>1, <2>1, <2>2, ReminderOfMoved
  <2>3. CASE exists
    BY <1>1, <2>1, <2>3, ReminderUntouched
       DEF Deliver, TypeInv, TypeOK, ReminderType
  <2> QED BY <2>2, <2>3, FreshType DEF Deliver, TypeInv, TypeOK, SessionType
<1>4. TypeOK'
  <2>1. /\ deliveries' \in [Messages -> Nat] /\ applied' \in [Messages -> Nat]
        /\ call' \in Slots \cup {None} /\ exists' \in BOOLEAN
    BY DEF Deliver, TypeInv, TypeOK
  <2> QED BY <1>1, <1>2, <2>1 DEF Deliver, TypeInv, TypeOK, queues, bounds
<1> QED BY <1>2, <1>3, <1>4 DEF TypeInv

LEMMA DecideTypes ==
  ASSUME TypeInv, NEW p \in Handlers, Decide(p)
  PROVE  TypeInv'
<1> DEFINE s == inbound[p].snap
           m == said[inbound[p].m]
           step == EffectiveStep(s, m)
<1>1. s \in SessionType /\ m \in Message /\ inbound[p] \in HandlerType
  BY DEF Decide, TypeInv, TypeOK, HandlersFit, HandlerFits, HandlerType
<1>2. step \in Steps BY <1>1, EffectiveStepType
<1>3. PICK plan \in Handle(s, step, m) :
        /\ inbound' = [inbound EXCEPT ![p] =
                         [inbound[p] EXCEPT !.at = "apply", !.plan = plan]]
        /\ \/ call' = call
           \/ call' = Booked(call, plan, step = "ask_call_slot" /\ Selected(s, m) \in Slots)
  BY DEF Decide, TypeInv, TypeOK
<1> HIDE DEF step, m
<1>4. Allowed(s, plan) BY <1>1, <1>2, HandleAllowed
<1>5. /\ UNCHANGED <<session, exists, metadata, logged, said, deliveries, queues, admin,
                     told, bounds>>
      /\ inbound[p].at # "idle"
  BY DEF Decide
<1>6. inbound' \in [Handlers -> HandlerType] /\ HandlersFit'
  <2> DEFINE h == [inbound[p] EXCEPT !.at = "apply", !.plan = plan]
  <2>1. h \in HandlerType BY <1>1, <1>4 DEF Allowed, HandlerType
  <2>2. h.snap = s /\ h.plan = plan /\ h.m = inbound[p].m BY <1>1 DEF HandlerType
  <2>3. HandlerFits(h)
    BY <1>4, <1>5, <2>2 DEF TypeInv, HandlersFit, HandlerFits
  <2> QED BY <1>3, <1>5, <2>1, <2>3, HandlerWritten
<1>7. call' \in Slots \cup {None}
  BY <1>3, <1>4 DEF Booked, Allowed, PlanType, TypeInv, TypeOK
<1>8. ReminderFits'
  BY <1>5, ReminderUntouched DEF queues, TypeInv, TypeOK, ReminderType
<1>9. TypeOK'
  BY <1>5, <1>6, <1>7 DEF TypeInv, TypeOK, queues, told, bounds
<1> QED BY <1>6, <1>8, <1>9 DEF TypeInv

LEMMA ApplyTypes ==
  ASSUME TypeInv, NEW p \in Handlers, Apply(p)
  PROVE  TypeInv'
<1> DEFINE h == inbound[p]
<1>1. /\ h \in HandlerType /\ h.snap \in SessionType /\ h.plan \in PlanType
      /\ h.at = "apply" /\ h.m \in Messages /\ said[h.m] \in Message
      /\ h.tries \in 0 .. MAX_TRANSITION_ATTEMPTS - 1
      /\ h.plan.retry => h.snap.retries < MAX_QUESTION_RETRIES
  BY DEF Apply, TypeInv, TypeOK, HandlersFit, HandlerFits, HandlerType, Allowed
<1>2. UNCHANGED <<exists, call, metadata, logged, said, deliveries, queues, admin,
                  reminders, shown, offered, collided, bounds>>
  BY DEF Apply
<1>3. reminder' = reminder /\ reminder \in ReminderType /\ said' = said
  BY <1>2 DEF queues, TypeInv, TypeOK, ReminderType
<1>4. CASE /\ Current(h.snap)
           /\ session' = Advanced(h.snap, h.plan)
           /\ applied' = [applied EXCEPT ![h.m] = @ + 1]
           /\ inbound' = [inbound EXCEPT ![p].at = AfterApply(h.plan), ![p].snap = session']
  <2>1. session' \in SessionType /\ session'.version = session.version + 1
    BY <1>1, <1>4, AdvancedType DEF Current
  <2> DEFINE g == [h EXCEPT !.at = AfterApply(h.plan), !.snap = session']
  <2>2. g \in HandlerType BY <1>1, <2>1 DEF HandlerType, AfterApply
  <2>3. HandlerFits(g) BY <1>1 DEF HandlerFits, HandlerType, AfterApply
  <2>4. inbound' = [inbound EXCEPT ![p] = g] BY <1>4 DEF TypeInv, TypeOK
  <2> HIDE DEF g
  <2>5. inbound' \in [Handlers -> HandlerType] /\ HandlersFit'
    BY <1>3, <2>2, <2>3, <2>4, HandlerWritten
  <2>6. ReminderFits' BY <1>3, <2>1, ReminderOfMoved
  <2>7. applied' \in [Messages -> Nat]
    <3>1. applied' = [applied EXCEPT ![h.m] = applied[h.m] + 1]
      BY <1>1, <1>4 DEF TypeInv, TypeOK
    <3> QED BY <1>1, <3>1 DEF TypeInv, TypeOK
  <2> QED
    BY <1>2, <2>1, <2>5, <2>6, <2>7 DEF TypeInv, TypeOK, queues, bounds
<1>5. CASE UNCHANGED <<session, applied>>
  <2>1. ReminderFits' BY <1>2, <1>3, <1>5, ReminderUntouched
  <2>2. inbound' \in [Handlers -> HandlerType] /\ HandlersFit'
    <3>1. CASE Finish(p) BY <1>3, <3>1, HandlerFinished
    <3>2. CASE /\ h.tries + 1 < MAX_TRANSITION_ATTEMPTS
               /\ inbound' = [inbound EXCEPT ![p].at = "decide", ![p].snap = session,
                                             ![p].tries = @ + 1]
      <4> DEFINE g == [h EXCEPT !.at = "decide", !.snap = session, !.tries = h.tries + 1]
      <4>1. h.tries + 1 \in 0 .. MAX_TRANSITION_ATTEMPTS - 1
        BY <1>1, <3>2 DEF MAX_TRANSITION_ATTEMPTS
      <4>2. g \in HandlerType BY <1>1, <4>1 DEF HandlerType, TypeInv, TypeOK
      <4>3. HandlerFits(g) BY <1>1 DEF HandlerFits, HandlerType
      <4>4. inbound' = [inbound EXCEPT ![p] = g] BY <3>2 DEF TypeInv, TypeOK
      <4> HIDE DEF g
      <4> QED BY <1>3, <4>2, <4>3, <4>4, HandlerWritten
    <3>3. \/ Finish(p)
          \/ /\ h.tries + 1 < MAX_TRANSITION_ATTEMPTS
             /\ inbound' = [inbound EXCEPT ![p].at = "decide", ![p].snap = session,
                                           ![p].tries = @ + 1]
      <4>1. Current(h.snap) => session' # session
        <5>1. Current(h.snap) => session'.version = session.version + 1
          BY <1>1, AdvancedType DEF Apply, Current
        <5> QED BY <5>1 DEF TypeInv, TypeOK, SessionType
      <4> QED BY <1>5, <4>1 DEF Apply
    <3> QED BY <3>1, <3>2, <3>3
  <2> QED BY <1>2, <1>5, <2>1, <2>2 DEF TypeInv, TypeOK, queues, bounds
<1> QED BY <1>4, <1>5 DEF Apply

\* The rest of a handler writes its own state, the queues or the metadata.
LEMMA InboundOtherTypes ==
  ASSUME TypeInv, NEW p \in Handlers,
         \/ LogMessage(p) \/ CancelReminder(p) \/ Qualify(p)
         \/ Dispatch(p) \/ Rearm(p) \/ Abort(p)
  PROVE  TypeInv'
<1> DEFINE h == inbound[p]
<1>1. /\ h \in HandlerType /\ h.snap \in SessionType /\ h.plan \in PlanType
      /\ h.at # "idle" => h.m \in Messages
  BY DEF TypeInv, TypeOK, HandlersFit, HandlerFits, HandlerType
<1>2. reminder \in ReminderType BY DEF TypeInv, TypeOK, ReminderType
<1>3. /\ session' = session /\ exists' = exists /\ said' = said
      /\ UNCHANGED <<call, deliveries, sender, admin, applied, reminders, shown,
                     offered, failures, commands>>
  BY DEF LogMessage, CancelReminder, Qualify, Dispatch, Rearm, Abort, store, queues, told,
         bounds
<1>4. inbound' \in [Handlers -> HandlerType] /\ HandlersFit'
  <2>1. Finish(p) \/ \E at \in {"cancel", "decide", "qualify", "dispatch", "rearm"} : Move(p, at)
    BY DEF LogMessage, CancelReminder, Qualify, Dispatch, Rearm, Abort
  <2>2. h.at # "idle"
    BY DEF LogMessage, CancelReminder, Qualify, Dispatch, Rearm, Abort
  <2> QED BY <1>3, <2>1, <2>2, HandlerFinished, HandlerMoved
<1>5. ReminderFits' /\ reminder' \in ReminderType
  <2>1. CASE reminder' = reminder BY <1>2, <1>3, <2>1, ReminderUntouched
  <2>2. CASE reminder' = Cancelled(h.snap.id)
    BY <1>3, <2>2, CancelledType, ReminderUntouched
  <2>3. CASE Add(h.snap.id, h.snap.askedAt)
    <3>1. h.snap.askedAt \in Nat BY <1>1 DEF SessionType
    <3>2. /\ reminder' \in ReminderType
          /\ reminder' = reminder \/ reminder'.at = "waiting"
      BY <2>3, <3>1, AddType
    <3> QED BY <1>3, <3>2, ReminderUntouched
  <2> QED BY <2>1, <2>2, <2>3
          DEF LogMessage, CancelReminder, Qualify, Dispatch, Rearm, Abort, queues
<1>6. chains' \subseteq ChainType
  <2>1. CASE chains' = chains BY <2>1 DEF TypeInv, TypeOK
  <2>2. CASE Dispatch(p)
    <3>1. /\ h.snap.id \in Nat /\ h.snap.askedAt \in Nat
          /\ h.plan.length \in Nat /\ h.plan.asks \in Kinds
      BY <1>1 DEF SessionType, PlanType
    <3>2. [sid |-> h.snap.id, left |-> h.plan.length,
           question |-> IF h.plan.expects THEN h.snap.askedAt ELSE 0,
           asks |-> h.plan.asks] \in ChainType
      BY <3>1 DEF ChainType
    <3> QED BY <2>2, <3>2 DEF Dispatch, TypeInv, TypeOK
  <2> QED BY <2>1, <2>2 DEF LogMessage, CancelReminder, Qualify, Rearm, Abort, queues
<1>7. logged' \in [Messages -> Nat]
  <2>1. h.snap.id \in Nat BY <1>1 DEF SessionType
  <2> QED BY <2>1 DEF LogMessage, CancelReminder, Qualify, Dispatch, Rearm, Abort, store,
                      TypeInv, TypeOK
<1>8. metadata' \in Slots \cup {None}
  <2>1. h.snap.slot \in Slots \cup {None} BY <1>1 DEF SessionType
  <2> QED BY <2>1 DEF LogMessage, CancelReminder, Qualify, Dispatch, Rearm, Abort, store,
                      TypeInv, TypeOK
<1>9. collided' \in BOOLEAN
  BY DEF Add, LogMessage, CancelReminder, Qualify, Dispatch, Rearm, Abort, told, TypeInv,
         TypeOK
<1>10. aborts' \in Nat
  BY DEF LogMessage, CancelReminder, Qualify, Dispatch, Rearm, Abort, bounds, TypeInv, TypeOK
<1>11. TypeOK'
  BY <1>3, <1>4, <1>5, <1>6, <1>7, <1>8, <1>9, <1>10
     DEF TypeInv, TypeOK, ReminderType
<1> QED BY <1>4, <1>5, <1>11 DEF TypeInv

LEMMA InboundTypes == TypeInv /\ InboundNext => TypeInv'
  BY DeliverTypes, DecideTypes, ApplyTypes, InboundOtherTypes DEF InboundNext

LEMMA CustomerTypes == TypeInv /\ CustomerNext => TypeInv'
<1> SUFFICES ASSUME TypeInv, NEW m \in Messages, NEW answer \in Message, Write(m, answer)
             PROVE  TypeInv'
  BY DEF CustomerNext
<1>1. /\ said' = [said EXCEPT ![m] = answer]
      /\ UNCHANGED <<store, deliveries, inbound, queues, admin, told, bounds>>
  BY DEF Write
<1>3. HandlersFit'
  BY <1>1 DEF HandlersFit, HandlerFits, Allowed, TypeInv, TypeOK
<1>4. ReminderFits'
  BY <1>1 DEF ReminderFits, Due, TypeInv, store, queues
<1>5. TypeOK'
  BY <1>1 DEF TypeInv, TypeOK, store, queues, told, bounds
<1> QED BY <1>3, <1>4, <1>5 DEF TypeInv

\* The outbound worker hands a sequence on with one message less.
LEMMA OutboundTypes == TypeInv /\ OutboundNext => TypeInv'
<1> SUFFICES ASSUME TypeInv, OutboundNext PROVE TypeInv'
  OBVIOUS
<1> DEFINE senders == [at : {"idle", "sent", "arm"}, chain : ChainType]
<1>1. reminder \in ReminderType BY DEF TypeInv, TypeOK, ReminderType
<1>2. NoChain \in ChainType /\ sender \in senders /\ sender.chain \in ChainType
  BY DEF NoChain, ChainType, Kinds, TypeInv, TypeOK
<1>3. /\ UNCHANGED <<store, said, deliveries, inbound, admin, applied, reminders, commands>>
  BY DEF OutboundNext, SendMessage, SendFails, Continue, ArmReminder, SenderCrash, told,
         bounds
<1>4. HandlersFit' BY <1>3, HandlersUntouched
<1>5. CASE \E c \in chains : SendMessage(c) \/ SendFails(c)
  <2>1. PICK c \in chains : SendMessage(c) \/ SendFails(c) BY <1>5
  <2>2. c \in ChainType /\ c.asks \in Kinds BY <2>1 DEF TypeInv, TypeOK, ChainType
  <2>3. sender' \in senders /\ chains' \subseteq ChainType /\ reminder' = reminder
    BY <2>1, <2>2 DEF SendMessage, SendFails, TypeInv, TypeOK
  <2>4. shown' \in Kinds /\ offered' \subseteq Kinds /\ collided' \in BOOLEAN
        /\ aborts' \in Nat /\ failures' \in Nat
    BY <2>1, <2>2 DEF SendMessage, SendFails, told, bounds, TypeInv, TypeOK
  <2>5. ReminderFits' BY <1>1, <1>3, <2>3, ReminderUntouched DEF store
  <2> QED BY <1>3, <1>4, <2>3, <2>4, <2>5 DEF TypeInv, TypeOK, store
<1>6. CASE Continue
  <2>1. Rest(sender.chain) \in ChainType \/ ~(sender.chain.left > 1)
    BY <1>2 DEF Rest, ChainType
  <2>2. chains' \subseteq ChainType /\ sender' \in senders
    BY <1>2, <1>6, <2>1 DEF Continue, TypeInv, TypeOK
  <2>3. reminder' = reminder \/ reminder' = Cancelled(sender.chain.sid)
    BY <1>6 DEF Continue
  <2>4. reminder' \in ReminderType /\ ReminderFits'
    BY <1>1, <1>3, <2>3, CancelledType, ReminderUntouched DEF store
  <2> QED
    BY <1>3, <1>4, <1>6, <2>2, <2>4
       DEF Continue, TypeInv, TypeOK, ReminderType, store, told, bounds
<1>7. CASE ArmReminder
  <2>1. sender.chain.question \in Nat BY <1>2 DEF ChainType
  <2>2. Add(sender.chain.sid, sender.chain.question) BY <1>7 DEF ArmReminder
  <2>3. /\ reminder' \in ReminderType /\ collided' \in BOOLEAN
        /\ reminder' = reminder \/ reminder'.at = "waiting"
    BY <2>1, <2>2, AddType
  <2>4. ReminderFits' BY <1>3, <2>3, ReminderUntouched DEF store
  <2>5. sender' \in senders /\ chains' \subseteq ChainType
    BY <1>2, <1>7 DEF ArmReminder, TypeInv, TypeOK
  <2> QED
    BY <1>3, <1>4, <1>7, <2>3, <2>4, <2>5
       DEF ArmReminder, TypeInv, TypeOK, ReminderType, store, bounds
<1>8. CASE SenderCrash
  <2>1. reminder' = reminder /\ chains' = chains /\ sender' \in senders
    BY <1>2, <1>8 DEF SenderCrash
  <2>2. ReminderFits' BY <1>1, <1>3, <2>1, ReminderUntouched DEF store
  <2> QED
    BY <1>3, <1>4, <1>8, <2>1, <2>2 DEF SenderCrash, TypeInv, TypeOK, store, told
<1> QED BY <1>5, <1>6, <1>7, <1>8 DEF OutboundNext

\* The reminder job marks the very document it read.
LEMMA ReminderTypes == TypeInv /\ ReminderNext => TypeInv'
<1> SUFFICES ASSUME TypeInv, ReminderNext PROVE TypeInv'
  OBVIOUS
<1>1. /\ reminder \in ReminderType /\ NoReminder \in ReminderType
      /\ session \in SessionType /\ session.version \in Nat
  BY DEF TypeInv, TypeOK, ReminderType, NoReminder, SessionType
<1>2. UNCHANGED <<exists, call, metadata, logged, said, deliveries, inbound, sender, admin,
                  applied, shown, offered, collided, failures, commands>>
  BY DEF ReminderNext, FireReminder, MarkReminder, SendReminder, ReminderCrash, store, told,
         bounds
<1>3. HandlersFit' BY <1>2, HandlersUntouched
<1>4. CASE FireReminder
  <2>1. reminder' \in ReminderType BY <1>1, <1>4 DEF FireReminder, ReminderType
  <2>2. ReminderFits'
    BY <1>1, <1>4 DEF FireReminder, ReminderType, ReminderFits, Due, store, TypeInv
  <2> QED
    BY <1>2, <1>3, <1>4, <2>1, <2>2
       DEF FireReminder, TypeInv, TypeOK, ReminderType, store, told, bounds
<1>5. CASE MarkReminder
  <2>1. CASE SeenCurrent
    <3>1. session.step \in QuestionSteps
      BY <1>5, <2>1 DEF MarkReminder, SeenCurrent, TypeInv, ReminderFits, Due
    <3>2. session' = Reminded(session) /\ reminder' = [reminder EXCEPT !.at = "marked"]
      BY <1>5, <2>1 DEF MarkReminder
    <3>3. session' \in SessionType /\ session'.version = session.version + 1
      BY <1>1, <3>1, <3>2, RemindedType
    <3>4. reminder' \in ReminderType /\ reminder'.at = "marked"
      BY <1>1, <3>2 DEF ReminderType
    <3>5. ReminderFits' BY <1>1, <1>2, <3>3, <3>4 DEF ReminderFits
    <3> QED
      BY <1>2, <1>3, <1>5, <3>3, <3>4, <3>5
         DEF MarkReminder, TypeInv, TypeOK, ReminderType, told, bounds
  <2>2. CASE ~SeenCurrent
    <3>1. session' = session /\ reminder' = NoReminder BY <1>5, <2>2 DEF MarkReminder
    <3>2. ReminderFits'
      BY <1>1, <1>2, <3>1, ReminderUntouched DEF NoReminder
    <3> QED
      BY <1>1, <1>2, <1>3, <1>5, <3>1, <3>2
         DEF MarkReminder, TypeInv, TypeOK, ReminderType, told, bounds
  <2> QED BY <2>1, <2>2
<1>6. CASE SendReminder
  <2>1. [sid |-> session.id, left |-> 1, question |-> 0, asks |-> "reminder"] \in ChainType
    BY <1>1 DEF ChainType, SessionType, Kinds
  <2>2. chains' \subseteq ChainType BY <1>6, <2>1 DEF SendReminder, TypeInv, TypeOK
  <2>3. ReminderFits'
    BY <1>1, <1>2, <1>6, ReminderUntouched DEF SendReminder, NoReminder, store
  <2> QED
    BY <1>1, <1>2, <1>3, <1>6, <2>2, <2>3
       DEF SendReminder, TypeInv, TypeOK, ReminderType, store, bounds
<1>7. CASE ReminderCrash
  <2>1. reminder' \in ReminderType /\ reminder'.at = "waiting"
    BY <1>1, <1>7 DEF ReminderCrash, ReminderType
  <2>2. ReminderFits' BY <1>2, <1>7, <2>1, ReminderUntouched DEF ReminderCrash, store
  <2> QED
    BY <1>2, <1>3, <1>7, <2>1, <2>2
       DEF ReminderCrash, TypeInv, TypeOK, ReminderType, store, told
<1> QED BY <1>4, <1>5, <1>6, <1>7 DEF ReminderNext

LEMMA AdminTypes == TypeInv /\ AdminNext => TypeInv'
<1> SUFFICES ASSUME TypeInv, AdminNext PROVE TypeInv'
  OBVIOUS
<1> DEFINE admins == [at : {"idle", "reset", "welcome", "purge", "drop"}, sid : Nat,
                      sends : BOOLEAN, question : Nat]
<1>1. /\ reminder \in ReminderType /\ NoReminder \in ReminderType
      /\ session \in SessionType /\ session.version \in Nat /\ session.id \in Nat
      /\ admin \in admins /\ NobodyAsks \in admins
  BY DEF TypeInv, TypeOK, ReminderType, NoReminder, NobodyAsks, SessionType
<1>2. UNCHANGED <<call, metadata, said, deliveries, inbound, sender,
                  reminders, shown, offered, collided, aborts, failures>>
  BY DEF AdminNext, AdminCancel, RestartReset, RestartDispatch, DeleteMessages,
         DeleteSession, store, queues, told, bounds
<1>3. HandlersFit' BY <1>2, HandlersUntouched
<1>4. ASSUME NEW at \in {"reset", "purge"}, AdminCancel(at) PROVE TypeInv'
  <2>1. PICK sends \in BOOLEAN :
          admin' = [at |-> at, sid |-> session.id, sends |-> sends, question |-> 0]
    BY <1>4 DEF AdminCancel
  <2>2. admin' \in admins BY <1>1, <2>1
  <2>3. reminder' \in ReminderType /\ ReminderFits'
    BY <1>4, CancelledType, ReminderUntouched DEF AdminCancel, store
  <2> QED
    BY <1>2, <1>3, <1>4, <2>2, <2>3
       DEF AdminCancel, TypeInv, TypeOK, ReminderType, store, told
<1>5. CASE RestartReset
  <2>1. admin' \in admins
    <3>1. CASE admin.sends
      <4>1. admin' = [admin EXCEPT !.at = "welcome", !.question = session.version + 1]
        BY <1>5, <3>1 DEF RestartReset
      <4>2. session.version + 1 \in Nat BY <1>1
      <4> QED BY <1>1, <4>1, <4>2
    <3>2. CASE ~admin.sends
      BY <1>1, <1>5, <3>2 DEF RestartReset
    <3> QED BY <3>1, <3>2
  <2>2. /\ session' \in SessionType
        /\ session' = session \/ session'.version = session.version + 1
    BY <1>1, <1>5, ResetType DEF RestartReset
  <2>3. ReminderFits'
    BY <1>1, <1>5, <2>2, ReminderOfMoved, ReminderUntouched DEF RestartReset, queues
  <2>4. applied' \in [Messages -> Nat] BY <1>5 DEF RestartReset, TypeInv, TypeOK
  <2> QED
    BY <1>2, <1>3, <1>5, <2>1, <2>2, <2>3, <2>4
       DEF RestartReset, TypeInv, TypeOK, queues, bounds
<1>6. CASE RestartDispatch
  <2>1. [sid |-> admin.sid, left |-> 1, question |-> admin.question, asks |-> "project"]
          \in ChainType
    BY <1>1 DEF ChainType, Kinds
  <2>2. chains' \subseteq ChainType BY <1>6, <2>1 DEF RestartDispatch, TypeInv, TypeOK
  <2>3. ReminderFits' BY <1>1, <1>6, ReminderUntouched DEF RestartDispatch, store
  <2> QED
    BY <1>1, <1>2, <1>3, <1>6, <2>2, <2>3
       DEF RestartDispatch, TypeInv, TypeOK, store, told, bounds
<1>7. CASE DeleteMessages
  <2>1. logged' \in [Messages -> Nat] BY <1>7 DEF DeleteMessages, TypeInv, TypeOK
  <2>2. admin' \in admins BY <1>1, <1>7 DEF DeleteMessages
  <2>3. ReminderFits' BY <1>1, <1>7, ReminderUntouched DEF DeleteMessages, queues
  <2> QED
    BY <1>2, <1>3, <1>7, <2>1, <2>2, <2>3
       DEF DeleteMessages, TypeInv, TypeOK, queues, told, bounds
<1>8. CASE DeleteSession
  <2>1. reminder' = reminder \/ reminder' = NoReminder BY <1>8 DEF DeleteSession
  <2>2. ReminderFits'
    BY <1>1, <1>8, <2>1, ReminderUntouched DEF DeleteSession, NoReminder
  <2> QED
    BY <1>1, <1>2, <1>3, <1>8, <2>1, <2>2
       DEF DeleteSession, TypeInv, TypeOK, ReminderType, told, bounds
<1> QED BY <1>4, <1>5, <1>6, <1>7, <1>8 DEF AdminNext

LEMMA TypeStep == TypeInv /\ [Next]_vars => TypeInv'
<1>1. TypeInv /\ UNCHANGED vars => TypeInv'
  BY DEF TypeInv, TypeOK, HandlersFit, HandlerFits, Allowed, ReminderFits, Due, vars, store,
         queues, told, bounds
<1> QED
  BY <1>1, CustomerTypes, InboundTypes, OutboundTypes, ReminderTypes, AdminTypes DEF Next

\* Types, the limit on retries among them, for any messages, handlers and slots.
THEOREM TypeCorrect == Spec => []TypeOK
<1>1. TypeInv => TypeOK BY DEF TypeInv
<1> QED BY <1>1, InitTypeInv, TypeStep, PTL DEF Spec

-----------------------------------------------------------------------------
(* The version                                                               *)

\* The writes of the session document, each under the condition it has.
Created ==
  /\ ~exists /\ session' = Fresh(session)
  /\ \E p \in Handlers, m \in Messages : Deliver(p, m)
Saved(p) ==
  /\ Apply(p) /\ Current(inbound[p].snap)
  /\ session' = Advanced(inbound[p].snap, inbound[p].plan)
Marked == MarkReminder /\ SeenCurrent /\ session' = Reminded(session)
Restarted ==
  RestartReset /\ Live(admin.sid) /\ session' = Reset(session, admin.sends)

LEMMA SessionStep ==
  ASSUME TypeInv, [Next]_vars, session' # session
  PROVE  Created \/ (\E p \in Handlers : Saved(p)) \/ Marked \/ Restarted
<1>1. CASE CustomerNext BY <1>1 DEF CustomerNext, Write, store
<1>2. CASE InboundNext
  BY <1>2, ZenonT(60) DEF InboundNext, Deliver, LogMessage, CancelReminder, Decide, Apply, Qualify,
              Dispatch, Rearm, Abort, store, Created, Saved
<1>3. CASE OutboundNext
  BY <1>3 DEF OutboundNext, SendMessage, SendFails, Continue, ArmReminder, SenderCrash, store
<1>4. CASE ReminderNext
  BY <1>4 DEF ReminderNext, FireReminder, MarkReminder, SendReminder, ReminderCrash, store,
              Marked
<1>5. CASE AdminNext
  BY <1>5 DEF AdminNext, AdminCancel, RestartReset, RestartDispatch, DeleteMessages,
              DeleteSession, store, Restarted
<1>6. CASE UNCHANGED vars BY <1>6 DEF vars, store
<1> QED BY <1>1, <1>2, <1>3, <1>4, <1>5, <1>6 DEF Next

\* A handler keeps its snapshot, or takes the document as it is after the step.
LEMMA SnapshotStep ==
  ASSUME TypeInv, [Next]_vars, NEW p \in Handlers, inbound'[p].at # "idle"
  PROVE  \/ inbound'[p].snap = session' /\ exists'
         \/ inbound[p].at # "idle" /\ inbound'[p].snap = inbound[p].snap
<1> USE DEF TypeInv, TypeOK, HandlerType
<1>1. CASE inbound' = inbound BY <1>1
<1>2. ASSUME NEW q \in Handlers, NEW m \in Messages, Deliver(q, m), q = p
      PROVE  inbound'[p].snap = session' /\ exists'
  BY <1>2, FreeType DEF Deliver
<1>3. ASSUME NEW q \in Handlers, Finish(q), q = p PROVE FALSE
  BY <1>3, FreeType DEF Finish
<1>4. ASSUME NEW q \in Handlers, NEW at, inbound[q].at # "idle", Move(q, at), q = p
      PROVE  inbound[p].at # "idle" /\ inbound'[p].snap = inbound[p].snap
  BY <1>4 DEF Move
<1>5. ASSUME NEW q \in Handlers, Decide(q), q = p
      PROVE  inbound[p].at # "idle" /\ inbound'[p].snap = inbound[p].snap
  <2>1. PICK plan : inbound' = [inbound EXCEPT ![p].at = "apply", ![p].plan = plan]
    BY <1>5 DEF Decide
  <2> QED BY <1>5, <2>1 DEF Decide
<1>6. ASSUME NEW q \in Handlers, Apply(q), ~Finish(q), q = p
      PROVE  inbound'[p].snap = session' /\ exists'
  <2>0. exists' BY <1>6 DEF Apply, Current, Live
  <2>1. CASE inbound' = [inbound EXCEPT ![p].at = AfterApply(inbound[p].plan),
                                        ![p].snap = session']
    BY <2>0, <2>1
  <2>2. CASE /\ inbound' = [inbound EXCEPT ![p].at = "decide", ![p].snap = session,
                                           ![p].tries = @ + 1]
             /\ session' = session
    BY <2>0, <2>2
  <2> QED BY <1>6, <2>0, <2>1, <2>2 DEF Apply
<1>7. CASE InboundNext
  <2>1. PICK q \in Handlers :
          \/ \E m \in Messages : Deliver(q, m)
          \/ LogMessage(q) \/ CancelReminder(q) \/ Decide(q) \/ Apply(q)
          \/ Qualify(q) \/ Dispatch(q) \/ Rearm(q) \/ Abort(q)
    BY <1>7 DEF InboundNext
  <2>2. CASE q # p
    <3>1. inbound'[p] = inbound[p]
      BY <2>1, <2>2, ZenonT(60) DEF Deliver, LogMessage, CancelReminder, Decide, Apply, Qualify, Dispatch,
                        Rearm, Abort, Finish, Move
    <3> QED BY <3>1
  <2>3. CASE q = p
    BY <1>2, <1>3, <1>4, <1>5, <1>6, <2>1, <2>3
       DEF LogMessage, CancelReminder, Qualify, Dispatch, Rearm, Abort
  <2> QED BY <2>2, <2>3
<1>8. CASE ~InboundNext
  <2>1. inbound' = inbound
    BY <1>8 DEF Next, CustomerNext, Write, OutboundNext, SendMessage, SendFails, Continue,
                ArmReminder, SenderCrash, ReminderNext, FireReminder, MarkReminder,
                SendReminder, ReminderCrash, AdminNext, AdminCancel, RestartReset,
                RestartDispatch, DeleteMessages, DeleteSession, vars
  <2> QED BY <1>1, <2>1
<1> QED BY <1>7, <1>8

\* What the compare-and-set rests on: versions never go back, and a snapshot with
\* the document's version is the document.  Ids are versions of their time.
SnapshotIsOfVersion(s) ==
  /\ 0 < s.id /\ s.id <= s.version /\ s.version <= session.version
  /\ s.version = session.version => s = session
Snapshots ==
  /\ session.id <= session.version /\ (exists => 0 < session.id)
  /\ \A p \in Handlers : inbound[p].at # "idle" => SnapshotIsOfVersion(inbound[p].snap)

\* Every write of the document is a version of its own.
LEMMA VersionStep ==
  ASSUME TypeInv, [Next]_vars, session' # session
  PROVE  /\ session'.version = session.version + 1
         /\ \/ exists /\ session'.id = session.id
            \/ ~exists /\ session'.id = session'.version
<1>1. session \in SessionType /\ session.version \in Nat
  BY DEF TypeInv, TypeOK, SessionType
<1>2. CASE Created BY <1>1, <1>2, FreshType DEF Created
<1>3. ASSUME NEW p \in Handlers, Saved(p)
      PROVE  /\ session'.version = session.version + 1
             /\ exists /\ session'.id = session.id
  <2>1. /\ inbound[p].snap \in SessionType /\ inbound[p].plan \in PlanType
        /\ inbound[p].plan.retry => inbound[p].snap.retries < MAX_QUESTION_RETRIES
    BY <1>3 DEF Saved, Apply, TypeInv, TypeOK, HandlersFit, HandlerFits, HandlerType, Allowed
  <2> QED BY <1>3, <2>1, AdvancedType DEF Saved, Current, Live
<1>4. CASE Marked
  <2>1. session.step \in QuestionSteps
    BY <1>4 DEF Marked, MarkReminder, SeenCurrent, TypeInv, ReminderFits, Due
  <2> QED BY <1>1, <1>4, <2>1, RemindedType DEF Marked, SeenCurrent
<1>5. CASE Restarted
  <2>1. admin.sends \in BOOLEAN BY DEF TypeInv, TypeOK
  <2> QED BY <1>1, <1>5, <2>1, ResetType DEF Restarted, Live
<1> QED BY <1>2, <1>3, <1>4, <1>5, SessionStep

\* Only the gateway creates a session.
LEMMA ExistsStep ==
  ASSUME [Next]_vars, exists', ~exists
  PROVE  Created
  BY ZenonT(60) DEF Next, CustomerNext, Write, InboundNext, Deliver, LogMessage, CancelReminder, Decide,
         Apply, Qualify, Dispatch, Rearm, Abort, OutboundNext, SendMessage, SendFails,
         Continue, ArmReminder, SenderCrash, ReminderNext, FireReminder, MarkReminder,
         SendReminder, ReminderCrash, AdminNext, AdminCancel, RestartReset, RestartDispatch,
         DeleteMessages, DeleteSession, vars, store, Created

LEMMA SnapshotsStep ==
  ASSUME TypeInv, TypeInv', Snapshots, [Next]_vars
  PROVE  Snapshots'
<1>1. /\ session.version \in Nat /\ session.id \in Nat
      /\ session'.version \in Nat /\ session'.id \in Nat
  BY DEF TypeInv, TypeOK, SessionType
<1>2. session' = session \/ session'.version = session.version + 1
  BY VersionStep
<1>3. session'.id <= session'.version
  BY <1>1, VersionStep DEF Snapshots
<1>4. exists' => 0 < session'.id
  <2>1. CASE exists BY <1>1, <2>1, VersionStep DEF Snapshots
  <2>2. CASE exists' /\ ~exists
    BY <1>1, <2>2, ExistsStep, FreshType DEF Created
  <2> QED BY <2>1, <2>2
<1>5. ASSUME NEW p \in Handlers, inbound'[p].at # "idle"
      PROVE  SnapshotIsOfVersion(inbound[p].snap)'
  <2>1. CASE inbound'[p].snap = session' /\ exists'
    BY <1>1, <1>3, <1>4, <2>1 DEF SnapshotIsOfVersion
  <2>2. CASE inbound[p].at # "idle" /\ inbound'[p].snap = inbound[p].snap
    <3>1. SnapshotIsOfVersion(inbound[p].snap) BY <2>2 DEF Snapshots
    <3>2. inbound[p].snap.version \in Nat
      BY DEF TypeInv, TypeOK, HandlerType, SessionType
    <3> QED BY <1>1, <1>2, <2>2, <3>1, <3>2 DEF SnapshotIsOfVersion
  <2> QED BY <1>5, <2>1, <2>2, SnapshotStep
<1> QED BY <1>3, <1>4, <1>5 DEF Snapshots

Inv == TypeInv /\ Snapshots

LEMMA InvAlways == Spec => []Inv
<1>1. Init => Snapshots
  <2> SUFFICES ASSUME Init PROVE Snapshots
    OBVIOUS
  <2>1. session.id <= session.version /\ (session # Nothing => 0 < session.id)
    <3>1. CASE session = Nothing BY <3>1, NothingType
    <3>2. ASSUME NEW step \in Starts \ {"none"}, session = Begun(step)
          PROVE  session.id <= session.version /\ 0 < session.id
      <4>1. /\ Begun(step) \in SessionType
            /\ Begun(step).version > 0 /\ Begun(step).id = 1
        BY BegunType, StartsAssumption
      <4> QED BY <3>2, <4>1 DEF SessionType
    <3> QED BY <3>1, <3>2 DEF Init
  <2> QED BY <2>1, FreeType DEF Init, Snapshots
<1>2. Inv /\ [Next]_vars => Inv' BY TypeStep, SnapshotsStep DEF Inv
<1> QED BY <1>1, <1>2, InitTypeInv, PTL DEF Spec, Inv

\* What a handler saves is made from the document it replaces.
LEMMA SavedFromCurrent ==
  ASSUME Inv, NEW p \in Handlers, Saved(p)
  PROVE  /\ session' = Advanced(session, inbound[p].plan)
         /\ inbound[p].plan \in PlanType
         /\ inbound[p].plan.retry => session.retries < MAX_QUESTION_RETRIES
<1>1. inbound[p].at = "apply" BY DEF Saved, Apply
<1>2. inbound[p].snap = session
  BY <1>1 DEF Inv, Snapshots, SnapshotIsOfVersion, Saved, Current
<1> QED BY <1>1, <1>2 DEF Saved, Inv, TypeInv, HandlersFit, HandlerFits, Allowed

\* No handler, reminder job or gateway writes over a score it has not read: the
\* update is conditional on the version, and a version is one document.
THEOREM NothingScoredIsLostCorrect == Spec => NothingScoredIsLost
<1>1. Inv /\ [Next]_vars =>
        [\/ session.scored \subseteq session'.scored
         \/ session'.id # session.id
         \/ admin.at = "reset" /\ admin'.at # "reset"]_vars
  <2> SUFFICES ASSUME Inv, [Next]_vars, session' # session
               PROVE  \/ session.scored \subseteq session'.scored
                      \/ session'.id # session.id
                      \/ admin.at = "reset" /\ admin'.at # "reset"
    OBVIOUS
  <2>1. session \in SessionType BY DEF Inv, TypeInv, TypeOK
  <2>2. CASE Created
    <3>1. session'.id = session.version + 1
      BY <2>1, <2>2, FreshType DEF Created, SessionType
    <3> QED BY <2>1, <3>1 DEF Inv, Snapshots, SessionType
  <2>3. ASSUME NEW p \in Handlers, Saved(p) PROVE session.scored \subseteq session'.scored
    BY <2>1, <2>3, SavedFromCurrent, AdvancedType
  <2>4. CASE Marked
    <3>1. session.step \in QuestionSteps
      BY <2>4 DEF Marked, MarkReminder, SeenCurrent, Inv, TypeInv, ReminderFits, Due
    <3> QED BY <2>1, <2>4, <3>1, RemindedType DEF Marked
  <2>5. CASE Restarted
    <3>1. admin.at = "reset" BY <2>5 DEF Restarted, RestartReset
    <3> DEFINE w == [admin EXCEPT !.at = "welcome", !.question = session.version + 1]
    <3>2. admin' = w \/ admin' = NobodyAsks BY <2>5 DEF Restarted, RestartReset
    <3>3. admin \in [at : {"idle", "reset", "welcome", "purge", "drop"}, sid : Nat,
                     sends : BOOLEAN, question : Nat]
      BY DEF Inv, TypeInv, TypeOK
    <3>4. w.at = "welcome" BY <3>3
    <3> HIDE DEF w
    <3>5. admin'.at # "reset" BY <3>2, <3>4 DEF NobodyAsks
    <3> QED BY <3>1, <3>5
  <2> QED BY <2>2, <2>3, <2>4, <2>5, SessionStep DEF Inv
<1> QED BY <1>1, InvAlways, PTL DEF Spec, NothingScoredIsLost

\* Between the job's read and its write anything may happen to the session; the
\* reminder is only marked on the very document that was due.
THEOREM RemindsOnlyTheSilentCorrect == Spec => RemindsOnlyTheSilent
<1>1. Inv /\ [Next]_vars =>
        [session'.reminded /\ ~session.reminded =>
           /\ session.status = "active" /\ session.step \in QuestionSteps
           /\ session.askedAt = reminder.question]_vars
  <2> SUFFICES ASSUME Inv, [Next]_vars, session'.reminded, ~session.reminded
               PROVE  /\ session.status = "active" /\ session.step \in QuestionSteps
                      /\ session.askedAt = reminder.question
    OBVIOUS
  <2>1. session \in SessionType /\ session' # session BY DEF Inv, TypeInv, TypeOK
  <2>2. CASE Created BY <2>1, <2>2, FreshType DEF Created, SessionType
  <2>3. ASSUME NEW p \in Handlers, Saved(p) PROVE FALSE
    BY <2>1, <2>3, SavedFromCurrent, AdvancedType
  <2>4. CASE Marked
    BY <2>4 DEF Marked, MarkReminder, SeenCurrent, Inv, TypeInv, ReminderFits, Due
  <2>5. CASE Restarted
    <3>1. admin.sends \in BOOLEAN BY DEF Inv, TypeInv, TypeOK
    <3> QED BY <2>1, <2>5, <3>1, ResetType DEF Restarted
  <2> QED BY <2>1, <2>2, <2>3, <2>4, <2>5, SessionStep DEF Inv
<1> QED BY <1>1, InvAlways, PTL DEF Spec, RemindsOnlyTheSilent

-----------------------------------------------------------------------------
(* Duplicated deliveries                                                     *)

Working == {"cancel", "decide", "apply"}

\* A handler that logged the message for this session and may yet move it.
Carries(p, m) ==
  /\ inbound[p].at \in Working /\ inbound[p].m = m
  /\ inbound[p].snap.id = session.id

\* One request of the administrator runs at a time; the session it is about is
\* there until it deletes it.
AdminKnows ==
  admin.at \in {"reset", "purge", "drop"} => exists /\ session.id = admin.sid

\* The transcript row is there as long as anybody carries the message, and nobody
\* carries it any more once it moved the session.
OneCarrier ==
  exists /\ admin.at # "drop" => \A m \in Messages :
    /\ applied[m] <= 1
    /\ applied[m] = 1 => logged[m] # 0
    /\ \A p \in Handlers : Carries(p, m) =>
         /\ applied[m] = 0 /\ logged[m] # 0
         /\ \A q \in Handlers : Carries(q, m) => q = p

\* Only a first transcript row makes a carrier.
LEMMA CarrierStep ==
  ASSUME Inv, [Next]_vars, NEW p \in Handlers, NEW m \in Messages, Carries(p, m)',
         exists /\ session'.id = session.id
  PROVE  \/ Carries(p, m) /\ ~Saved(p)
         \/ LogMessage(p) /\ inbound[p].m = m /\ logged[m] = 0
<1> USE DEF Inv, TypeInv, TypeOK, HandlerType
<1>1. inbound'[p].at \in Working /\ inbound'[p].m = m /\ inbound'[p].snap.id = session.id
  BY DEF Carries
<1>2. ~Saved(p)
  <2> SUFFICES ASSUME Saved(p) PROVE FALSE
    OBVIOUS
  <2>1. inbound' = [inbound EXCEPT ![p].at = AfterApply(inbound[p].plan),
                                   ![p].snap = session']
    BY DEF Saved, Apply
  <2>2. inbound'[p].at = AfterApply(inbound[p].plan) BY <2>1
  <2> QED BY <1>1, <2>2 DEF AfterApply, Working
<1>3. CASE inbound'[p] = inbound[p]
  BY <1>1, <1>2, <1>3 DEF Carries
<1>4. CASE InboundNext
  <2>1. PICK q \in Handlers :
          \/ \E n \in Messages : Deliver(q, n)
          \/ LogMessage(q) \/ CancelReminder(q) \/ Decide(q) \/ Apply(q)
          \/ Qualify(q) \/ Dispatch(q) \/ Rearm(q) \/ Abort(q)
    BY <1>4 DEF InboundNext
  <2>2. CASE q # p
    <3>1. inbound'[p] = inbound[p]
      BY <2>1, <2>2, ZenonT(60) DEF Deliver, LogMessage, CancelReminder, Decide, Apply, Qualify, Dispatch,
                        Rearm, Abort, Finish, Move
    <3> QED BY <1>3, <3>1
  <2>3. ASSUME Finish(p) PROVE FALSE BY <1>1, <2>3, FreeType DEF Finish, Working
  <2>4. ASSUME NEW at, Move(p, at)
        PROVE  /\ inbound'[p].at = at /\ inbound'[p].m = inbound[p].m
               /\ inbound'[p].snap = inbound[p].snap
    BY <2>4 DEF Move
  <2>5. ASSUME NEW n \in Messages, Deliver(p, n) PROVE FALSE
    BY <1>1, <2>5, FreeType DEF Deliver, Working
  <2>6. CASE LogMessage(p)
    BY <1>1, <2>3, <2>4, <2>6 DEF LogMessage
  <2>7. CASE CancelReminder(p)
    BY <1>1, <1>2, <2>4, <2>7 DEF CancelReminder, Carries, Working
  <2>8. CASE Decide(p)
    <3>1. PICK plan : inbound' = [inbound EXCEPT ![p].at = "apply", ![p].plan = plan]
      BY <2>8 DEF Decide
    <3>2. inbound'[p].m = inbound[p].m /\ inbound'[p].snap = inbound[p].snap
      BY <3>1
    <3> QED BY <1>1, <1>2, <2>8, <3>2 DEF Decide, Carries, Working
  <2>9. CASE Apply(p)
    <3>1. inbound' = [inbound EXCEPT ![p].at = "decide", ![p].snap = session,
                                     ![p].tries = @ + 1]
          /\ Live(inbound[p].snap.id) /\ inbound[p].at = "apply"
      BY <1>2, <2>3, <2>9 DEF Apply, Saved
    <3>2. inbound'[p].m = inbound[p].m BY <3>1
    <3> QED BY <1>1, <1>2, <3>1, <3>2 DEF Live, Carries, Working
  <2>10. CASE Qualify(p) \/ Dispatch(p) \/ Rearm(p) \/ Abort(p)
    <3>1. Finish(p) \/ Move(p, "dispatch") \/ Move(p, "rearm")
      BY <2>10 DEF Qualify, Dispatch, Rearm, Abort
    <3> QED BY <1>1, <2>3, <2>4, <3>1 DEF Working
  <2> QED BY <2>1, <2>2, <2>5, <2>6, <2>7, <2>8, <2>9, <2>10
<1>5. CASE ~InboundNext
  <2>1. inbound' = inbound
    BY <1>5 DEF Next, CustomerNext, Write, OutboundNext, SendMessage, SendFails, Continue,
                ArmReminder, SenderCrash, ReminderNext, FireReminder, MarkReminder,
                SendReminder, ReminderCrash, AdminNext, AdminCancel, RestartReset,
                RestartDispatch, DeleteMessages, DeleteSession, vars
  <2> QED BY <1>3, <2>1
<1> QED BY <1>4, <1>5

\* A message is counted when a handler saves what it caused, or forgotten.
LEMMA AppliedStep ==
  ASSUME Inv, [Next]_vars, exists, NEW m \in Messages
  PROVE  \/ applied'[m] \in {applied[m], 0}
         \/ /\ applied'[m] = applied[m] + 1
            /\ \E p \in Handlers : Saved(p) /\ inbound[p].m = m
<1> USE DEF Inv, TypeInv, TypeOK
<1>1. ASSUME NEW p \in Handlers, Apply(p)
      PROVE  \/ applied' = applied
             \/ Saved(p) /\ applied' = [applied EXCEPT ![inbound[p].m] = @ + 1]
  BY <1>1 DEF Apply, Saved
<1>2. ASSUME NEW p \in Handlers, NEW n \in Messages, Deliver(p, n) PROVE applied' = applied
  BY <1>2 DEF Deliver
<1>3. ASSUME NEW p \in Handlers,
             \/ LogMessage(p) \/ CancelReminder(p) \/ Decide(p)
             \/ Qualify(p) \/ Dispatch(p) \/ Rearm(p) \/ Abort(p)
      PROVE  applied' = applied
  BY <1>3 DEF LogMessage, CancelReminder, Decide, Qualify, Dispatch, Rearm, Abort, told
<1>4. CASE InboundNext
  <2>1. PICK p \in Handlers : applied' = applied
          \/ (Saved(p) /\ applied' = [applied EXCEPT ![inbound[p].m] = @ + 1])
    BY <1>1, <1>2, <1>3, <1>4 DEF InboundNext
  <2> QED BY <2>1
<1>5. CASE AdminNext
  BY <1>5 DEF AdminNext, AdminCancel, RestartReset, RestartDispatch, DeleteMessages,
              DeleteSession, told
<1>6. CASE ~InboundNext /\ ~AdminNext
  <2>1. applied' = applied
    BY <1>6 DEF Next, CustomerNext, Write, OutboundNext, SendMessage, SendFails, Continue,
                ArmReminder, SenderCrash, ReminderNext, FireReminder, MarkReminder,
                SendReminder, ReminderCrash, vars, told
  <2> QED BY <2>1
<1> QED BY <1>4, <1>5, <1>6

\* Rows only go with the whole transcript.
LEMMA LoggedStep ==
  ASSUME Inv, [Next]_vars, NEW m \in Messages, logged[m] # 0, admin'.at # "drop"
  PROVE  logged'[m] # 0
<1> USE DEF Inv, TypeInv, TypeOK
<1>1. ASSUME NEW p \in Handlers, LogMessage(p) PROVE logged'[m] # 0
  BY <1>1 DEF LogMessage
<1>2. CASE DeleteMessages BY <1>2 DEF DeleteMessages
<1>3. CASE logged' = logged BY <1>3
<1>4. CASE InboundNext
  BY <1>1, <1>3, <1>4, ZenonT(60) DEF InboundNext, Deliver, CancelReminder, Decide, Apply, Qualify,
                          Dispatch, Rearm, Abort, store
<1>5. CASE ~InboundNext
  BY <1>2, <1>3, <1>5
     DEF Next, CustomerNext, Write, OutboundNext, SendMessage, SendFails, Continue,
         ArmReminder, SenderCrash, ReminderNext, FireReminder, MarkReminder, SendReminder,
         ReminderCrash, AdminNext, AdminCancel, RestartReset, RestartDispatch,
         DeleteSession, vars, store
<1> QED BY <1>4, <1>5

\* The administrator's request is its own, and so is the end of a session.
LEMMA AdminStep ==
  ASSUME [Next]_vars
  PROVE  AdminNext \/ (admin' = admin /\ (exists => exists'))
  BY ZenonT(60) DEF Next, CustomerNext, Write, InboundNext, Deliver, LogMessage, CancelReminder, Decide,
         Apply, Qualify, Dispatch, Rearm, Abort, OutboundNext, SendMessage, SendFails,
         Continue, ArmReminder, SenderCrash, ReminderNext, FireReminder, MarkReminder,
         SendReminder, ReminderCrash, vars, store

LEMMA AdminKnowsStep ==
  ASSUME Inv, AdminKnows, [Next]_vars
  PROVE  AdminKnows'
<1>1. exists => session'.id = session.id
  BY VersionStep DEF Inv
<1>2. admin \in [at : {"idle", "reset", "welcome", "purge", "drop"}, sid : Nat,
                 sends : BOOLEAN, question : Nat]
  BY DEF Inv, TypeInv, TypeOK
<1>3. ASSUME NEW at, AdminCancel(at) PROVE AdminKnows'
  <2>1. admin'.sid = session.id /\ exists /\ exists' = exists
    BY <1>3 DEF AdminCancel, store
  <2> QED BY <1>1, <2>1 DEF AdminKnows
<1>4. CASE RestartReset
  <2> DEFINE w == [admin EXCEPT !.at = "welcome", !.question = session.version + 1]
  <2>1. admin' = w \/ admin' = NobodyAsks BY <1>4 DEF RestartReset
  <2>2. w.at = "welcome" BY <1>2
  <2> HIDE DEF w
  <2> QED BY <2>1, <2>2 DEF NobodyAsks, AdminKnows
<1>5. CASE RestartDispatch \/ DeleteSession
  BY <1>5 DEF RestartDispatch, DeleteSession, NobodyAsks, AdminKnows
<1>6. CASE DeleteMessages
  BY <1>1, <1>2, <1>6 DEF DeleteMessages, AdminKnows
<1>7. CASE admin' = admin /\ (exists => exists')
  BY <1>1, <1>7 DEF AdminKnows
<1> QED BY <1>3, <1>4, <1>5, <1>6, <1>7, AdminStep DEF AdminNext

LEMMA OneCarrierStep ==
  ASSUME Inv, AdminKnows, OneCarrier, [Next]_vars
  PROVE  OneCarrier'
<1> SUFFICES ASSUME exists', admin'.at # "drop", NEW m \in Messages
             PROVE  /\ applied'[m] <= 1
                    /\ applied'[m] = 1 => logged'[m] # 0
                    /\ \A p \in Handlers : Carries(p, m)' =>
                         /\ applied'[m] = 0 /\ logged'[m] # 0
                         /\ \A q \in Handlers : Carries(q, m)' => q = p
  BY DEF OneCarrier
<1>0. applied[m] \in Nat /\ session.id \in Nat /\ session.version \in Nat
  BY DEF Inv, TypeInv, TypeOK, SessionType
<1>1. CASE ~exists
  <2>1. Created BY <1>1, ExistsStep
  <2>2. session'.id = session.version + 1
    BY <1>0, <2>1, FreshType DEF Created
  <2>3. PICK r \in Handlers, n \in Messages : Deliver(r, n) BY <2>1 DEF Created
  <2>4. applied'[m] = 0 BY <1>1, <2>3 DEF Deliver
  <2>5. ASSUME NEW p \in Handlers PROVE ~Carries(p, m)'
    <3>1. CASE p = r
      <4>1. inbound'[r].at = "log"
        BY <2>3, FreeType DEF Deliver, Inv, TypeInv, TypeOK, HandlerType
      <4> QED BY <3>1, <4>1 DEF Carries, Working
    <3>2. CASE p # r
      <4>1. inbound'[p] = inbound[p]
        BY <2>3, <3>2 DEF Deliver, Inv, TypeInv, TypeOK
      <4>2. inbound[p].at # "idle" =>
              /\ inbound[p].snap.id <= inbound[p].snap.version
              /\ inbound[p].snap.version <= session.version
              /\ inbound[p].snap.version \in Nat /\ inbound[p].snap.id \in Nat
        BY DEF Inv, Snapshots, SnapshotIsOfVersion, TypeInv, TypeOK, HandlerType, SessionType
      <4> QED BY <1>0, <2>2, <4>1, <4>2 DEF Carries, Working
    <3> QED BY <3>1, <3>2
  <2> QED BY <2>4, <2>5
<1>2. CASE exists
  <2>1. session'.id = session.id BY <1>2, VersionStep DEF Inv
  <2>2. admin.at # "drop"
    <3> SUFFICES ASSUME admin.at = "drop" PROVE FALSE
      OBVIOUS
    <3>1. CASE AdminNext
      <4>1. DeleteSession
        BY <3>1 DEF AdminNext, AdminCancel, RestartReset, RestartDispatch, DeleteMessages
      <4>2. session.id = admin.sid BY DEF AdminKnows
      <4> QED BY <4>1, <4>2 DEF DeleteSession
    <3> QED BY <3>1, AdminStep
  <2>3. /\ applied[m] <= 1
        /\ applied[m] = 1 => logged[m] # 0
        /\ \A p \in Handlers : Carries(p, m) =>
             /\ applied[m] = 0 /\ logged[m] # 0
             /\ \A q \in Handlers : Carries(q, m) => q = p
    BY <1>2, <2>2 DEF OneCarrier
  <2>4. logged[m] # 0 => logged'[m] # 0 BY LoggedStep
  <2>5. ASSUME NEW p \in Handlers, Carries(p, m)'
        PROVE  \/ Carries(p, m) /\ ~Saved(p)
               \/ LogMessage(p) /\ inbound[p].m = m /\ logged[m] = 0
    BY <1>2, <2>1, <2>5, CarrierStep
  <2>6. CASE \E r \in Handlers : Saved(r) /\ inbound[r].m = m /\ applied'[m] = applied[m] + 1
    <3>1. PICK r \in Handlers : Saved(r) /\ inbound[r].m = m /\ applied'[m] = applied[m] + 1
      BY <2>6
    <3>2. Carries(r, m)
      BY <3>1 DEF Saved, Apply, Current, Live, Carries, Working
    <3>3. applied'[m] = 1 /\ logged[m] # 0 BY <2>3, <3>1, <3>2
    <3>4. ASSUME NEW p \in Handlers, Carries(p, m)' PROVE FALSE
      BY <2>3, <2>5, <3>1, <3>2, <3>3, <3>4
    <3> QED BY <2>4, <3>3, <3>4
  <2>7. CASE applied'[m] \in {applied[m], 0}
    <3>1. ASSUME NEW p \in Handlers, LogMessage(p), inbound[p].m = m, logged[m] = 0
          PROVE  /\ logged'[m] # 0
                 /\ \A q \in Handlers : LogMessage(q) /\ inbound[q].m = m => q = p
      <4>1. inbound[p].snap.id \in Nat /\ 0 < inbound[p].snap.id
        BY <3>1 DEF LogMessage, Inv, Snapshots, SnapshotIsOfVersion, TypeInv, TypeOK,
                    HandlerType, SessionType
      <4>2. logged'[m] # 0
        BY <3>1, <4>1 DEF LogMessage, Inv, TypeInv, TypeOK
      <4>3. \A q \in Handlers : q # p => inbound'[q] = inbound[q]
        BY <3>1 DEF LogMessage, Move, Finish, Inv, TypeInv, TypeOK
      <4>4. ASSUME NEW q \in Handlers, LogMessage(q) PROVE inbound'[q].at # "log"
        BY <4>4, FreeType DEF LogMessage, Move, Finish, Inv, TypeInv, TypeOK, HandlerType
      <4> QED BY <4>2, <4>3, <4>4 DEF LogMessage
    <3>2. ASSUME NEW p \in Handlers, Carries(p, m)'
          PROVE  /\ applied'[m] = 0 /\ logged'[m] # 0
                 /\ \A q \in Handlers : Carries(q, m)' => q = p
      <4>1. CASE Carries(p, m)
        BY <2>3, <2>4, <2>5, <2>7, <4>1
      <4>2. CASE LogMessage(p) /\ inbound[p].m = m /\ logged[m] = 0
        BY <1>0, <2>3, <2>5, <2>7, <3>1, <4>2
      <4> QED BY <2>5, <3>2, <4>1, <4>2
    <3> QED BY <2>3, <2>4, <2>7, <3>2
  <2> QED BY <1>2, <2>6, <2>7, AppliedStep
<1> QED BY <1>1, <1>2

\* However often the gateway delivers a message and however many handlers have it
\* at once, it moves the session once: its transcript row picks one of them.
THEOREM AppliedOnceCorrect == Spec => []AppliedOnce
<1> DEFINE I == AdminKnows /\ OneCarrier
<1>1. Init => I
  <2> SUFFICES ASSUME Init PROVE I
    OBVIOUS
  <2>1. \A p \in Handlers, m \in Messages : ~Carries(p, m)
    BY FreeType DEF Init, Carries, Working
  <2> QED BY <2>1 DEF Init, NobodyAsks, AdminKnows, OneCarrier
<1>2. Inv /\ I /\ [Next]_vars => I' BY AdminKnowsStep, OneCarrierStep
<1>3. I => AppliedOnce BY DEF OneCarrier, AppliedOnce
<1> QED BY <1>1, <1>2, <1>3, InvAlways, PTL DEF Spec

-----------------------------------------------------------------------------
(* Scheduled sessions                                                        *)

\* A handler only plans to schedule with a call booked.
CallIsBooked ==
  exists =>
    /\ session.status = "scheduled" => call # None
    /\ \A p \in Handlers :
         /\ inbound[p].at = "apply" /\ inbound[p].snap.id = session.id
         /\ inbound[p].plan.status = "scheduled"
         => call # None

\* The session's call is replaced, and only goes when its session went.
LEMMA CallStep ==
  ASSUME Inv, [Next]_vars, exists, call # None
  PROVE  call' # None
<1>1. ASSUME NEW p \in Handlers, Decide(p) PROVE call' # None
  <2>1. PICK plan : call' = call \/ (plan.slot # None /\ call' = plan.slot)
    BY <1>1 DEF Decide, Booked
  <2> QED BY <2>1
<1>2. CASE InboundNext
  BY <1>1, <1>2 DEF InboundNext, Deliver, LogMessage, CancelReminder, Apply, Qualify,
                    Dispatch, Rearm, Abort, store
<1>3. CASE ~InboundNext
  BY <1>3 DEF Next, CustomerNext, Write, OutboundNext, SendMessage, SendFails, Continue,
              ArmReminder, SenderCrash, ReminderNext, FireReminder, MarkReminder,
              SendReminder, ReminderCrash, AdminNext, AdminCancel, RestartReset,
              RestartDispatch, DeleteMessages, DeleteSession, vars, store
<1> QED BY <1>2, <1>3

\* Deciding to schedule books the call of the session decided for.
LEMMA PlannedStep ==
  ASSUME Inv, [Next]_vars, NEW p \in Handlers, inbound'[p].at = "apply"
  PROVE  \/ /\ inbound[p].at = "apply" /\ inbound'[p].snap = inbound[p].snap
            /\ inbound'[p].plan = inbound[p].plan
         \/ /\ inbound'[p].plan.status = "scheduled" /\ inbound'[p].snap.id = session.id
            => call' # None
<1> USE DEF Inv, TypeInv, TypeOK, HandlerType
<1>1. CASE inbound'[p] = inbound[p] BY <1>1
<1>2. CASE InboundNext
  <2>1. PICK q \in Handlers :
          \/ \E n \in Messages : Deliver(q, n)
          \/ LogMessage(q) \/ CancelReminder(q) \/ Decide(q) \/ Apply(q)
          \/ Qualify(q) \/ Dispatch(q) \/ Rearm(q) \/ Abort(q)
    BY <1>2 DEF InboundNext
  <2>2. CASE q # p
    <3>1. inbound'[p] = inbound[p]
      BY <2>1, <2>2, ZenonT(60) DEF Deliver, LogMessage, CancelReminder, Decide, Apply, Qualify, Dispatch,
                        Rearm, Abort, Finish, Move
    <3> QED BY <1>1, <3>1
  <2>3. ASSUME NEW n \in Messages, Deliver(p, n) PROVE FALSE
    BY <2>3, FreeType DEF Deliver
  <2>4. CASE LogMessage(p) \/ CancelReminder(p) \/ Qualify(p) \/ Dispatch(p) \/ Rearm(p)
             \/ Abort(p)
    <3>1. Finish(p) \/ \E at \in {"cancel", "decide", "dispatch", "rearm"} : Move(p, at)
      BY <2>4 DEF LogMessage, CancelReminder, Qualify, Dispatch, Rearm, Abort
    <3>2. inbound'[p].at # "apply" BY <3>1, FreeType DEF Finish, Move
    <3> QED BY <3>2
  <2>5. CASE Apply(p)
    <3>1. CASE Finish(p) BY <3>1, FreeType DEF Finish
    <3>2. CASE inbound' = [inbound EXCEPT ![p].at = AfterApply(inbound[p].plan),
                                          ![p].snap = session']
      <4>1. inbound'[p].at = AfterApply(inbound[p].plan) BY <3>2
      <4> QED BY <4>1 DEF AfterApply
    <3>3. CASE inbound' = [inbound EXCEPT ![p].at = "decide", ![p].snap = session,
                                          ![p].tries = @ + 1]
      <4>1. inbound'[p].at = "decide" BY <3>3
      <4> QED BY <4>1
    <3> QED BY <2>5, <3>1, <3>2, <3>3 DEF Apply
  <2>6. CASE Decide(p)
    <3> DEFINE s == inbound[p].snap
               m == said[inbound[p].m]
               step == EffectiveStep(s, m)
    <3>1. s \in SessionType /\ m \in Message
      BY <2>6 DEF Decide, HandlersFit, HandlerFits
    <3>2. step \in Steps BY <3>1, EffectiveStepType
    <3>3. PICK plan \in Handle(s, step, m) :
            /\ inbound' = [inbound EXCEPT ![p].at = "apply", ![p].plan = plan]
            /\ s.id = session.id => plan.slot = None \/ call' = plan.slot
      BY <2>6 DEF Decide, Booked
    <3> HIDE DEF step, m
    <3>4. plan.status = "scheduled" => plan.slot # None
      BY <3>1, <3>2, HandleAllowed DEF Allowed
    <3>5. inbound'[p].snap = s /\ inbound'[p].plan = plan BY <3>3
    <3> QED BY <3>3, <3>4, <3>5
  <2> QED BY <2>1, <2>2, <2>3, <2>4, <2>5, <2>6
<1>3. CASE ~InboundNext
  <2>1. inbound' = inbound
    BY <1>3 DEF Next, CustomerNext, Write, OutboundNext, SendMessage, SendFails, Continue,
                ArmReminder, SenderCrash, ReminderNext, FireReminder, MarkReminder,
                SendReminder, ReminderCrash, AdminNext, AdminCancel, RestartReset,
                RestartDispatch, DeleteMessages, DeleteSession, vars
  <2> QED BY <1>1, <2>1
<1> QED BY <1>2, <1>3

LEMMA CallIsBookedStep ==
  ASSUME Inv, CallIsBooked, [Next]_vars
  PROVE  CallIsBooked'
<1> SUFFICES ASSUME exists' PROVE CallIsBooked'
  BY DEF CallIsBooked
<1>0. session \in SessionType BY DEF Inv, TypeInv, TypeOK
<1>1. CASE ~exists
  <2>1. Created BY <1>1, ExistsStep
  <2>2. session'.status = "active" /\ session'.id = session.version + 1
    BY <1>0, <2>1, FreshType DEF Created, SessionType
  <2>3. PICK r \in Handlers, n \in Messages : Deliver(r, n) BY <2>1 DEF Created
  <2>4. ASSUME NEW p \in Handlers, inbound'[p].at = "apply" PROVE inbound'[p].snap.id # session'.id
    <3>1. p # r
      BY <2>3, <2>4, FreeType DEF Deliver, Inv, TypeInv, TypeOK, HandlerType
    <3>2. inbound'[p] = inbound[p] BY <2>3, <3>1 DEF Deliver, Inv, TypeInv, TypeOK
    <3>3. /\ inbound[p].snap.id <= inbound[p].snap.version
          /\ inbound[p].snap.version <= session.version
      BY <2>4, <3>2 DEF Inv, Snapshots, SnapshotIsOfVersion
    <3>4. inbound[p].snap.version \in Nat /\ inbound[p].snap.id \in Nat
      BY DEF Inv, TypeInv, TypeOK, HandlerType, SessionType
    <3> QED BY <1>0, <2>2, <3>2, <3>3, <3>4 DEF SessionType
  <2> QED BY <2>2, <2>4 DEF CallIsBooked
<1>2. CASE exists
  <2>1. session'.id = session.id BY <1>2, VersionStep DEF Inv
  <2>2. session'.status = "scheduled" =>
          \/ session.status = "scheduled"
          \/ \E p \in Handlers : /\ inbound[p].at = "apply" /\ inbound[p].snap.id = session.id
                                 /\ inbound[p].plan.status = "scheduled"
    <3>1. CASE session' = session BY <3>1
    <3>2. ASSUME NEW p \in Handlers, Saved(p)
          PROVE  /\ session'.status \in {session.status, inbound[p].plan.status}
                 /\ inbound[p].at = "apply" /\ inbound[p].snap.id = session.id
      BY <1>0, <3>2, SavedFromCurrent, AdvancedType DEF Saved, Apply, Current, Live
    <3>3. CASE Marked
      <4>1. session.step \in QuestionSteps
        BY <3>3 DEF Marked, MarkReminder, SeenCurrent, Inv, TypeInv, ReminderFits, Due
      <4> QED BY <1>0, <3>3, <4>1, RemindedType DEF Marked
    <3>4. CASE Restarted
      <4>1. admin.sends \in BOOLEAN BY DEF Inv, TypeInv, TypeOK
      <4> QED BY <1>0, <3>4, <4>1, ResetType DEF Restarted
    <3> QED BY <1>2, <3>1, <3>2, <3>3, <3>4, SessionStep DEF Inv, Created
  <2>3. session'.status = "scheduled" => call' # None
    BY <1>2, <2>2, CallStep DEF CallIsBooked
  <2>4. ASSUME NEW p \in Handlers, inbound'[p].at = "apply",
               inbound'[p].snap.id = session'.id, inbound'[p].plan.status = "scheduled"
        PROVE  call' # None
    BY <1>2, <2>1, <2>4, PlannedStep, CallStep DEF CallIsBooked
  <2> QED BY <2>3, <2>4 DEF CallIsBooked
<1> QED BY <1>1, <1>2

\* bookSlot comes before the status: whatever else the customer picks, or the
\* administrator does, between the two, a scheduled session has its call.
THEOREM ScheduledHasCallCorrect == Spec => []ScheduledHasCall
<1>1. Init => CallIsBooked
  <2> SUFFICES ASSUME Init PROVE CallIsBooked
    OBVIOUS
  <2>1. session.status = "active"
    <3>1. CASE session = Nothing
      BY <3>1, FreshType DEF Nothing, Fresh
    <3>2. ASSUME NEW step \in Starts \ {"none"}, session = Begun(step)
          PROVE  session.status = "active"
      BY <3>2, BegunType, StartsAssumption
    <3> QED BY <3>1, <3>2 DEF Init
  <2> QED BY <2>1, FreeType DEF Init, CallIsBooked
<1>2. Inv /\ CallIsBooked /\ [Next]_vars => CallIsBooked' BY CallIsBookedStep
<1>3. CallIsBooked => ScheduledHasCall BY DEF CallIsBooked, ScheduledHasCall
<1> QED BY <1>1, <1>2, <1>3, InvAlways, PTL DEF Spec

-----------------------------------------------------------------------------
(* Reminders                                                                 *)

\* What a session is still owed, by its mark and by the administrator's request.
Owed ==
  (IF reminder.at = "marked" THEN 1 ELSE 0)
  + (IF exists /\ session.reminded THEN 0 ELSE 1)
  + (IF admin.at \in {"reset", "purge", "drop"} THEN 1 ELSE 0)

Credit == reminders + Owed <= 1 + commands

\* remove() and add() leave no job marked that was not.
LEMMA QueueStep ==
  ASSUME NEW sid, NEW question, reminder' = Cancelled(sid) \/ Add(sid, question)
  PROVE  reminder'.at = "marked" => reminder.at = "marked"
  BY DEF Cancelled, Add, NoReminder

\* A step that neither reminds, nor creates, nor is the administrator's.
LEMMA QuietStep ==
  ASSUME Inv, [Next]_vars, ~AdminNext, ~MarkReminder, ~SendReminder
  PROVE  /\ reminders' = reminders /\ commands' = commands /\ admin' = admin
         /\ reminder'.at = "marked" => reminder.at = "marked"
         /\ exists => exists'
<1>0. reminder \in ReminderType BY DEF Inv, TypeInv, TypeOK, ReminderType
<1>1. reminders' = reminders /\ commands' = commands
  <2>1. CASE InboundNext
    BY <2>1, ZenonT(60) DEF InboundNext, Deliver, LogMessage, CancelReminder, Decide, Apply, Qualify,
                Dispatch, Rearm, Abort, told, bounds
  <2>2. CASE OutboundNext
    BY <2>2 DEF OutboundNext, SendMessage, SendFails, Continue, ArmReminder, SenderCrash,
                told, bounds
  <2>3. CASE CustomerNext \/ ReminderNext \/ UNCHANGED vars
    BY <2>3 DEF CustomerNext, Write, ReminderNext, FireReminder, ReminderCrash, vars, told,
                bounds
  <2> QED BY <2>1, <2>2, <2>3 DEF Next
<1>2. \/ reminder' = reminder
      \/ \E sid : reminder' = Cancelled(sid)
      \/ \E sid, question : Add(sid, question)
      \/ FireReminder \/ ReminderCrash
  BY ZenonT(60) DEF Next, CustomerNext, Write, InboundNext, Deliver, LogMessage, CancelReminder, Decide,
         Apply, Qualify, Dispatch, Rearm, Abort, OutboundNext, SendMessage, SendFails,
         Continue, ArmReminder, SenderCrash, ReminderNext, vars, queues
<1>3. CASE FireReminder \/ ReminderCrash
  BY <1>0, <1>1, <1>3, AdminStep DEF FireReminder, ReminderCrash, ReminderType
<1>4. admin' = admin /\ (exists => exists') BY AdminStep
<1> QED BY <1>1, <1>2, <1>3, <1>4, QueueStep

LEMMA CreditStep ==
  ASSUME Inv, AdminKnows, Credit, [Next]_vars
  PROVE  Credit'
<1>0. /\ reminders \in Nat /\ commands \in Nat /\ session \in SessionType
      /\ reminder \in ReminderType
      /\ admin \in [at : {"idle", "reset", "welcome", "purge", "drop"}, sid : Nat,
                    sends : BOOLEAN, question : Nat]
  BY DEF Inv, TypeInv, TypeOK, ReminderType
<1>1. CASE ~AdminNext /\ ~MarkReminder /\ ~SendReminder
  <2>1. /\ reminders' = reminders /\ commands' = commands /\ admin' = admin
        /\ reminder'.at = "marked" => reminder.at = "marked"
        /\ exists => exists'
    BY <1>1, QuietStep
  <2>2. exists /\ session.reminded => exists' /\ session'.reminded
    <3> SUFFICES ASSUME exists, session.reminded, session' # session
                 PROVE  session'.reminded
      BY <2>1
    <3>1. ASSUME NEW p \in Handlers, Saved(p) PROVE session'.reminded
      BY <1>0, <3>1, SavedFromCurrent, AdvancedType
    <3>2. ~Created /\ ~Marked /\ ~Restarted
      BY <1>1 DEF Created, Marked, Restarted, AdminNext
    <3> QED BY <3>1, <3>2, SessionStep DEF Inv
  <2> QED BY <1>0, <2>1, <2>2 DEF Credit, Owed
<1>2. CASE MarkReminder
  <2>1. reminders' = reminders /\ commands' = commands /\ admin' = admin /\ exists' = exists
    BY <1>2 DEF MarkReminder, told, bounds
  <2>2. CASE SeenCurrent
    <3>1. exists /\ ~session.reminded /\ session.step \in QuestionSteps /\ reminder.at = "active"
      BY <1>2, <2>2 DEF MarkReminder, SeenCurrent, Inv, TypeInv, ReminderFits, Due
    <3>2. session'.reminded
      BY <1>0, <1>2, <2>2, <3>1, RemindedType DEF MarkReminder
    <3> QED BY <1>0, <2>1, <3>1, <3>2 DEF Credit, Owed
  <2>3. CASE ~SeenCurrent
    <3>1. session' = session /\ reminder'.at = "none"
      BY <1>2, <2>3 DEF MarkReminder, NoReminder
    <3> QED BY <1>0, <2>1, <3>1 DEF Credit, Owed
  <2> QED BY <2>2, <2>3
<1>3. CASE SendReminder
  <2>1. /\ reminders' = reminders + 1 /\ reminder.at = "marked" /\ reminder'.at = "none"
        /\ UNCHANGED <<session, exists, admin, commands>>
    BY <1>3 DEF SendReminder, NoReminder, store, bounds
  <2> QED BY <1>0, <2>1 DEF Credit, Owed
<1>4. ASSUME NEW at \in {"reset", "purge"}, AdminCancel(at) PROVE Credit'
  <2>1. /\ commands' = commands + 1 /\ admin.at = "idle"
        /\ UNCHANGED <<session, exists, reminders>>
        /\ reminder'.at = "marked" => reminder.at = "marked"
    BY <1>4, QueueStep DEF AdminCancel, store, told
  <2> QED BY <1>0, <2>1 DEF Credit, Owed
<1>5. CASE RestartReset
  <2>1. /\ UNCHANGED <<exists, reminder, reminders, commands>> /\ admin.at = "reset"
    BY <1>5 DEF RestartReset, queues, bounds
  <2> DEFINE w == [admin EXCEPT !.at = "welcome", !.question = session.version + 1]
  <2>2. admin' = w \/ admin' = NobodyAsks BY <1>5 DEF RestartReset
  <2>3. w.at = "welcome" BY <1>0
  <2> HIDE DEF w
  <2>4. admin'.at \notin {"reset", "purge", "drop"} BY <2>2, <2>3 DEF NobodyAsks
  <2> QED BY <1>0, <2>1, <2>4 DEF Credit, Owed
<1>6. CASE RestartDispatch
  <2>1. /\ UNCHANGED <<session, exists, reminder, reminders, commands>>
        /\ admin'.at = "idle"
    BY <1>6 DEF RestartDispatch, NobodyAsks, store, told, bounds
  <2> QED BY <1>0, <2>1 DEF Credit, Owed
<1>7. CASE DeleteMessages
  <2>1. /\ UNCHANGED <<session, exists, reminder, reminders, commands>>
        /\ admin.at = "purge"
    BY <1>7 DEF DeleteMessages, queues, told, bounds
  <2> QED BY <1>0, <2>1 DEF Credit, Owed
<1>8. CASE DeleteSession
  <2>1. /\ UNCHANGED <<session, reminders, commands>>
        /\ admin.at = "drop" /\ admin'.at = "idle"
        /\ reminder'.at = "marked" => reminder.at = "marked"
    BY <1>8 DEF DeleteSession, NobodyAsks, NoReminder, told, bounds
  <2> QED BY <1>0, <2>1 DEF Credit, Owed
<1> QED BY <1>1, <1>2, <1>3, <1>4, <1>5, <1>6, <1>7, <1>8 DEF AdminNext

\* Crashes, stalled jobs and retried questions do not remind a customer twice:
\* the mark is saved before the message is queued, and only a request unmarks.
THEOREM RemindedOnceCorrect == Spec => []RemindedOnce
<1> DEFINE I == AdminKnows /\ Credit
<1>1. Init => I
  <2> SUFFICES ASSUME Init PROVE I
    OBVIOUS
  <2>1. reminder.at # "marked"
    BY DEF Init, NoReminder
  <2> QED BY <2>1 DEF Init, NobodyAsks, AdminKnows, Credit, Owed
<1>2. Inv /\ I /\ [Next]_vars => I' BY AdminKnowsStep, CreditStep
<1>3. Inv /\ I => RemindedOnce
  BY DEF Credit, Owed, RemindedOnce, Inv, TypeInv, TypeOK
<1> QED BY <1>1, <1>2, <1>3, InvAlways, PTL DEF Spec

\* The two together: an answer counts once and a silence is reminded once.
THEOREM OnceEachCorrect == Spec => []OnceEach
<1>1. AppliedOnce /\ RemindedOnce => OnceEach BY DEF OnceEach
<1> QED BY <1>1, AppliedOnceCorrect, RemindedOnceCorrect, PTL

\* Both for any messages, handlers and slots.
THEOREM LeadSafeCorrect == Spec => []LeadSafe
<1>1. TypeOK /\ ScheduledHasCall => LeadSafe BY DEF LeadSafe
<1> QED BY <1>1, TypeCorrect, ScheduledHasCallCorrect, PTL

-----------------------------------------------------------------------------
(* A conversation nobody disturbs: the customer lets the bot finish, and no   *)
(* process crashes, no send fails and no administrator steps in.  Messages    *)
(* may still be delivered again and again, to any number of handlers.         *)

Orderly == Patient /\ MaxAborts = 0 /\ MaxFailures = 0 /\ MaxAdmin = 0

\* Written, but not in the transcript yet.
Unheard == {m \in Messages : said[m] # None /\ logged[m] = 0}
\* Past the transcript: the handler that logged the message is answering it.
Engaged(p) == inbound[p].at \notin {"idle", "log"}
Resting == chains = {} /\ sender.at = "idle" /\ reminder.at \in {"none", "waiting"}

\* One message, one handler that answers, one sequence, one reminder, each after
\* the other: a second delivery only finds the transcript row.
OneAtATime ==
  /\ \A m, n \in Unheard : m = n
  /\ \A m \in Unheard : Resting /\ \A p \in Handlers : ~Engaged(p)
  /\ \A p, q \in Handlers : Engaged(p) /\ Engaged(q) => p = q
  /\ \A p \in Handlers : Engaged(p) => Resting
  /\ reminder.at \in {"active", "marked"} => chains = {} /\ sender.at = "idle"
  /\ \A c, d \in chains : c = d
  /\ sender.at # "idle" => sender.chain \in chains

\* A delivered message is with a handler until it is logged, and whoever is to
\* answer holds the document as it is.
Traced ==
  /\ admin.at = "idle"
  /\ \A m \in Messages : deliveries[m] > 0 /\ logged[m] = 0 =>
       \E p \in Handlers : inbound[p].at = "log" /\ inbound[p].m = m
  /\ \A p \in Handlers : inbound[p].at # "idle" => said[inbound[p].m] # None
  /\ \A p \in Handlers :
       Engaged(p) \/ (inbound[p].at = "log" /\ logged[inbound[p].m] = 0) =>
         exists /\ inbound[p].snap = session

\* An active session that was asked something and not reminded is at a question.
StepFits(s) ==
  /\ s.step = "initial" => s.askedAt = 0
  /\ s.step \in {"scheduled", "closed"} => s.status # "active"
  /\ s.step = "reminder_sent" => s.reminded

PlanFits(s, plan) ==
  /\ plan.length > 0 => IF plan.expects THEN plan.asks # "none" ELSE plan.status # "active"
  /\ plan.length = 0 /\ plan.expects => plan.asks = "none"
  /\ plan.slot # None => plan.status # "active"
  /\ plan.step # "initial"
  /\ plan.step \in {"scheduled", "closed"} => plan.status # "active" \/ s.status # "active"
  /\ plan.step = "reminder_sent" => s.reminded

Shows == Waiting => shown = session.asked
Armed ==
  Waiting /\ ~session.reminded =>
    reminder.at = "waiting" /\ reminder.question = session.askedAt

\* What the handler, the sequence and the reminder job keep for the end.
Keeps(p) ==
  LET h == inbound[p] IN
  /\ h.at \in {"cancel", "decide", "apply"} => Shows
  /\ h.at = "apply" => PlanFits(session, h.plan)
  /\ h.at = "qualify" => ~Waiting
  /\ h.at = "dispatch" /\ Waiting =>
       IF h.plan.length > 0
       THEN h.plan.expects /\ h.plan.asks # "none" /\ h.plan.asks = session.asked
       ELSE shown = session.asked
  /\ h.at = "rearm" => Shows /\ reminder.at = "none"
Bears(c) ==
  /\ exists /\ c.sid = session.id /\ c.left > 0
  /\ Waiting => c.asks # "none" /\ c.asks = session.asked
  /\ Waiting /\ ~session.reminded => c.question = session.askedAt
Sent == sender.at = "sent" /\ sender.chain.left = 1
JobKeeps ==
  /\ reminder.at = "active" =>
       /\ Shows
       /\ Waiting /\ ~session.reminded => reminder.seen = session.version
  /\ reminder.at = "marked" => exists /\ session.reminded /\ session.asked = "reminder"

Remembers ==
  /\ Resting /\ (\A p \in Handlers : ~Engaged(p)) => Shows /\ Armed
  /\ \A p \in Handlers : Keeps(p)
  /\ \A c \in chains : Bears(c)
  /\ Sent \/ sender.at = "arm" => Shows
  /\ sender.at = "arm" => reminder.at = "none"
  /\ JobKeeps

OrderInv == OneAtATime /\ Traced /\ (exists => StepFits(session)) /\ Remembers

LEMMA OrderInit == Init => OrderInv
<1> SUFFICES ASSUME Init PROVE OrderInv
  OBVIOUS
<1>1. \A p \in Handlers : inbound[p] = Free /\ ~Engaged(p)
  BY FreeType DEF Init, Engaged
<1>2. Resting BY DEF Init, Resting, NoReminder
<1>3. OneAtATime
  BY <1>1, <1>2 DEF OneAtATime, Unheard, Init, Resting
<1>4. Traced
  BY <1>1, FreeType DEF Traced, Init, NobodyAsks, Engaged
<1>5. exists => /\ StepFits(session) /\ session.asked = shown
                 /\ reminder.at = "waiting" /\ reminder.question = session.askedAt
  <2> SUFFICES ASSUME exists
        PROVE  StepFits(session) /\ session.asked = shown
                 /\ reminder.at = "waiting" /\ reminder.question = session.askedAt
    OBVIOUS
  <2>1. PICK step \in Starts \ {"none"} : session = Begun(step) BY DEF Init
  <2>2. Begun(step).step = step BY NothingType DEF Begun, Fresh
  <2>3. StepFits(session)
    BY <2>1, <2>2, StartsAssumption DEF StepFits, QuestionSteps
  <2> QED BY <2>3 DEF Init, NoReminder
<1>6. Shows /\ Armed BY <1>5 DEF Shows, Armed, Waiting
<1>7. Remembers
  BY <1>1, <1>2, <1>6, FreeType DEF Remembers, Keeps, Init, NoReminder, Sent, JobKeeps
<1> QED BY <1>3, <1>4, <1>5, <1>7 DEF OrderInv

LEMMA RetryFits ==
  ASSUME NEW s \in SessionType, NEW step \in Steps, NEW plan \in Retry(s, step)
  PROVE  /\ plan.step = step \/ (plan.step = "ask_schedule" /\ step = "ask_call_slot")
         /\ plan.status = "active" /\ plan.slot = None
         /\ plan.length > 0 => plan.expects /\ plan.asks # "none"
         /\ plan.length = 0 /\ plan.expects => plan.asks = "none"
<1>1. CASE Exhausted(s)
  <2>1. plan = Noop(step) BY <1>1 DEF Retry
  <2> QED BY <2>1 DEF Noop, NoPlan
<1>2. CASE ~Exhausted(s) /\ step = "ask_call_slot"
  <2>1. PICK f \in AskCallSlot(1) : plan = [[f EXCEPT !.length = 2] EXCEPT !.retry = TRUE]
    BY <1>2 DEF Retry
  <2>2. f = Ask("ask_call_slot", "slot", 1) \/ f = Ask("ask_schedule", "period", 1)
    BY DEF AskCallSlot, AskSchedule
  <2>3. /\ f \in PlanType /\ f.step \in {"ask_call_slot", "ask_schedule"}
        /\ f.status = "active" /\ f.slot = None /\ f.expects /\ f.asks # "none"
    <3>1. f \in PlanType BY <2>2, AskType DEF Steps, QuestionSteps, Kinds
    <3> QED BY <2>2, <3>1 DEF Ask, Noop, NoPlan
  <2> QED BY <1>2, <2>1, <2>3 DEF PlanType
<1>3. CASE ~Exhausted(s) /\ step = "ask_project"
  <2>1. plan = [Ask(step, "project", 2) EXCEPT !.retry = TRUE]
    BY <1>3 DEF Retry
  <2> QED BY <2>1 DEF Ask, Noop, NoPlan
<1>4. CASE ~Exhausted(s) /\ step \notin {"ask_call_slot", "ask_project"}
  <2> DEFINE n == IF s.asked = "none" THEN 0 ELSE 2
  <2>1. plan = [Ask(step, s.asked, n) EXCEPT !.retry = TRUE]
    BY <1>4 DEF Retry
  <2> QED BY <2>1 DEF Ask, Noop, NoPlan
<1> QED BY <1>1, <1>2, <1>3, <1>4

LEMMA AskFits ==
  ASSUME NEW s, NEW step \in QuestionSteps, NEW kind \in Kinds \ {"none"}, NEW n \in Nat \ {0}
  PROVE  PlanFits(s, Ask(step, kind, n))
<1>1. /\ Ask(step, kind, n).step = step /\ Ask(step, kind, n).asks = kind
      /\ Ask(step, kind, n).length = n /\ Ask(step, kind, n).expects
      /\ Ask(step, kind, n).slot = None
  BY DEF Ask, Noop, NoPlan
<1> QED BY <1>1 DEF PlanFits, QuestionSteps

LEMMA HandleFits ==
  ASSUME NEW s \in SessionType, StepFits(s), NEW m \in Message,
         NEW plan \in Handle(s, EffectiveStep(s, m), m)
  PROVE  PlanFits(s, plan)
<1> DEFINE step == EffectiveStep(s, m)
           option == Selected(s, m)
<1>0. step \in Steps /\ plan \in Handle(s, step, m) BY EffectiveStepType
<1>1. step \in QuestionSteps \/ step = s.step
  BY DEF EffectiveStep, SessionType
<1>2. /\ "project" \in Kinds \ {"none"} /\ "period" \in Kinds \ {"none"}
      /\ "lot" \in Kinds \ {"none"} /\ "payment" \in Kinds \ {"none"}
      /\ "slot" \in Kinds \ {"none"}
  BY DEF Kinds
<1>3. ASSUME NEW t \in ProjectIntro PROVE PlanFits(s, t)
  BY <1>2, AskFits, LengthAssumption DEF ProjectIntro, QuestionSteps
<1>4. PlanFits(s, AskProject) BY <1>2, AskFits DEF AskProject, QuestionSteps
<1>5. PlanFits(s, AskSchedule) BY <1>2, AskFits DEF AskSchedule, QuestionSteps
<1>6. ASSUME NEW n \in Nat \ {0}, NEW t \in AskCallSlot(n) PROVE PlanFits(s, t)
  BY <1>2, <1>5, AskFits DEF AskCallSlot, QuestionSteps
<1>7. ASSUME NEW slot \in Slots PROVE PlanFits(s, Confirmation(slot))
  <2>1. /\ Confirmation(slot).length = 2 /\ ~Confirmation(slot).expects
        /\ Confirmation(slot).status = "scheduled" /\ Confirmation(slot).step = "scheduled"
    BY DEF Confirmation, Noop, NoPlan
  <2> QED BY <2>1 DEF PlanFits
<1>8. PlanFits(s, Declined)
  <2>1. /\ Declined.length = 1 /\ ~Declined.expects
        /\ Declined.status = "disqualified" /\ Declined.step = "closed"
    BY DEF Declined, Noop, NoPlan
  <2> QED BY <2>1 DEF PlanFits
<1>9. ASSUME NEW t \in PlanType, PlanFits(s, t), NEW event PROVE PlanFits(s, Scores(t, event))
  BY <1>9 DEF PlanFits, Scores, PlanType
<1>10. ASSUME NEW t \in Retry(s, step), step # "initial" PROVE PlanFits(s, t)
  <2>1. /\ t.step = step \/ t.step = "ask_schedule"
        /\ t.status = "active" /\ t.slot = None
        /\ t.length > 0 => t.expects /\ t.asks # "none"
        /\ t.length = 0 /\ t.expects => t.asks = "none"
    BY <1>0, RetryFits
  <2>2. t.step \in {"scheduled", "closed", "reminder_sent", "initial"} => t.step = s.step
    BY <1>1, <1>10, <2>1 DEF QuestionSteps
  <2> QED BY <1>10, <2>1, <2>2 DEF PlanFits, StepFits
<1>11. CASE step = "initial" BY <1>0, <1>3, <1>4, <1>11 DEF Handle
<1>12. CASE step = "ask_project" BY <1>0, <1>3, <1>5, <1>10, <1>12 DEF Handle
<1>13. CASE step = "ask_lot_range"
  <2>1. PlanFits(s, Scores(Ask("ask_payment", "payment", 1), "lot_range"))
    BY <1>2, <1>9, AskFits, AskType DEF Steps, QuestionSteps
  <2> QED BY <1>0, <1>10, <1>13, <2>1 DEF Handle
<1>14. CASE step = "ask_payment"
  <2>1. AskSchedule \in PlanType BY <1>2, AskType DEF AskSchedule, Steps, QuestionSteps
  <2>2. PlanFits(s, Scores(AskSchedule, "payment")) BY <1>5, <1>9, <2>1
  <2> QED BY <1>0, <1>10, <1>14, <2>2 DEF Handle
<1>15. CASE step = "ask_schedule" BY <1>0, <1>6, <1>10, <1>15 DEF Handle
<1>16. CASE step = "ask_call_slot" BY <1>0, <1>6, <1>7, <1>10, <1>16 DEF Handle
<1>17. CASE step = "reminder_sent" BY <1>0, <1>5, <1>8, <1>10, <1>17 DEF Handle
<1>18. CASE step \in {"scheduled", "closed"}
  <2>1. plan = Noop(step) BY <1>0, <1>18 DEF Handle
  <2>2. /\ plan.length = 0 /\ ~plan.expects /\ plan.slot = None /\ plan.step = step
    BY <2>1 DEF Noop, NoPlan
  <2>3. s.status # "active" BY <1>1, <1>18 DEF StepFits, QuestionSteps
  <2> QED BY <1>18, <2>2, <2>3 DEF PlanFits
<1> QED
  BY <1>0, <1>11, <1>12, <1>13, <1>14, <1>15, <1>16, <1>17, <1>18 DEF Steps, QuestionSteps

\* Nothing else is under way while a handler answers.
LEMMA EngagedAlone ==
  ASSUME OneAtATime, NEW p \in Handlers, Engaged(p)
  PROVE  Unheard = {} /\ Resting /\ \A q \in Handlers : Engaged(q) => q = p
  BY DEF OneAtATime

\* The handler that answers moves on, or is done.
LEMMA EngagedMoves ==
  ASSUME Inv, OneAtATime, Traced, NEW p \in Handlers, Engaged(p),
         NEW h \in HandlerType, h.at # "log", inbound' = [inbound EXCEPT ![p] = h],
         h.at # "idle" => h.m = inbound[p].m /\ h.snap = session',
         UNCHANGED <<logged, said, deliveries, admin, exists>>
  PROVE  /\ Traced' /\ Unheard' = {}
         /\ \A q \in Handlers : Engaged(q)' => q = p /\ h.at # "idle"
<1> USE DEF Inv, TypeInv, TypeOK
<1>1. \A q \in Handlers : inbound'[q] = IF q = p THEN h ELSE inbound[q]
  OBVIOUS
<1>2. Unheard = {} /\ \A q \in Handlers : Engaged(q) => q = p BY EngagedAlone
<1>3. Unheard' = {} BY <1>2 DEF Unheard
<1>4. \A q \in Handlers : Engaged(q)' => q = p /\ h.at # "idle"
  BY <1>1, <1>2 DEF Engaged
<1>5. exists /\ inbound[p].at # "idle" /\ inbound[p].at # "log"
  BY DEF Traced, Engaged
<1>6. ASSUME NEW m \in Messages, deliveries'[m] > 0, logged'[m] = 0
      PROVE  \E q \in Handlers : inbound'[q].at = "log" /\ inbound'[q].m = m
  <2>1. PICK q \in Handlers : inbound[q].at = "log" /\ inbound[q].m = m
    BY <1>6 DEF Traced
  <2> QED BY <1>1, <1>5, <2>1
<1>7. ASSUME NEW q \in Handlers, inbound'[q].at # "idle" PROVE said'[inbound'[q].m] # None
  BY <1>1, <1>5, <1>7 DEF Traced
<1>8. ASSUME NEW q \in Handlers,
             Engaged(q)' \/ (inbound'[q].at = "log" /\ logged'[inbound'[q].m] = 0)
      PROVE  exists' /\ inbound'[q].snap = session'
  <2>1. CASE q = p BY <1>1, <1>5, <1>8, <2>1 DEF Engaged
  <2>2. CASE q # p
    <3>1. inbound[q].at = "log" /\ logged[inbound[q].m] = 0
      BY <1>1, <1>2, <1>8, <2>2 DEF Engaged
    <3>2. inbound[q].m \in Messages BY <3>1 DEF HandlersFit, HandlerFits
    <3>3. inbound[q].m \in Unheard BY <3>1, <3>2 DEF Unheard, Traced
    <3> QED BY <1>2, <3>3
  <2> QED BY <2>1, <2>2
<1>9. Traced' BY <1>5, <1>6, <1>7, <1>8 DEF Traced
<1> QED BY <1>3, <1>4, <1>9

\* Then everything else is as it was, or is at rest.
LEMMA RestingOrder ==
  ASSUME Unheard' = {}, Resting', NEW p \in Handlers,
         \A q \in Handlers : Engaged(q)' => q = p
  PROVE  OneAtATime'
  BY DEF OneAtATime, Resting

\* While all rests, no sequence and no job has anything to remember.
LEMMA RestingRemembers ==
  ASSUME Resting', NEW p \in Handlers, \A q \in Handlers : Engaged(q)' => q = p,
         Keeps(p)', ~Engaged(p)' => Shows' /\ Armed'
  PROVE  Remembers'
<1>1. ASSUME NEW q \in Handlers PROVE Keeps(q)'
  BY <1>1 DEF Keeps, Engaged
<1> QED BY <1>1 DEF Remembers, Resting, Sent, JobKeeps

LEMMA CancelKeeps ==
  ASSUME Inv, OrderInv, NEW p \in Handlers, CancelReminder(p)
  PROVE  OrderInv'
<1> DEFINE h == [inbound[p] EXCEPT !.at = "decide"]
<1>1. Engaged(p) BY DEF CancelReminder, Engaged
<1>2. Resting /\ exists /\ inbound[p].snap = session
  BY <1>1, EngagedAlone DEF OrderInv, Traced
<1>3. h \in HandlerType /\ h.at = "decide" /\ h.m = inbound[p].m /\ h.snap = session
  BY <1>2 DEF Inv, TypeInv, TypeOK, HandlerType
<1>4. inbound' = [inbound EXCEPT ![p] = h] /\ inbound'[p] = h
  BY DEF CancelReminder, Move, Inv, TypeInv, TypeOK
<1>5. /\ Traced' /\ Unheard' = {}
      /\ \A q \in Handlers : Engaged(q)' => q = p
  BY <1>1, <1>3, <1>4, EngagedMoves DEF OrderInv, CancelReminder, store
<1>6. Resting' BY <1>2 DEF Resting, CancelReminder, Cancelled, NoReminder
<1>7. OneAtATime' BY <1>5, <1>6, RestingOrder
<1>8. Shows
  BY DEF OrderInv, Remembers, Keeps, CancelReminder
<1>9. Keeps(p)' /\ Engaged(p)'
  BY <1>3, <1>4, <1>8 DEF Keeps, Engaged, Shows, Waiting, CancelReminder, store, told
<1>10. Remembers' BY <1>5, <1>6, <1>9, RestingRemembers
<1> QED BY <1>2, <1>5, <1>7, <1>10 DEF OrderInv, CancelReminder, store, StepFits

LEMMA DecideKeeps ==
  ASSUME Inv, OrderInv, NEW p \in Handlers, Decide(p)
  PROVE  OrderInv'
<1> DEFINE s == inbound[p].snap
           m == said[inbound[p].m]
<1>1. Engaged(p) BY DEF Decide, Engaged
<1>2. Resting /\ exists /\ s = session
  BY <1>1, EngagedAlone DEF OrderInv, Traced
<1>3. PICK plan \in Handle(s, EffectiveStep(s, m), m) :
        inbound' = [inbound EXCEPT ![p].at = "apply", ![p].plan = plan]
  BY DEF Decide
<1>4. s \in SessionType /\ m \in Message
  BY <1>1 DEF Engaged, Inv, TypeInv, TypeOK, HandlerType, HandlersFit, HandlerFits
<1>5. PlanFits(session, plan) /\ plan \in PlanType
  BY <1>2, <1>4, EffectiveStepType, HandleFits, HandleAllowed DEF OrderInv, Allowed
<1> DEFINE h == [inbound[p] EXCEPT !.at = "apply", !.plan = plan]
<1>6. /\ h \in HandlerType /\ h.at = "apply" /\ h.m = inbound[p].m
      /\ h.snap = session /\ h.plan = plan
  BY <1>2, <1>5, ZenonT(60) DEF Inv, TypeInv, TypeOK, HandlerType
<1>7. inbound' = [inbound EXCEPT ![p] = h] /\ inbound'[p] = h
  BY <1>3 DEF Inv, TypeInv, TypeOK
<1>8. UNCHANGED <<session, exists, logged, said, deliveries, admin, queues, told>>
  BY DEF Decide
<1> HIDE DEF s, m, h
<1>9. /\ Traced' /\ Unheard' = {}
      /\ \A q \in Handlers : Engaged(q)' => q = p
  BY <1>1, <1>6, <1>7, <1>8, EngagedMoves DEF OrderInv
<1>10. Resting' BY <1>2, <1>8 DEF Resting, queues
<1>11. OneAtATime' BY <1>9, <1>10, RestingOrder
<1>12. Shows
  BY DEF OrderInv, Remembers, Keeps, Decide
<1>13. Keeps(p)' /\ Engaged(p)'
  BY <1>5, <1>6, <1>7, <1>8, <1>12 DEF Keeps, Engaged, Shows, Waiting, told
<1>14. Remembers' BY <1>9, <1>10, <1>13, RestingRemembers
<1> QED BY <1>2, <1>8, <1>9, <1>11, <1>14 DEF OrderInv, StepFits

LEMMA AdvancedFits ==
  ASSUME NEW s \in SessionType, NEW plan \in PlanType, StepFits(s), PlanFits(s, plan)
  PROVE  /\ StepFits(Advanced(s, plan))
         /\ plan.status # "active" => Advanced(s, plan).status # "active"
         /\ plan.length = 0 =>
              /\ Advanced(s, plan).asked = s.asked
              /\ Advanced(s, plan).askedAt = s.askedAt
              /\ Advanced(s, plan).status = "active" => s.status = "active"
         /\ plan.length > 0 /\ plan.expects => Advanced(s, plan).asked = plan.asks
<1> DEFINE question == plan.expects /\ plan.asks # "none"
           d == Advanced(s, plan)
<1>1. /\ d.step = plan.step
      /\ d.status = IF plan.status = "active" THEN s.status ELSE plan.status
      /\ d.reminded = s.reminded
      /\ d.askedAt = IF question THEN s.version + 1 ELSE s.askedAt
      /\ d.asked = IF question THEN plan.asks
                   ELSE IF ~plan.expects /\ plan.length > 0 THEN "none" ELSE s.asked
  BY DEF Advanced, SessionType
<1>2. plan.length \in Nat BY DEF PlanType
<1> HIDE DEF d
<1>3. StepFits(d) BY <1>1 DEF StepFits, PlanFits
<1>4. plan.length = 0 => d.asked = s.asked /\ d.askedAt = s.askedAt
  BY <1>1 DEF PlanFits
<1>5. plan.length > 0 /\ plan.expects => d.asked = plan.asks
  BY <1>1 DEF PlanFits
<1> QED BY <1>1, <1>3, <1>4, <1>5 DEF d

LEMMA ApplyKeeps ==
  ASSUME Inv, OrderInv, NEW p \in Handlers, Apply(p)
  PROVE  OrderInv'
<1> DEFINE plan == inbound[p].plan
<1>1. Engaged(p) /\ inbound[p].at = "apply" BY DEF Apply, Engaged
<1>2. Resting /\ exists /\ inbound[p].snap = session
  BY <1>1, EngagedAlone DEF OrderInv, Traced
<1>3. Current(inbound[p].snap) BY <1>2 DEF Current, Live
<1>4. /\ session' = Advanced(session, plan)
      /\ inbound' = [inbound EXCEPT ![p].at = AfterApply(plan), ![p].snap = session']
  BY <1>2, <1>3 DEF Apply
<1>5. UNCHANGED <<exists, logged, said, deliveries, admin, queues, shown>>
  BY DEF Apply
<1>6. session \in SessionType /\ plan \in PlanType /\ PlanFits(session, plan) /\ StepFits(session)
  BY <1>1, <1>2 DEF Inv, TypeInv, TypeOK, HandlerType, OrderInv, Remembers, Keeps
<1>7. session' \in SessionType
  <2>1. plan.retry => session.retries < MAX_QUESTION_RETRIES
    BY <1>1, <1>2 DEF Inv, TypeInv, HandlersFit, HandlerFits, Allowed
  <2> QED BY <1>4, <1>6, <2>1, AdvancedType
<1> DEFINE h == [inbound[p] EXCEPT !.at = AfterApply(plan), !.snap = session']
<1>8. AfterApply(plan) = IF plan.slot # None THEN "qualify" ELSE "dispatch"
  BY DEF AfterApply
<1>9. /\ h \in HandlerType /\ h.at = AfterApply(plan) /\ h.m = inbound[p].m
      /\ h.snap = session' /\ h.plan = plan
  <2>1. inbound[p] \in HandlerType BY DEF Inv, TypeInv, TypeOK
  <2>2. AfterApply(plan) \in {"qualify", "dispatch"} BY <1>8
  <2> QED BY <1>7, <2>1, <2>2 DEF HandlerType
<1>10. inbound' = [inbound EXCEPT ![p] = h] /\ inbound'[p] = h
  BY <1>4 DEF Inv, TypeInv, TypeOK
<1>11. Shows BY <1>1 DEF OrderInv, Remembers, Keeps
<1> HIDE DEF plan, h
<1>12. /\ Traced' /\ Unheard' = {}
       /\ \A q \in Handlers : Engaged(q)' => q = p
  BY <1>1, <1>5, <1>8, <1>9, <1>10, EngagedMoves DEF OrderInv
<1>13. Resting' BY <1>2, <1>5 DEF Resting, queues
<1>14. OneAtATime' BY <1>12, <1>13, RestingOrder
<1>15. /\ plan.status # "active" => session'.status # "active"
       /\ plan.length = 0 =>
            /\ session'.asked = session.asked /\ session'.askedAt = session.askedAt
            /\ session'.status = "active" => session.status = "active"
       /\ plan.length > 0 /\ plan.expects => session'.asked = plan.asks
       /\ StepFits(session')
  BY <1>4, <1>6, AdvancedFits
<1>16. plan.length \in Nat BY <1>6 DEF PlanType
<1>17. Engaged(p)' BY <1>8, <1>9, <1>10 DEF Engaged
<1>18. Keeps(p)'
  <2>1. CASE h.at = "qualify"
    <3>1. session'.status # "active" BY <1>6, <1>8, <1>9, <1>15, <2>1 DEF PlanFits
    <3> QED BY <1>10, <2>1, <3>1 DEF Keeps, Waiting
  <2>2. CASE h.at = "dispatch"
    <3> SUFFICES ASSUME Waiting'
                 PROVE  IF plan.length > 0
                        THEN plan.expects /\ plan.asks # "none" /\ plan.asks = session'.asked
                        ELSE shown' = session'.asked
      BY <1>9, <1>10, <2>2 DEF Keeps
    <3>1. session'.status = "active" /\ session'.askedAt # 0 /\ plan.status = "active"
      BY <1>15 DEF Waiting
    <3>2. CASE plan.length > 0 BY <1>6, <1>15, <3>1, <3>2 DEF PlanFits
    <3>3. CASE plan.length = 0
      BY <1>2, <1>5, <1>11, <1>15, <3>1, <3>3 DEF Shows, Waiting
    <3> QED BY <1>16, <3>2, <3>3
  <2> QED BY <1>8, <1>9, <2>1, <2>2
<1>19. Remembers' BY <1>12, <1>13, <1>17, <1>18, RestingRemembers
<1> QED BY <1>12, <1>14, <1>15, <1>19 DEF OrderInv

LEMMA QualifyKeeps ==
  ASSUME Inv, OrderInv, NEW p \in Handlers, Qualify(p)
  PROVE  OrderInv'
<1> DEFINE h == [inbound[p] EXCEPT !.at = "dispatch"]
<1>1. Engaged(p) BY DEF Qualify, Engaged
<1>2. Resting /\ exists /\ inbound[p].snap = session
  BY <1>1, EngagedAlone DEF OrderInv, Traced
<1>3. h \in HandlerType /\ h.at = "dispatch" /\ h.m = inbound[p].m /\ h.snap = session
  BY <1>2 DEF Inv, TypeInv, TypeOK, HandlerType
<1>4. inbound' = [inbound EXCEPT ![p] = h] /\ inbound'[p] = h
  BY DEF Qualify, Move, Inv, TypeInv, TypeOK
<1>5. UNCHANGED <<session, exists, logged, said, deliveries, admin, queues, told>>
  BY DEF Qualify
<1>6. ~Waiting BY DEF Qualify, OrderInv, Remembers, Keeps
<1> HIDE DEF h
<1>7. /\ Traced' /\ Unheard' = {}
      /\ \A q \in Handlers : Engaged(q)' => q = p
  BY <1>1, <1>3, <1>4, <1>5, EngagedMoves DEF OrderInv
<1>8. Resting' BY <1>2, <1>5 DEF Resting, queues
<1>9. OneAtATime' BY <1>7, <1>8, RestingOrder
<1>10. Keeps(p)' /\ Engaged(p)'
  BY <1>3, <1>4, <1>5, <1>6 DEF Keeps, Engaged, Waiting
<1>11. Remembers' BY <1>7, <1>8, <1>10, RestingRemembers
<1> QED BY <1>2, <1>5, <1>7, <1>9, <1>11 DEF OrderInv, StepFits

\* A handler that is done with its message.
LEMMA FreeMoves ==
  ASSUME Inv, OneAtATime, Traced, NEW p \in Handlers, Engaged(p), Finish(p),
         UNCHANGED <<session, logged, said, deliveries, admin, exists>>
  PROVE  /\ Traced' /\ Unheard' = {}
         /\ \A q \in Handlers : ~Engaged(q)' /\ Keeps(q)'
<1>1. Free \in HandlerType /\ Free.at = "idle" BY FreeType
<1>2. inbound' = [inbound EXCEPT ![p] = Free] BY DEF Finish
<1>3. /\ Traced' /\ Unheard' = {} /\ \A q \in Handlers : ~Engaged(q)'
  BY <1>1, <1>2, EngagedMoves
<1> QED BY <1>3 DEF Keeps, Engaged

LEMMA DispatchKeeps ==
  ASSUME Inv, OrderInv, NEW p \in Handlers, Dispatch(p)
  PROVE  OrderInv'
<1> DEFINE plan == inbound[p].plan
           s == inbound[p].snap
<1>1. Engaged(p) /\ inbound[p].at = "dispatch" BY DEF Dispatch, Engaged
<1>2. Resting /\ exists /\ s = session
  BY <1>1, EngagedAlone DEF OrderInv, Traced
<1>3. UNCHANGED <<session, exists, logged, said, deliveries, admin, sender, told>>
  BY DEF Dispatch, store
<1>4. session \in SessionType /\ plan \in PlanType /\ plan.length \in Nat
  BY DEF Inv, TypeInv, TypeOK, HandlerType, PlanType
<1>5. /\ Waiting /\ plan.length > 0 =>
           plan.expects /\ plan.asks # "none" /\ plan.asks = session.asked
      /\ Waiting /\ plan.length = 0 => shown = session.asked
  BY <1>1, <1>4 DEF OrderInv, Remembers, Keeps
<1>6. StepFits(session') /\ exists' BY <1>2, <1>3 DEF OrderInv
<1>7. CASE plan.length > 0
  <2> DEFINE c == [sid |-> session.id, left |-> plan.length,
                   question |-> IF plan.expects THEN session.askedAt ELSE 0,
                   asks |-> plan.asks]
  <2>1. chains' = {c} /\ Finish(p) /\ reminder' = reminder
    BY <1>2, <1>7 DEF Dispatch, Resting
  <2>2. /\ Traced' /\ Unheard' = {}
        /\ \A q \in Handlers : ~Engaged(q)' /\ Keeps(q)'
    BY <1>1, <1>3, <2>1, FreeMoves DEF OrderInv
  <2>3. \A d \in chains' : Bears(d)'
    <3> SUFFICES ASSUME NEW d \in chains' PROVE Bears(d)'
      OBVIOUS
    <3>1. /\ d.sid = session.id /\ d.left = plan.length /\ d.asks = plan.asks
          /\ plan.expects => d.question = session.askedAt
      BY <2>1
    <3> QED BY <1>3, <1>5, <1>6, <1>7, <3>1 DEF Bears, Waiting, told
  <2>4. sender'.at = "idle" /\ reminder'.at \in {"none", "waiting"}
    BY <1>2, <1>3, <2>1 DEF Resting
  <2> HIDE DEF c
  <2>5. OneAtATime' BY <2>1, <2>2, <2>4 DEF OneAtATime
  <2>6. chains' # {} /\ \A d, e \in chains' : d = e BY <2>1
  <2>7. Remembers' BY <2>2, <2>3, <2>4, <2>6 DEF Remembers, Resting, Sent, JobKeeps
  <2> QED BY <1>6, <2>2, <2>5, <2>7 DEF OrderInv
<1>8. CASE plan.length = 0 /\ NeedsReminder(s)
  <2> DEFINE h == [inbound[p] EXCEPT !.at = "rearm"]
  <2>1. reminder' = Cancelled(session.id) /\ Move(p, "rearm") /\ chains' = chains
    BY <1>2, <1>8 DEF Dispatch
  <2>2. h \in HandlerType /\ h.at = "rearm" /\ h.m = inbound[p].m /\ h.snap = session
    BY <1>2 DEF Inv, TypeInv, TypeOK, HandlerType
  <2>3. inbound' = [inbound EXCEPT ![p] = h] /\ inbound'[p] = h
    BY <2>1 DEF Move, Inv, TypeInv, TypeOK
  <2> HIDE DEF h
  <2>4. /\ Traced' /\ Unheard' = {}
        /\ \A q \in Handlers : Engaged(q)' => q = p
    BY <1>1, <1>3, <2>2, <2>3, EngagedMoves DEF OrderInv
  <2>5. Resting' /\ reminder'.at = "none"
    BY <1>2, <1>3, <2>1 DEF Resting, Cancelled, NoReminder
  <2>6. OneAtATime' BY <2>4, <2>5, RestingOrder
  <2>7. Keeps(p)' /\ Engaged(p)'
    BY <1>3, <1>5, <1>8, <2>2, <2>3, <2>5 DEF Keeps, Engaged, Shows, Waiting, told
  <2>8. Remembers' BY <2>4, <2>5, <2>7, RestingRemembers
  <2> QED BY <1>6, <2>4, <2>6, <2>8 DEF OrderInv
<1>9. CASE plan.length = 0 /\ ~NeedsReminder(s)
  <2>1. chains' = chains /\ Finish(p) /\ reminder' = reminder
    BY <1>9 DEF Dispatch
  <2>2. /\ Traced' /\ Unheard' = {}
        /\ \A q \in Handlers : ~Engaged(q)' /\ Keeps(q)'
    BY <1>1, <1>3, <2>1, FreeMoves DEF OrderInv
  <2>3. Resting' BY <1>2, <1>3, <2>1 DEF Resting
  <2>4. OneAtATime' BY <2>2, <2>3, RestingOrder
  <2>5. Shows' /\ Armed'
    BY <1>2, <1>3, <1>5, <1>9 DEF Shows, Armed, Waiting, NeedsReminder, told
  <2>6. Remembers' BY <2>2, <2>3, <2>5, RestingRemembers
  <2> QED BY <1>6, <2>2, <2>4, <2>6 DEF OrderInv
<1> QED BY <1>4, <1>7, <1>8, <1>9

LEMMA RearmKeeps ==
  ASSUME Inv, OrderInv, NEW p \in Handlers, Rearm(p)
  PROVE  OrderInv'
<1>1. Engaged(p) /\ inbound[p].at = "rearm" BY DEF Rearm, Engaged
<1>2. Resting /\ exists /\ inbound[p].snap = session
  BY <1>1, EngagedAlone DEF OrderInv, Traced
<1>3. UNCHANGED <<session, exists, logged, said, deliveries, admin, chains, sender, shown>>
  BY DEF Rearm, store
<1>4. Shows /\ reminder.at = "none" BY <1>1 DEF OrderInv, Remembers, Keeps
<1>5. reminder'.at = "waiting" /\ reminder'.question = session.askedAt
  BY <1>2, <1>4 DEF Rearm, Add, Live
<1>6. /\ Traced' /\ Unheard' = {}
      /\ \A q \in Handlers : ~Engaged(q)' /\ Keeps(q)'
  BY <1>1, <1>3, FreeMoves DEF OrderInv, Rearm
<1>7. Resting' BY <1>2, <1>3, <1>5 DEF Resting
<1>8. OneAtATime' BY <1>6, <1>7, RestingOrder
<1>9. Shows' /\ Armed' BY <1>3, <1>4, <1>5 DEF Shows, Armed, Waiting
<1>10. Remembers' BY <1>6, <1>7, <1>9, RestingRemembers
<1> QED BY <1>2, <1>3, <1>6, <1>8, <1>10 DEF OrderInv, StepFits

LEMMA LogKeeps ==
  ASSUME Inv, OrderInv, NEW p \in Handlers, LogMessage(p)
  PROVE  OrderInv'
<1> USE DEF Inv, TypeInv, TypeOK
<1> DEFINE m == inbound[p].m
<1>1. inbound[p].at = "log" /\ m \in Messages /\ said[m] # None
  BY DEF LogMessage, HandlersFit, HandlerFits, OrderInv, Traced
<1>2. UNCHANGED <<session, exists, said, deliveries, admin, queues, told>>
  BY DEF LogMessage
<1>3. CASE logged[m] = 0
  <2> DEFINE h == [inbound[p] EXCEPT !.at = "cancel"]
  <2>1. m \in Unheard BY <1>1, <1>3 DEF Unheard
  <2>2. /\ Resting /\ Shows /\ \A q \in Handlers : ~Engaged(q)
        /\ \A n \in Unheard : n = m
    BY <2>1 DEF OrderInv, OneAtATime, Remembers
  <2>3. exists /\ inbound[p].snap = session BY <1>1, <1>3 DEF OrderInv, Traced
  <2>4. session.id \in Nat /\ session.id # 0
    <3>1. session.id \in Nat BY DEF SessionType
    <3> QED BY <2>3, <3>1 DEF Snapshots
  <2>5. logged' = [logged EXCEPT ![m] = session.id] /\ Move(p, "cancel")
    BY <1>3, <2>3 DEF LogMessage
  <2>6. h \in HandlerType /\ h.at = "cancel" /\ h.m = m /\ h.snap = session
    BY <2>3 DEF HandlerType
  <2>7. \A q \in Handlers : inbound'[q] = IF q = p THEN h ELSE inbound[q]
    BY <2>5 DEF Move
  <2> HIDE DEF h
  <2>8. Unheard' = {} /\ logged'[m] # 0 /\ \A n \in Messages : n # m => logged'[n] = logged[n]
    BY <1>1, <1>2, <2>2, <2>4, <2>5 DEF Unheard
  <2>9. \A q \in Handlers : Engaged(q)' => q = p
    BY <2>2, <2>7 DEF Engaged
  <2>10. Traced'
    <3>1. ASSUME NEW n \in Messages, deliveries'[n] > 0, logged'[n] = 0
          PROVE  \E q \in Handlers : inbound'[q].at = "log" /\ inbound'[q].m = n
      <4>1. PICK q \in Handlers : inbound[q].at = "log" /\ inbound[q].m = n
        BY <1>2, <2>8, <3>1 DEF OrderInv, Traced
      <4> QED BY <2>7, <2>8, <3>1, <4>1
    <3>2. ASSUME NEW q \in Handlers, inbound'[q].at # "idle" PROVE said'[inbound'[q].m] # None
      BY <1>1, <1>2, <2>6, <2>7, <3>2 DEF OrderInv, Traced
    <3>3. ASSUME NEW q \in Handlers,
                 Engaged(q)' \/ (inbound'[q].at = "log" /\ logged'[inbound'[q].m] = 0)
          PROVE  exists' /\ inbound'[q].snap = session'
      <4>1. CASE q = p BY <1>2, <2>3, <2>6, <2>7, <4>1
      <4>2. CASE q # p
        <5>1. inbound[q].at = "log" /\ logged'[inbound[q].m] = 0
          BY <2>7, <2>9, <3>3, <4>2
        <5>2. inbound[q].m \in Messages BY <5>1 DEF HandlersFit, HandlerFits
        <5>3. logged[inbound[q].m] = 0 BY <2>8, <5>1, <5>2
        <5> QED BY <1>2, <2>7, <4>2, <5>1, <5>3 DEF OrderInv, Traced
      <4> QED BY <4>1, <4>2
    <3>4. admin'.at = "idle" BY <1>2 DEF OrderInv, Traced
    <3> QED BY <3>1, <3>2, <3>3, <3>4 DEF Traced
  <2>11. Resting' BY <1>2, <2>2 DEF Resting, queues
  <2>12. OneAtATime' BY <2>8, <2>9, <2>11, RestingOrder
  <2>13. Keeps(p)' /\ Engaged(p)'
    BY <1>2, <2>2, <2>6, <2>7 DEF Keeps, Engaged, Shows, Waiting, told
  <2>14. Remembers' BY <2>9, <2>11, <2>13, RestingRemembers
  <2> QED BY <1>2, <2>3, <2>10, <2>12, <2>14 DEF OrderInv, StepFits
<1>4. CASE logged[m] # 0
  <2>1. logged' = logged /\ Finish(p) BY <1>4 DEF LogMessage
  <2>2. \A q \in Handlers : inbound'[q] = IF q = p THEN Free ELSE inbound[q]
    BY <2>1 DEF Finish
  <2>3. \A q \in Handlers : Engaged(q)' <=> Engaged(q)
    BY <1>1, <2>2, FreeType DEF Engaged
  <2>4. UNCHANGED <<Unheard, Resting, Shows, Armed, Sent, JobKeeps>>
    BY <1>2, <2>1 DEF Unheard, Resting, Shows, Armed, Sent, JobKeeps, Waiting, queues, told
  <2>5. OneAtATime'
    BY <1>2, <2>3, <2>4 DEF OrderInv, OneAtATime, queues
  <2>6. Traced'
    <3>1. ASSUME NEW n \in Messages, deliveries'[n] > 0, logged'[n] = 0
          PROVE  \E q \in Handlers : inbound'[q].at = "log" /\ inbound'[q].m = n
      <4>1. PICK q \in Handlers : inbound[q].at = "log" /\ inbound[q].m = n
        BY <1>2, <2>1, <3>1 DEF OrderInv, Traced
      <4> QED BY <1>4, <2>1, <2>2, <3>1, <4>1
    <3>2. ASSUME NEW q \in Handlers, inbound'[q].at # "idle"
          PROVE  /\ said'[inbound'[q].m] # None
                 /\ Engaged(q)' \/ (inbound'[q].at = "log" /\ logged'[inbound'[q].m] = 0) =>
                      exists' /\ inbound'[q].snap = session'
      <4>1. inbound'[q] = inbound[q] BY <2>2, <3>2, FreeType
      <4> QED BY <1>2, <2>1, <2>3, <3>2, <4>1 DEF OrderInv, Traced
    <3>3. admin'.at = "idle" BY <1>2 DEF OrderInv, Traced
    <3> QED BY <3>1, <3>2, <3>3 DEF Traced, Engaged
  <2>7. \A q \in Handlers : Keeps(q)'
    BY <1>2, <2>2, <2>4, FreeType DEF OrderInv, Remembers, Keeps, Waiting, Shows, queues, told
  <2>8. \A c \in chains : Bears(c)'
    BY <1>2 DEF OrderInv, Remembers, Bears, Waiting
  <2>9. Remembers'
    BY <1>2, <2>3, <2>4, <2>7, <2>8 DEF OrderInv, Remembers, queues
  <2> QED BY <1>2, <2>5, <2>6, <2>9 DEF OrderInv, StepFits
<1> QED BY <1>3, <1>4

\* Once nobody handles a message and none is under way, all are in the transcript.
LEMMA SilentIsHeard ==
  ASSUME Traced, Silent, NothingInTransit, Inv
  PROVE  Unheard = {} /\ \A p \in Handlers : ~Engaged(p)
<1>1. \A p \in Handlers : inbound[p].at = "idle" BY DEF Silent
<1>2. ASSUME NEW m \in Unheard PROVE FALSE
  <2>1. deliveries[m] > 0 /\ logged[m] = 0 BY <1>2 DEF Unheard, NothingInTransit
  <2> QED BY <1>1, <1>2, <2>1 DEF Traced, Unheard
<1> QED BY <1>1, <1>2 DEF Engaged

LEMMA WriteKeeps ==
  ASSUME Inv, OrderInv, Patient, NEW m \in Messages, NEW answer \in Message, Write(m, answer)
  PROVE  OrderInv'
<1> USE DEF Inv, TypeInv, TypeOK
<1>1. Silent /\ NothingInTransit /\ reminder.at \notin {"active", "marked"} BY DEF Write
<1>2. Unheard = {} /\ \A p \in Handlers : ~Engaged(p) /\ inbound[p].at = "idle"
  BY <1>1, SilentIsHeard DEF OrderInv, Silent
<1>3. Resting BY <1>1 DEF Silent, Resting
<1>4. UNCHANGED <<store, deliveries, inbound, queues, admin, told>> BY DEF Write
<1>5. \A n \in Unheard' : n = m BY <1>2, <1>4 DEF Unheard, Write, store
<1>6. (\A p \in Handlers : ~Engaged(p)') /\ Resting'
  BY <1>2, <1>3, <1>4 DEF Engaged, Resting, queues
<1>7. OneAtATime' BY <1>5, <1>6 DEF OneAtATime, Resting
<1>8. Traced' BY <1>2, <1>4 DEF OrderInv, Traced, Engaged, store
<1>9. Shows' /\ Armed'
  BY <1>2, <1>3, <1>4 DEF OrderInv, Remembers, Shows, Armed, Waiting, store, queues, told
<1>10. Remembers'
  BY <1>2, <1>4, <1>6, <1>9 DEF Remembers, Resting, Keeps, Sent, JobKeeps
<1> QED BY <1>4, <1>7, <1>8, <1>10 DEF OrderInv, store

LEMMA DeliverKeeps ==
  ASSUME Inv, OrderInv, NEW p \in Handlers, NEW m \in Messages, Deliver(p, m)
  PROVE  OrderInv'
<1> USE DEF Inv, TypeInv, TypeOK
<1> DEFINE h == [Free EXCEPT !.at = "log", !.m = m, !.snap = session']
<1>1. inbound[p].at = "idle" /\ said[m] # None /\ exists' BY DEF Deliver
<1>2. h.at = "log" /\ h.m = m /\ h.snap = session' BY FreeType DEF HandlerType
<1>3. \A q \in Handlers : inbound'[q] = IF q = p THEN h ELSE inbound[q]
  BY DEF Deliver
<1>4. UNCHANGED <<logged, said, queues, admin, shown>> BY DEF Deliver
<1>5. \A n \in Messages : n # m => deliveries'[n] = deliveries[n] BY DEF Deliver
<1> HIDE DEF h
<1>6. \A q \in Handlers : Engaged(q)' <=> Engaged(q)
  BY <1>1, <1>2, <1>3 DEF Engaged
<1>7. OneAtATime'
  BY <1>4, <1>6 DEF OrderInv, OneAtATime, Unheard, Resting, queues
<1>8. CASE exists
  <2>1. session' = session BY <1>8 DEF Deliver
  <2>2. Traced'
    <3>1. ASSUME NEW n \in Messages, deliveries'[n] > 0, logged'[n] = 0
          PROVE  \E q \in Handlers : inbound'[q].at = "log" /\ inbound'[q].m = n
      <4>1. CASE n = m BY <1>2, <1>3, <4>1
      <4>2. CASE n # m
        <5>1. PICK q \in Handlers : inbound[q].at = "log" /\ inbound[q].m = n
          BY <1>4, <1>5, <3>1, <4>2 DEF OrderInv, Traced
        <5> QED BY <1>1, <1>3, <5>1
      <4> QED BY <4>1, <4>2
    <3>2. ASSUME NEW q \in Handlers, inbound'[q].at # "idle"
          PROVE  /\ said'[inbound'[q].m] # None
                 /\ Engaged(q)' \/ (inbound'[q].at = "log" /\ logged'[inbound'[q].m] = 0) =>
                      exists' /\ inbound'[q].snap = session'
      <4>1. CASE q = p BY <1>1, <1>2, <1>3, <1>4, <4>1
      <4>2. CASE q # p
        <5>1. inbound'[q] = inbound[q] BY <1>3, <4>2
        <5> QED BY <1>4, <1>6, <1>8, <2>1, <3>2, <5>1, <1>1 DEF OrderInv, Traced
      <4> QED BY <4>1, <4>2
    <3>3. admin'.at = "idle" BY <1>4 DEF OrderInv, Traced
    <3> QED BY <3>1, <3>2, <3>3 DEF Traced, Engaged
  <2>3. UNCHANGED <<Resting, Shows, Armed, Sent, JobKeeps>>
    BY <1>1, <1>4, <1>8, <2>1 DEF Resting, Shows, Armed, Sent, JobKeeps, Waiting, queues
  <2>4. \A q \in Handlers : Keeps(q)'
    BY <1>1, <1>2, <1>3, <1>4, <1>8, <2>1, <2>3
       DEF OrderInv, Remembers, Keeps, Waiting, Shows, queues
  <2>5. \A c \in chains : Bears(c)'
    BY <1>1, <1>4, <1>8, <2>1 DEF OrderInv, Remembers, Bears, Waiting
  <2>6. Remembers'
    BY <1>4, <1>6, <2>3, <2>4, <2>5 DEF OrderInv, Remembers, queues
  <2> QED BY <1>7, <1>8, <2>1, <2>2, <2>6 DEF OrderInv
<1>9. CASE ~exists
  <2>1. session' = Fresh(session) BY <1>9 DEF Deliver
  <2>2. session'.step = "initial" /\ session'.askedAt = 0 BY <2>1 DEF Fresh
  <2>3. ~Waiting' /\ StepFits(session') BY <2>2 DEF Waiting, StepFits
  <2>4. /\ chains = {} /\ sender.at = "idle" /\ reminder.at # "marked"
        /\ \A q \in Handlers : ~Engaged(q)
                /\ (inbound[q].at = "log" => logged[inbound[q].m] # 0)
    BY <1>9 DEF OrderInv, OneAtATime, Traced, Remembers, Bears, JobKeeps
  <2>5. \A q \in Handlers : ~Engaged(q)' /\ Keeps(q)'
    BY <1>6, <2>4 DEF Engaged, Keeps
  <2>6. Traced'
    <3>1. ASSUME NEW n \in Messages, deliveries'[n] > 0, logged'[n] = 0
          PROVE  \E q \in Handlers : inbound'[q].at = "log" /\ inbound'[q].m = n
      <4>1. CASE n = m BY <1>2, <1>3, <4>1
      <4>2. CASE n # m
        <5>1. PICK q \in Handlers : inbound[q].at = "log" /\ inbound[q].m = n
          BY <1>4, <1>5, <3>1, <4>2 DEF OrderInv, Traced
        <5> QED BY <1>1, <1>3, <5>1
      <4> QED BY <4>1, <4>2
    <3>2. ASSUME NEW q \in Handlers, inbound'[q].at # "idle"
          PROVE  /\ said'[inbound'[q].m] # None
                 /\ Engaged(q)' \/ (inbound'[q].at = "log" /\ logged'[inbound'[q].m] = 0) =>
                      exists' /\ inbound'[q].snap = session'
      <4>1. CASE q = p BY <1>1, <1>2, <1>3, <1>4, <4>1
      <4>2. CASE q # p
        <5>1. inbound'[q] = inbound[q] BY <1>3, <4>2
        <5> QED BY <1>4, <2>4, <2>5, <3>2, <5>1 DEF OrderInv, Traced
      <4> QED BY <4>1, <4>2
    <3>3. admin'.at = "idle" BY <1>4 DEF OrderInv, Traced
    <3> QED BY <3>1, <3>2, <3>3 DEF Traced, Engaged
  <2>7. Remembers'
    BY <1>4, <2>3, <2>4, <2>5 DEF Remembers, Resting, Shows, Armed, Sent, JobKeeps, queues
  <2> QED BY <1>7, <2>3, <2>6, <2>7 DEF OrderInv
<1> QED BY <1>8, <1>9

\* While the bot sends or reminds, no handler answers and all is in the transcript.
LEMMA BusyBot ==
  ASSUME OrderInv, ~Resting
  PROVE  Unheard = {} /\ \A p \in Handlers : ~Engaged(p)
  BY DEF OrderInv, OneAtATime

\* What the outbound queue and the reminder job leave alone.
LEMMA BotMoves ==
  ASSUME Inv, OrderInv, \A p \in Handlers : ~Engaged(p), Unheard = {},
         UNCHANGED <<exists, logged, said, deliveries, inbound, admin>>
  PROVE  /\ Traced' /\ Unheard' = {}
         /\ \A p \in Handlers : ~Engaged(p)' /\ Keeps(p)'
<1> USE DEF Inv, TypeInv, TypeOK
<1>1. Unheard' = {} BY DEF Unheard
<1>2. \A p \in Handlers : ~Engaged(p)' /\ Keeps(p)' BY DEF Engaged, Keeps
<1>3. ASSUME NEW p \in Handlers, inbound[p].at = "log", logged[inbound[p].m] = 0
      PROVE  FALSE
  <2>1. inbound[p].m \in Unheard
    BY <1>3 DEF OrderInv, Traced, HandlersFit, HandlerFits, Unheard
  <2> QED BY <2>1
<1>4. Traced' BY <1>2, <1>3 DEF OrderInv, Traced
<1> QED BY <1>1, <1>2, <1>4

LEMMA SendKeeps ==
  ASSUME Inv, OrderInv, NEW c \in chains, SendMessage(c)
  PROVE  OrderInv'
<1>1. ~Resting /\ Bears(c) BY DEF Resting, OrderInv, Remembers
<1>2. Unheard = {} /\ \A p \in Handlers : ~Engaged(p) BY <1>1, BusyBot
<1>3. UNCHANGED <<session, exists, logged, said, deliveries, inbound, reminder, admin>>
  BY DEF SendMessage, store
<1>4. /\ Traced' /\ Unheard' = {}
      /\ \A p \in Handlers : ~Engaged(p)' /\ Keeps(p)'
  BY <1>2, <1>3, BotMoves
<1>5. /\ sender' = [at |-> "sent", chain |-> c] /\ chains' = chains
      /\ shown' = IF c.left = 1 /\ c.asks # "none" THEN c.asks ELSE shown
  BY <1>1 DEF SendMessage, Bears, Live
<1>6. OneAtATime'
  BY <1>3, <1>4, <1>5 DEF OrderInv, OneAtATime
<1>7. Sent' => Shows'
  BY <1>1, <1>3, <1>5 DEF Sent, Shows, Bears, Waiting
<1>8. \A d \in chains' : Bears(d)'
  BY <1>3, <1>5 DEF OrderInv, Remembers, Bears, Waiting
<1>9. reminder.at \notin {"active", "marked"} BY DEF OrderInv, OneAtATime
<1>10. Remembers'
  BY <1>3, <1>4, <1>5, <1>7, <1>8, <1>9 DEF Remembers, Resting, JobKeeps
<1> QED BY <1>3, <1>4, <1>6, <1>10 DEF OrderInv, StepFits

LEMMA ContinueKeeps ==
  ASSUME Inv, OrderInv, Continue \/ ArmReminder
  PROVE  OrderInv'
<1> DEFINE c == sender.chain
<1>1. /\ sender.at \in {"sent", "arm"} /\ ~Resting /\ c \in chains
      /\ \A d \in chains : d = c
  BY DEF Continue, ArmReminder, Resting, OrderInv, OneAtATime
<1>2. /\ Unheard = {} /\ \A p \in Handlers : ~Engaged(p)
      /\ reminder.at \notin {"active", "marked"}
  BY <1>1, BusyBot DEF OrderInv, OneAtATime
<1>3. Bears(c) /\ c \in ChainType
  BY <1>1 DEF OrderInv, Remembers, Inv, TypeInv, TypeOK
<1>4. UNCHANGED <<session, exists, logged, said, deliveries, inbound, admin, shown>>
  BY DEF Continue, ArmReminder, store, told
<1>5. /\ Traced' /\ Unheard' = {}
      /\ \A p \in Handlers : ~Engaged(p)' /\ Keeps(p)'
  BY <1>2, <1>4, BotMoves
<1>6. c.left \in Nat /\ c.left > 0 /\ c.sid = session.id /\ exists
  BY <1>3 DEF Bears, ChainType
<1>7. StepFits(session') /\ exists' BY <1>4, <1>6 DEF OrderInv
<1>8. reminder.at \in {"none", "waiting"} BY <1>2 DEF Inv, TypeInv, TypeOK
<1>9. CASE Continue /\ c.left > 1
  <2>1. chains' = {Rest(c)} /\ sender'.at = "idle" /\ reminder' = reminder
    BY <1>1, <1>9 DEF Continue
  <2>2. /\ Rest(c).sid = c.sid /\ Rest(c).left = c.left - 1
        /\ Rest(c).asks = c.asks /\ Rest(c).question = c.question
    BY <1>3 DEF Rest, ChainType
  <2>3. c.left - 1 > 0 BY <1>6, <1>9
  <2>4. \A d \in chains' : Bears(d)'
    <3> SUFFICES ASSUME NEW d \in chains' PROVE Bears(d)'
      OBVIOUS
    <3>1. /\ d.sid = c.sid /\ d.left = c.left - 1
          /\ d.asks = c.asks /\ d.question = c.question
      BY <2>1, <2>2
    <3> QED BY <1>3, <1>4, <1>6, <2>3, <3>1 DEF Bears, Waiting
  <2>5. chains' # {} /\ \A d, e \in chains' : d = e BY <2>1
  <2>6. OneAtATime' BY <1>2, <1>5, <2>1, <2>5 DEF OneAtATime
  <2>7. Remembers'
    BY <1>2, <1>5, <2>1, <2>4, <2>5 DEF Remembers, Resting, Sent, JobKeeps
  <2> QED BY <1>5, <1>7, <2>6, <2>7 DEF OrderInv
<1>10. CASE Continue /\ c.left = 1 /\ c.question # 0
  <2>1. /\ chains' = chains /\ sender' = [sender EXCEPT !.at = "arm"]
        /\ reminder' = Cancelled(session.id) /\ sender.at = "sent"
    BY <1>6, <1>10 DEF Continue
  <2>2. sender'.at = "arm" /\ sender'.chain = c
    BY <2>1 DEF Inv, TypeInv, TypeOK
  <2>3. reminder'.at = "none" BY <1>8, <2>1 DEF Cancelled, NoReminder
  <2>4. OneAtATime' BY <1>1, <1>5, <2>1, <2>2, <2>3 DEF OneAtATime
  <2>5. Shows BY <1>10, <2>1 DEF OrderInv, Remembers, Sent
  <2>6. Shows' BY <1>4, <2>5 DEF Shows, Waiting
  <2>7. \A d \in chains' : Bears(d)'
    BY <1>4, <2>1 DEF OrderInv, Remembers, Bears, Waiting
  <2>8. Remembers'
    BY <1>1, <1>5, <2>1, <2>2, <2>3, <2>6, <2>7 DEF Remembers, Resting, Sent, JobKeeps
  <2> QED BY <1>5, <1>7, <2>4, <2>8 DEF OrderInv
<1>11. CASE Continue /\ c.left = 1 /\ c.question = 0
  <2>1. chains' = {} /\ sender'.at = "idle" /\ reminder' = reminder /\ sender.at = "sent"
    BY <1>1, <1>6, <1>11 DEF Continue
  <2>2. Shows BY <1>11, <2>1 DEF OrderInv, Remembers, Sent
  <2>3. Waiting => session.reminded
    <3>1. Waiting => session.askedAt # 0 BY DEF Waiting
    <3> QED BY <1>3, <1>11, <3>1 DEF Bears
  <2>4. Shows' /\ Armed' BY <1>4, <2>2, <2>3 DEF Shows, Armed, Waiting
  <2>5. OneAtATime' BY <1>5, <2>1 DEF OneAtATime
  <2>6. Remembers' BY <1>2, <1>5, <2>1, <2>4 DEF Remembers, Sent, JobKeeps
  <2> QED BY <1>5, <1>7, <2>5, <2>6 DEF OrderInv
<1>12. CASE ArmReminder
  <2>1. sender.at = "arm" /\ chains' = {} /\ sender'.at = "idle"
    BY <1>1, <1>12 DEF ArmReminder
  <2>2. Shows /\ reminder.at = "none" BY <2>1 DEF OrderInv, Remembers
  <2>3. reminder'.at = "waiting" /\ reminder'.question = c.question
    BY <1>6, <1>12, <2>2 DEF ArmReminder, Add, Live
  <2>4. Shows' /\ Armed' BY <1>3, <1>4, <2>2, <2>3 DEF Shows, Armed, Waiting, Bears
  <2>5. OneAtATime' BY <1>5, <2>1, <2>3 DEF OneAtATime
  <2>6. Remembers' BY <1>5, <2>1, <2>3, <2>4 DEF Remembers, Sent, JobKeeps
  <2> QED BY <1>5, <1>7, <2>5, <2>6 DEF OrderInv
<1> QED BY <1>6, <1>9, <1>10, <1>11, <1>12 DEF Continue

LEMMA FireKeeps ==
  ASSUME Inv, OrderInv, Patient, FireReminder
  PROVE  OrderInv'
<1>1. Silent /\ NothingInTransit /\ reminder.at = "waiting" BY DEF FireReminder
<1>2. Unheard = {} /\ (\A p \in Handlers : ~Engaged(p)) /\ Resting
  BY <1>1, SilentIsHeard DEF OrderInv, Silent, Resting
<1>3. Shows /\ Armed BY <1>2 DEF OrderInv, Remembers
<1>4. UNCHANGED <<session, exists, logged, said, deliveries, inbound, admin, chains, sender,
                  shown>>
  BY DEF FireReminder, store, told
<1>5. /\ Traced' /\ Unheard' = {}
      /\ \A p \in Handlers : ~Engaged(p)' /\ Keeps(p)'
  BY <1>2, <1>4, BotMoves
<1>6. /\ reminder'.at = "active"
      /\ reminder'.seen = IF Due(reminder.question) THEN session.version ELSE 0
  BY DEF FireReminder, Inv, TypeInv, TypeOK
<1>7. chains' = {} /\ sender'.at = "idle" BY <1>2, <1>4 DEF Resting
<1>8. Waiting /\ ~session.reminded => Due(reminder.question)
  <2> SUFFICES ASSUME Waiting, ~session.reminded PROVE Due(reminder.question)
    OBVIOUS
  <2>1. session.step \in Steps BY DEF Inv, TypeInv, TypeOK, SessionType
  <2>2. session.step \in QuestionSteps
    BY <2>1 DEF Waiting, OrderInv, StepFits, Steps
  <2> QED BY <1>3, <2>2 DEF Armed, Waiting, Due
<1>9. JobKeeps' BY <1>3, <1>4, <1>6, <1>8 DEF JobKeeps, Shows, Waiting
<1>10. OneAtATime' BY <1>5, <1>7 DEF OneAtATime
<1>11. Remembers' BY <1>5, <1>6, <1>7, <1>9 DEF Remembers, Resting, Sent
<1> QED BY <1>4, <1>5, <1>10, <1>11 DEF OrderInv, StepFits

LEMMA MarkKeeps ==
  ASSUME Inv, OrderInv, MarkReminder
  PROVE  OrderInv'
<1>1. /\ reminder.at = "active" /\ ~Resting /\ chains = {} /\ sender.at = "idle"
  BY DEF MarkReminder, Resting, OrderInv, OneAtATime
<1>2. Unheard = {} /\ \A p \in Handlers : ~Engaged(p) BY <1>1, BusyBot
<1>3. UNCHANGED <<exists, logged, said, deliveries, inbound, admin, chains, sender, shown>>
  BY DEF MarkReminder, told
<1>4. /\ Traced' /\ Unheard' = {}
      /\ \A p \in Handlers : ~Engaged(p)' /\ Keeps(p)'
  BY <1>2, <1>3, BotMoves
<1>5. OneAtATime' BY <1>1, <1>3, <1>4 DEF OneAtATime
<1>6. CASE SeenCurrent
  <2>1. session' = Reminded(session) /\ reminder'.at = "marked" /\ exists
    BY <1>6 DEF MarkReminder, SeenCurrent, Inv, TypeInv, TypeOK
  <2>2. /\ session'.step = "reminder_sent" /\ session'.reminded /\ session'.asked = "reminder"
    BY <2>1 DEF Reminded, Inv, TypeInv, TypeOK, SessionType
  <2>3. StepFits(session') BY <2>2 DEF StepFits
  <2>4. Remembers'
    BY <1>1, <1>3, <1>4, <2>1, <2>2 DEF Remembers, Resting, Sent, JobKeeps
  <2> QED BY <1>4, <1>5, <2>3, <2>4 DEF OrderInv
<1>7. CASE ~SeenCurrent
  <2>1. session' = session /\ reminder'.at = "none"
    BY <1>7 DEF MarkReminder, NoReminder
  <2>2. Shows /\ (Waiting => session.reminded)
    BY <1>1, <1>7 DEF OrderInv, Remembers, JobKeeps, SeenCurrent, Waiting
  <2>3. Shows' /\ Armed' BY <1>3, <2>1, <2>2 DEF Shows, Armed, Waiting
  <2>4. Remembers' BY <1>1, <1>3, <1>4, <2>1, <2>3 DEF Remembers, Sent, JobKeeps
  <2> QED BY <1>3, <1>4, <1>5, <2>1, <2>4 DEF OrderInv, StepFits
<1> QED BY <1>6, <1>7

LEMMA SendReminderKeeps ==
  ASSUME Inv, OrderInv, SendReminder
  PROVE  OrderInv'
<1>1. /\ reminder.at = "marked" /\ ~Resting /\ chains = {} /\ sender.at = "idle"
      /\ exists /\ session.reminded /\ session.asked = "reminder"
  BY DEF SendReminder, Resting, OrderInv, OneAtATime, Remembers, JobKeeps
<1>2. Unheard = {} /\ \A p \in Handlers : ~Engaged(p) BY <1>1, BusyBot
<1>3. UNCHANGED <<session, exists, logged, said, deliveries, inbound, admin, sender>>
  BY DEF SendReminder, store
<1>4. /\ Traced' /\ Unheard' = {}
      /\ \A p \in Handlers : ~Engaged(p)' /\ Keeps(p)'
  BY <1>2, <1>3, BotMoves
<1>5. /\ chains' = {[sid |-> session.id, left |-> 1, question |-> 0, asks |-> "reminder"]}
      /\ reminder'.at = "none"
  BY <1>1 DEF SendReminder, NoReminder
<1>6. \A d \in chains' : Bears(d)'
  BY <1>1, <1>3, <1>5 DEF Bears, Waiting
<1>7. chains' # {} /\ \A d, e \in chains' : d = e BY <1>5
<1>8. OneAtATime' BY <1>1, <1>3, <1>4, <1>5, <1>7 DEF OneAtATime
<1>9. Remembers'
  BY <1>1, <1>3, <1>4, <1>5, <1>6, <1>7 DEF Remembers, Resting, Sent, JobKeeps
<1> QED BY <1>1, <1>3, <1>4, <1>8, <1>9 DEF OrderInv, StepFits

\* With no fault and no administrator, only these steps remain.
LEMMA OrderlySteps ==
  ASSUME Inv, OrderInv, Orderly, Next
  PROVE  \/ \E m \in Messages, answer \in Message : Write(m, answer)
         \/ \E p \in Handlers :
              \/ \E m \in Messages : Deliver(p, m)
              \/ LogMessage(p) \/ CancelReminder(p) \/ Decide(p) \/ Apply(p)
              \/ Qualify(p) \/ Dispatch(p) \/ Rearm(p)
         \/ (\E c \in chains : SendMessage(c)) \/ Continue \/ ArmReminder
         \/ FireReminder \/ MarkReminder \/ SendReminder
<1>1. aborts \in Nat /\ failures \in Nat /\ commands \in Nat
  BY DEF Inv, TypeInv, TypeOK
<1>2. ~(aborts < MaxAborts) /\ ~(failures < MaxFailures) /\ ~(commands < MaxAdmin)
  BY <1>1 DEF Orderly
<1>3. ~AdminNext
  BY <1>2 DEF AdminNext, AdminCancel, RestartReset, RestartDispatch, DeleteMessages,
              DeleteSession, OrderInv, Traced
<1>4. /\ \A p \in Handlers : ~Abort(p)
      /\ \A c \in chains : ~SendFails(c)
      /\ ~SenderCrash /\ ~ReminderCrash
  BY <1>2 DEF Abort, SendFails, SenderCrash, ReminderCrash
<1> QED BY <1>3, <1>4 DEF Next, CustomerNext, InboundNext, OutboundNext, ReminderNext

LEMMA OrderStill ==
  ASSUME OrderInv, UNCHANGED vars
  PROVE  OrderInv'
<1> USE DEF vars, store, queues, told
<1>1. OneAtATime' BY DEF OrderInv, OneAtATime, Unheard, Resting, Engaged
<1>2. Traced' BY DEF OrderInv, Traced, Engaged
<1>3. UNCHANGED <<Resting, Shows, Armed, Sent, JobKeeps>>
  BY DEF Resting, Shows, Armed, Sent, JobKeeps, Waiting
<1>4. \A p \in Handlers : Keeps(p)' /\ (Engaged(p)' <=> Engaged(p))
  BY DEF OrderInv, Remembers, Keeps, Engaged, Shows, Waiting
<1>5. \A c \in chains : Bears(c)' BY DEF OrderInv, Remembers, Bears, Waiting
<1>6. Remembers' BY <1>3, <1>4, <1>5 DEF OrderInv, Remembers
<1> QED BY <1>1, <1>2, <1>6 DEF OrderInv

LEMMA OrderStep ==
  ASSUME Inv, OrderInv, Orderly, [Next]_vars
  PROVE  OrderInv'
<1>1. CASE UNCHANGED vars BY <1>1, OrderStill
<1>2. CASE Next
  <2>1. Patient BY DEF Orderly
  <2> QED
    BY <1>2, <2>1, OrderlySteps, WriteKeeps, DeliverKeeps, LogKeeps, CancelKeeps, DecideKeeps,
       ApplyKeeps, QualifyKeeps, DispatchKeeps, RearmKeeps, SendKeeps, ContinueKeeps,
       FireKeeps, MarkKeeps, SendReminderKeeps
<1> QED BY <1>1, <1>2

LEMMA OrderAlways == ASSUME Orderly PROVE Spec => [](Inv /\ OrderInv)
<1>1. Inv /\ OrderInv /\ [Next]_vars => OrderInv' BY OrderStep
<1> QED BY <1>1, OrderInit, InvAlways, PTL DEF Spec

LEMMA QuietRests ==
  ASSUME Inv, Quiet
  PROVE  Resting /\ \A p \in Handlers : ~Engaged(p)
  BY DEF Inv, TypeInv, TypeOK, Quiet, Silent, Resting, Engaged

\* Whatever the customer was asked, however often his answers are delivered and
\* whoever handles them: once the bot has finished, the last question in the chat
\* is the one whose answer the session waits for (Dispatch and the outbound queue
\* against the save before them), if he lets the bot finish and nothing fails.
THEOREM ChatShowsTheQuestionCorrect ==
  ASSUME Orderly PROVE Spec => []ChatShowsTheQuestion
<1>1. Inv /\ OrderInv => ChatShowsTheQuestion
  BY QuietRests DEF OrderInv, Remembers, Shows, ChatShowsTheQuestion
<1> QED BY <1>1, OrderAlways, PTL

\* Nor does the bot fall silent with an open question and no reminder armed for
\* it: a silent turn, a retry and a job that finds the question answered all leave
\* one behind.
THEOREM QuestionIsRemindedCorrect ==
  ASSUME Orderly PROVE Spec => []QuestionIsReminded
<1>1. Inv /\ OrderInv => QuestionIsReminded
  BY QuietRests DEF OrderInv, Remembers, Armed, QuestionIsReminded
<1> QED BY <1>1, OrderAlways, PTL

-----------------------------------------------------------------------------
(* Types                                                                     *)

Lives == {"unset", "lead", "customer"}
Places(what) ==
  CASE what = "message" -> {"idle", "create", "prefer", "tag", "session"}
    [] what = "booking" -> {"book", "match", "prefer", "event", "session", "read", "save"}
    [] what = "link"    -> {"read", "event", "session", "save"}
    [] what = "move"    -> {"move", "read", "save"}

\* What a request at each place has read.
DeskFits(h) ==
  /\ desk[h].at \in Places(desk[h].what)
  /\ desk[h].found \subseteq known
  /\ desk[h].at = "prefer" => desk[h].found # {}
  /\ desk[h].at \in {"tag", "session", "event", "read", "save", "move"} => desk[h].doc \in Documents
  /\ desk[h].what = "booking" => desk[h].seen \in Documents
  /\ desk[h].what # "message" /\ desk[h].at # "book" =>
       desk[h].call \in DOMAIN calls /\ desk[h].user \in Advisers
  /\ desk[h].at \in {"tag", "session"} => known # {}
  /\ desk[h].what # "message" => person # NoDocument

\* There is no call before there is a session, and no session without a document.
PersonFits ==
  /\ person # NoDocument => known # {}
  /\ calls # <<>> => person # NoDocument

TypesInv == RecordTypeOK /\ (\A h \in RecordDesks : DeskFits(h)) /\ PersonFits

LEMMA NoDocumentIsNone == NoDocument \notin Documents
BY RecordAssumption DEF Documents, Own, Stranger

\* Among documents there is an oldest one.
ByAge == {ss \in Nat \X Nat : ss[1] < ss[2]}

LEMMA OldestIsIn ==
  ASSUME NEW D \in SUBSET Own, D # {}
  PROVE  Oldest(D) \in D /\ \A e \in D : Oldest(D) <= e
<1>1. D \subseteq Nat
  BY RecordAssumption DEF Own
<1>2. IsWellFoundedOn(ByAge, Nat)
  BY NatLessThanWellFounded DEF OpToRel, ByAge
<1>3. PICK x \in D : \A y \in D : ~(<<y, x>> \in ByAge)
  BY <1>1, <1>2, WFMin, Zenon
<1>4. ASSUME NEW y \in D PROVE x <= y
  <2>1. <<y, x>> \in Nat \X Nat /\ <<y, x>>[1] = y /\ <<y, x>>[2] = x
    BY <1>1
  <2>2. ~(<<y, x>>[1] < <<y, x>>[2])
    BY <1>3, <2>1 DEF ByAge
  <2> QED
    BY <1>1, <2>1, <2>2
<1> QED
  BY <1>4 DEF Oldest

LEMMA PreferredIsIn ==
  ASSUME NEW D \in SUBSET Own, D # {}
  PROVE  /\ Preferred(D) \in D
         /\ D \cap formed # {} => Preferred(D) \in formed
         /\ D \cap formed = {} => \A e \in D : Preferred(D) <= e
<1>1. CASE D \cap formed # {}
  <2>1. Preferred(D) = Oldest(D \cap formed)
    BY <1>1 DEF Preferred
  <2>2. D \cap formed \in SUBSET Own
    OBVIOUS
  <2> QED
    BY <1>1, <2>1, <2>2, OldestIsIn
<1>2. CASE D \cap formed = {}
  <2>1. Preferred(D) = Oldest(D)
    BY <1>2 DEF Preferred
  <2> QED
    BY <1>2, <2>1, OldestIsIn
<1> QED
  BY <1>1, <1>2

LEMMA CallIs ==
  ASSUME RecordTypeOK, NEW n \in DOMAIN calls
  PROVE  /\ n \in Nat \ {0} /\ calls[n] \in CallEvents /\ calls # <<>>
         /\ calls[n].customer \in Documents /\ calls[n].user \in Advisers
         /\ n <= Len(calls) /\ Len(calls) \in Nat
<1>1. calls \in Seq(CallEvents) /\ n \in 1 .. Len(calls) /\ Len(calls) \in Nat
  BY LenProperties DEF RecordTypeOK
<1>2. calls[n] \in CallEvents
  BY <1>1, ElementOfSeq
<1> QED
  BY <1>1, <1>2 DEF CallEvents

\* What is left of a sequence in which one element is replaced.
LEMMA ElementIsReplaced ==
  ASSUME NEW S, NEW s \in Seq(S), NEW n \in 1 .. Len(s), NEW e \in S,
         NEW t, t = [s EXCEPT ![n] = e]
  PROVE  /\ t \in Seq(S) /\ Len(t) = Len(s)
         /\ \A j \in 1 .. Len(s) : t[j] = IF j = n THEN e ELSE s[j]
<1>1. /\ [s EXCEPT ![n] = e] \in Seq(S)
      /\ Len([s EXCEPT ![n] = e]) = Len(s)
      /\ \A j \in 1 .. Len(s) : [s EXCEPT ![n] = e][j] = IF j = n THEN e ELSE s[j]
  BY ExceptSeq
<1> QED
  BY <1>1

\* A change of one call that does not reopen it.
LEMMA OneCallChanges ==
  ASSUME RecordTypeOK, NEW n \in DOMAIN calls, NEW e \in CallEvents,
         e.pending => calls[n].pending, calls' = [calls EXCEPT ![n] = e]
  PROVE  /\ calls' \in Seq(CallEvents) /\ calls' # <<>>
         /\ DOMAIN calls' = DOMAIN calls /\ Pending' \subseteq Pending
         /\ \A m, k \in Pending' : m = k
         /\ calls'[n] = e /\ \A m \in DOMAIN calls \ {n} : calls'[m] = calls[m]
<1>1. calls \in Seq(CallEvents) /\ DOMAIN calls = 1 .. Len(calls) /\ n \in 1 .. Len(calls)
  BY LenProperties DEF RecordTypeOK
<1>2. /\ calls' \in Seq(CallEvents) /\ Len(calls') = Len(calls)
      /\ \A j \in 1 .. Len(calls) : calls'[j] = IF j = n THEN e ELSE calls[j]
  BY <1>1, ElementIsReplaced
<1>3. DOMAIN calls' = DOMAIN calls
  BY <1>1, <1>2, LenProperties
<1>4. calls'[n] = e /\ \A m \in DOMAIN calls \ {n} : calls'[m] = calls[m]
  BY <1>1, <1>2
<1>5. Pending' \subseteq Pending
  BY <1>3, <1>4 DEF Pending
<1>6. calls' # <<>>
  BY <1>1, <1>2, EmptySeq
<1> QED
  BY <1>2, <1>3, <1>4, <1>5, <1>6 DEF RecordTypeOK

\* A new call, which withdraws the others.
LEMMA CallIsAdded ==
  ASSUME RecordTypeOK, NEW e \in CallEvents,
         calls' = Append([n \in DOMAIN calls |-> [calls[n] EXCEPT !.pending = FALSE]], e)
  PROVE  /\ calls' \in Seq(CallEvents) /\ calls' # <<>>
         /\ Len(calls) \in Nat /\ DOMAIN calls = 1 .. Len(calls)
         /\ DOMAIN calls' = DOMAIN calls \cup {Len(calls) + 1}
         /\ calls'[Len(calls) + 1] = e
         /\ Pending' \subseteq {Len(calls) + 1}
<1> DEFINE W == [n \in DOMAIN calls |-> [calls[n] EXCEPT !.pending = FALSE]]
<1>1. /\ calls \in Seq(CallEvents) /\ DOMAIN calls = 1 .. Len(calls) /\ Len(calls) \in Nat
      /\ \A n \in DOMAIN calls : calls[n] \in CallEvents
  BY LenProperties, ElementOfSeq DEF RecordTypeOK
<1>2. /\ \A n \in 1 .. Len(calls) : /\ [calls[n] EXCEPT !.pending = FALSE] \in CallEvents
                                     /\ ~[calls[n] EXCEPT !.pending = FALSE].pending
  BY <1>1 DEF CallEvents
<1>3. W \in Seq(CallEvents) /\ Len(W) = Len(calls)
  BY <1>1, <1>2
<1> HIDE DEF W
<1>4. /\ calls' \in Seq(CallEvents) /\ calls' # <<>> /\ Len(calls') = Len(calls) + 1
      /\ \A n \in 1 .. Len(calls) : calls'[n] = W[n]
      /\ calls'[Len(calls) + 1] = e
  BY <1>3, AppendProperties DEF W
<1>5. DOMAIN calls' = DOMAIN calls \cup {Len(calls) + 1}
  BY <1>1, <1>4, LenProperties
<1>6. \A n \in DOMAIN calls : ~calls'[n].pending
  BY <1>1, <1>2, <1>4, ZenonT(60) DEF W
<1> QED
  BY <1>1, <1>4, <1>5, <1>6 DEF Pending

\* The place of a request tells what it is.
LEMMA PlaceTells ==
  ASSUME NEW h \in RecordDesks, desk[h] \in DeskRecords, DeskFits(h)
  PROVE  /\ desk[h].at \in {"idle", "create", "tag"} => desk[h].what = "message"
         /\ desk[h].at \in {"book", "match"} => desk[h].what = "booking"
         /\ desk[h].at = "move" => desk[h].what = "move"
         /\ desk[h].at = "prefer" => desk[h].what \in {"message", "booking"}
         /\ desk[h].at = "event" => desk[h].what \in {"booking", "link"}
         /\ desk[h].at \in {"read", "save"} => desk[h].what \in {"booking", "link", "move"}
<1>1. desk[h].what \in {"message", "booking", "link", "move"}
  BY DEF DeskRecords
<1> QED
  BY <1>1 DEF DeskFits, Places

-----------------------------------------------------------------------------
LEMMA TypesInit == RecordInit => TypesInv
<1> SUFFICES ASSUME RecordInit PROVE TypesInv
  OBVIOUS
<1>1. DOMAIN calls = {} /\ calls \in Seq(CallEvents)
  BY DEF RecordInit
<1>2. NoRecordDesk \in DeskRecords
  BY DEF NoRecordDesk, DeskRecords, Own
<1>5. FlagsOK
  BY DEF RecordInit, FlagsOK
<1>3. RecordTypeOK
  BY <1>1, <1>2, <1>5 DEF RecordInit, RecordTypeOK, Pending
<1>4. ASSUME NEW h \in RecordDesks PROVE DeskFits(h)
  BY DEF RecordInit, DeskFits, NoRecordDesk, Places
<1> QED
  BY <1>3, <1>4 DEF TypesInv, PersonFits, RecordInit

\* The requests a step leaves alone.
LEMMA OthersFit ==
  ASSUME TypesInv, NEW h \in RecordDesks, known \subseteq known',
         DOMAIN calls \subseteq DOMAIN calls', DeskFits(h)',
         person # NoDocument => person' # NoDocument,
         \A g \in RecordDesks \ {h} : desk'[g] = desk[g]
  PROVE  \A g \in RecordDesks : DeskFits(g)'
BY DEF TypesInv, DeskFits

\* A request is accepted.
LEMMA AcceptTypes ==
  ASSUME RecordTypeOK, NEW h \in RecordDesks, NEW r \in DeskRecords, Accept(h, r)
  PROVE  /\ desk' \in [RecordDesks -> DeskRecords] /\ desk'[h] = r
         /\ \A g \in RecordDesks \ {h} : desk'[g] = desk[g]
         /\ recordRequests' \in Nat /\ desk[h].at = "idle"
BY DEF RecordTypeOK, Accept

\* A step that leaves the calls alone.
LEMMA TypesKept ==
  ASSUME RecordTypeOK, desk' \in [RecordDesks -> DeskRecords], FlagsOK',
         recordRequests' \in Nat,
         UNCHANGED <<calls, known, formed, life, given, person, converted, placed>>
  PROVE  RecordTypeOK'
<1>1. Pending' = Pending
  BY DEF Pending
<1> QED
  BY <1>1 DEF RecordTypeOK

LEMMA TakeMessageTypes ==
  ASSUME TypesInv, NEW h \in RecordDesks, TakeMessage(h)
  PROVE  TypesInv'
<1> DEFINE r == [NoRecordDesk EXCEPT !.at = IF known = {} THEN "create" ELSE "prefer",
                                     !.found = known]
<1>1. r \in DeskRecords /\ RecordTypeOK
  BY DEF TypesInv, RecordTypeOK, NoRecordDesk, DeskRecords
<1>2. Accept(h, r)
  BY DEF TakeMessage
<1>3. r.what = "message" /\ r.at = (IF known = {} THEN "create" ELSE "prefer") /\ r.found = known
  BY DEF NoRecordDesk
<1> HIDE DEF r
<1>4. /\ desk' \in [RecordDesks -> DeskRecords] /\ desk'[h] = r
      /\ \A g \in RecordDesks \ {h} : desk'[g] = desk[g]
      /\ recordRequests' \in Nat
  BY <1>1, <1>2, AcceptTypes
<1>5. DeskFits(h)'
  BY <1>3, <1>4 DEF DeskFits, Places, TakeMessage, recordDb
<1>6. FlagsOK'
  BY <1>1 DEF RecordTypeOK, FlagsOK, TakeMessage
<1>9. UNCHANGED <<calls, known, formed, life, given, person, converted, placed>>
  BY DEF TakeMessage, recordDb
<1>8. RecordTypeOK'
  BY <1>1, <1>4, <1>6, <1>9, TypesKept
<1>7. \A g \in RecordDesks : DeskFits(g)'
  BY <1>4, <1>5, OthersFit DEF TakeMessage, recordDb
<1> QED
  BY <1>8, <1>7 DEF TypesInv, PersonFits, TakeMessage, recordDb

LEMMA TakeBookingTypes ==
  ASSUME TypesInv, NEW h \in RecordDesks, TakeBooking(h)
  PROVE  TypesInv'
<1> DEFINE r == [NoRecordDesk EXCEPT !.at = "book", !.what = "booking", !.seen = person]
<1>1. RecordTypeOK /\ person \in Documents
  BY DEF TypesInv, RecordTypeOK, TakeBooking
<1>2. /\ r \in DeskRecords /\ r.what = "booking" /\ r.at = "book" /\ r.found = {}
      /\ r.seen \in Documents
  BY <1>1 DEF NoRecordDesk, DeskRecords
<1>3. Accept(h, r)
  BY DEF TakeBooking
<1> HIDE DEF r
<1>4. /\ desk' \in [RecordDesks -> DeskRecords] /\ desk'[h] = r
      /\ \A g \in RecordDesks \ {h} : desk'[g] = desk[g]
      /\ recordRequests' \in Nat
  BY <1>1, <1>2, <1>3, AcceptTypes
<1>5. UNCHANGED <<calls, known, formed, life, given, person, converted, placed>>
  BY DEF TakeBooking, recordDb
<1>6. FlagsOK'
  BY <1>1 DEF RecordTypeOK, FlagsOK, TakeBooking
<1>7. RecordTypeOK'
  BY <1>1, <1>4, <1>5, <1>6, TypesKept
<1>8. DeskFits(h)'
  BY <1>2, <1>4, <1>5 DEF DeskFits, Places, TakeBooking
<1>9. \A g \in RecordDesks : DeskFits(g)'
  BY <1>4, <1>5, <1>8, OthersFit
<1> QED
  BY <1>5, <1>7, <1>9 DEF TypesInv, PersonFits

LEMMA TakeLinkTypes ==
  ASSUME TypesInv, NEW h \in RecordDesks, NEW n, NEW d, TakeLink(h, n, d)
  PROVE  TypesInv'
<1> DEFINE r == [NoRecordDesk EXCEPT !.at = "read", !.what = "link", !.doc = d, !.call = n,
                                     !.user = calls[n].user]
<1>1. RecordTypeOK /\ n \in DOMAIN calls /\ d \in Documents
  BY DEF TypesInv, RecordTypeOK, TakeLink, Documents
<1>2. n \in Nat /\ calls[n].user \in Advisers /\ known # {} /\ person # NoDocument
  BY <1>1, CallIs DEF TypesInv, PersonFits
<1>3. /\ r \in DeskRecords /\ r.what = "link" /\ r.at = "read" /\ r.found = {}
      /\ r.doc \in Documents /\ r.call = n /\ r.user \in Advisers
  BY <1>1, <1>2 DEF NoRecordDesk, DeskRecords
<1>4. Accept(h, r)
  BY DEF TakeLink
<1> HIDE DEF r
<1>5. /\ desk' \in [RecordDesks -> DeskRecords] /\ desk'[h] = r
      /\ \A g \in RecordDesks \ {h} : desk'[g] = desk[g]
      /\ recordRequests' \in Nat
  BY <1>1, <1>3, <1>4, AcceptTypes
<1>6. UNCHANGED <<calls, known, formed, life, given, person, converted, placed>>
  BY DEF TakeLink, recordDb
<1>7. FlagsOK'
  BY <1>1 DEF RecordTypeOK, FlagsOK, TakeLink
<1>8. RecordTypeOK'
  BY <1>1, <1>5, <1>6, <1>7, TypesKept
<1>9. DeskFits(h)'
  BY <1>1, <1>2, <1>3, <1>5, <1>6 DEF DeskFits, Places
<1>10. \A g \in RecordDesks : DeskFits(g)'
  BY <1>5, <1>6, <1>9, OthersFit
<1> QED
  BY <1>6, <1>8, <1>10 DEF TypesInv, PersonFits

LEMMA TakeMoveTypes ==
  ASSUME TypesInv, NEW h \in RecordDesks, NEW n, NEW u \in Advisers, TakeMove(h, n, u)
  PROVE  TypesInv'
<1> DEFINE r == [NoRecordDesk EXCEPT !.at = "move", !.what = "move", !.call = n, !.user = u,
                                     !.doc = calls[n].customer]
<1>1. RecordTypeOK /\ n \in DOMAIN calls
  BY DEF TypesInv, RecordTypeOK, TakeMove, Pending
<1>2. n \in Nat /\ calls[n].customer \in Documents /\ known # {} /\ person # NoDocument
  BY <1>1, CallIs DEF TypesInv, PersonFits
<1>3. /\ r \in DeskRecords /\ r.what = "move" /\ r.at = "move" /\ r.found = {}
      /\ r.doc \in Documents /\ r.call = n /\ r.user \in Advisers
  BY <1>1, <1>2 DEF NoRecordDesk, DeskRecords
<1>4. Accept(h, r)
  BY DEF TakeMove
<1> HIDE DEF r
<1>5. /\ desk' \in [RecordDesks -> DeskRecords] /\ desk'[h] = r
      /\ \A g \in RecordDesks \ {h} : desk'[g] = desk[g]
      /\ recordRequests' \in Nat
  BY <1>1, <1>3, <1>4, AcceptTypes
<1>6. UNCHANGED <<calls, known, formed, life, given, person, converted, placed>>
  BY DEF TakeMove, recordDb
<1>7. FlagsOK'
  BY <1>1 DEF RecordTypeOK, FlagsOK, TakeMove
<1>8. RecordTypeOK'
  BY <1>1, <1>5, <1>6, <1>7, TypesKept
<1>9. DeskFits(h)'
  BY <1>1, <1>2, <1>3, <1>5, <1>6 DEF DeskFits, Places
<1>10. \A g \in RecordDesks : DeskFits(g)'
  BY <1>5, <1>6, <1>9, OthersFit
<1> QED
  BY <1>6, <1>8, <1>10 DEF TypesInv, PersonFits

\* A request that reads, and writes nothing yet.
LEMMA ReadingTypes ==
  ASSUME TypesInv, NEW h \in RecordDesks, Prefer(h) \/ MatchAgain(h) \/ ReadHolder(h)
  PROVE  TypesInv'
<1>1. /\ RecordTypeOK /\ desk[h] \in DeskRecords /\ DeskFits(h)
      /\ UNCHANGED <<calls, known, formed, life, given, person, converted, placed>>
      /\ UNCHANGED <<settledOn, crossed, moved, recordRequests>>
  BY DEF TypesInv, RecordTypeOK, Prefer, MatchAgain, ReadHolder, recordDb, recordHistory
<1>2. FlagsOK' /\ recordRequests' \in Nat
  BY <1>1 DEF RecordTypeOK, FlagsOK
<1>3. /\ desk' \in [RecordDesks -> DeskRecords] /\ DeskFits(h)'
      /\ \A g \in RecordDesks \ {h} : desk'[g] = desk[g]
  <2>1. CASE Prefer(h)
    <3>1. Preferred(desk[h].found) \in Documents /\ known # {}
      BY <1>1, <2>1, PreferredIsIn DEF DeskFits, Prefer, DeskAt, RecordTypeOK, Documents
    <3> QED
      BY <1>1, <2>1, <3>1 DEF Prefer, RecordTypeOK, DeskRecords, DeskFits, DeskAt, Places
  <2>2. CASE MatchAgain(h)
    <3>1. known # {}
      BY <1>1, <2>2 DEF DeskFits, MatchAgain, DeskAt, Places, TypesInv, PersonFits
    <3> QED
      BY <1>1, <2>2, <3>1, ZenonT(60) DEF MatchAgain, RecordTypeOK, DeskRecords, DeskFits, DeskAt, Places
  <2>3. CASE ReadHolder(h)
    BY <1>1, <2>3 DEF ReadHolder, RecordTypeOK, DeskRecords, DeskFits, DeskAt, Places
  <2> QED
    BY <2>1, <2>2, <2>3
<1>4. RecordTypeOK'
  BY <1>1, <1>2, <1>3, TypesKept
<1>5. \A g \in RecordDesks : DeskFits(g)'
  BY <1>1, <1>3, OthersFit
<1> QED
  BY <1>1, <1>4, <1>5 DEF TypesInv, PersonFits

\* A step that writes documents and the session, and leaves the calls alone.
LEMMA WritingTypes ==
  ASSUME TypesInv, NEW h \in RecordDesks,
         CreateLead(h) \/ TagLead(h) \/ OpenSession(h) \/ RematchSession(h) \/ SaveHolder(h)
  PROVE  TypesInv'
<1>1. /\ RecordTypeOK /\ desk[h] \in DeskRecords /\ DeskFits(h) /\ NoRecordDesk \in DeskRecords
      /\ UNCHANGED <<calls, crossed, moved, recordRequests, converted>>
  BY DEF TypesInv, RecordTypeOK, CreateLead, TagLead, OpenSession, RematchSession, SaveHolder,
         recordHistory, NoRecordDesk, DeskRecords
<1>2. FlagsOK' /\ recordRequests' \in Nat
  BY <1>1 DEF RecordTypeOK, FlagsOK, CreateLead, TagLead, OpenSession, RematchSession,
              SaveHolder, recordHistory
<1>3. Pending' = Pending
  BY <1>1 DEF Pending
<1>4. /\ desk' \in [RecordDesks -> DeskRecords] /\ DeskFits(h)'
      /\ \A g \in RecordDesks \ {h} : desk'[g] = desk[g]
      /\ known \subseteq known' /\ known' \in SUBSET Own /\ formed' \in SUBSET known'
      /\ life' \in [Documents -> Lives] /\ given' \in [Documents -> Advisers \cup {NoAdviser}]
      /\ person' \in Documents \cup {NoDocument} /\ placed' \in SUBSET Documents
      /\ PersonFits' /\ (person # NoDocument => person' # NoDocument)
  <2>1. CASE CreateLead(h)
    <3>1. CASE known' = known
      <4>1. /\ desk' = [desk EXCEPT ![h].at = "prefer", ![h].found = known]
            /\ known # {} /\ life' = life
        BY <1>1, <2>1, <3>1 DEF CreateLead, RecordTypeOK
      <4>3. desk[h].what = "message" /\ known \in SUBSET Own
        BY <1>1, <2>1, PlaceTells DEF CreateLead, DeskAt, RecordTypeOK
      <4>4. /\ desk' \in [RecordDesks -> DeskRecords]
            /\ desk'[h] = [desk[h] EXCEPT !.at = "prefer", !.found = known]
            /\ \A g \in RecordDesks \ {h} : desk'[g] = desk[g]
        BY <1>1, <4>1, <4>3 DEF RecordTypeOK, DeskRecords
      <4>5. desk'[h].at = "prefer" /\ desk'[h].what = "message" /\ desk'[h].found = known
        BY <1>1, <4>3, <4>4 DEF DeskRecords
      <4>2. /\ desk' \in [RecordDesks -> DeskRecords] /\ DeskFits(h)'
            /\ \A g \in RecordDesks \ {h} : desk'[g] = desk[g]
        BY <3>1, <4>1, <4>4, <4>5 DEF DeskFits, Places
      <4> QED
        BY <1>1, <2>1, <3>1, <4>1, <4>2 DEF CreateLead, RecordTypeOK, Lives, TypesInv,
           PersonFits
    <3>2. CASE known' # known
      <4>1. PICK d \in Own \ known :
              /\ known' = known \cup {d} /\ life' = [life EXCEPT ![d] = "lead"]
              /\ desk' = [desk EXCEPT ![h].at = "session", ![h].doc = d]
        BY <2>1, <3>2 DEF CreateLead
      <4>2. d \in Documents
        BY DEF Documents
      <4>6. desk[h].what = "message" /\ d \in known'
        BY <1>1, <2>1, <4>1, PlaceTells DEF CreateLead, DeskAt
      <4>7. /\ desk' \in [RecordDesks -> DeskRecords]
            /\ desk'[h] = [desk[h] EXCEPT !.at = "session", !.doc = d]
        BY <1>1, <4>1, <4>2 DEF RecordTypeOK, DeskRecords
      <4>8. desk'[h].at = "session" /\ desk'[h].what = "message" /\ desk'[h].doc = d
            /\ desk'[h].found = desk[h].found
        BY <1>1, <4>6, <4>7 DEF DeskRecords
      <4>3. desk' \in [RecordDesks -> DeskRecords] /\ DeskFits(h)'
        BY <1>1, <4>1, <4>2, <4>6, <4>7, <4>8 DEF DeskFits, Places
      <4>4. \A g \in RecordDesks \ {h} : desk'[g] = desk[g]
        BY <1>1, <4>1 DEF RecordTypeOK
      <4>5. life' \in [Documents -> Lives]
        BY <1>1, <4>1 DEF RecordTypeOK, Lives
      <4> QED
        BY <1>1, <2>1, <4>1, <4>3, <4>4, <4>5 DEF CreateLead, RecordTypeOK, TypesInv, PersonFits
    <3> QED
      BY <3>1, <3>2
  <2>2. CASE TagLead(h)
    <3>1. /\ desk' \in [RecordDesks -> DeskRecords] /\ DeskFits(h)'
          /\ \A g \in RecordDesks \ {h} : desk'[g] = desk[g]
      BY <1>1, <2>2, ZenonT(60) DEF TagLead, DeskTo, RecordTypeOK, DeskRecords, DeskFits, DeskAt, Places
    <3>2. life' \in [Documents -> Lives]
      BY <1>1, <2>2 DEF TagLead, RecordTypeOK, Lives
    <3> QED
      BY <1>1, <2>2, <3>1, <3>2 DEF TagLead, RecordTypeOK, TypesInv, PersonFits, recordHistory
  <2>3. CASE OpenSession(h)
    <3>1. /\ desk' \in [RecordDesks -> DeskRecords] /\ desk'[h] = NoRecordDesk
          /\ \A g \in RecordDesks \ {h} : desk'[g] = desk[g]
      BY <1>1, <2>3 DEF OpenSession, RecordTypeOK
    <3>2. DeskFits(h)'
      BY <3>1 DEF DeskFits, NoRecordDesk, Places
    <3>3. /\ desk[h].doc \in Documents /\ known # {}
      BY <1>1, <2>3 DEF OpenSession, DeskFits, DeskAt
    <3> QED
      BY <1>1, <2>3, <3>1, <3>2, <3>3 DEF OpenSession, RecordTypeOK, TypesInv, PersonFits,
                                          recordHistory, Lives
  <2>4. CASE RematchSession(h)
    <3>1. desk[h].doc \in Documents /\ known # {} /\ desk[h].doc # NoDocument
      BY <1>1, <2>4, NoDocumentIsNone DEF RematchSession, DeskFits, DeskAt
    <3>2. desk' \in [RecordDesks -> DeskRecords] /\ DeskFits(h)'
      BY <1>1, <2>4, <3>1, ZenonT(60) DEF RematchSession, DeskTo, RecordTypeOK, DeskRecords, DeskFits,
                              DeskAt, Places, recordHistory
    <3>3. \A g \in RecordDesks \ {h} : desk'[g] = desk[g]
      BY <1>1, <2>4 DEF RematchSession, DeskTo, RecordTypeOK
    <3> QED
      BY <1>1, <2>4, <3>1, <3>2, <3>3 DEF RematchSession, RecordTypeOK, Lives, PersonFits,
                                          recordHistory
  <2>5. CASE SaveHolder(h)
    <3>1. /\ desk' \in [RecordDesks -> DeskRecords] /\ desk'[h] = NoRecordDesk
          /\ \A g \in RecordDesks \ {h} : desk'[g] = desk[g]
      BY <1>1, <2>5 DEF SaveHolder, RecordTypeOK
    <3>2. DeskFits(h)'
      BY <3>1 DEF DeskFits, NoRecordDesk, Places
    <3>3. desk[h].doc \in Documents /\ desk[h].user \in Advisers \cup {NoAdviser}
      BY <1>1, <2>5 DEF SaveHolder, DeskFits, DeskAt, DeskRecords
    <3>4. given' \in [Documents -> Advisers \cup {NoAdviser}] /\ placed' \in SUBSET Documents
      BY <1>1, <2>5, <3>3 DEF SaveHolder, RecordTypeOK
    <3>5. UNCHANGED <<known, formed, life, person>>
      BY <2>5 DEF SaveHolder
    <3> QED
      BY <1>1, <3>1, <3>2, <3>4, <3>5 DEF RecordTypeOK, TypesInv, PersonFits, Lives
  <2> QED
    BY <1>1, <2>1, <2>2, <2>3, <2>4, <2>5
<1>5. RecordTypeOK'
  BY <1>1, <1>2, <1>3, <1>4 DEF RecordTypeOK, Lives
<1>6. \A g \in RecordDesks : DeskFits(g)'
  BY <1>1, <1>4, OthersFit
<1> QED
  BY <1>4, <1>5, <1>6 DEF TypesInv

\* A step that writes a call.
LEMMA CallTypes ==
  ASSUME TypesInv, NEW h \in RecordDesks, BookCall(h) \/ RematchCall(h) \/ MoveCall(h)
  PROVE  TypesInv'
<1>1. /\ RecordTypeOK /\ desk[h] \in DeskRecords /\ DeskFits(h)
      /\ UNCHANGED <<known, formed, life, given, person, converted, placed>>
      /\ UNCHANGED <<settledOn, crossed, moved, recordRequests>>
  BY DEF TypesInv, RecordTypeOK, BookCall, RematchCall, MoveCall, recordHistory
<1>2. FlagsOK' /\ recordRequests' \in Nat
  BY <1>1 DEF RecordTypeOK, FlagsOK
<1>3. /\ desk' \in [RecordDesks -> DeskRecords] /\ DeskFits(h)'
      /\ \A g \in RecordDesks \ {h} : desk'[g] = desk[g]
      /\ calls' \in Seq(CallEvents) /\ DOMAIN calls \subseteq DOMAIN calls'
      /\ \A m, n \in Pending' : m = n
      /\ calls' # <<>> => person # NoDocument
  <2>1. CASE BookCall(h) /\ calls' = calls
    <3>1. PICK n \in Pending :
            desk' = [desk EXCEPT ![h].at = "match", ![h].call = n, ![h].user = calls[n].user]
      <4>1. ASSUME NEW e, calls' = Append([n \in DOMAIN calls |->
                                             [calls[n] EXCEPT !.pending = FALSE]], e),
                   e \in CallEvents
            PROVE  FALSE
        <5>1. /\ DOMAIN calls' = DOMAIN calls \cup {Len(calls) + 1}
              /\ DOMAIN calls = 1 .. Len(calls) /\ Len(calls) \in Nat
          BY <1>1, <4>1, CallIsAdded, SMTT(40)
        <5>2. Len(calls) + 1 \notin DOMAIN calls
          BY <5>1
        <5> QED
          BY <2>1, <5>1, <5>2
      <4>3. desk[h].what = "booking" /\ desk[h].seen \in Documents
        BY <1>1, <2>1, PlaceTells DEF BookCall, DeskAt, DeskFits
      <4>2. \A u \in Advisers :
              [customer |-> desk[h].seen, user |-> u, pending |-> TRUE] \in CallEvents
        BY <4>3 DEF CallEvents
      <4> QED
        BY <2>1, <4>1, <4>2 DEF BookCall
    <3>2. n \in DOMAIN calls
      BY DEF Pending
    <3>3. n \in Nat /\ calls[n].user \in Advisers /\ calls # <<>>
      BY <1>1, <3>2, CallIs
    <3>4. desk' \in [RecordDesks -> DeskRecords] /\ DeskFits(h)'
      BY <1>1, <2>1, <3>1, <3>2, <3>3, ZenonT(60) DEF BookCall, RecordTypeOK, DeskRecords, DeskFits, DeskAt,
                                          Places
    <3>5. \A g \in RecordDesks \ {h} : desk'[g] = desk[g]
      BY <1>1, <3>1 DEF RecordTypeOK
    <3>6. Pending' = Pending
      BY <2>1 DEF Pending
    <3> QED
      BY <1>1, <2>1, <3>4, <3>5, <3>6, SMTT(40) DEF RecordTypeOK, TypesInv, PersonFits
  <2>2. CASE BookCall(h) /\ calls' # calls
    <3>1. PICK u \in Advisers :
            /\ calls' = Append([n \in DOMAIN calls |-> [calls[n] EXCEPT !.pending = FALSE]],
                               [customer |-> desk[h].seen, user |-> u, pending |-> TRUE])
            /\ desk' = [desk EXCEPT ![h].at = "match", ![h].call = Len(calls) + 1, ![h].user = u]
      BY <2>2 DEF BookCall
    <3>2. desk[h].what = "booking" /\ desk[h].seen \in Documents
      BY <1>1, <2>2, PlaceTells DEF BookCall, DeskAt, DeskFits
    <3>3. [customer |-> desk[h].seen, user |-> u, pending |-> TRUE] \in CallEvents
      BY <3>2 DEF CallEvents
    <3>4. /\ calls' \in Seq(CallEvents) /\ Len(calls) \in Nat
          /\ DOMAIN calls' = DOMAIN calls \cup {Len(calls) + 1}
          /\ Pending' \subseteq {Len(calls) + 1}
      BY <1>1, <3>1, <3>3, CallIsAdded
    <3>5. desk' \in [RecordDesks -> DeskRecords]
      <4>1. Len(calls) + 1 \in Nat
        BY <3>4
      <4>2. PICK k \in Nat :
              desk' = [desk EXCEPT ![h].at = "match", ![h].call = k, ![h].user = u]
        BY <3>1, <4>1
      <4> QED
        BY <1>1, <4>2 DEF RecordTypeOK, DeskRecords
    <3>6. DeskFits(h)'
      BY <1>1, <3>1, <3>2, <3>4 DEF RecordTypeOK, DeskFits, Places
    <3>7. \A g \in RecordDesks \ {h} : desk'[g] = desk[g]
      BY <1>1, <3>1 DEF RecordTypeOK
    <3>8. person # NoDocument
      BY <1>1, <3>2 DEF DeskFits
    <3> QED
      BY <3>4, <3>5, <3>6, <3>7, <3>8
  <2>3. CASE RematchCall(h)
    <3> DEFINE n == desk[h].call
               e == [calls[n] EXCEPT !.customer = desk[h].doc]
    <3>1. n \in DOMAIN calls /\ desk[h].doc \in Documents /\ desk[h].what # "message"
      BY <1>1, <2>3 DEF RematchCall, DeskFits, DeskAt, Places
    <3>2. e \in CallEvents /\ (e.pending => calls[n].pending) /\ calls' = [calls EXCEPT ![n] = e]
      <4>1. calls[n] \in CallEvents
        BY <1>1, <3>1, CallIs
      <4> QED
        BY <2>3, <3>1, <4>1 DEF RematchCall, CallEvents
    <3> HIDE DEF e
    <3>3. /\ calls' \in Seq(CallEvents) /\ DOMAIN calls' = DOMAIN calls
          /\ \A m, k \in Pending' : m = k
      BY <1>1, <3>1, <3>2, OneCallChanges
    <3>4. desk' \in [RecordDesks -> DeskRecords] /\ DeskFits(h)'
      BY <1>1, <2>3, <3>1, <3>3, ZenonT(60) DEF RematchCall, DeskTo, RecordTypeOK, DeskRecords, DeskFits,
                                    DeskAt, Places, TypesInv, PersonFits
    <3>5. \A g \in RecordDesks \ {h} : desk'[g] = desk[g]
      BY <1>1, <2>3 DEF RematchCall, DeskTo, RecordTypeOK
    <3> QED
      BY <1>1, <3>1, <3>3, <3>4, <3>5 DEF DeskFits
  <2>4. CASE MoveCall(h)
    <3> DEFINE n == desk[h].call
               e == [calls[n] EXCEPT !.user = desk[h].user]
    <3>1. n \in DOMAIN calls /\ desk[h].user \in Advisers /\ desk[h].what = "move"
      BY <1>1, <2>4, PlaceTells DEF MoveCall, DeskFits, DeskAt
    <3>2. e \in CallEvents /\ (e.pending => calls[n].pending) /\ calls' = [calls EXCEPT ![n] = e]
      <4>1. calls[n] \in CallEvents
        BY <1>1, <3>1, CallIs
      <4> QED
        BY <2>4, <3>1, <4>1 DEF MoveCall, CallEvents
    <3> HIDE DEF e
    <3>3. /\ calls' \in Seq(CallEvents) /\ DOMAIN calls' = DOMAIN calls
          /\ \A m, k \in Pending' : m = k
      BY <1>1, <3>1, <3>2, OneCallChanges
    <3>4. desk' \in [RecordDesks -> DeskRecords] /\ DeskFits(h)'
      BY <1>1, <2>4, <3>1, <3>3 DEF MoveCall, DeskTo, RecordTypeOK, DeskRecords, DeskFits,
                                    DeskAt, Places
    <3>5. \A g \in RecordDesks \ {h} : desk'[g] = desk[g]
      BY <1>1, <2>4 DEF MoveCall, DeskTo, RecordTypeOK
    <3> QED
      BY <1>1, <3>1, <3>3, <3>4, <3>5 DEF DeskFits
  <2> QED
    BY <2>1, <2>2, <2>3, <2>4
<1>4. RecordTypeOK'
  BY <1>1, <1>2, <1>3 DEF RecordTypeOK
<1>5. \A g \in RecordDesks : DeskFits(g)'
  BY <1>1, <1>3, OthersFit
<1> QED
  BY <1>1, <1>3, <1>4, <1>5 DEF TypesInv, PersonFits

\* What the office, a form and another document of the number change.
LEMMA OfficeTypes ==
  ASSUME TypesInv, Office
  PROVE  TypesInv'
<1>1. /\ RecordTypeOK /\ recordRequests' \in Nat
      /\ UNCHANGED <<known, formed, person, desk, settledOn, crossed, moved>>
  BY DEF TypesInv, RecordTypeOK, Office
<1>2. known \subseteq Documents
  BY <1>1 DEF RecordTypeOK, Documents
<1>3. /\ life' \in [Documents -> Lives] /\ given' \in [Documents -> Advisers \cup {NoAdviser}]
      /\ placed' \in SUBSET Documents /\ converted' \in SUBSET Documents
  BY <1>1, <1>2 DEF Office, RecordTypeOK, Lives, Documents
<1>4. calls' \in Seq(CallEvents) /\ DOMAIN calls' = DOMAIN calls /\ \A m, n \in Pending' : m = n
  <2>1. CASE calls' = calls
    BY <1>1, <2>1 DEF RecordTypeOK, Pending
  <2>2. CASE calls' # calls
    <3>1. PICK n \in Pending : calls' = [calls EXCEPT ![n].pending = FALSE]
      BY <2>2 DEF Office
    <3> DEFINE e == [calls[n] EXCEPT !.pending = FALSE]
    <3>2. n \in DOMAIN calls /\ calls[n] \in CallEvents
      BY <1>1, CallIs DEF Pending
    <3>3. e \in CallEvents /\ ~e.pending /\ calls' = [calls EXCEPT ![n] = e]
      BY <3>1, <3>2 DEF CallEvents
    <3> HIDE DEF e
    <3> QED
      BY <1>1, <3>2, <3>3, OneCallChanges
  <2> QED
    BY <2>1, <2>2
<1>5. calls' # <<>> => calls # <<>>
  BY <1>1, <1>4, EmptySeq, LenProperties DEF RecordTypeOK
<1>6. RecordTypeOK'
  BY <1>1, <1>3, <1>4 DEF RecordTypeOK, FlagsOK, Lives
<1>7. \A g \in RecordDesks : DeskFits(g)'
  BY <1>1, <1>4 DEF DeskFits, TypesInv
<1> QED
  BY <1>1, <1>5, <1>6, <1>7 DEF TypesInv, PersonFits

LEMMA FormAndNumberTypes ==
  ASSUME TypesInv, FormComes \/ \E d \in Own : NumberComes(d)
  PROVE  TypesInv'
<1>1. /\ RecordTypeOK /\ recordRequests' \in Nat /\ FlagsOK
      /\ UNCHANGED <<given, person, calls, desk, converted, placed, crossed, moved>>
  BY DEF TypesInv, RecordTypeOK, FormComes, NumberComes
<1>2. Pending' = Pending
  BY <1>1 DEF Pending
<1>3. /\ known' \in SUBSET Own /\ known \subseteq known' /\ formed' \in SUBSET known'
      /\ life' \in [Documents -> Lives] /\ settledOn' \in BOOLEAN
  <2>1. CASE FormComes
    <3>1. PICK d \in known :
            /\ formed' = formed \cup {d}
            /\ life' = [life EXCEPT ![d] = IF @ = "customer" THEN @ ELSE "lead"]
      BY <2>1 DEF FormComes
    <3>2. life' \in [Documents -> Lives]
      BY <1>1, <3>1 DEF RecordTypeOK, Lives
    <3> QED
      BY <1>1, <2>1, <3>1, <3>2 DEF FormComes, RecordTypeOK, FlagsOK
  <2>2. CASE \E d \in Own : NumberComes(d)
    BY <1>1, <2>2 DEF NumberComes, RecordTypeOK, FlagsOK, Lives
  <2> QED
    BY <2>1, <2>2
<1>4. RecordTypeOK'
  BY <1>1, <1>2, <1>3 DEF RecordTypeOK, FlagsOK, Lives
<1>5. \A g \in RecordDesks : DeskFits(g)'
  BY <1>1, <1>3 DEF DeskFits, TypesInv
<1> QED
  BY <1>1, <1>3, <1>4, <1>5 DEF TypesInv, PersonFits

LEMMA TypesNext == TypesInv /\ [RecordNext]_recordVars => TypesInv'
<1> SUFFICES ASSUME TypesInv, [RecordNext]_recordVars PROVE TypesInv'
  OBVIOUS
<1>1. CASE UNCHANGED recordVars
  <2>1. Pending' = Pending
    BY <1>1 DEF Pending, recordVars, recordDb
  <2> QED
    BY <1>1, <2>1 DEF TypesInv, RecordTypeOK, FlagsOK, DeskFits, PersonFits, recordVars,
       recordDb,
                recordHistory
<1>2. ASSUME NEW h \in RecordDesks,
             \/ TakeMessage(h) \/ TakeBooking(h) \/ Prefer(h) \/ MatchAgain(h) \/ ReadHolder(h)
             \/ \E n \in 1 .. MaxCalls :
                  \/ \E d \in Documents : TakeLink(h, n, d)
                  \/ \E u \in Advisers : TakeMove(h, n, u)
      PROVE  TypesInv'
  BY <1>2, TakeMessageTypes, TakeBookingTypes, TakeLinkTypes, TakeMoveTypes, ReadingTypes
<1>3. ASSUME NEW h \in RecordDesks,
             \/ CreateLead(h) \/ TagLead(h) \/ OpenSession(h) \/ RematchSession(h)
             \/ SaveHolder(h) \/ BookCall(h) \/ RematchCall(h) \/ MoveCall(h)
      PROVE  TypesInv'
  BY <1>3, WritingTypes, CallTypes
<1> QED
  BY <1>1, <1>2, <1>3, OfficeTypes, FormAndNumberTypes DEF RecordNext

LEMMA TypesHold == RecordSpec => []TypesInv
BY TypesInit, TypesNext, PTL DEF RecordSpec

\* Every variable of the record has its type, and one call at most is pending.
THEOREM RecordTypeCorrect == RecordSpec => []RecordTypeOK
BY TypesHold, PTL DEF TypesInv

\* What a booking makes of the calls: it takes the pending one, or a new one.
LEMMA BookCallDoes ==
  ASSUME TypesInv, NEW h \in RecordDesks, BookCall(h)
  PROVE  /\ desk[h].at = "book" /\ desk[h].what = "booking" /\ desk[h].seen \in Documents
         /\ \E k \in Nat, u \in Advisers :
              /\ desk' = [desk EXCEPT ![h].at = "match", ![h].call = k, ![h].user = u]
              /\ desk'[h].at = "match" /\ desk'[h].call = k /\ desk'[h].user = u
              /\ desk'[h].what = "booking" /\ desk'[h].seen = desk[h].seen
              /\ desk'[h].holder = desk[h].holder
              /\ \A n \in Pending' : n = k
              /\ \/ calls' = calls /\ k \in Pending /\ u = calls[k].user
                 \/ calls'[k] = [customer |-> desk[h].seen, user |-> u, pending |-> TRUE]
<1>1. /\ RecordTypeOK /\ desk[h] \in DeskRecords /\ desk[h].at = "book"
      /\ desk[h].what = "booking" /\ desk[h].seen \in Documents
  BY PlaceTells DEF TypesInv, RecordTypeOK, BookCall, DeskAt, DeskFits
<1>2. ASSUME NEW k \in Nat, NEW u \in Advisers,
             desk' = [desk EXCEPT ![h].at = "match", ![h].call = k, ![h].user = u]
      PROVE  /\ desk'[h].at = "match" /\ desk'[h].call = k /\ desk'[h].user = u
             /\ desk'[h].what = "booking" /\ desk'[h].seen = desk[h].seen
             /\ desk'[h].holder = desk[h].holder
  BY <1>1, <1>2 DEF RecordTypeOK, DeskRecords
<1>3. ASSUME NEW n \in Pending, calls' = calls,
             desk' = [desk EXCEPT ![h].at = "match", ![h].call = n, ![h].user = calls[n].user]
      PROVE  /\ n \in Nat /\ calls[n].user \in Advisers /\ \A m \in Pending' : m = n
  BY <1>1, <1>3, CallIs DEF Pending, RecordTypeOK
<1>4. ASSUME NEW u \in Advisers,
             calls' = Append([n \in DOMAIN calls |-> [calls[n] EXCEPT !.pending = FALSE]],
                             [customer |-> desk[h].seen, user |-> u, pending |-> TRUE])
      PROVE  /\ Len(calls) + 1 \in Nat /\ \A m \in Pending' : m = Len(calls) + 1
             /\ calls'[Len(calls) + 1] =
                  [customer |-> desk[h].seen, user |-> u, pending |-> TRUE]
  <2> DEFINE e == [customer |-> desk[h].seen, user |-> u, pending |-> TRUE]
  <2>1. e \in CallEvents
    BY <1>1 DEF CallEvents
  <2> HIDE DEF e
  <2>2. Pending' \subseteq {Len(calls) + 1} /\ calls'[Len(calls) + 1] = e /\ Len(calls) \in Nat
    BY <1>1, <1>4, <2>1, CallIsAdded DEF e
  <2> QED
    BY <2>2 DEF e
<1> DEFINE Does(k, u) ==
      /\ desk' = [desk EXCEPT ![h].at = "match", ![h].call = k, ![h].user = u]
      /\ desk'[h].at = "match" /\ desk'[h].call = k /\ desk'[h].user = u
      /\ desk'[h].what = "booking" /\ desk'[h].seen = desk[h].seen
      /\ desk'[h].holder = desk[h].holder
      /\ \A n \in Pending' : n = k
      /\ \/ calls' = calls /\ k \in Pending /\ u = calls[k].user
         \/ calls'[k] = [customer |-> desk[h].seen, user |-> u, pending |-> TRUE]
<1>5. ASSUME NEW n \in Pending, calls' = calls,
             desk' = [desk EXCEPT ![h].at = "match", ![h].call = n, ![h].user = calls[n].user]
      PROVE  \E k \in Nat, u \in Advisers : Does(k, u)
  <2>1. n \in Nat /\ calls[n].user \in Advisers /\ \A m \in Pending' : m = n
    BY <1>3, <1>5
  <2>2. Does(n, calls[n].user)
    BY <1>2, <1>5, <2>1
  <2> HIDE DEF Does
  <2> QED
    BY <2>1, <2>2
<1>6. ASSUME NEW u \in Advisers,
             calls' = Append([n \in DOMAIN calls |-> [calls[n] EXCEPT !.pending = FALSE]],
                             [customer |-> desk[h].seen, user |-> u, pending |-> TRUE]),
             desk' = [desk EXCEPT ![h].at = "match", ![h].call = Len(calls) + 1, ![h].user = u]
      PROVE  \E k \in Nat, v \in Advisers : Does(k, v)
  <2>1. /\ Len(calls) + 1 \in Nat /\ \A m \in Pending' : m = Len(calls) + 1
        /\ calls'[Len(calls) + 1] = [customer |-> desk[h].seen, user |-> u, pending |-> TRUE]
    BY <1>4, <1>6
  <2>2. PICK k \in Nat : k = Len(calls) + 1
    BY <2>1
  <2>3. Does(k, u)
    BY <1>2, <1>6, <2>1, <2>2
  <2> HIDE DEF Does
  <2> QED
    BY <2>3
<1> HIDE DEF Does
<1>7. \E k \in Nat, u \in Advisers : Does(k, u)
  BY <1>5, <1>6 DEF BookCall
<1> QED
  BY <1>1, <1>7 DEF Does

-----------------------------------------------------------------------------
(* A customer stays one                                                      *)

LifeInv == converted \subseteq known /\ ConvertedStays

LEMMA LifeNext ==
  ASSUME TypesInv, LifeInv, [RecordNext]_recordVars
  PROVE  LifeInv'
<1>1. /\ converted \subseteq known /\ RecordTypeOK /\ \A d \in converted : life[d] = "customer"
      /\ known \subseteq Documents
  BY DEF LifeInv, TypesInv, RecordTypeOK, ConvertedStays, Documents
<1>2. CASE UNCHANGED <<known, life, converted>>
  BY <1>2 DEF LifeInv, ConvertedStays
<1>3. ASSUME NEW h \in RecordDesks, CreateLead(h) PROVE LifeInv'
  <2>1. converted' = converted /\ known \subseteq known'
    BY <1>3 DEF CreateLead
  <2>2. \A d \in converted : life'[d] = life[d]
    BY <1>1, <1>3 DEF CreateLead, RecordTypeOK
  <2> QED
    BY <1>1, <2>1, <2>2 DEF LifeInv, ConvertedStays
<1>4. ASSUME NEW h \in RecordDesks, TagLead(h) PROVE LifeInv'
  <2>1. UNCHANGED <<known, converted>>
    BY <1>4 DEF TagLead, recordHistory
  <2>2. \A d \in converted : life'[d] = life[d]
    BY <1>1, <1>4 DEF TagLead, RecordTypeOK
  <2> QED
    BY <1>1, <2>1, <2>2 DEF LifeInv, ConvertedStays
<1>5. CASE Office
  <2>1. known' = known /\ (UNCHANGED <<life, converted>> \/ \E d \in known :
          life' = [life EXCEPT ![d] = "customer"] /\ converted' = converted \cup {d})
    BY <1>5 DEF Office
  <2> QED
    BY <1>1, <2>1 DEF LifeInv, ConvertedStays, RecordTypeOK
<1>6. CASE FormComes
  <2>1. UNCHANGED <<known, converted>>
    BY <1>6 DEF FormComes
  <2>2. \A d \in converted : life'[d] = life[d]
    BY <1>1, <1>6 DEF FormComes, RecordTypeOK
  <2> QED
    BY <1>1, <2>1, <2>2 DEF LifeInv, ConvertedStays
<1>7. ASSUME NEW d \in Own, NumberComes(d) PROVE LifeInv'
  BY <1>1, <1>7, SMTT(40) DEF NumberComes, LifeInv, ConvertedStays
<1>8. ASSUME NEW h \in RecordDesks,
             \/ TakeMessage(h) \/ Prefer(h) \/ OpenSession(h)
             \/ TakeBooking(h) \/ BookCall(h) \/ MatchAgain(h) \/ RematchCall(h)
             \/ RematchSession(h) \/ ReadHolder(h) \/ SaveHolder(h) \/ MoveCall(h)
             \/ \E n \in 1 .. MaxCalls :
                  \/ \E d \in Documents : TakeLink(h, n, d)
                  \/ \E u \in Advisers : TakeMove(h, n, u)
      PROVE  UNCHANGED <<known, life, converted>>
  BY <1>8 DEF TakeMessage, Prefer, OpenSession, TakeBooking, BookCall, MatchAgain, RematchCall,
     RematchSession, ReadHolder, SaveHolder, MoveCall, TakeLink, TakeMove, recordDb, recordHistory
<1>9. UNCHANGED recordVars => UNCHANGED <<known, life, converted>>
  BY DEF recordVars, recordDb, recordHistory
<1> QED
  BY <1>2, <1>3, <1>4, <1>5, <1>6, <1>7, <1>8, <1>9 DEF RecordNext

LEMMA LifeInit == RecordInit => LifeInv
BY DEF RecordInit, LifeInv, ConvertedStays

\* Whoever was made a customer is never a lead again.
THEOREM ConvertedStaysCorrect == RecordSpec => []ConvertedStays
<1>1. TypesInv /\ LifeInv /\ [RecordNext]_recordVars => LifeInv'
  BY LifeNext
<1>2. LifeInv => ConvertedStays
  BY DEF LifeInv
<1> QED
  BY <1>1, <1>2, LifeInit, TypesHold, PTL DEF RecordSpec

-----------------------------------------------------------------------------
(* Whoever waits for a call has an adviser                                   *)

\* A request that will still save the document of this call.
Obliged(h, n) ==
  /\ desk[h].what # "message" /\ desk[h].call = n
  /\ \/ desk[h].at \in {"match", "prefer"} /\ calls[n].customer = desk[h].seen
     \/ desk[h].at = "event"
     \/ desk[h].at \in {"session", "read", "save"} /\ calls[n].customer = desk[h].doc

Advised(n) ==
  \/ given[calls[n].customer] # NoAdviser
  \/ \E h \in RecordDesks : Obliged(h, n)

\* A document somebody was read on keeps somebody.
HolderFits(h) ==
  desk[h].holder # NoAdviser =>
    /\ given[desk[h].doc] # NoAdviser
    /\ desk[h].at = "save" \/ (desk[h].what = "link" /\ desk[h].at \in {"event", "session"})

AdvisedInv == (\A n \in Pending : Advised(n)) /\ \A h \in RecordDesks : HolderFits(h)

LEMMA AdvisedInit == RecordInit => AdvisedInv
BY DEF RecordInit, AdvisedInv, Pending, HolderFits, NoRecordDesk

\* A document that has an adviser keeps one.
LEMMA GivenStays ==
  ASSUME TypesInv, AdvisedInv, [RecordNext]_recordVars
  PROVE  /\ \A d \in Documents : given[d] # NoAdviser => given'[d] # NoAdviser
         /\ \A h \in RecordDesks : SaveHolder(h) => given'[desk[h].doc] # NoAdviser
<1>1. /\ RecordTypeOK /\ known \subseteq Documents /\ NoAdviser \notin Advisers
  BY RecordAssumption DEF TypesInv, RecordTypeOK, Documents
<1>2. ASSUME NEW h \in RecordDesks, SaveHolder(h)
      PROVE  /\ \A d \in Documents : given[d] # NoAdviser => given'[d] # NoAdviser
             /\ given'[desk[h].doc] # NoAdviser
  <2>1. desk[h].doc \in Documents /\ desk[h].user \in Advisers /\ HolderFits(h)
    <3>1. DeskFits(h) /\ desk[h] \in DeskRecords /\ desk[h].at = "save"
      BY <1>1, <1>2 DEF TypesInv, RecordTypeOK, SaveHolder, DeskAt
    <3> QED
      BY <3>1, PlaceTells DEF DeskFits, AdvisedInv
  <2> DEFINE to == IF desk[h].user = desk[h].holder THEN given[desk[h].doc] ELSE desk[h].user
  <2>2. to # NoAdviser
    BY <1>1, <2>1 DEF HolderFits
  <2>3. given' = [given EXCEPT ![desk[h].doc] = to]
    BY <1>2 DEF SaveHolder
  <2> HIDE DEF to
  <2> QED
    BY <1>1, <2>1, <2>2, <2>3 DEF RecordTypeOK
<1>3. CASE Office
  <2>1. given' = given \/ \E d \in Documents, u \in Advisers : given' = [given EXCEPT ![d] = u]
    BY <1>1, <1>3 DEF Office, Documents
  <2>2. \A h \in RecordDesks : ~SaveHolder(h)
    <3>1. ASSUME NEW h \in RecordDesks, SaveHolder(h) PROVE FALSE
      <4>1. recordRequests' = recordRequests + 1 /\ recordRequests' = recordRequests
        BY <1>3, <3>1 DEF Office, SaveHolder
      <4> QED
        BY <1>1, <4>1 DEF RecordTypeOK
    <3> QED
      BY <3>1
  <2> QED
    BY <1>1, <2>1, <2>2 DEF RecordTypeOK
<1>4. CASE given' = given
  BY <1>2, <1>4
<1>5. Office \/ given' = given \/ \E h \in RecordDesks : SaveHolder(h)
  BY ZenonT(60) DEF RecordNext, recordVars, recordDb, FormComes, NumberComes,
     TakeMessage, Prefer, OpenSession, TakeBooking, BookCall, MatchAgain, RematchCall, CreateLead,
     TagLead, RematchSession, ReadHolder, MoveCall, TakeLink, TakeMove
<1> QED
  BY <1>2, <1>3, <1>4, <1>5

\* What a request does to a call it does not give to anybody else.
LEMMA StillAdvised ==
  ASSUME NEW h \in RecordDesks, \A g \in RecordDesks \ {h} : desk'[g] = desk[g],
         NEW n, Advised(n), calls'[n].customer = calls[n].customer,
         given[calls[n].customer] # NoAdviser => given'[calls[n].customer] # NoAdviser,
         Obliged(h, n) => Obliged(h, n)' \/ given'[calls[n].customer] # NoAdviser
  PROVE  Advised(n)'
BY DEF Advised, Obliged

LEMMA StillHeld ==
  ASSUME TypesInv, AdvisedInv, [RecordNext]_recordVars, NEW h \in RecordDesks,
         \A g \in RecordDesks \ {h} : desk'[g] = desk[g], HolderFits(h)'
  PROVE  \A g \in RecordDesks : HolderFits(g)'
<1>1. ASSUME NEW g \in RecordDesks \ {h} PROVE HolderFits(g)'
  <2>1. DeskFits(g) /\ desk[g] \in DeskRecords /\ HolderFits(g) /\ desk'[g] = desk[g]
    BY DEF TypesInv, RecordTypeOK, AdvisedInv
  <2>2. desk[g].holder # NoAdviser => desk[g].doc \in Documents
    BY <2>1 DEF HolderFits, DeskFits
  <2> QED
    BY <2>1, <2>2, GivenStays DEF HolderFits
<1> QED
  BY <1>1

\* A request, or the part of one, that changes no call.
LEMMA AdvisedKept ==
  ASSUME TypesInv, AdvisedInv, [RecordNext]_recordVars, NEW h \in RecordDesks,
         \A g \in RecordDesks \ {h} : desk'[g] = desk[g], HolderFits(h)', calls' = calls,
         \A n \in Pending : Obliged(h, n) =>
           Obliged(h, n)' \/ given'[calls[n].customer] # NoAdviser
  PROVE  AdvisedInv'
<1>1. Pending' = Pending /\ RecordTypeOK
  BY DEF Pending, TypesInv
<1>2. ASSUME NEW n \in Pending PROVE Advised(n)'
  <2>1. calls[n].customer \in Documents /\ Advised(n) /\ calls'[n].customer = calls[n].customer
    BY <1>1, CallIs DEF Pending, AdvisedInv
  <2> QED
    BY <2>1, StillAdvised, GivenStays
<1> QED
  BY <1>1, <1>2, StillHeld DEF AdvisedInv

\* What a step of one request does to the desks of the others.
LEMMA OneDesk ==
  ASSUME RecordTypeOK, NEW h \in RecordDesks,
         \/ TakeMessage(h) \/ CreateLead(h) \/ Prefer(h) \/ TagLead(h) \/ OpenSession(h)
         \/ TakeBooking(h) \/ BookCall(h) \/ MatchAgain(h) \/ RematchCall(h)
         \/ RematchSession(h) \/ ReadHolder(h) \/ SaveHolder(h) \/ MoveCall(h)
         \/ \E n \in 1 .. MaxCalls :
              \/ \E d \in Documents : TakeLink(h, n, d)
              \/ \E u \in Advisers : TakeMove(h, n, u)
  PROVE  \A g \in RecordDesks \ {h} : desk'[g] = desk[g]
BY DEF RecordTypeOK, TakeMessage, Prefer, OpenSession, TakeBooking, BookCall, MatchAgain,
   RematchCall, CreateLead, TagLead, RematchSession, ReadHolder, SaveHolder, MoveCall, TakeLink,
   TakeMove, Accept, DeskTo

LEMMA AcceptAdvised ==
  ASSUME TypesInv, AdvisedInv, [RecordNext]_recordVars, NEW h \in RecordDesks,
         \/ TakeMessage(h) \/ TakeBooking(h)
         \/ \E n \in 1 .. MaxCalls :
              \/ \E d \in Documents : TakeLink(h, n, d)
              \/ \E u \in Advisers : TakeMove(h, n, u)
  PROVE  AdvisedInv'
<1>1. /\ RecordTypeOK /\ desk[h].at = "idle" /\ calls' = calls
      /\ \A g \in RecordDesks \ {h} : desk'[g] = desk[g]
  BY OneDesk DEF TypesInv, TakeMessage, TakeBooking, TakeLink, TakeMove, Accept, recordDb
<1>2. desk'[h].holder = NoAdviser
  <2>1. ASSUME NEW r, Accept(h, r), r.holder = NoAdviser PROVE desk'[h].holder = NoAdviser
    BY <1>1, <2>1 DEF Accept, RecordTypeOK
  <2>2. CASE TakeMessage(h)
    BY <2>1, <2>2 DEF TakeMessage, NoRecordDesk
  <2>3. CASE TakeBooking(h)
    BY <2>1, <2>3 DEF TakeBooking, NoRecordDesk
  <2>4. ASSUME NEW n, NEW d, TakeLink(h, n, d) PROVE desk'[h].holder = NoAdviser
    BY <2>1, <2>4 DEF TakeLink, NoRecordDesk
  <2>5. ASSUME NEW n, NEW u, TakeMove(h, n, u) PROVE desk'[h].holder = NoAdviser
    BY <2>1, <2>5 DEF TakeMove, NoRecordDesk
  <2> QED
    BY <2>2, <2>3, <2>4, <2>5
<1>3. HolderFits(h)'
  BY <1>2 DEF HolderFits
<1>4. \A n \in Pending : ~Obliged(h, n)
  BY <1>1 DEF Obliged
<1> QED
  BY <1>1, <1>3, <1>4, AdvisedKept

LEMMA MessageAdvised ==
  ASSUME TypesInv, AdvisedInv, [RecordNext]_recordVars, NEW h \in RecordDesks,
         CreateLead(h) \/ TagLead(h) \/ OpenSession(h)
  PROVE  AdvisedInv'
<1>1. /\ RecordTypeOK /\ desk[h] \in DeskRecords /\ DeskFits(h) /\ HolderFits(h)
      /\ desk[h].what = "message" /\ calls' = calls
      /\ \A g \in RecordDesks \ {h} : desk'[g] = desk[g]
  BY OneDesk, PlaceTells DEF TypesInv, AdvisedInv, RecordTypeOK, CreateLead, TagLead,
     OpenSession,
                             DeskAt
<1>2. desk[h].holder = NoAdviser
  BY <1>1 DEF HolderFits, CreateLead, TagLead, OpenSession, DeskAt
<1>3. desk'[h].holder = NoAdviser
  <2>1. CASE CreateLead(h)
    BY <1>1, <1>2, <2>1 DEF CreateLead, RecordTypeOK, DeskRecords
  <2>2. CASE TagLead(h)
    BY <1>1, <1>2, <2>2 DEF TagLead, DeskTo, RecordTypeOK, DeskRecords
  <2>3. CASE OpenSession(h)
    BY <1>1, <2>3 DEF OpenSession, NoRecordDesk, RecordTypeOK
  <2> QED
    BY <2>1, <2>2, <2>3
<1>4. \A n \in Pending : ~Obliged(h, n)
  BY <1>1 DEF Obliged
<1> QED
  BY <1>1, <1>3, <1>4, AdvisedKept DEF HolderFits

LEMMA PreferAdvised ==
  ASSUME TypesInv, AdvisedInv, [RecordNext]_recordVars, NEW h \in RecordDesks,
         Prefer(h) \/ MatchAgain(h)
  PROVE  AdvisedInv'
<1>1. /\ RecordTypeOK /\ desk[h] \in DeskRecords /\ DeskFits(h) /\ HolderFits(h)
      /\ calls' = calls /\ \A g \in RecordDesks \ {h} : desk'[g] = desk[g]
  BY OneDesk DEF TypesInv, AdvisedInv, RecordTypeOK, Prefer, MatchAgain, recordDb
<1>2. desk[h].holder = NoAdviser
  BY <1>1 DEF HolderFits, Prefer, MatchAgain, DeskAt
<1>3. desk'[h].holder = NoAdviser
  BY <1>1, <1>2 DEF Prefer, MatchAgain, RecordTypeOK, DeskRecords
<1>4. ASSUME NEW n \in Pending, Obliged(h, n) PROVE Obliged(h, n)'
  <2>1. CASE MatchAgain(h)
    <3>1. desk'[h] = [desk[h] EXCEPT !.at = "prefer", !.found = known]
      BY <2>1, <1>1 DEF MatchAgain, RecordTypeOK
    <3>2. /\ desk'[h].at = "prefer" /\ desk'[h].what = desk[h].what
          /\ desk'[h].call = desk[h].call /\ desk'[h].seen = desk[h].seen
      BY <1>1, <3>1 DEF DeskRecords
    <3> QED
      BY <1>1, <1>4, <2>1, <3>2 DEF Obliged, MatchAgain, DeskAt
  <2>2. CASE Prefer(h)
    <3> DEFINE p == Preferred(desk[h].found)
    <3>1. /\ desk[h].what = "booking" /\ calls[n].customer = desk[h].seen /\ desk[h].call = n
          /\ desk[h].at = "prefer"
      BY <1>1, <1>4, <2>2, PlaceTells DEF Obliged, Prefer, DeskAt
    <3>2. /\ desk'[h].what = "booking" /\ desk'[h].call = n
          /\ desk'[h].doc = p /\ desk'[h].at = (IF p # desk[h].seen THEN "event" ELSE "read")
      BY <1>1, <2>2, <3>1 DEF Prefer, RecordTypeOK, DeskRecords
    <3>3. CASE p # desk[h].seen
      BY <3>2, <3>3 DEF Obliged
    <3>4. CASE p = desk[h].seen
      <4>1. calls'[n].customer = desk'[h].doc /\ desk'[h].at = "read"
        BY <1>1, <3>1, <3>2, <3>4
      <4> QED
        BY <3>2, <4>1 DEF Obliged
    <3> QED
      BY <3>3, <3>4
  <2> QED
    BY <2>1, <2>2
<1> QED
  BY <1>1, <1>3, <1>4, AdvisedKept DEF HolderFits

LEMMA SessionAdvised ==
  ASSUME TypesInv, AdvisedInv, [RecordNext]_recordVars, NEW h \in RecordDesks,
         RematchSession(h) \/ ReadHolder(h) \/ SaveHolder(h)
  PROVE  AdvisedInv'
<1>1. /\ RecordTypeOK /\ desk[h] \in DeskRecords /\ DeskFits(h) /\ HolderFits(h)
      /\ calls' = calls /\ \A g \in RecordDesks \ {h} : desk'[g] = desk[g]
  BY OneDesk DEF TypesInv, AdvisedInv, RecordTypeOK, RematchSession, ReadHolder, SaveHolder,
                 recordDb
<1>2. CASE RematchSession(h)
  <2>1. /\ desk[h].at = "session" /\ desk[h].what # "message" /\ given' = given
        /\ desk'[h] = [desk[h] EXCEPT !.at = IF desk[h].what = "link" THEN "save" ELSE "read"]
    BY <1>1, <1>2 DEF RematchSession, DeskAt, DeskTo, RecordTypeOK
  <2>2. HolderFits(h)'
    BY <1>1, <2>1 DEF HolderFits, DeskRecords
  <2>3. \A n \in Pending : Obliged(h, n) => Obliged(h, n)'
    BY <1>1, <2>1 DEF Obliged, DeskRecords
  <2> QED
    BY <1>1, <2>2, <2>3, AdvisedKept
<1>3. CASE ReadHolder(h)
  <2>1. /\ desk[h].at = "read" /\ given' = given
        /\ desk'[h] = [desk[h] EXCEPT !.holder = given[desk[h].doc],
                                      !.at = IF desk[h].what = "link" THEN "event" ELSE "save"]
    BY <1>1, <1>3 DEF ReadHolder, DeskAt, RecordTypeOK, recordDb
  <2>2. HolderFits(h)'
    BY <1>1, <2>1 DEF HolderFits, DeskRecords
  <2>3. \A n \in Pending : Obliged(h, n) => Obliged(h, n)'
    BY <1>1, <2>1 DEF Obliged, DeskRecords
  <2> QED
    BY <1>1, <2>2, <2>3, AdvisedKept
<1>4. CASE SaveHolder(h)
  <2>1. desk[h].at = "save" /\ desk'[h].holder = NoAdviser
    BY <1>1, <1>4 DEF SaveHolder, DeskAt, RecordTypeOK, NoRecordDesk
  <2>2. \A n \in Pending : Obliged(h, n) => given'[calls[n].customer] # NoAdviser
    BY <1>4, <2>1, GivenStays DEF Obliged
  <2> QED
    BY <1>1, <2>1, <2>2, AdvisedKept DEF HolderFits
<1> QED
  BY <1>2, <1>3, <1>4

LEMMA CallAdvised ==
  ASSUME TypesInv, AdvisedInv, [RecordNext]_recordVars, NEW h \in RecordDesks,
         BookCall(h) \/ RematchCall(h) \/ MoveCall(h)
  PROVE  AdvisedInv'
<1>1. /\ RecordTypeOK /\ desk[h] \in DeskRecords /\ DeskFits(h) /\ HolderFits(h)
      /\ given' = given /\ \A g \in RecordDesks \ {h} : desk'[g] = desk[g]
  BY OneDesk DEF TypesInv, AdvisedInv, RecordTypeOK, BookCall, RematchCall, MoveCall
<1>2. CASE BookCall(h)
  <2>1. PICK k \in Nat, u \in Advisers :
          /\ desk'[h].at = "match" /\ desk'[h].call = k /\ desk'[h].what = "booking"
          /\ desk'[h].seen = desk[h].seen /\ desk'[h].holder = desk[h].holder
          /\ \A n \in Pending' : n = k
          /\ \/ calls' = calls /\ k \in Pending
             \/ calls'[k] = [customer |-> desk[h].seen, user |-> u, pending |-> TRUE]
    BY <1>2, BookCallDoes, ZenonT(60)
  <2>2. desk[h].at = "book" /\ HolderFits(h)'
    BY <1>1, <1>2, <2>1, BookCallDoes DEF HolderFits
  <2>3. CASE calls' = calls
    BY <1>1, <2>2, <2>3, AdvisedKept DEF Obliged
  <2>4. CASE calls'[k] = [customer |-> desk[h].seen, user |-> u, pending |-> TRUE]
    <3>1. \A n \in Pending' : Obliged(h, n)'
      BY <2>1, <2>4 DEF Obliged
    <3> QED
      BY <1>1, <2>2, <3>1, StillHeld DEF AdvisedInv, Advised
  <2> QED
    BY <2>1, <2>3, <2>4
<1>3. CASE RematchCall(h) \/ MoveCall(h)
  <2> DEFINE k == desk[h].call
             e == IF desk[h].at = "event" THEN [calls[k] EXCEPT !.customer = desk[h].doc]
                                          ELSE [calls[k] EXCEPT !.user = desk[h].user]
  <2>1. /\ k \in DOMAIN calls /\ desk[h].what # "message" /\ desk[h].user \in Advisers
        /\ desk[h].at \in {"event", "move"} /\ (desk[h].at = "event" => RematchCall(h))
        /\ (desk[h].at = "move" => MoveCall(h)) /\ desk[h].doc \in Documents
    BY <1>1, <1>3, PlaceTells DEF RematchCall, MoveCall, DeskFits, DeskAt
  <2>2. /\ e \in CallEvents /\ (e.pending => calls[k].pending) /\ calls' = [calls EXCEPT ![k] = e]
        /\ e.customer = (IF desk[h].at = "event" THEN desk[h].doc ELSE calls[k].customer)
    <3>1. calls[k] \in CallEvents
      BY <1>1, <2>1, CallIs
    <3> QED
      BY <2>1, <3>1 DEF RematchCall, MoveCall, CallEvents
  <2> HIDE DEF e
  <2>3. /\ Pending' \subseteq Pending /\ calls'[k] = e
        /\ \A m \in DOMAIN calls \ {k} : calls'[m] = calls[m]
    BY <1>1, <2>1, <2>2, OneCallChanges
  <2>4. /\ desk'[h] = [desk[h] EXCEPT !.at = IF desk[h].at = "event" THEN "session" ELSE "read"]
    BY <1>1, <2>1 DEF RematchCall, MoveCall, DeskTo, RecordTypeOK
  <2>5. HolderFits(h)'
    BY <1>1, <2>1, <2>4, PlaceTells DEF HolderFits, DeskRecords
  <2>6. ASSUME NEW n \in Pending' PROVE Advised(n)'
    <3>1. n \in DOMAIN calls /\ Advised(n) /\ calls[n].customer \in Documents
      BY <1>1, <2>3, CallIs DEF AdvisedInv, Pending
    <3>2. CASE n = k /\ desk[h].at = "event"
      <4>1. Obliged(h, n)'
        BY <1>1, <2>1, <2>2, <2>3, <2>4, <3>2 DEF Obliged, DeskRecords
      <4> QED
        BY <4>1 DEF Advised
    <3>3. CASE ~(n = k /\ desk[h].at = "event")
      <4>1. calls'[n].customer = calls[n].customer
        BY <2>1, <2>2, <2>3, <3>1, <3>3
      <4>2. ~Obliged(h, n)
        BY <2>1, <3>3 DEF Obliged
      <4> QED
        BY <1>1, <3>1, <4>1, <4>2, StillAdvised
    <3> QED
      BY <3>2, <3>3
  <2> QED
    BY <1>1, <2>5, <2>6, StillHeld DEF AdvisedInv
<1> QED
  BY <1>2, <1>3

LEMMA OthersAdvised ==
  ASSUME TypesInv, AdvisedInv, [RecordNext]_recordVars,
         Office \/ FormComes \/ (\E d \in Own : NumberComes(d)) \/ UNCHANGED recordVars
  PROVE  AdvisedInv'
<1>1. /\ RecordTypeOK /\ desk' = desk
      /\ calls' = calls \/ \E n \in Pending : calls' = [calls EXCEPT ![n].pending = FALSE]
  BY DEF TypesInv, Office, FormComes, NumberComes, recordVars, recordDb
<1>2. Pending' \subseteq Pending /\ \A n \in Pending : calls'[n].customer = calls[n].customer
  <2>1. CASE calls' = calls
    BY <2>1 DEF Pending
  <2>2. ASSUME NEW k \in Pending, calls' = [calls EXCEPT ![k].pending = FALSE]
        PROVE  Pending' \subseteq Pending /\ \A n \in Pending : calls'[n].customer = calls[n].customer
    <3> DEFINE e == [calls[k] EXCEPT !.pending = FALSE]
    <3>1. k \in DOMAIN calls /\ calls[k] \in CallEvents
      BY <1>1, CallIs DEF Pending
    <3>2. /\ e \in CallEvents /\ ~e.pending /\ e.customer = calls[k].customer
          /\ calls' = [calls EXCEPT ![k] = e]
      BY <2>2, <3>1 DEF CallEvents
    <3> HIDE DEF e
    <3>3. /\ Pending' \subseteq Pending /\ calls'[k] = e
          /\ \A m \in DOMAIN calls \ {k} : calls'[m] = calls[m]
      BY <1>1, <3>1, <3>2, OneCallChanges
    <3> QED
      BY <3>2, <3>3 DEF Pending
  <2> QED
    BY <1>1, <2>1, <2>2
<1>3. \A g \in RecordDesks : HolderFits(g)'
  <2>1. ASSUME NEW g \in RecordDesks PROVE HolderFits(g)'
    <3>1. DeskFits(g) /\ HolderFits(g) /\ desk'[g] = desk[g]
      BY <1>1 DEF TypesInv, AdvisedInv
    <3>2. desk[g].holder # NoAdviser => desk[g].doc \in Documents
      BY <3>1 DEF HolderFits, DeskFits
    <3> QED
      BY <3>1, <3>2, GivenStays DEF HolderFits
  <2> QED
    BY <2>1
<1>4. ASSUME NEW n \in Pending' PROVE Advised(n)'
  <2>1. /\ n \in Pending /\ Advised(n) /\ calls[n].customer \in Documents
        /\ calls'[n].customer = calls[n].customer
    BY <1>1, <1>2, CallIs DEF AdvisedInv, Pending
  <2>2. \A h \in RecordDesks : Obliged(h, n) => Obliged(h, n)'
    BY <1>1, <2>1 DEF Obliged
  <2> QED
    BY <2>1, <2>2, GivenStays DEF Advised
<1> QED
  BY <1>3, <1>4 DEF AdvisedInv

LEMMA AdvisedNext == TypesInv /\ AdvisedInv /\ [RecordNext]_recordVars => AdvisedInv'
BY AcceptAdvised, MessageAdvised, PreferAdvised, SessionAdvised, CallAdvised, OthersAdvised
   DEF RecordNext

LEMMA AdvisedIsEnough == AdvisedInv => CallHasAdviser
BY DEF AdvisedInv, Advised, Obliged, CallHasAdviser, RecordQuiet

\* Once bookings, links and moves are done, whoever waits for a call has an adviser.
THEOREM CallHasAdviserCorrect == RecordSpec => []CallHasAdviser
BY AdvisedInit, AdvisedNext, AdvisedIsEnough, TypesHold, PTL DEF RecordSpec

-----------------------------------------------------------------------------
(* The call and the session are of one document                              *)

Rematches(h) == desk[h].what \in {"booking", "link"}
Agree == \A n \in Pending : calls[n].customer = person

\* What holds of the one request that rematches the call.
AgreeFits(h) ==
  /\ desk[h].at \in {"book", "match", "prefer"} => desk[h].seen = person
  /\ desk[h].at # "book" => \A n \in Pending : n = desk[h].call
  /\ desk[h].at = "session" => \A n \in Pending : calls[n].customer = desk[h].doc
  /\ desk[h].at # "session" => Agree
  /\ desk[h].at = "save" \/ (desk[h].at = "read" /\ desk[h].what = "booking") =>
       desk[h].doc = person

AgreeInv ==
  ~crossed =>
    /\ \A g, h \in RecordDesks : Rematches(g) /\ Rematches(h) => g = h
    /\ (\A h \in RecordDesks : ~Rematches(h)) => Agree
    /\ \A h \in RecordDesks : Rematches(h) => AgreeFits(h)

LEMMA AgreeInit == RecordInit => AgreeInv
BY DEF RecordInit, AgreeInv, Pending, Rematches, NoRecordDesk, Agree

LEMMA HandlingIs ==
  ASSUME TypesInv, NEW W, "message" \notin W
  PROVE  Handling(W) = {h \in RecordDesks : desk[h].what \in W}
<1>1. ASSUME NEW h \in RecordDesks PROVE desk[h].at = "idle" => desk[h].what = "message"
  BY PlaceTells DEF TypesInv, RecordTypeOK
<1> QED
  BY <1>1 DEF Handling

\* The only request that rematches, before or after the step, takes it.
LEMMA OneRematches ==
  ASSUME NEW h \in RecordDesks,
         \A g \in RecordDesks \ {h} : ~Rematches(g) /\ desk'[g] = desk[g],
         Rematches(h)' => AgreeFits(h)', ~Rematches(h)' => Agree'
  PROVE  AgreeInv'
<1>1. \A g \in RecordDesks \ {h} : ~Rematches(g)'
  BY DEF Rematches
<1> QED
  BY <1>1 DEF AgreeInv

\* A step of something else.
LEMMA AgreeAside ==
  ASSUME AgreeInv, crossed' = crossed, person' = person, Pending' \subseteq Pending,
         \A n \in Pending' : calls'[n].customer = calls[n].customer,
         \A g \in RecordDesks : desk'[g] = desk[g] \/ (~Rematches(g) /\ ~Rematches(g)')
  PROVE  AgreeInv'
<1>1. SUFFICES ASSUME ~crossed PROVE AgreeInv'
  BY DEF AgreeInv
<1>2. \A g \in RecordDesks : Rematches(g)' = Rematches(g)
  BY DEF Rematches
<1>3. Agree => Agree'
  BY DEF Agree
<1>4. ASSUME NEW g \in RecordDesks, Rematches(g)' PROVE AgreeFits(g)'
  <2>1. Rematches(g) /\ desk'[g] = desk[g] /\ AgreeFits(g)
    BY <1>1, <1>2, <1>4 DEF AgreeInv
  <2> QED
    BY <1>3, <2>1 DEF AgreeFits
<1>5. \A g, h \in RecordDesks : Rematches(g)' /\ Rematches(h)' => g = h
  BY <1>1, <1>2 DEF AgreeInv
<1>6. (\A h \in RecordDesks : ~Rematches(h)') => Agree'
  BY <1>1, <1>2, <1>3 DEF AgreeInv
<1> QED
  BY <1>4, <1>5, <1>6 DEF AgreeInv

\* While requests have not crossed, the one that acts is the only one that rematches.
LEMMA OnlyOne ==
  ASSUME AgreeInv, ~crossed, NEW h \in RecordDesks, Rematches(h)
  PROVE  AgreeFits(h) /\ \A g \in RecordDesks \ {h} : ~Rematches(g)
BY DEF AgreeInv

LEMMA TakeAgree ==
  ASSUME TypesInv, AgreeInv, NEW h \in RecordDesks,
         \/ TakeBooking(h)
         \/ \E n \in 1 .. MaxCalls : \E d \in Documents : TakeLink(h, n, d)
  PROVE  AgreeInv'
<1>1. SUFFICES ASSUME ~crossed' PROVE AgreeInv'
  BY DEF AgreeInv
<1>2. /\ RecordTypeOK /\ desk[h].at = "idle" /\ UNCHANGED <<calls, person>>
      /\ ~crossed /\ Handling({"booking", "link"}) = {}
      /\ \A g \in RecordDesks \ {h} : desk'[g] = desk[g]
  BY <1>1, OneDesk DEF TypesInv, TakeBooking, TakeLink, Accept, recordDb
<1>3. \A g \in RecordDesks : ~Rematches(g)
  BY <1>2, HandlingIs DEF Rematches
<1>4. Agree /\ Agree' /\ Pending' = Pending
  BY <1>2, <1>3 DEF AgreeInv, Agree, Pending
<1>5. CASE TakeBooking(h)
  <2>1. desk'[h].at = "book" /\ desk'[h].what = "booking" /\ desk'[h].seen = person
    BY <1>2, <1>5 DEF TakeBooking, Accept, NoRecordDesk, RecordTypeOK
  <2>2. AgreeFits(h)' /\ Rematches(h)'
    BY <1>2, <1>4, <2>1 DEF AgreeFits, Rematches
  <2> QED
    BY <1>2, <1>3, <2>2, OneRematches
<1>6. ASSUME NEW n, NEW d, TakeLink(h, n, d) PROVE AgreeInv'
  <2>1. desk'[h].at = "read" /\ desk'[h].what = "link" /\ desk'[h].call = n
    BY <1>2, <1>6 DEF TakeLink, Accept, NoRecordDesk, RecordTypeOK
  <2>2. n \in Pending /\ \A m \in Pending : m = n
    BY <1>1, <1>2, <1>6 DEF TakeLink, Pending, RecordTypeOK
  <2>3. AgreeFits(h)' /\ Rematches(h)'
    BY <1>2, <1>4, <2>1, <2>2 DEF AgreeFits, Rematches
  <2> QED
    BY <1>2, <1>3, <2>3, OneRematches
<1> QED
  BY <1>5, <1>6

LEMMA ReadAgree ==
  ASSUME TypesInv, AgreeInv, NEW h \in RecordDesks, Rematches(h), ~crossed,
         Prefer(h) \/ MatchAgain(h) \/ RematchSession(h) \/ ReadHolder(h) \/ SaveHolder(h)
  PROVE  AgreeInv'
<1>1. /\ RecordTypeOK /\ desk[h] \in DeskRecords /\ calls' = calls /\ Pending' = Pending
      /\ DeskFits(h) /\ AgreeFits(h)
      /\ \A g \in RecordDesks \ {h} : ~Rematches(g) /\ desk'[g] = desk[g]
  BY OneDesk, OnlyOne DEF TypesInv, RecordTypeOK, Prefer, MatchAgain, RematchSession,
     ReadHolder,
                          SaveHolder, recordDb, Pending
<1>2. CASE Prefer(h)
  <2> DEFINE p == Preferred(desk[h].found)
  <2>1. desk[h].what = "booking" /\ desk[h].at = "prefer" /\ person' = person
    BY <1>1, <1>2, PlaceTells DEF Prefer, DeskAt, Rematches, recordDb
  <2>2. /\ desk'[h].at = (IF p # desk[h].seen THEN "event" ELSE "read") /\ desk'[h].doc = p
        /\ desk'[h].call = desk[h].call /\ desk'[h].what = "booking"
    BY <1>1, <1>2, <2>1 DEF Prefer, RecordTypeOK, DeskRecords
  <2>3. Agree' /\ desk[h].seen = person /\ \A n \in Pending : n = desk[h].call
    BY <1>1, <2>1 DEF AgreeFits, Agree
  <2>4. AgreeFits(h)'
    BY <1>1, <2>1, <2>2, <2>3 DEF AgreeFits
  <2> QED
    BY <1>1, <2>2, <2>4, OneRematches DEF Rematches
<1>3. CASE MatchAgain(h)
  <2>1. /\ desk[h].at = "match" /\ person' = person
        /\ desk'[h] = [desk[h] EXCEPT !.at = "prefer", !.found = known]
    BY <1>1, <1>3 DEF MatchAgain, DeskAt, recordDb, RecordTypeOK
  <2>2. /\ desk'[h].at = "prefer" /\ desk'[h].seen = desk[h].seen
        /\ desk'[h].call = desk[h].call /\ desk'[h].what = desk[h].what
    BY <1>1, <2>1 DEF DeskRecords
  <2>3. Agree' /\ desk[h].seen = person /\ \A n \in Pending : n = desk[h].call
    BY <1>1, <2>1 DEF AgreeFits, Agree
  <2>4. AgreeFits(h)'
    BY <1>1, <2>1, <2>2, <2>3 DEF AgreeFits
  <2> QED
    BY <1>1, <2>2, <2>4, OneRematches DEF Rematches
<1>4. CASE RematchSession(h)
  <2>1. /\ desk[h].at = "session" /\ person' = desk[h].doc
        /\ desk'[h] = [desk[h] EXCEPT !.at = IF desk[h].what = "link" THEN "save" ELSE "read"]
    BY <1>1, <1>4 DEF RematchSession, DeskAt, DeskTo, RecordTypeOK
  <2>2. /\ desk'[h].at \in {"save", "read"} /\ desk'[h].doc = desk[h].doc
        /\ desk'[h].call = desk[h].call /\ desk'[h].what = desk[h].what
    BY <1>1, <2>1 DEF DeskRecords
  <2>3. Agree' /\ \A n \in Pending : n = desk[h].call
    BY <1>1, <2>1 DEF AgreeFits, Agree
  <2>4. AgreeFits(h)'
    BY <1>1, <2>1, <2>2, <2>3 DEF AgreeFits
  <2> QED
    BY <1>1, <2>2, <2>4, OneRematches DEF Rematches
<1>5. CASE ReadHolder(h)
  <2>1. /\ desk[h].at = "read" /\ person' = person
        /\ desk'[h] = [desk[h] EXCEPT !.holder = given[desk[h].doc],
                                      !.at = IF desk[h].what = "link" THEN "event" ELSE "save"]
    BY <1>1, <1>5 DEF ReadHolder, DeskAt, recordDb, RecordTypeOK
  <2>2. /\ desk'[h].at = (IF desk[h].what = "link" THEN "event" ELSE "save")
        /\ desk'[h].doc = desk[h].doc
        /\ desk'[h].call = desk[h].call /\ desk'[h].what = desk[h].what
    BY <1>1, <2>1 DEF DeskRecords
  <2>3. Agree' /\ \A n \in Pending : n = desk[h].call
    BY <1>1, <2>1 DEF AgreeFits, Agree
  <2>4. AgreeFits(h)'
    BY <1>1, <2>1, <2>2, <2>3 DEF AgreeFits, Rematches
  <2> QED
    BY <1>1, <2>2, <2>4, OneRematches DEF Rematches
<1>6. CASE SaveHolder(h)
  <2>1. desk[h].at = "save" /\ person' = person /\ desk'[h] = NoRecordDesk
    BY <1>1, <1>6 DEF SaveHolder, DeskAt, RecordTypeOK
  <2>2. Agree' /\ ~Rematches(h)'
    BY <1>1, <2>1 DEF AgreeFits, Agree, Rematches, NoRecordDesk
  <2> QED
    BY <1>1, <2>2, OneRematches
<1> QED
  BY <1>2, <1>3, <1>4, <1>5, <1>6

LEMMA CallAgree ==
  ASSUME TypesInv, AgreeInv, NEW h \in RecordDesks, ~crossed, BookCall(h) \/ RematchCall(h)
  PROVE  AgreeInv'
<1>1. /\ RecordTypeOK /\ desk[h] \in DeskRecords /\ person' = person /\ DeskFits(h)
      /\ Rematches(h)
  BY PlaceTells DEF TypesInv, RecordTypeOK, BookCall, RematchCall, DeskAt, Rematches
<1>2. AgreeFits(h) /\ \A g \in RecordDesks \ {h} : ~Rematches(g) /\ desk'[g] = desk[g]
  BY <1>1, OneDesk, OnlyOne
<1>3. CASE BookCall(h)
  <2>1. PICK k \in Nat, u \in Advisers :
          /\ desk'[h].at = "match" /\ desk'[h].call = k /\ desk'[h].what = "booking"
          /\ desk'[h].seen = desk[h].seen
          /\ \A n \in Pending' : n = k
          /\ \/ calls' = calls /\ k \in Pending
             \/ calls'[k] = [customer |-> desk[h].seen, user |-> u, pending |-> TRUE]
    BY <1>3, BookCallDoes
  <2>2. desk[h].seen = person /\ Agree
    BY <1>2, <1>3, BookCallDoes DEF AgreeFits
  <2>3. Agree'
    BY <1>1, <2>1, <2>2 DEF Agree, Pending
  <2>4. AgreeFits(h)'
    BY <1>1, <2>1, <2>2, <2>3 DEF AgreeFits
  <2> QED
    BY <1>1, <1>2, <2>1, <2>4, OneRematches DEF Rematches
<1>5. CASE RematchCall(h)
  <2> DEFINE k == desk[h].call
             e == [calls[k] EXCEPT !.customer = desk[h].doc]
  <2>1. k \in DOMAIN calls /\ desk[h].doc \in Documents /\ desk[h].at = "event"
    BY <1>1, <1>5 DEF RematchCall, DeskFits, DeskAt, Rematches
  <2>2. /\ e \in CallEvents /\ (e.pending => calls[k].pending) /\ e.customer = desk[h].doc
        /\ calls' = [calls EXCEPT ![k] = e]
    <3>1. calls[k] \in CallEvents
      BY <1>1, <2>1, CallIs
    <3> QED
      BY <1>5, <2>1, <3>1 DEF RematchCall, CallEvents
  <2> HIDE DEF e
  <2>3. Pending' \subseteq Pending /\ calls'[k] = e
    BY <1>1, <2>1, <2>2, OneCallChanges
  <2>4. desk'[h] = [desk[h] EXCEPT !.at = "session"]
    BY <1>1, <1>5 DEF RematchCall, DeskTo, RecordTypeOK
  <2>5. /\ desk'[h].at = "session" /\ desk'[h].call = k /\ desk'[h].doc = desk[h].doc
        /\ desk'[h].what = desk[h].what
    BY <1>1, <2>4 DEF DeskRecords
  <2>6. \A n \in Pending' : n = k
    BY <1>2, <2>1, <2>3 DEF AgreeFits
  <2>7. AgreeFits(h)'
    BY <2>2, <2>3, <2>5, <2>6 DEF AgreeFits
  <2> QED
    BY <1>1, <1>2, <2>5, <2>7, OneRematches DEF Rematches
<1> QED
  BY <1>3, <1>5

\* What the office does to the calls.
LEMMA OfficeCalls ==
  ASSUME TypesInv, Office
  PROVE  Pending' \subseteq Pending /\ \A n \in Pending' : calls'[n] = calls[n]
<1>1. RecordTypeOK
  BY DEF TypesInv
<1>2. CASE calls' = calls
  BY <1>2 DEF Pending
<1>3. ASSUME NEW k \in Pending, calls' = [calls EXCEPT ![k].pending = FALSE]
      PROVE  Pending' \subseteq Pending /\ \A n \in Pending' : calls'[n] = calls[n]
  <2> DEFINE e == [calls[k] EXCEPT !.pending = FALSE]
  <2>1. k \in DOMAIN calls /\ calls[k] \in CallEvents
    BY <1>1, CallIs DEF Pending
  <2>2. e \in CallEvents /\ ~e.pending /\ calls' = [calls EXCEPT ![k] = e]
    BY <1>3, <2>1 DEF CallEvents
  <2> HIDE DEF e
  <2>3. /\ Pending' \subseteq Pending /\ calls'[k] = e
        /\ \A m \in DOMAIN calls \ {k} : calls'[m] = calls[m]
    BY <1>1, <2>1, <2>2, OneCallChanges
  <2> QED
    BY <2>2, <2>3 DEF Pending
<1> QED
  BY <1>2, <1>3 DEF Office

\* What a move does to its call.
LEMMA MoveCallDoes ==
  ASSUME TypesInv, NEW h \in RecordDesks, MoveCall(h)
  PROVE  /\ desk[h].at = "move" /\ desk[h].what = "move"
         /\ Pending' \subseteq Pending
         /\ \A n \in Pending' : calls'[n].customer = calls[n].customer
         /\ calls'[desk[h].call].user = desk[h].user
         /\ desk'[h] = [desk[h] EXCEPT !.at = "read"]
<1> DEFINE k == desk[h].call
           e == [calls[k] EXCEPT !.user = desk[h].user]
<1>1. /\ RecordTypeOK /\ desk[h] \in DeskRecords /\ desk[h].at = "move"
      /\ desk[h].what = "move" /\ k \in DOMAIN calls /\ desk[h].user \in Advisers
  BY PlaceTells DEF TypesInv, RecordTypeOK, MoveCall, DeskAt, DeskFits
<1>2. calls[k] \in CallEvents
  BY <1>1, CallIs
<1>3. /\ e \in CallEvents /\ (e.pending => calls[k].pending) /\ calls' = [calls EXCEPT ![k] = e]
      /\ e.customer = calls[k].customer /\ e.user = desk[h].user
  BY <1>1, <1>2 DEF MoveCall, CallEvents
<1> HIDE DEF e
<1>4. /\ Pending' \subseteq Pending /\ calls'[k] = e
      /\ \A m \in DOMAIN calls \ {k} : calls'[m] = calls[m]
  BY <1>1, <1>3, OneCallChanges
<1>5. desk'[h] = [desk[h] EXCEPT !.at = "read"]
  BY <1>1 DEF MoveCall, DeskTo, RecordTypeOK
<1> QED
  BY <1>1, <1>3, <1>4, <1>5 DEF Pending

LEMMA OpenAgree ==
  ASSUME TypesInv, AgreeInv, NEW h \in RecordDesks, OpenSession(h)
  PROVE  AgreeInv'
<1>1. /\ RecordTypeOK /\ desk[h].what = "message" /\ desk'[h].what = "message"
      /\ calls' = calls /\ crossed' = crossed /\ Pending' = Pending
      /\ \A g \in RecordDesks \ {h} : desk'[g] = desk[g]
  BY OneDesk DEF TypesInv, RecordTypeOK, OpenSession, recordHistory, NoRecordDesk, Pending
<1>2. CASE person # NoDocument
  BY <1>1, <1>2, AgreeAside DEF OpenSession, Rematches
<1>3. CASE person = NoDocument
  <2>1. calls = <<>> /\ \A g \in RecordDesks : ~Rematches(g)
    BY <1>3 DEF TypesInv, PersonFits, DeskFits, Rematches
  <2>2. Agree' /\ ~Rematches(h)'
    BY <1>1, <2>1 DEF Agree, Pending, Rematches
  <2> QED
    BY <1>1, <2>1, <2>2, OneRematches
<1> QED
  BY <1>2, <1>3

\* What a request that does not rematch does.
LEMMA OtherDesksAgree ==
  ASSUME TypesInv, AgreeInv, NEW h \in RecordDesks, ~Rematches(h),
         \/ TakeMessage(h) \/ CreateLead(h) \/ Prefer(h) \/ TagLead(h) \/ MatchAgain(h)
         \/ RematchSession(h) \/ ReadHolder(h) \/ SaveHolder(h) \/ MoveCall(h)
         \/ \E n \in 1 .. MaxCalls : \E u \in Advisers : TakeMove(h, n, u)
  PROVE  AgreeInv'
<1>1. /\ RecordTypeOK /\ desk[h] \in DeskRecords /\ DeskFits(h) /\ crossed' = crossed
      /\ \A g \in RecordDesks \ {h} : desk'[g] = desk[g]
  BY OneDesk DEF TypesInv, RecordTypeOK, TakeMessage, CreateLead, Prefer, TagLead, MatchAgain,
     RematchSession, ReadHolder, SaveHolder, MoveCall, TakeMove, recordHistory
<1>2. desk[h].what \in {"message", "move"}
  BY <1>1 DEF Rematches, DeskRecords
<1>3. ~MatchAgain(h) /\ ~RematchSession(h)
  BY <1>1, <1>2 DEF MatchAgain, RematchSession, DeskFits, DeskAt, Places
<1>4. desk'[h].what \in {"message", "move"}
  <2>1. CASE TakeMessage(h)
    BY <1>1, <2>1 DEF TakeMessage, Accept, NoRecordDesk, RecordTypeOK
  <2>2. ASSUME NEW n, NEW u, TakeMove(h, n, u) PROVE desk'[h].what \in {"message", "move"}
    BY <1>1, <2>2 DEF TakeMove, Accept, NoRecordDesk, RecordTypeOK
  <2>3. CASE SaveHolder(h)
    BY <1>1, <2>3 DEF SaveHolder, NoRecordDesk, RecordTypeOK
  <2>4. CASE CreateLead(h) \/ Prefer(h)
    BY <1>1, <1>2, <2>4 DEF CreateLead, Prefer, RecordTypeOK, DeskRecords
  <2>5. CASE TagLead(h) \/ ReadHolder(h) \/ MoveCall(h)
    BY <1>1, <1>2, <2>5 DEF TagLead, ReadHolder, MoveCall, DeskTo, RecordTypeOK, DeskRecords
  <2> QED
    BY <1>3, <2>1, <2>2, <2>3, <2>4, <2>5
<1>5. \A g \in RecordDesks : desk'[g] = desk[g] \/ (~Rematches(g) /\ ~Rematches(g)')
  BY <1>1, <1>4 DEF Rematches
<1>6. person' = person
  BY <1>3 DEF TakeMessage, CreateLead, Prefer, TagLead, ReadHolder, SaveHolder, MoveCall,
     TakeMove,
              recordDb
<1>7. Pending' \subseteq Pending /\ \A n \in Pending' : calls'[n].customer = calls[n].customer
  <2>1. CASE MoveCall(h)
    BY <2>1, MoveCallDoes
  <2>2. CASE calls' = calls
    BY <2>2 DEF Pending
  <2> QED
    BY <1>3, <2>1, <2>2 DEF TakeMessage, CreateLead, Prefer, TagLead, ReadHolder, SaveHolder,
                            TakeMove, recordDb
<1> QED
  BY <1>1, <1>5, <1>6, <1>7, AgreeAside

LEMMA AgreeNext ==
  ASSUME TypesInv, AgreeInv, [RecordNext]_recordVars
  PROVE  AgreeInv'
<1>1. ASSUME NEW h \in RecordDesks,
             \/ Prefer(h) \/ MatchAgain(h) \/ RematchSession(h) \/ ReadHolder(h) \/ SaveHolder(h)
             \/ BookCall(h) \/ RematchCall(h)
      PROVE  AgreeInv'
  <2>1. crossed' = crossed
    BY <1>1 DEF Prefer, MatchAgain, RematchSession, ReadHolder, SaveHolder, BookCall,
       RematchCall,
                recordHistory
  <2>2. CASE crossed
    BY <2>1, <2>2 DEF AgreeInv
  <2> QED
    BY <1>1, <2>2, ReadAgree, OtherDesksAgree, CallAgree
<1>2. ASSUME NEW h \in RecordDesks,
             \/ TakeMessage(h) \/ CreateLead(h) \/ TagLead(h) \/ OpenSession(h) \/ MoveCall(h)
             \/ \E n \in 1 .. MaxCalls : \E u \in Advisers : TakeMove(h, n, u)
      PROVE  AgreeInv'
  <2>1. CASE OpenSession(h)
    BY <2>1, OpenAgree
  <2>2. CASE ~OpenSession(h)
    <3>1. DeskFits(h) /\ desk[h] \in DeskRecords
      BY DEF TypesInv, RecordTypeOK
    <3>2. desk[h].at \in {"idle", "create", "tag", "move"}
      BY <1>2, <2>2 DEF TakeMessage, CreateLead, TagLead, MoveCall, TakeMove, Accept, DeskAt
    <3>3. ~Rematches(h)
      BY <3>1, <3>2, PlaceTells DEF Rematches
    <3> QED
      BY <1>2, <2>2, <3>3, OtherDesksAgree
  <2> QED
    BY <2>1, <2>2
<1>3. ASSUME NEW h \in RecordDesks,
             \/ TakeBooking(h) \/ \E n \in 1 .. MaxCalls : \E d \in Documents : TakeLink(h, n, d)
      PROVE  AgreeInv'
  BY <1>3, TakeAgree
<1>4. CASE Office \/ FormComes \/ (\E d \in Own : NumberComes(d)) \/ UNCHANGED recordVars
  <2>1. UNCHANGED <<person, desk, crossed>>
    BY <1>4 DEF Office, FormComes, NumberComes, recordVars, recordDb, recordHistory
  <2>2. Pending' \subseteq Pending /\ \A n \in Pending' : calls'[n] = calls[n]
    <3>1. CASE Office
      BY <3>1, OfficeCalls
    <3>2. CASE calls' = calls
      BY <3>2 DEF Pending
    <3> QED
      BY <1>4, <3>1, <3>2 DEF FormComes, NumberComes, recordVars, recordDb
  <2> QED
    BY <2>1, <2>2, AgreeAside
<1> QED
  BY <1>1, <1>2, <1>3, <1>4 DEF RecordNext

-----------------------------------------------------------------------------
(* The document is assigned to the user of its call                          *)

Serves(h) == desk[h].what \in {"booking", "link", "move"}
Settled(n) == calls[n].customer \in placed \/ given[calls[n].customer] = calls[n].user

\* What holds of the one request that serves a call.
HeldFits(h) ==
  /\ desk[h].at = "book" => \A n \in Pending : Settled(n)
  /\ desk[h].at # "book" => \A n \in Pending : n = desk[h].call
  /\ desk[h].at \notin {"book", "move"} => \A n \in Pending : calls[n].user = desk[h].user
  /\ desk[h].what = "move" => \A n \in Pending : calls[n].customer = desk[h].doc
  /\ desk[h].at = "save" \/ (desk[h].what = "link" /\ desk[h].at \in {"event", "session"}) =>
       desk[h].holder = given[desk[h].doc] \/ desk[h].doc \in placed

HeldInv ==
  /\ crossed => moved
  /\ ~moved =>
       /\ \A g, h \in RecordDesks : Serves(g) /\ Serves(h) => g = h
       /\ (\A h \in RecordDesks : ~Serves(h)) => \A n \in Pending : Settled(n)
       /\ \A h \in RecordDesks : Serves(h) => HeldFits(h)

LEMMA HeldInit == RecordInit => HeldInv
BY DEF RecordInit, HeldInv, Pending, Serves, NoRecordDesk

LEMMA OneServes ==
  ASSUME NEW h \in RecordDesks, crossed' => moved',
         \A g \in RecordDesks \ {h} : ~Serves(g) /\ desk'[g] = desk[g],
         Serves(h)' => HeldFits(h)', ~Serves(h)' => \A n \in Pending' : Settled(n)'
  PROVE  HeldInv'
<1>1. \A g \in RecordDesks \ {h} : ~Serves(g)'
  BY DEF Serves
<1> QED
  BY <1>1 DEF HeldInv

LEMMA HeldAside ==
  ASSUME TypesInv, HeldInv, UNCHANGED <<crossed, moved>>, Pending' \subseteq Pending,
         \A n \in Pending' : calls'[n] = calls[n],
         \A d \in Documents : d \in placed' \/ (d \notin placed /\ given'[d] = given[d]),
         \A g \in RecordDesks : desk'[g] = desk[g] \/ (~Serves(g) /\ ~Serves(g)')
  PROVE  HeldInv'
<1>1. SUFFICES ASSUME ~moved PROVE HeldInv'
  BY DEF HeldInv
<1>2. \A g \in RecordDesks : Serves(g)' = Serves(g)
  BY DEF Serves
<1>3. ASSUME NEW n \in Pending', Settled(n) PROVE Settled(n)'
  <2>1. calls[n].customer \in Documents
    BY CallIs DEF Pending, TypesInv
  <2> QED
    BY <1>3, <2>1 DEF Settled
<1>4. ASSUME NEW g \in RecordDesks, Serves(g)' PROVE HeldFits(g)'
  <2>1. Serves(g) /\ desk'[g] = desk[g] /\ HeldFits(g) /\ DeskFits(g)
    BY <1>1, <1>2, <1>4 DEF HeldInv, TypesInv
  <2>2. desk[g].at \in {"save", "event", "session"} => desk[g].doc \in Documents
    BY <2>1 DEF DeskFits
  <2>3. desk[g].at = "save" \/ (desk[g].what = "link" /\ desk[g].at \in {"event", "session"}) =>
          desk[g].holder = given'[desk[g].doc] \/ desk[g].doc \in placed'
    BY <2>1, <2>2 DEF HeldFits
  <2> QED
    BY <1>3, <2>1, <2>3 DEF HeldFits
<1>5. \A g, h \in RecordDesks : Serves(g)' /\ Serves(h)' => g = h
  BY <1>1, <1>2 DEF HeldInv
<1>6. (\A h \in RecordDesks : ~Serves(h)') => \A n \in Pending' : Settled(n)'
  BY <1>1, <1>2, <1>3 DEF HeldInv
<1>7. crossed' => moved'
  BY DEF HeldInv
<1> QED
  BY <1>4, <1>5, <1>6, <1>7 DEF HeldInv

LEMMA OnlyServer ==
  ASSUME HeldInv, ~moved, NEW h \in RecordDesks, Serves(h)
  PROVE  HeldFits(h) /\ ~crossed /\ \A g \in RecordDesks \ {h} : ~Serves(g)
BY DEF HeldInv

LEMMA TakeHeld ==
  ASSUME TypesInv, HeldInv, NEW h \in RecordDesks,
         \/ TakeBooking(h)
         \/ \E n \in 1 .. MaxCalls :
              \/ \E d \in Documents : TakeLink(h, n, d)
              \/ \E u \in Advisers : TakeMove(h, n, u)
  PROVE  HeldInv'
<1>1. /\ RecordTypeOK /\ desk[h].at = "idle" /\ UNCHANGED <<calls, given, placed>>
      /\ \A g \in RecordDesks \ {h} : desk'[g] = desk[g]
  BY OneDesk DEF TypesInv, TakeBooking, TakeLink, TakeMove, Accept, recordDb
<1>2. crossed' => moved'
  BY DEF HeldInv, TakeBooking, TakeLink, TakeMove, Handling
<1>3. SUFFICES ASSUME ~moved' PROVE HeldInv'
  BY <1>2 DEF HeldInv
<1>4. ~moved /\ Handling({"booking", "link", "move"}) = {}
  BY <1>3 DEF TakeBooking, TakeLink, TakeMove
<1>5. \A g \in RecordDesks : ~Serves(g)
  BY <1>4, HandlingIs DEF Serves
<1>6. Pending' = Pending /\ \A n \in Pending : Settled(n) /\ Settled(n)'
  BY <1>1, <1>4, <1>5 DEF HeldInv, Settled, Pending
<1>7. CASE TakeBooking(h)
  <2>1. desk'[h].at = "book" /\ desk'[h].what = "booking"
    BY <1>1, <1>7 DEF TakeBooking, Accept, NoRecordDesk, RecordTypeOK
  <2>2. HeldFits(h)' /\ Serves(h)'
    BY <1>6, <2>1 DEF HeldFits, Serves
  <2> QED
    BY <1>1, <1>2, <1>5, <2>2, OneServes
<1>8. ASSUME NEW n, NEW d, TakeLink(h, n, d) PROVE HeldInv'
  <2>1. /\ desk'[h].at = "read" /\ desk'[h].what = "link" /\ desk'[h].call = n
        /\ desk'[h].user = calls[n].user
    BY <1>1, <1>8 DEF TakeLink, Accept, NoRecordDesk, RecordTypeOK
  <2>2. n \in Pending /\ \A m \in Pending : m = n
    BY <1>1, <1>3, <1>8 DEF TakeLink, Pending, RecordTypeOK
  <2>3. HeldFits(h)' /\ Serves(h)'
    BY <1>1, <1>6, <2>1, <2>2 DEF HeldFits, Serves
  <2> QED
    BY <1>1, <1>2, <1>5, <2>3, OneServes
<1>9. ASSUME NEW n, NEW u, TakeMove(h, n, u) PROVE HeldInv'
  <2>1. /\ desk'[h].at = "move" /\ desk'[h].what = "move" /\ desk'[h].call = n
        /\ desk'[h].doc = calls[n].customer
    BY <1>1, <1>9 DEF TakeMove, Accept, NoRecordDesk, RecordTypeOK
  <2>2. n \in Pending /\ \A m \in Pending : m = n
    BY <1>1, <1>9 DEF TakeMove, RecordTypeOK
  <2>3. HeldFits(h)' /\ Serves(h)'
    BY <1>1, <1>6, <2>1, <2>2 DEF HeldFits, Serves
  <2> QED
    BY <1>1, <1>2, <1>5, <2>3, OneServes
<1> QED
  BY <1>7, <1>8, <1>9

LEMMA ReadHeld ==
  ASSUME TypesInv, HeldInv, NEW h \in RecordDesks, Serves(h), ~moved,
         Prefer(h) \/ MatchAgain(h) \/ RematchSession(h) \/ ReadHolder(h)
  PROVE  HeldInv'
<1>1. /\ RecordTypeOK /\ desk[h] \in DeskRecords /\ UNCHANGED <<calls, given, placed, crossed>>
      /\ Pending' = Pending /\ DeskFits(h) /\ HeldFits(h) /\ ~crossed
      /\ \A g \in RecordDesks \ {h} : ~Serves(g) /\ desk'[g] = desk[g]
  BY OneDesk, OnlyServer DEF TypesInv, RecordTypeOK, Prefer, MatchAgain, RematchSession,
                             ReadHolder, recordDb, recordHistory, Pending
<1>2. /\ \A n \in Pending : n = desk[h].call
      /\ \A n \in Pending : calls[n].user = desk[h].user
      /\ desk[h].what = "move" => \A n \in Pending : calls[n].customer = desk[h].doc
  BY <1>1 DEF HeldFits, Prefer, MatchAgain, RematchSession, ReadHolder, DeskAt
<1>3. CASE Prefer(h) \/ MatchAgain(h)
  <2>1. desk[h].what = "booking"
    BY <1>1, <1>3, PlaceTells DEF Prefer, MatchAgain, DeskAt, Serves
  <2>2. /\ desk'[h].what = "booking" /\ desk'[h].call = desk[h].call
        /\ desk'[h].user = desk[h].user /\ desk'[h].at \in {"prefer", "event", "read"}
    <3>1. CASE Prefer(h)
      BY <1>1, <2>1, <3>1 DEF Prefer, RecordTypeOK, DeskRecords
    <3>2. CASE MatchAgain(h)
      BY <1>1, <2>1, <3>2 DEF MatchAgain, RecordTypeOK, DeskRecords
    <3> QED
      BY <1>3, <3>1, <3>2
  <2>3. HeldFits(h)' /\ Serves(h)'
    BY <1>1, <1>2, <2>2 DEF HeldFits, Serves
  <2> QED
    BY <1>1, <2>3, OneServes
<1>4. CASE RematchSession(h)
  <2>1. /\ desk[h].at = "session"
        /\ desk'[h] = [desk[h] EXCEPT !.at = IF desk[h].what = "link" THEN "save" ELSE "read"]
    BY <1>1, <1>4 DEF RematchSession, DeskAt, DeskTo, RecordTypeOK
  <2>2. /\ desk'[h].at = (IF desk[h].what = "link" THEN "save" ELSE "read")
        /\ desk'[h].doc = desk[h].doc /\ desk'[h].holder = desk[h].holder
        /\ desk'[h].call = desk[h].call /\ desk'[h].what = desk[h].what
        /\ desk'[h].user = desk[h].user
    BY <1>1, <2>1 DEF DeskRecords
  <2>3. desk[h].what = "link" => desk[h].holder = given[desk[h].doc] \/ desk[h].doc \in placed
    BY <1>1, <2>1 DEF HeldFits
  <2>4. HeldFits(h)' /\ Serves(h)'
    BY <1>1, <1>2, <2>2, <2>3 DEF HeldFits, Serves
  <2> QED
    BY <1>1, <2>4, OneServes
<1>5. CASE ReadHolder(h)
  <2>1. desk'[h] = [desk[h] EXCEPT !.holder = given[desk[h].doc],
                                   !.at = IF desk[h].what = "link" THEN "event" ELSE "save"]
    BY <1>1, <1>5 DEF ReadHolder, RecordTypeOK
  <2>2. /\ desk'[h].at \in {"event", "save"}
        /\ desk'[h].doc = desk[h].doc /\ desk'[h].holder = given[desk[h].doc]
        /\ desk'[h].call = desk[h].call /\ desk'[h].what = desk[h].what
        /\ desk'[h].user = desk[h].user
    BY <1>1, <2>1 DEF DeskRecords
  <2>3. HeldFits(h)' /\ Serves(h)'
    BY <1>1, <1>2, <2>2 DEF HeldFits, Serves
  <2> QED
    BY <1>1, <2>3, OneServes
<1> QED
  BY <1>3, <1>4, <1>5

LEMMA SaveHeld ==
  ASSUME TypesInv, AgreeInv, HeldInv, NEW h \in RecordDesks, ~moved, SaveHolder(h)
  PROVE  HeldInv'
<1>1. /\ RecordTypeOK /\ desk[h] \in DeskRecords /\ DeskFits(h) /\ desk[h].at = "save"
      /\ UNCHANGED <<calls, crossed>> /\ Pending' = Pending
  BY DEF TypesInv, RecordTypeOK, SaveHolder, DeskAt, Pending
<1>2. Serves(h) /\ desk[h].doc \in Documents
  BY <1>1, PlaceTells DEF Serves, DeskFits
<1>3. /\ HeldFits(h) /\ ~crossed
      /\ \A g \in RecordDesks \ {h} : ~Serves(g) /\ desk'[g] = desk[g]
  BY <1>1, <1>2, OnlyServer, OneDesk
<1> DEFINE d == desk[h].doc
           to == IF desk[h].user = desk[h].holder THEN given[d] ELSE desk[h].user
<1>4. /\ given' = [given EXCEPT ![d] = to] /\ desk'[h] = NoRecordDesk
      /\ placed' = IF to = desk[h].user THEN placed \ {d} ELSE placed
  BY <1>1 DEF SaveHolder, RecordTypeOK
<1>5. ASSUME NEW n \in Pending PROVE Settled(n)'
  <2>1. calls[n].user = desk[h].user /\ (desk[h].holder = given[d] \/ d \in placed)
    BY <1>1, <1>3 DEF HeldFits
  <2>2. calls[n].customer = d
    <3>1. CASE desk[h].what = "move"
      BY <1>3, <3>1 DEF HeldFits
    <3>2. CASE desk[h].what # "move"
      <4>1. Rematches(h)
        BY <1>2, <3>2 DEF Rematches, Serves
      <4> QED
        BY <1>1, <1>3, <4>1, OnlyOne DEF AgreeFits, Agree
    <3> QED
      BY <3>1, <3>2
  <2>3. given'[d] = to
    BY <1>1, <1>2, <1>4 DEF RecordTypeOK
  <2>4. to = desk[h].user \/ d \in placed'
    BY <1>4, <2>1
  <2> QED
    BY <1>1, <2>1, <2>2, <2>3, <2>4 DEF Settled
<1>6. ~Serves(h)'
  BY <1>4 DEF Serves, NoRecordDesk
<1> QED
  BY <1>1, <1>3, <1>5, <1>6, OneServes

LEMMA CallHeld ==
  ASSUME TypesInv, HeldInv, NEW h \in RecordDesks, ~moved,
         BookCall(h) \/ RematchCall(h) \/ MoveCall(h)
  PROVE  HeldInv'
<1>1. /\ RecordTypeOK /\ desk[h] \in DeskRecords /\ DeskFits(h)
      /\ UNCHANGED <<given, placed, crossed>> /\ Serves(h)
  BY PlaceTells DEF TypesInv, RecordTypeOK, BookCall, RematchCall, MoveCall, DeskAt, Serves,
                    recordHistory
<1>2. /\ HeldFits(h) /\ ~crossed
      /\ \A g \in RecordDesks \ {h} : ~Serves(g) /\ desk'[g] = desk[g]
  BY <1>1, OneDesk, OnlyServer
<1>3. CASE BookCall(h)
  <2>1. PICK k \in Nat, u \in Advisers :
          /\ desk'[h].at = "match" /\ desk'[h].call = k /\ desk'[h].what = "booking"
          /\ desk'[h].user = u
          /\ \A n \in Pending' : n = k
          /\ \/ calls' = calls /\ k \in Pending /\ u = calls[k].user
             \/ calls'[k] = [customer |-> desk[h].seen, user |-> u, pending |-> TRUE]
    BY <1>3, BookCallDoes
  <2>2. calls'[k].user = u
    BY <2>1
  <2>3. HeldFits(h)' /\ Serves(h)'
    BY <2>1, <2>2 DEF HeldFits, Serves
  <2> QED
    BY <1>1, <1>2, <2>3, OneServes
<1>4. CASE RematchCall(h)
  <2> DEFINE k == desk[h].call
             e == [calls[k] EXCEPT !.customer = desk[h].doc]
  <2>1. /\ k \in DOMAIN calls /\ desk[h].doc \in Documents /\ desk[h].at = "event"
        /\ desk[h].what \in {"booking", "link"}
    BY <1>1, <1>4, PlaceTells DEF RematchCall, DeskFits, DeskAt
  <2>2. /\ e \in CallEvents /\ (e.pending => calls[k].pending) /\ e.user = calls[k].user
        /\ calls' = [calls EXCEPT ![k] = e]
    <3>1. calls[k] \in CallEvents
      BY <1>1, <2>1, CallIs
    <3> QED
      BY <1>4, <2>1, <3>1 DEF RematchCall, CallEvents
  <2> HIDE DEF e
  <2>3. Pending' \subseteq Pending /\ calls'[k] = e
    BY <1>1, <2>1, <2>2, OneCallChanges
  <2>4. desk'[h] = [desk[h] EXCEPT !.at = "session"]
    BY <1>1, <1>4 DEF RematchCall, DeskTo, RecordTypeOK
  <2>5. /\ desk'[h].at = "session" /\ desk'[h].call = k /\ desk'[h].doc = desk[h].doc
        /\ desk'[h].what = desk[h].what /\ desk'[h].user = desk[h].user
        /\ desk'[h].holder = desk[h].holder
    BY <1>1, <2>4 DEF DeskRecords
  <2>6. \A n \in Pending' : n = k /\ calls'[n].user = desk[h].user
    BY <1>2, <2>1, <2>2, <2>3 DEF HeldFits
  <2>7. desk[h].what = "link" => desk[h].holder = given[desk[h].doc] \/ desk[h].doc \in placed
    BY <1>2, <2>1 DEF HeldFits
  <2>8. HeldFits(h)' /\ Serves(h)'
    BY <1>1, <2>1, <2>5, <2>6, <2>7 DEF HeldFits, Serves
  <2> QED
    BY <1>1, <1>2, <2>8, OneServes
<1>5. CASE MoveCall(h)
  <2>1. /\ desk[h].at = "move" /\ desk[h].what = "move"
        /\ Pending' \subseteq Pending
        /\ \A n \in Pending' : calls'[n].customer = calls[n].customer
        /\ calls'[desk[h].call].user = desk[h].user
        /\ desk'[h] = [desk[h] EXCEPT !.at = "read"]
    BY <1>5, MoveCallDoes
  <2>2. /\ desk'[h].at = "read" /\ desk'[h].call = desk[h].call /\ desk'[h].doc = desk[h].doc
        /\ desk'[h].what = "move" /\ desk'[h].user = desk[h].user
    BY <1>1, <2>1 DEF DeskRecords
  <2>3. \A n \in Pending : n = desk[h].call /\ calls[n].customer = desk[h].doc
    BY <1>2, <2>1 DEF HeldFits
  <2>4. HeldFits(h)' /\ Serves(h)'
    BY <2>1, <2>2, <2>3 DEF HeldFits, Serves
  <2> QED
    BY <1>1, <1>2, <2>4, OneServes
<1> QED
  BY <1>3, <1>4, <1>5

\* The messages, which serve no call.
LEMMA MessageHeld ==
  ASSUME TypesInv, HeldInv, NEW h \in RecordDesks,
         \/ TakeMessage(h) \/ CreateLead(h) \/ TagLead(h) \/ OpenSession(h)
         \/ (Prefer(h) /\ ~Serves(h))
  PROVE  HeldInv'
<1>1. /\ RecordTypeOK /\ desk[h] \in DeskRecords /\ DeskFits(h)
      /\ UNCHANGED <<calls, given, placed, crossed, moved>> /\ Pending' = Pending
      /\ \A g \in RecordDesks \ {h} : desk'[g] = desk[g]
  BY OneDesk DEF TypesInv, RecordTypeOK, TakeMessage, CreateLead, TagLead, OpenSession, Prefer,
                 recordDb, recordHistory, Pending
<1>2. desk[h].what = "message"
  BY <1>1, PlaceTells DEF TakeMessage, CreateLead, TagLead, OpenSession, Prefer, Accept, DeskAt,
                          Serves, DeskRecords
<1>3. desk'[h].what = "message"
  <2>1. CASE TakeMessage(h)
    BY <1>1, <2>1 DEF TakeMessage, Accept, NoRecordDesk, RecordTypeOK
  <2>2. CASE OpenSession(h)
    BY <1>1, <2>2 DEF OpenSession, NoRecordDesk, RecordTypeOK
  <2>3. CASE CreateLead(h) \/ Prefer(h)
    BY <1>1, <1>2, <2>3 DEF CreateLead, Prefer, RecordTypeOK, DeskRecords
  <2>4. CASE TagLead(h)
    BY <1>1, <1>2, <2>4 DEF TagLead, DeskTo, RecordTypeOK, DeskRecords
  <2> QED
    BY <2>1, <2>2, <2>3, <2>4
<1>4. \A g \in RecordDesks : desk'[g] = desk[g] \/ (~Serves(g) /\ ~Serves(g)')
  BY <1>1, <1>2, <1>3 DEF Serves
<1>5. UNCHANGED <<crossed, moved>> /\ Pending' \subseteq Pending
  BY <1>1
<1>6. \A n \in Pending' : calls'[n] = calls[n]
  BY <1>1
<1>7. \A d \in Documents : d \in placed' \/ (d \notin placed /\ given'[d] = given[d])
  BY <1>1
<1> QED
  BY <1>4, <1>5, <1>6, <1>7, HeldAside

LEMMA HeldNext ==
  ASSUME TypesInv, AgreeInv, HeldInv, [RecordNext]_recordVars
  PROVE  HeldInv'
<1>1. ASSUME NEW h \in RecordDesks,
             \/ MatchAgain(h) \/ RematchSession(h) \/ ReadHolder(h) \/ SaveHolder(h)
             \/ BookCall(h) \/ RematchCall(h) \/ MoveCall(h) \/ (Prefer(h) /\ Serves(h))
      PROVE  HeldInv'
  <2>1. UNCHANGED <<crossed, moved>>
    BY <1>1 DEF Prefer, MatchAgain, RematchSession, ReadHolder, SaveHolder, BookCall,
       RematchCall,
                MoveCall, recordHistory
  <2>2. CASE moved
    BY <2>1, <2>2 DEF HeldInv
  <2>3. Serves(h)
    <3>1. desk[h] \in DeskRecords /\ DeskFits(h)
      BY DEF TypesInv, RecordTypeOK
    <3> QED
      BY <1>1, <3>1, PlaceTells DEF Serves, MatchAgain, RematchSession, ReadHolder, SaveHolder,
                                    BookCall, RematchCall, MoveCall, DeskAt, DeskRecords
  <2> QED
    BY <1>1, <2>2, <2>3, ReadHeld, SaveHeld, CallHeld
<1>2. ASSUME NEW h \in RecordDesks,
             \/ TakeMessage(h) \/ CreateLead(h) \/ TagLead(h) \/ OpenSession(h)
             \/ (Prefer(h) /\ ~Serves(h))
      PROVE  HeldInv'
  BY <1>2, MessageHeld
<1>3. CASE Office \/ FormComes \/ (\E d \in Own : NumberComes(d)) \/ UNCHANGED recordVars
  <2>1. UNCHANGED <<desk, crossed, moved>>
    BY <1>3 DEF Office, FormComes, NumberComes, recordVars, recordDb, recordHistory
  <2>2. Pending' \subseteq Pending /\ \A n \in Pending' : calls'[n] = calls[n]
    <3>1. CASE Office
      BY <3>1, OfficeCalls
    <3>2. CASE calls' = calls
      BY <3>2 DEF Pending
    <3> QED
      BY <1>3, <3>1, <3>2 DEF FormComes, NumberComes, recordVars, recordDb
  <2>3. \A d \in Documents : d \in placed' \/ (d \notin placed /\ given'[d] = given[d])
    <3>1. CASE UNCHANGED <<given, placed>>
      BY <3>1
    <3>2. ASSUME NEW d, NEW u, given' = [given EXCEPT ![d] = u], placed' = placed \cup {d}
          PROVE  \A e \in Documents : e \in placed' \/ (e \notin placed /\ given'[e] = given[e])
      BY <3>2 DEF TypesInv, RecordTypeOK
    <3> QED
      BY <1>3, <3>1, <3>2 DEF Office, FormComes, NumberComes, recordVars, recordDb,
         recordHistory
  <2> QED
    BY <2>1, <2>2, <2>3, HeldAside
<1> QED
  BY <1>1, <1>2, <1>3, TakeHeld DEF RecordNext

\* Once requests are done, the call, the session and the adviser agree.
LEMMA HeldIsEnough == TypesInv /\ AgreeInv /\ HeldInv => RecordsAgree
<1> SUFFICES ASSUME TypesInv, AgreeInv, HeldInv, RecordQuiet PROVE RecordsAgree
  BY DEF RecordsAgree
<1>1. \A h \in RecordDesks : desk[h].what = "message"
  BY PlaceTells DEF RecordQuiet, TypesInv, RecordTypeOK
<1>2. (\A h \in RecordDesks : ~Rematches(h)) /\ (\A h \in RecordDesks : ~Serves(h))
  BY <1>1 DEF Rematches, Serves
<1> QED
  BY <1>2 DEF RecordsAgree, AgreeInv, HeldInv, Agree, Settled

\* The pending call, the session and the assignment agree once requests are done, unless
\* two of them crossed.
THEOREM RecordsAgreeCorrect == RecordSpec => []RecordsAgree
<1>1. TypesInv /\ AgreeInv /\ [RecordNext]_recordVars => AgreeInv'
  BY AgreeNext
<1>2. TypesInv /\ AgreeInv /\ HeldInv /\ [RecordNext]_recordVars => HeldInv'
  BY HeldNext
<1> QED
  BY <1>1, <1>2, AgreeInit, HeldInit, HeldIsEnough, TypesHold, PTL DEF RecordSpec

-----------------------------------------------------------------------------
(* A booking brings the session to the right document                        *)

Right(d) ==
  /\ formed # {} => d \in formed
  /\ formed = {} => \A e \in known : d <= e

RightFits(h) ==
  /\ desk[h].what = "booking"
  /\ desk[h].at = "prefer" => desk[h].found = known
  /\ desk[h].at \in {"event", "session"} => Right(desk[h].doc)
  /\ desk[h].at \in {"read", "save"} => Right(person)

RightInv ==
  /\ settledOn => person # NoDocument
  /\ settledOn /\ ~crossed =>
       /\ \A h \in RecordDesks : Rematches(h) => RightFits(h)
       /\ (\A h \in RecordDesks : ~Rematches(h)) => Right(person)

LEMMA RightInit == RecordInit => RightInv
BY DEF RecordInit, RightInv

LEMMA OneRights ==
  ASSUME NEW h \in RecordDesks, settledOn' => person' # NoDocument,
         \A g \in RecordDesks \ {h} : ~Rematches(g) /\ desk'[g] = desk[g],
         Rematches(h)' => RightFits(h)', ~Rematches(h)' => Right(person)'
  PROVE  RightInv'
<1>1. \A g \in RecordDesks \ {h} : ~Rematches(g)'
  BY DEF Rematches
<1> QED
  BY <1>1 DEF RightInv

\* A step of something else: it moves nothing, or the number is not settled on any more.
LEMMA RightAside ==
  ASSUME RightInv, crossed' = crossed,
         settledOn' => settledOn /\ UNCHANGED <<known, formed, person>>,
         \A g \in RecordDesks : desk'[g] = desk[g] \/ (~Rematches(g) /\ ~Rematches(g)')
  PROVE  RightInv'
<1>1. SUFFICES ASSUME settledOn', ~crossed PROVE RightInv'
  BY DEF RightInv
<1>2. \A g \in RecordDesks : Rematches(g)' = Rematches(g)
  BY DEF Rematches
<1>3. \A g \in RecordDesks : Rematches(g)' => RightFits(g)'
  BY <1>1, <1>2 DEF RightInv, RightFits, Right, Rematches
<1>4. (\A g \in RecordDesks : ~Rematches(g)') => Right(person)'
  BY <1>1, <1>2 DEF RightInv, Right
<1> QED
  BY <1>1, <1>3, <1>4 DEF RightInv

LEMMA RematchRight ==
  ASSUME TypesInv, AgreeInv, RightInv, NEW h \in RecordDesks, Rematches(h), ~crossed, settledOn,
         \/ Prefer(h) \/ MatchAgain(h) \/ RematchSession(h) \/ ReadHolder(h) \/ SaveHolder(h)
         \/ BookCall(h) \/ RematchCall(h)
  PROVE  RightInv'
<1>1. /\ RecordTypeOK /\ desk[h] \in DeskRecords /\ DeskFits(h)
      /\ UNCHANGED <<known, formed, settledOn, crossed>>
  BY DEF TypesInv, RecordTypeOK, Prefer, MatchAgain, RematchSession, ReadHolder, SaveHolder,
         BookCall, RematchCall, recordDb, recordHistory
<1>2. /\ AgreeFits(h) /\ RightFits(h) /\ desk[h].what = "booking" /\ person # NoDocument
      /\ \A g \in RecordDesks \ {h} : ~Rematches(g) /\ desk'[g] = desk[g]
  BY <1>1, OneDesk, OnlyOne DEF RightInv, RightFits
<1>3. CASE Prefer(h)
  <2> DEFINE p == Preferred(desk[h].found)
  <2>1. /\ desk[h].at = "prefer" /\ person' = person
        /\ desk'[h].at = (IF p # desk[h].seen THEN "event" ELSE "read") /\ desk'[h].doc = p
        /\ desk'[h].what = "booking"
    BY <1>1, <1>2, <1>3 DEF Prefer, DeskAt, RecordTypeOK, DeskRecords, recordDb
  <2>2. desk[h].found = known /\ desk[h].found # {} /\ desk[h].seen = person
    BY <1>1, <1>2, <2>1 DEF RightFits, DeskFits, AgreeFits
  <2>3. known \in SUBSET Own /\ known \cap formed = formed
    BY <1>1 DEF RecordTypeOK
  <2>4. Right(p)
    BY <2>2, <2>3, PreferredIsIn DEF Right
  <2>5. RightFits(h)'
    BY <1>1, <2>1, <2>2, <2>4 DEF RightFits, Right
  <2> QED
    BY <1>2, <2>1, <2>5, OneRights DEF Rematches
<1>4. CASE MatchAgain(h)
  <2>1. /\ person' = person /\ desk'[h].at = "prefer" /\ desk'[h].what = "booking"
        /\ desk'[h].found = known
    BY <1>1, <1>2, <1>4 DEF MatchAgain, RecordTypeOK, DeskRecords, recordDb
  <2>2. RightFits(h)'
    BY <1>1, <2>1 DEF RightFits
  <2> QED
    BY <1>2, <2>1, <2>2, OneRights DEF Rematches
<1>5. CASE RematchSession(h)
  <2>1. /\ person' = desk[h].doc /\ desk[h].at = "session" /\ desk[h].doc \in Documents
        /\ desk'[h] = [desk[h] EXCEPT !.at = "read"]
    BY <1>1, <1>2, <1>5 DEF RematchSession, DeskTo, DeskAt, DeskFits, RecordTypeOK
  <2>2. desk'[h].at = "read" /\ desk'[h].what = "booking"
    BY <1>1, <1>2, <2>1 DEF DeskRecords
  <2>3. Right(desk[h].doc)
    BY <1>2, <2>1 DEF RightFits
  <2>4. RightFits(h)'
    BY <1>1, <2>1, <2>2, <2>3 DEF RightFits, Right
  <2> QED
    BY <1>2, <2>1, <2>2, <2>4, NoDocumentIsNone, OneRights DEF Rematches
<1>6. CASE ReadHolder(h)
  <2>1. /\ person' = person /\ desk[h].at = "read"
        /\ desk'[h] = [desk[h] EXCEPT !.holder = given[desk[h].doc], !.at = "save"]
    BY <1>1, <1>2, <1>6 DEF ReadHolder, DeskAt, RecordTypeOK, recordDb
  <2>2. desk'[h].at = "save" /\ desk'[h].what = "booking"
    BY <1>1, <1>2, <2>1 DEF DeskRecords
  <2>3. RightFits(h)'
    BY <1>1, <1>2, <2>1, <2>2 DEF RightFits, Right
  <2> QED
    BY <1>2, <2>1, <2>2, <2>3, OneRights DEF Rematches
<1>7. CASE SaveHolder(h)
  <2>1. person' = person /\ desk[h].at = "save" /\ desk'[h] = NoRecordDesk
    BY <1>1, <1>7 DEF SaveHolder, DeskAt, RecordTypeOK
  <2>2. Right(person)' /\ ~Rematches(h)'
    BY <1>1, <1>2, <2>1 DEF RightFits, Right, Rematches, NoRecordDesk
  <2> QED
    BY <1>2, <2>1, <2>2, OneRights
<1>8. CASE BookCall(h)
  <2>1. desk'[h].at = "match" /\ desk'[h].what = "booking"
    BY <1>8, BookCallDoes
  <2>2. person' = person
    BY <1>8 DEF BookCall
  <2>3. RightFits(h)'
    BY <2>1 DEF RightFits
  <2> QED
    BY <1>2, <2>1, <2>2, <2>3, OneRights DEF Rematches
<1>9. CASE RematchCall(h)
  <2>1. /\ person' = person /\ desk[h].at = "event"
        /\ desk'[h] = [desk[h] EXCEPT !.at = "session"]
    BY <1>1, <1>9 DEF RematchCall, DeskAt, DeskTo, RecordTypeOK
  <2>2. /\ desk'[h].at = "session" /\ desk'[h].what = "booking" /\ desk'[h].doc = desk[h].doc
    BY <1>1, <1>2, <2>1 DEF DeskRecords
  <2>3. Right(desk[h].doc)
    BY <1>2, <2>1 DEF RightFits
  <2>4. RightFits(h)'
    BY <1>1, <2>2, <2>3 DEF RightFits, Right
  <2> QED
    BY <1>2, <2>1, <2>2, <2>4, OneRights DEF Rematches
<1> QED
  BY <1>3, <1>4, <1>5, <1>6, <1>7, <1>8, <1>9

\* What a request that does not rematch leaves to the number and the session.
LEMMA OtherDesksRight ==
  ASSUME TypesInv, RightInv, NEW h \in RecordDesks, ~Rematches(h),
         \/ TakeMessage(h) \/ CreateLead(h) \/ Prefer(h) \/ TagLead(h) \/ OpenSession(h)
         \/ MatchAgain(h) \/ RematchSession(h) \/ ReadHolder(h) \/ SaveHolder(h) \/ MoveCall(h)
         \/ BookCall(h) \/ RematchCall(h)
         \/ \E n \in 1 .. MaxCalls : \E u \in Advisers : TakeMove(h, n, u)
  PROVE  RightInv'
<1>1. /\ RecordTypeOK /\ desk[h] \in DeskRecords /\ DeskFits(h)
      /\ \A g \in RecordDesks \ {h} : desk'[g] = desk[g]
  BY OneDesk DEF TypesInv, RecordTypeOK
<1>2. desk[h].what \in {"message", "move"}
  BY <1>1 DEF Rematches, DeskRecords
<1>3. ~MatchAgain(h) /\ ~RematchSession(h) /\ ~BookCall(h) /\ ~RematchCall(h)
  BY <1>1, <1>2 DEF MatchAgain, RematchSession, BookCall, RematchCall, DeskFits, DeskAt, Places
<1>4. desk'[h].what \in {"message", "move"}
  <2>1. CASE TakeMessage(h)
    BY <1>1, <2>1 DEF TakeMessage, Accept, NoRecordDesk, RecordTypeOK
  <2>2. ASSUME NEW n, NEW u, TakeMove(h, n, u) PROVE desk'[h].what \in {"message", "move"}
    BY <1>1, <2>2 DEF TakeMove, Accept, NoRecordDesk, RecordTypeOK
  <2>3. CASE SaveHolder(h) \/ OpenSession(h)
    BY <1>1, <2>3 DEF SaveHolder, OpenSession, NoRecordDesk, RecordTypeOK
  <2>4. CASE CreateLead(h) \/ Prefer(h)
    BY <1>1, <1>2, <2>4 DEF CreateLead, Prefer, RecordTypeOK, DeskRecords
  <2>5. CASE TagLead(h) \/ ReadHolder(h) \/ MoveCall(h)
    BY <1>1, <1>2, <2>5 DEF TagLead, ReadHolder, MoveCall, DeskTo, RecordTypeOK, DeskRecords
  <2> QED
    BY <1>3, <2>1, <2>2, <2>3, <2>4, <2>5
<1>5. \A g \in RecordDesks : desk'[g] = desk[g] \/ (~Rematches(g) /\ ~Rematches(g)')
  BY <1>1, <1>4 DEF Rematches
<1>6. crossed' = crossed
  BY <1>3 DEF TakeMessage, CreateLead, Prefer, TagLead, OpenSession, ReadHolder, SaveHolder,
              MoveCall, TakeMove, recordHistory
<1>7. settledOn' => settledOn /\ UNCHANGED <<known, formed, person>>
  <2>1. CASE OpenSession(h)
    BY <2>1 DEF OpenSession, recordHistory, RightInv
  <2>2. CASE CreateLead(h)
    BY <2>2 DEF CreateLead
  <2> QED
    BY <1>3, <2>1, <2>2 DEF TakeMessage, Prefer, TagLead, ReadHolder, SaveHolder, MoveCall,
                            TakeMove, recordDb, recordHistory
<1> QED
  BY <1>5, <1>6, <1>7, RightAside

LEMMA TakeRight ==
  ASSUME TypesInv, AgreeInv, RightInv, NEW h \in RecordDesks,
         \/ TakeBooking(h)
         \/ \E n \in 1 .. MaxCalls : \E d \in Documents : TakeLink(h, n, d)
  PROVE  RightInv'
<1>1. ASSUME NEW n, NEW d, TakeLink(h, n, d) PROVE RightInv'
  BY <1>1 DEF TakeLink, RightInv
<1>2. CASE TakeBooking(h)
  <2>1. /\ RecordTypeOK /\ desk[h].at = "idle" /\ person' = person /\ person # NoDocument
        /\ \A g \in RecordDesks \ {h} : desk'[g] = desk[g]
    BY <1>2, OneDesk DEF TypesInv, TakeBooking, Accept, recordDb
  <2>2. CASE crossed'
    BY <2>1, <2>2 DEF RightInv
  <2>3. CASE ~crossed'
    <3>1. \A g \in RecordDesks : ~Rematches(g)
      BY <1>2, <2>3, HandlingIs DEF TakeBooking, Rematches
    <3>2. desk'[h].at = "book" /\ desk'[h].what = "booking"
      BY <1>2, <2>1 DEF TakeBooking, Accept, NoRecordDesk, RecordTypeOK
    <3>3. RightFits(h)' /\ Rematches(h)'
      BY <3>2 DEF RightFits, Rematches
    <3> QED
      BY <2>1, <3>1, <3>3, OneRights
  <2> QED
    BY <2>2, <2>3
<1> QED
  BY <1>1, <1>2

LEMMA RightNext ==
  ASSUME TypesInv, AgreeInv, RightInv, [RecordNext]_recordVars
  PROVE  RightInv'
<1>1. ASSUME NEW h \in RecordDesks, Rematches(h),
             \/ Prefer(h) \/ MatchAgain(h) \/ RematchSession(h) \/ ReadHolder(h) \/ SaveHolder(h)
             \/ BookCall(h) \/ RematchCall(h)
      PROVE  RightInv'
  <2>1. UNCHANGED <<settledOn, crossed>>
    BY <1>1 DEF Prefer, MatchAgain, RematchSession, ReadHolder, SaveHolder, BookCall,
       RematchCall,
                recordHistory
  <2>2. CASE ~crossed /\ settledOn
    BY <1>1, <2>2, RematchRight
  <2>3. CASE ~(~crossed /\ settledOn)
    <3>1. person # NoDocument => person' # NoDocument
      <4>1. CASE RematchSession(h)
        <5>1. person' = desk[h].doc /\ DeskFits(h) /\ desk[h].at = "session"
          BY <4>1 DEF RematchSession, DeskAt, TypesInv
        <5> QED
          BY <5>1, NoDocumentIsNone DEF DeskFits
      <4>2. CASE person' = person
        BY <4>2
      <4> QED
        BY <1>1, <4>1, <4>2 DEF Prefer, MatchAgain, ReadHolder, SaveHolder, BookCall,
           RematchCall,
                                recordDb
    <3> QED
      BY <2>1, <2>3, <3>1 DEF RightInv
  <2> QED
    BY <2>2, <2>3
<1>2. ASSUME NEW h \in RecordDesks,
             TakeMessage(h) \/ CreateLead(h) \/ TagLead(h) \/ OpenSession(h) \/ MoveCall(h)
               \/ (\E n \in 1 .. MaxCalls : \E u \in Advisers : TakeMove(h, n, u))
      PROVE  ~Rematches(h)
  <2>1. CASE OpenSession(h)
    BY <2>1 DEF OpenSession, Rematches
  <2>2. CASE ~OpenSession(h)
    <3>1. DeskFits(h) /\ desk[h] \in DeskRecords
      BY DEF TypesInv, RecordTypeOK
    <3>2. desk[h].at \in {"idle", "create", "tag", "move"}
      BY <1>2, <2>2 DEF TakeMessage, CreateLead, TagLead, MoveCall, TakeMove, Accept, DeskAt
    <3> QED
      BY <3>1, <3>2, PlaceTells DEF Rematches
  <2> QED
    BY <2>1, <2>2
<1>3. CASE Office \/ FormComes \/ (\E d \in Own : NumberComes(d)) \/ UNCHANGED recordVars
  <2>1. UNCHANGED <<person, desk, crossed>>
    BY <1>3 DEF Office, FormComes, NumberComes, recordVars, recordDb, recordHistory
  <2>2. settledOn' => settledOn /\ UNCHANGED <<known, formed, person>>
    BY <1>3, <2>1 DEF Office, FormComes, NumberComes, recordVars, recordDb, recordHistory
  <2> QED
    BY <2>1, <2>2, RightAside
<1> QED
  BY <1>1, <1>2, <1>3, OtherDesksRight, TakeRight DEF RecordNext

LEMMA RightIsEnough == TypesInv /\ RightInv => BookedUnderOneRecord
<1> SUFFICES ASSUME TypesInv, RightInv, RecordQuiet, settledOn, ~crossed
             PROVE  BookedUnderOneRecord
  BY DEF BookedUnderOneRecord
<1>1. \A h \in RecordDesks : ~Rematches(h)
  BY PlaceTells DEF RecordQuiet, TypesInv, RecordTypeOK, Rematches
<1> QED
  BY <1>1 DEF RightInv, Right, BookedUnderOneRecord

\* A booking leaves the session with the document of the form, or else the oldest.
THEOREM BookedUnderOneRecordCorrect == RecordSpec => []BookedUnderOneRecord
<1>1. TypesInv /\ AgreeInv /\ [RecordNext]_recordVars => AgreeInv'
  BY AgreeNext
<1>2. TypesInv /\ AgreeInv /\ RightInv /\ [RecordNext]_recordVars => RightInv'
  BY RightNext
<1> QED
  BY <1>1, <1>2, AgreeInit, RightInit, RightIsEnough, TypesHold, PTL DEF RecordSpec

\* All of it: types, customers who stay, advisers, agreement, the right document.
THEOREM RecordIsCorrect == RecordSpec => []RecordCorrect
<1>1. (RecordTypeOK /\ ConvertedStays /\ CallHasAdviser /\ RecordsAgree
        /\ BookedUnderOneRecord) => RecordCorrect
  BY DEF RecordCorrect
<1> QED
  BY <1>1, RecordTypeCorrect, ConvertedStaysCorrect, CallHasAdviserCorrect, RecordsAgreeCorrect,
     BookedUnderOneRecordCorrect, PTL

=============================================================================
