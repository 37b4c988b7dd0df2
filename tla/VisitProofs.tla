----------------------------- MODULE VisitProofs -----------------------------
(***************************************************************************)
(* What holds of a visit for any agents and any number of overlapping       *)
(* requests: to the land, that the history of the customer and the phones   *)
(* of the guides agree with it; to a Meet, that its log keeps what the      *)
(* syncs found and that Google tells of it in time.                         *)
(***************************************************************************)
EXTENDS FieldVisit, MeetVisit, CallProofs, SequenceTheorems

-----------------------------------------------------------------------------
(* A visit to the land                                                       *)

VisitPlaces == {"idle", "sent"} \cup StatusPlaces \cup AgentPlaces
RequestType ==
  [at : VisitPlaces, by : People \cup {NoAgent},
   to : Statuses \cup Agents \cup {NoAgent, "none"}, seen : Statuses \cup {"none"},
   guide : Agents \cup {NoAgent}]

\* What a request carries, by the place it is at.
Carries(r) ==
  /\ r \in RequestType
  /\ r.at = "set" => r.to \in Statuses
  /\ r.at = "record" => r.to \in Finals
  /\ r.at \in AgentPlaces => r.to \in Agents \cup {NoAgent}

VisitTypes ==
  /\ visit \in Statuses \cup {"none"} /\ guide \in Agents \cup {NoAgent}
  /\ said \in Seq({"sent"} \cup Finals) /\ named \in Agents \cup {NoAgent}
  /\ phones \subseteq Agents
  /\ visitor \in [VisitHandlers -> RequestType]
  /\ \A h \in VisitHandlers : Carries(visitor[h])
  /\ visitRequests \in Nat /\ visitCrashes \in Nat
  /\ statusRaced \in BOOLEAN /\ agentRaced \in BOOLEAN
  /\ visit = "none" => \A h \in VisitHandlers : visitor[h].at = "idle"

\* What each step does to its request; those of the others stay.
LEMMA NewRequest ==
  ASSUME VisitTypes, NEW h \in VisitHandlers, NEW r, Carries(r), Receive(h, r)
  PROVE  /\ visitor' \in [VisitHandlers -> RequestType] /\ visitor'[h] = r
         /\ visitor[h].at = "idle"
         /\ \A g \in VisitHandlers \ {h} : visitor'[g] = visitor[g]
         /\ \A g \in VisitHandlers : Carries(visitor'[g])
         /\ visitRequests' \in Nat
<1>1. /\ visitor' \in [VisitHandlers -> RequestType] /\ visitor'[h] = r
      /\ \A g \in VisitHandlers \ {h} : visitor'[g] = visitor[g]
  BY DEF VisitTypes, Receive, Carries
<1>2. visitRequests' \in Nat
  <2>1. visitRequests \in Nat /\ visitRequests' = visitRequests + 1
    BY DEF VisitTypes, Receive
  <2> QED
    BY <2>1
<1>3. visitor[h].at = "idle"
  BY DEF Receive, NoRequest
<1> QED
  BY <1>1, <1>2, <1>3 DEF VisitTypes

LEMMA GoneOn ==
  ASSUME VisitTypes, NEW h \in VisitHandlers, NEW place \in VisitPlaces, VisitGoto(h, place),
         place = "record" => visitor[h].to \in Finals,
         place \in AgentPlaces => visitor[h].at \in AgentPlaces,
         place # "set"
  PROVE  /\ visitor' \in [VisitHandlers -> RequestType]
         /\ visitor'[h].at = place
         /\ visitor'[h].to = visitor[h].to /\ visitor'[h].seen = visitor[h].seen
         /\ visitor'[h].by = visitor[h].by /\ visitor'[h].guide = visitor[h].guide
         /\ \A g \in VisitHandlers \ {h} : visitor'[g] = visitor[g]
         /\ \A g \in VisitHandlers : Carries(visitor'[g])
<1> DEFINE new == [visitor[h] EXCEPT !.at = place]
<1>1. visitor \in [VisitHandlers -> RequestType] /\ Carries(visitor[h])
  BY DEF VisitTypes
<1>2. visitor' = [visitor EXCEPT ![h] = new]
  BY <1>1 DEF VisitGoto
<1>3. /\ new \in RequestType /\ new.at = place /\ new.to = visitor[h].to
      /\ new.seen = visitor[h].seen /\ new.by = visitor[h].by /\ new.guide = visitor[h].guide
  BY <1>1 DEF RequestType
<1> HIDE DEF new
<1>4. /\ visitor' \in [VisitHandlers -> RequestType] /\ visitor'[h] = new
      /\ \A g \in VisitHandlers \ {h} : visitor'[g] = visitor[g]
  BY <1>1, <1>2, <1>3
<1>5. Carries(new)
  BY <1>1, <1>3 DEF Carries
<1> QED
  BY <1>3, <1>4, <1>5 DEF VisitTypes

LEMMA Gone ==
  ASSUME VisitTypes, NEW h \in VisitHandlers, VisitDone(h)
  PROVE  /\ visitor' \in [VisitHandlers -> RequestType]
         /\ visitor'[h].at = "idle"
         /\ \A g \in VisitHandlers \ {h} : visitor'[g] = visitor[g]
         /\ \A g \in VisitHandlers : Carries(visitor'[g])
<1>1. NoRequest \in RequestType /\ NoRequest.at = "idle" /\ Carries(NoRequest)
  BY DEF NoRequest, RequestType, VisitPlaces, Carries, StatusPlaces, AgentPlaces
<1> QED
  BY <1>1 DEF VisitDone, VisitTypes

\* The step of one request, in plain terms: what it does to the visit and to itself.
VisitCreated(h) ==
  /\ visit = "none" /\ visit' = "pending" /\ visitor'[h].at = "sent"
  /\ UNCHANGED <<guide, said, named, phones, visitCrashes, statusRaced, agentRaced>>
Sent(h) ==
  /\ visitor[h].at = "sent" /\ visitor'[h].at = "idle" /\ said' = Append(said, "sent")
  /\ UNCHANGED <<visit, guide, named, phones, visitCrashes, statusRaced, agentRaced>>
StatusRead(h) ==
  /\ visit # "none" /\ visitor[h].at = "idle"
  /\ visitor'[h].at = "set" /\ visitor'[h].seen = visit
  /\ statusRaced' = (statusRaced \/ Someone(h, StatusPlaces \cup {"sent"}))
  /\ UNCHANGED <<visit, guide, said, named, phones, visitCrashes, agentRaced>>
StatusSet(h) ==
  /\ visitor[h].at = "set"
  /\ \/ /\ MayWrite(visitor[h].by) /\ visit' = visitor[h].to
        /\ \/ Becomes(visitor[h]) /\ visitor'[h].at = "record"
           \/ ~Becomes(visitor[h]) /\ visitor'[h].at = "idle"
     \/ visit' = visit /\ visitor'[h].at = "idle"
  /\ visitor'[h].at = "record" => visitor'[h].to = visitor[h].to
  /\ UNCHANGED <<guide, said, named, phones, visitCrashes, statusRaced, agentRaced>>
StatusRecorded(h) ==
  /\ visitor[h].at = "record" /\ visitor'[h].at = "idle"
  /\ said' = Append(said, visitor[h].to)
  /\ UNCHANGED <<visit, guide, named, phones, visitCrashes, statusRaced, agentRaced>>
AgentRead(h) ==
  /\ visit # "none" /\ visitor[h].at = "idle"
  /\ visitor'[h].at = "appoint" /\ visitor'[h].guide = guide
  /\ agentRaced' = (agentRaced \/ Someone(h, AgentPlaces))
  /\ UNCHANGED <<visit, guide, said, named, phones, visitCrashes, statusRaced>>
AgentStep(h) ==
  /\ \/ /\ visitor[h].at = "appoint" /\ guide' = visitor[h].to /\ visitor'[h].at = "log"
        /\ UNCHANGED <<named, phones>>
     \/ /\ visitor[h].at = "log" /\ named' = visitor[h].to /\ visitor'[h].at = "push"
        /\ UNCHANGED <<guide, phones>>
     \/ /\ visitor[h].at = "push" /\ phones' = Notified(visitor[h])
        /\ visitor'[h].at = "idle"
        /\ UNCHANGED <<guide, named>>
  /\ visitor'[h].at # "idle" =>
       visitor'[h].to = visitor[h].to /\ visitor'[h].guide = visitor[h].guide
  /\ UNCHANGED <<visit, said, visitCrashes, statusRaced, agentRaced>>

RequestStep(h) ==
  \/ VisitCreated(h) /\ visitor[h].at = "idle"
  \/ Sent(h) \/ StatusRead(h) \/ StatusSet(h) \/ StatusRecorded(h) \/ AgentRead(h) \/ AgentStep(h)

LEMMA PlainSteps ==
  ASSUME VisitTypes, NEW h \in VisitHandlers,
         \/ CreateVisit(h) \/ RecordSent(h)
         \/ \E p \in People : \E s \in Statuses : ReadStatus(h, p, s)
         \/ SetStatus(h) \/ RecordStatus(h)
         \/ \E p \in People : \E a \in Agents \cup {NoAgent} : ReadAgent(h, p, a)
         \/ Appoint(h) \/ LogAgent(h) \/ PushAgents(h)
  PROVE  /\ visitor' \in [VisitHandlers -> RequestType]
         /\ \A g \in VisitHandlers \ {h} : visitor'[g] = visitor[g]
         /\ \A g \in VisitHandlers : Carries(visitor'[g])
         /\ visitRequests' \in Nat
         /\ RequestStep(h)
<1> USE DEF RequestStep
<1>0. Carries(visitor[h]) /\ visitor[h] \in RequestType /\ visitRequests \in Nat
      /\ visit \in Statuses \cup {"none"} /\ guide \in Agents \cup {NoAgent}
  BY DEF VisitTypes
<1>1. CASE CreateVisit(h)
  <2> DEFINE r == [NoRequest EXCEPT !.at = "sent"]
  <2>1. Carries(r) /\ r.at = "sent"
    BY DEF NoRequest, RequestType, VisitPlaces, Carries, StatusPlaces, AgentPlaces
  <2>2. Receive(h, r)
    BY <1>1 DEF CreateVisit
  <2> HIDE DEF r
  <2> QED
    BY <1>1, <2>1, <2>2, NewRequest DEF CreateVisit, VisitCreated
<1>2. CASE RecordSent(h)
  BY <1>0, <1>2, Gone DEF RecordSent, Sent
<1>3. ASSUME NEW p \in People, NEW s \in Statuses, ReadStatus(h, p, s)
      PROVE  /\ visitor' \in [VisitHandlers -> RequestType]
             /\ \A g \in VisitHandlers \ {h} : visitor'[g] = visitor[g]
             /\ \A g \in VisitHandlers : Carries(visitor'[g])
             /\ visitRequests' \in Nat /\ StatusRead(h)
  <2> DEFINE r == [at |-> "set", by |-> p, to |-> s, seen |-> visit, guide |-> NoAgent]
  <2>1. visit # "none" /\ Receive(h, r)
    BY <1>3 DEF ReadStatus
  <2>2. Carries(r) /\ r.at = "set" /\ r.seen = visit
    BY <1>0, <2>1 DEF RequestType, VisitPlaces, Carries, StatusPlaces, AgentPlaces
  <2>3. /\ statusRaced' = (statusRaced \/ Someone(h, StatusPlaces \cup {"sent"}))
        /\ UNCHANGED <<visit, guide, said, named, phones, visitCrashes, agentRaced>>
    BY <1>3 DEF ReadStatus
  <2> HIDE DEF r
  <2> QED
    BY <2>1, <2>2, <2>3, NewRequest, Zenon DEF StatusRead
<1>4. CASE SetStatus(h)
  <2>1. visitor[h].at = "set"
        /\ UNCHANGED <<guide, said, named, phones, visitRequests, visitCrashes, statusRaced,
                       agentRaced>>
    BY <1>4 DEF SetStatus
  <2>2. CASE MayWrite(visitor[h].by) /\ Becomes(visitor[h])
    <3>1. visit' = visitor[h].to /\ VisitGoto(h, "record")
      BY <1>4, <2>2 DEF SetStatus
    <3>2. "record" \in VisitPlaces /\ visitor[h].to \in Finals /\ "record" \notin AgentPlaces
      BY <2>2 DEF Becomes, VisitPlaces, StatusPlaces, AgentPlaces
    <3> QED
      BY <1>0, <2>1, <2>2, <3>1, <3>2, GoneOn DEF StatusSet
  <2>3. CASE MayWrite(visitor[h].by) /\ ~Becomes(visitor[h])
    <3>1. visit' = visitor[h].to /\ VisitDone(h)
      BY <1>4, <2>3 DEF SetStatus
    <3> QED
      BY <1>0, <2>1, <2>3, <3>1, Gone DEF StatusSet
  <2>4. CASE ~MayWrite(visitor[h].by)
    <3>1. visit' = visit /\ VisitDone(h)
      BY <1>4, <2>4 DEF SetStatus
    <3> QED
      BY <1>0, <2>1, <3>1, Gone DEF StatusSet
  <2> QED
    BY <2>2, <2>3, <2>4
<1>5. CASE RecordStatus(h)
  BY <1>0, <1>5, Gone DEF RecordStatus, StatusRecorded
<1>6. ASSUME NEW p \in People, NEW a \in Agents \cup {NoAgent}, ReadAgent(h, p, a)
      PROVE  /\ visitor' \in [VisitHandlers -> RequestType]
             /\ \A g \in VisitHandlers \ {h} : visitor'[g] = visitor[g]
             /\ \A g \in VisitHandlers : Carries(visitor'[g])
             /\ visitRequests' \in Nat /\ AgentRead(h)
  <2> DEFINE r == [at |-> "appoint", by |-> p, to |-> a, seen |-> visit, guide |-> guide]
  <2>1. visit # "none" /\ Receive(h, r)
    BY <1>6 DEF ReadAgent
  <2>2. Carries(r) /\ r.at = "appoint" /\ r.guide = guide
    BY <1>0, <2>1 DEF RequestType, VisitPlaces, Carries, StatusPlaces, AgentPlaces
  <2>3. /\ agentRaced' = (agentRaced \/ Someone(h, AgentPlaces))
        /\ UNCHANGED <<visit, guide, said, named, phones, visitCrashes, statusRaced>>
    BY <1>6 DEF ReadAgent
  <2> HIDE DEF r
  <2> QED
    BY <2>1, <2>2, <2>3, NewRequest, Zenon DEF AgentRead
<1>7. CASE Appoint(h)
  <2>1. "log" \in VisitPlaces /\ visitor[h].at \in AgentPlaces /\ VisitGoto(h, "log")
    BY <1>7 DEF Appoint, VisitPlaces, AgentPlaces
  <2> QED
    BY <1>0, <1>7, <2>1, GoneOn DEF Appoint, AgentStep
<1>8. CASE LogAgent(h)
  <2>1. "push" \in VisitPlaces /\ visitor[h].at \in AgentPlaces /\ VisitGoto(h, "push")
    BY <1>8 DEF LogAgent, VisitPlaces, AgentPlaces
  <2> QED
    BY <1>0, <1>8, <2>1, GoneOn DEF LogAgent, AgentStep
<1>9. CASE PushAgents(h)
  BY <1>0, <1>9, Gone DEF PushAgents, AgentStep
<1> QED
  BY <1>1, <1>2, <1>3, <1>4, <1>5, <1>6, <1>7, <1>8, <1>9

LEMMA InitVisit == VisitInit => VisitTypes
<1> SUFFICES ASSUME VisitInit PROVE VisitTypes
  OBVIOUS
<1>1. NoRequest \in RequestType /\ NoRequest.at = "idle" /\ Carries(NoRequest)
  BY DEF NoRequest, RequestType, VisitPlaces, Carries, StatusPlaces, AgentPlaces
<1>2. statusRaced \in BOOLEAN /\ agentRaced \in BOOLEAN
  BY DEF VisitInit
<1>3. said \in Seq({"sent"} \cup Finals)
  BY DEF VisitInit
<1> QED
  BY <1>1, <1>2, <1>3 DEF VisitInit, VisitTypes

\* A crash takes requests away and changes nothing else.
LEMMA VisitCrashEffect ==
  ASSUME VisitTypes, VisitCrash
  PROVE  /\ \A h \in VisitHandlers : visitor'[h] = visitor[h] \/ visitor'[h].at = "idle"
         /\ visitor' \in [VisitHandlers -> RequestType]
         /\ \A h \in VisitHandlers : Carries(visitor'[h])
         /\ UNCHANGED <<visit, guide, said, named, phones, visitRequests, statusRaced,
                        agentRaced>>
         /\ visitCrashes' \in Nat /\ visitCrashes' # 0
<1>1. NoRequest \in RequestType /\ NoRequest.at = "idle" /\ Carries(NoRequest)
  BY DEF NoRequest, RequestType, VisitPlaces, Carries, StatusPlaces, AgentPlaces
<1>2. PICK S \in SUBSET VisitHandlers :
        visitor' = [h \in VisitHandlers |-> IF h \in S THEN NoRequest ELSE visitor[h]]
  BY DEF VisitCrash
<1>3. visitor \in [VisitHandlers -> RequestType]
      /\ \A h \in VisitHandlers : Carries(visitor[h])
  BY DEF VisitTypes
<1>4. visitCrashes \in Nat /\ visitCrashes' = visitCrashes + 1
  BY DEF VisitTypes, VisitCrash
<1>5. visitCrashes' \in Nat /\ visitCrashes' # 0
  BY <1>4
<1> QED
  BY <1>1, <1>2, <1>3, <1>5 DEF VisitCrash

LEMMA VisitTypesStep == VisitTypes /\ [VisitNext]_visitVars => VisitTypes'
<1> SUFFICES ASSUME VisitTypes, [VisitNext]_visitVars PROVE VisitTypes'
  OBVIOUS
<1>1. ASSUME NEW h \in VisitHandlers,
             visitor' \in [VisitHandlers -> RequestType],
             \A g \in VisitHandlers \ {h} : visitor'[g] = visitor[g],
             \A g \in VisitHandlers : Carries(visitor'[g]),
             visitRequests' \in Nat,
             RequestStep(h)
      PROVE  VisitTypes'
  <2>1. Carries(visitor[h]) /\ said \in Seq({"sent"} \cup Finals)
        /\ visitCrashes' \in Nat
    BY <1>1 DEF VisitTypes, RequestStep, VisitCreated, Sent, StatusRead, StatusSet, StatusRecorded,
                AgentRead, AgentStep
  <2>2. said' \in Seq({"sent"} \cup Finals)
    <3>1. said' = said \/ \E s \in {"sent"} \cup Finals : said' = Append(said, s)
      BY <1>1, <2>1 DEF RequestStep, VisitCreated, Sent, StatusRead, StatusSet, StatusRecorded,
                        AgentRead, AgentStep, Carries
    <3> QED
      BY <2>1, <3>1
  <2>3. visit' \in Statuses \cup {"none"}
    BY <1>1, <2>1 DEF VisitTypes, RequestStep, VisitCreated, Sent, StatusRead, StatusSet,
                StatusRecorded, AgentRead, AgentStep, Carries, Statuses
  <2>4. /\ guide' \in Agents \cup {NoAgent} /\ named' \in Agents \cup {NoAgent}
        /\ phones' \subseteq Agents
    <3>1. visitor[h].at \in AgentPlaces =>
            visitor[h].to \in Agents \cup {NoAgent} /\ Notified(visitor[h]) \subseteq Agents
      BY <2>1 DEF Carries, VisitTypes, Notified
    <3> QED
      BY <1>1, <2>1, <3>1 DEF VisitTypes, RequestStep, VisitCreated, Sent, StatusRead, StatusSet,
                  StatusRecorded, AgentRead, AgentStep, AgentPlaces
  <2>5. statusRaced' \in BOOLEAN /\ agentRaced' \in BOOLEAN
    <3>1. statusRaced' = statusRaced
            \/ statusRaced' = (statusRaced \/ Someone(h, StatusPlaces \cup {"sent"}))
      BY <1>1, Zenon DEF RequestStep, VisitCreated, Sent, StatusRead, StatusSet, StatusRecorded,
                  AgentRead, AgentStep
    <3>2. agentRaced' = agentRaced \/ agentRaced' = (agentRaced \/ Someone(h, AgentPlaces))
      BY <1>1, Zenon DEF RequestStep, VisitCreated, Sent, StatusRead, StatusSet, StatusRecorded,
                  AgentRead, AgentStep
    <3>3. statusRaced \in BOOLEAN /\ agentRaced \in BOOLEAN
      BY Zenon DEF VisitTypes
    <3> QED
      BY <3>1, <3>2, <3>3, Zenon
  <2>6. visit' # "none"
    <3>1. visitor[h].at # "idle" => visit # "none"
      BY DEF VisitTypes
    <3> QED
      BY <1>1, <2>1, <3>1 DEF RequestStep, VisitCreated, Sent, StatusRead, StatusSet,
                  StatusRecorded, AgentRead, AgentStep, Carries, Statuses, Finals
  <2> QED
    BY <1>1, <2>1, <2>2, <2>3, <2>4, <2>5, <2>6, Zenon DEF VisitTypes
<1>2. CASE VisitCrash
  <2>1. statusRaced' \in BOOLEAN /\ agentRaced' \in BOOLEAN
    BY <1>2, VisitCrashEffect, Zenon DEF VisitTypes
  <2> QED
    BY <1>2, <2>1, VisitCrashEffect DEF VisitTypes
<1>3. CASE UNCHANGED visitVars
  BY <1>3, Zenon DEF visitVars, VisitTypes, Carries
<1> QED
  BY <1>1, <1>2, <1>3, PlainSteps DEF VisitNext

-----------------------------------------------------------------------------
\* What was recorded, or is about to be.
Known(s) ==
  Records(s) # {} \/ \E h \in VisitHandlers : visitor[h].at = "record" /\ visitor[h].to = s

\* What the visit is, and what a request read that it was, is known, if it is final.
Learnt(s) == visit = s \/ \E h \in VisitHandlers : visitor[h].at = "set" /\ visitor[h].seen = s
FinalInv == visitCrashes = 0 => \A s \in Finals : Learnt(s) => Known(s)

LEMMA FinalStep ==
  ASSUME VisitTypes, FinalInv, visitCrashes = 0, NEW h \in VisitHandlers, RequestStep(h),
         \A g \in VisitHandlers \ {h} : visitor'[g] = visitor[g]
  PROVE  FinalInv'
<1>1. said \in Seq({"sent"} \cup Finals)
  BY DEF VisitTypes
<1>2. \A g \in VisitHandlers : Carries(visitor[g])
  BY DEF VisitTypes
<1>3. \A s : Records(s) # {} => (Records(s) # {})'
  <2>1. said' = said \/ \E t \in {"sent"} \cup Finals : said' = Append(said, t)
    BY <1>2 DEF RequestStep, VisitCreated, Sent, StatusRead, StatusSet, StatusRecorded, AgentRead,
           AgentStep, Carries
  <2>2. \A i \in DOMAIN said : i \in DOMAIN said' /\ said'[i] = said[i]
    BY <1>1, <2>1
  <2> QED
    BY <2>2 DEF Records
<1>4. \A s : Known(s) => Known(s)'
  <2> SUFFICES ASSUME NEW s, Known(s) PROVE Known(s)'
    OBVIOUS
  <2>1. CASE Records(s) # {}
    BY <1>3, <2>1 DEF Known
  <2>2. ASSUME NEW g \in VisitHandlers, visitor[g].at = "record", visitor[g].to = s
        PROVE  Known(s)'
    <3>1. CASE g # h
      BY <2>2, <3>1 DEF Known
    <3>2. CASE g = h
      <4>1. said' = Append(said, s)
        BY <2>2, <3>2 DEF RequestStep, VisitCreated, Sent, StatusRead, StatusSet, StatusRecorded,
                          AgentRead, AgentStep
      <4>2. s \in Finals
        BY <1>2, <2>2 DEF Carries
      <4>3. Len(said') \in DOMAIN said' /\ said'[Len(said')] = s
        BY <1>1, <4>1, <4>2
      <4> QED
        BY <4>3 DEF Known, Records
    <3> QED
      BY <3>1, <3>2
  <2> QED
    BY <2>1, <2>2 DEF Known
<1>5. SUFFICES ASSUME NEW s \in Finals, Learnt(s)' PROVE Known(s)'
  BY DEF FinalInv
<1>6. Learnt(s) => Known(s)
  BY DEF FinalInv
<1>7. CASE Learnt(s)
  BY <1>4, <1>6, <1>7
<1>8. CASE ~Learnt(s)
  <2>1. visitor[h].at # "set" \/ visitor[h].seen # s
    BY <1>8 DEF Learnt
  <2>2. CASE visit' = s
    <3>1. StatusSet(h) /\ visitor[h].to = s
      BY <1>8, <2>2 DEF Learnt, RequestStep, VisitCreated, Sent, StatusRead, StatusSet,
                        StatusRecorded, AgentRead, AgentStep, Finals
    <3>2. Becomes(visitor[h])
      BY <2>1, <3>1 DEF StatusSet, Becomes
    <3>3. visitor'[h].at = "record" /\ visitor'[h].to = s
      BY <1>8, <2>2, <3>1, <3>2 DEF StatusSet, Learnt
    <3> QED
      BY <3>3 DEF Known
  <2>3. ASSUME NEW g \in VisitHandlers, visitor'[g].at = "set", visitor'[g].seen = s
        PROVE  FALSE
    <3>1. g = h
      BY <1>8, <2>3 DEF Learnt
    <3>2. StatusRead(h)
      BY <2>3, <3>1 DEF RequestStep, VisitCreated, Sent, StatusRead, StatusSet, StatusRecorded,
                        AgentRead, AgentStep
    <3> QED
      BY <1>8, <2>3, <3>1, <3>2 DEF StatusRead, Learnt
  <2> QED
    BY <1>5, <2>2, <2>3 DEF Learnt
<1> QED
  BY <1>7, <1>8

-----------------------------------------------------------------------------
\* Without overlapping requests about the status one of them is under way, the visit is
\* what it read and what it is about to record, and the last record is what it was.
Writing(h) == visitor[h].at \in {"set", "record", "sent"}
LastInv ==
  (visitCrashes = 0 /\ ~statusRaced) =>
    /\ \A g, h \in VisitHandlers : Writing(g) /\ Writing(h) => g = h
    /\ \A h \in VisitHandlers :
         /\ visitor[h].at = "set" => visitor[h].seen = visit
         /\ visitor[h].at = "record" => visitor[h].to = visit
         /\ visitor[h].at = "sent" => visit = "pending"
    /\ visit \in Finals /\ ~Reporting({"record", "sent"})
         => said # <<>> /\ said[Len(said)] = visit

LEMMA LastStep ==
  ASSUME VisitTypes, LastInv, visitCrashes = 0, NEW h \in VisitHandlers, RequestStep(h),
         \A g \in VisitHandlers \ {h} : visitor'[g] = visitor[g]
  PROVE  LastInv'
<1> SUFFICES ASSUME ~statusRaced'
             PROVE  /\ (\A g, k \in VisitHandlers : Writing(g) /\ Writing(k) => g = k)'
                    /\ (\A k \in VisitHandlers :
                          /\ visitor[k].at = "set" => visitor[k].seen = visit
                          /\ visitor[k].at = "record" => visitor[k].to = visit
                          /\ visitor[k].at = "sent" => visit = "pending")'
                    /\ (visit \in Finals /\ ~Reporting({"record", "sent"})
                          => said # <<>> /\ said[Len(said)] = visit)'
  BY DEF LastInv
<1>1. ~statusRaced
  BY Zenon DEF RequestStep, VisitCreated, Sent, StatusRead, StatusSet, StatusRecorded, AgentRead,
               AgentStep
<1>2. /\ \A g, k \in VisitHandlers : Writing(g) /\ Writing(k) => g = k
      /\ \A k \in VisitHandlers :
           /\ visitor[k].at = "set" => visitor[k].seen = visit
           /\ visitor[k].at = "record" => visitor[k].to = visit
           /\ visitor[k].at = "sent" => visit = "pending"
      /\ visit \in Finals /\ ~Reporting({"record", "sent"})
           => said # <<>> /\ said[Len(said)] = visit
  BY <1>1 DEF LastInv
<1>3. said \in Seq({"sent"} \cup Finals) /\ Carries(visitor[h])
  BY DEF VisitTypes
<1>4. CASE VisitCreated(h) /\ visitor[h].at = "idle"
  <2>1. \A g \in VisitHandlers \ {h} : visitor'[g].at = "idle"
    BY <1>4 DEF VisitCreated, VisitTypes
  <2> QED
    BY <1>4, <2>1 DEF VisitCreated, Writing, Finals
<1>5. CASE Sent(h)
  <2>1. visit' = "pending" /\ visitor'[h].at = "idle"
    BY <1>2, <1>5 DEF Sent
  <2>2. \A g \in VisitHandlers \ {h} : ~Writing(g)
    BY <1>2, <1>5 DEF Sent, Writing
  <2> QED
    BY <2>1, <2>2 DEF Writing, Finals
<1>6. CASE StatusRead(h)
  <2>1. ~Someone(h, StatusPlaces \cup {"sent"})
    BY <1>6, Zenon DEF StatusRead
  <2>2. \A g \in VisitHandlers \ {h} : ~Writing(g) /\ ~Writing(g)'
    BY <2>1 DEF Someone, StatusPlaces, Writing
  <2>3. visitor'[h].at = "set" /\ visitor'[h].seen = visit' /\ visitor[h].at = "idle"
        /\ visit' = visit /\ said' = said
    BY <1>6 DEF StatusRead
  <2>4. ~Reporting({"record", "sent"})
    BY <2>2, <2>3 DEF Reporting, Writing
  <2> QED
    BY <1>2, <2>2, <2>3, <2>4 DEF Writing
<1>7. CASE StatusSet(h)
  <2>1. \A g \in VisitHandlers \ {h} : ~Writing(g) /\ ~Writing(g)'
    BY <1>2, <1>7 DEF StatusSet, Writing
  <2>2. visitor[h].at = "set" /\ visitor[h].seen = visit /\ said' = said
    BY <1>2, <1>7 DEF StatusSet
  <2>3. ~Reporting({"record", "sent"})
    BY <2>1, <2>2 DEF Reporting, Writing
  <2>4. CASE visitor'[h].at = "record"
    <3>1. visit' = visitor[h].to /\ visitor'[h].to = visitor[h].to
      BY <1>7, <2>4 DEF StatusSet
    <3>2. Reporting({"record", "sent"})'
      BY <2>4 DEF Reporting
    <3> QED
      BY <2>1, <2>4, <3>1, <3>2 DEF Writing
  <2>5. CASE visitor'[h].at # "record"
    <3>1. visitor'[h].at = "idle" /\ (visit' \in Finals => visit' = visit)
      BY <1>7, <2>2, <2>5 DEF StatusSet, Becomes
    <3> QED
      BY <1>2, <2>1, <2>2, <2>3, <3>1 DEF Writing
  <2> QED
    BY <2>4, <2>5
<1>8. CASE StatusRecorded(h)
  <2>1. \A g \in VisitHandlers \ {h} : ~Writing(g) /\ ~Writing(g)'
    BY <1>2, <1>8 DEF StatusRecorded, Writing
  <2>2. visitor[h].to = visit /\ visit' = visit /\ said' = Append(said, visit)
        /\ visitor'[h].at = "idle" /\ visit \in Finals
    BY <1>2, <1>3, <1>8 DEF StatusRecorded, Carries
  <2>3. said' # <<>> /\ said'[Len(said')] = visit'
    BY <1>3, <2>2
  <2> QED
    BY <2>1, <2>2, <2>3 DEF Writing
<1>9. CASE AgentRead(h) \/ AgentStep(h)
  <2>1. /\ visit' = visit /\ said' = said
        /\ visitor[h].at \in {"idle"} \cup AgentPlaces
        /\ visitor'[h].at \in {"idle"} \cup AgentPlaces
    BY <1>9 DEF AgentRead, AgentStep, AgentPlaces
  <2>2. \A g \in VisitHandlers :
          \A place \in {"set", "record", "sent"} :
            visitor'[g].at = place => visitor[g].at = place /\ visitor'[g] = visitor[g]
    BY <2>1 DEF AgentPlaces
  <2>3. Reporting({"record", "sent"}) => Reporting({"record", "sent"})'
    BY <2>1 DEF Reporting, AgentPlaces
  <2> QED
    BY <1>2, <2>1, <2>2, <2>3 DEF Writing
<1> QED
  BY <1>4, <1>5, <1>6, <1>7, <1>8, <1>9 DEF RequestStep

-----------------------------------------------------------------------------
\* Without overlapping appointments one is under way: the phones tell the guide whom it
\* read until it pushes, and the history names him until it is written.
Appointing(h) == visitor[h].at \in AgentPlaces
TheirGuide(a) == phones = {a} \ {NoAgent}
AgentInv ==
  (visitCrashes = 0 /\ ~agentRaced) =>
    /\ \A g, h \in VisitHandlers : Appointing(g) /\ Appointing(h) => g = h
    /\ \A h \in VisitHandlers :
         /\ visitor[h].at = "appoint" => visitor[h].guide = guide
         /\ visitor[h].at \in {"log", "push"} =>
              guide = visitor[h].to /\ TheirGuide(visitor[h].guide)
         /\ visitor[h].at = "push" => named = visitor[h].to
    /\ ~Reporting({"log", "push"}) => TheirGuide(guide) /\ named = guide

LEMMA AgentStepKeeps ==
  ASSUME VisitTypes, AgentInv, visitCrashes = 0, NEW h \in VisitHandlers, RequestStep(h),
         \A g \in VisitHandlers \ {h} : visitor'[g] = visitor[g]
  PROVE  AgentInv'
<1> SUFFICES ASSUME ~agentRaced'
             PROVE  /\ (\A g, k \in VisitHandlers : Appointing(g) /\ Appointing(k) => g = k)'
                    /\ (\A k \in VisitHandlers :
                          /\ visitor[k].at = "appoint" => visitor[k].guide = guide
                          /\ visitor[k].at \in {"log", "push"} =>
                               guide = visitor[k].to /\ TheirGuide(visitor[k].guide)
                          /\ visitor[k].at = "push" => named = visitor[k].to)'
                    /\ (~Reporting({"log", "push"}) => TheirGuide(guide) /\ named = guide)'
  BY DEF AgentInv
<1>1. ~agentRaced
  BY Zenon DEF RequestStep, VisitCreated, Sent, StatusRead, StatusSet, StatusRecorded, AgentRead,
               AgentStep
<1>2. /\ \A g, k \in VisitHandlers : Appointing(g) /\ Appointing(k) => g = k
      /\ \A k \in VisitHandlers :
           /\ visitor[k].at = "appoint" => visitor[k].guide = guide
           /\ visitor[k].at \in {"log", "push"} =>
                guide = visitor[k].to /\ TheirGuide(visitor[k].guide)
           /\ visitor[k].at = "push" => named = visitor[k].to
      /\ ~Reporting({"log", "push"}) => TheirGuide(guide) /\ named = guide
  BY <1>1 DEF AgentInv
<1>3. CASE \/ VisitCreated(h) /\ visitor[h].at = "idle"
           \/ Sent(h) \/ StatusRead(h) \/ StatusSet(h) \/ StatusRecorded(h)
  <2>1. /\ guide' = guide /\ phones' = phones /\ named' = named
        /\ visitor[h].at \notin AgentPlaces /\ visitor'[h].at \notin AgentPlaces
    BY <1>3 DEF VisitCreated, Sent, StatusRead, StatusSet, StatusRecorded, AgentPlaces
  <2>2. \A g \in VisitHandlers : visitor'[g].at \in AgentPlaces
          => g # h /\ visitor'[g] = visitor[g]
    BY <2>1
  <2>3. Reporting({"log", "push"}) => Reporting({"log", "push"})'
    BY <2>1 DEF Reporting, AgentPlaces
  <2> QED
    BY <1>2, <2>1, <2>2, <2>3 DEF Appointing, TheirGuide, AgentPlaces
<1>4. CASE AgentRead(h)
  <2>1. ~Someone(h, AgentPlaces)
    BY <1>4, Zenon DEF AgentRead
  <2>2. \A g \in VisitHandlers \ {h} : ~Appointing(g) /\ ~Appointing(g)'
    BY <2>1 DEF Someone, Appointing
  <2>3. /\ visitor'[h].at = "appoint" /\ visitor'[h].guide = guide /\ visitor[h].at = "idle"
        /\ guide' = guide /\ phones' = phones /\ named' = named
    BY <1>4 DEF AgentRead
  <2>4. ~Reporting({"log", "push"})
    BY <2>2, <2>3 DEF Reporting, Appointing, AgentPlaces
  <2> QED
    BY <1>2, <2>2, <2>3, <2>4 DEF Appointing, AgentPlaces, TheirGuide
<1>5. CASE AgentStep(h)
  <2>1. \A g \in VisitHandlers \ {h} : ~Appointing(g) /\ ~Appointing(g)'
    BY <1>2, <1>5 DEF AgentStep, Appointing, AgentPlaces
  <2>2. CASE visitor[h].at = "appoint"
    <3>1. /\ guide' = visitor[h].to /\ visitor'[h].at = "log"
          /\ named' = named /\ phones' = phones
          /\ visitor'[h].to = visitor[h].to /\ visitor'[h].guide = visitor[h].guide
      BY <1>5, <2>2 DEF AgentStep
    <3>2. ~Reporting({"log", "push"})
      BY <2>1, <2>2 DEF Reporting, Appointing, AgentPlaces
    <3>3. TheirGuide(visitor[h].guide)'
      BY <1>2, <2>2, <3>1, <3>2 DEF TheirGuide
    <3>4. Reporting({"log", "push"})'
      BY <3>1 DEF Reporting
    <3> QED
      BY <2>1, <3>1, <3>3, <3>4 DEF Appointing, AgentPlaces
  <2>3. CASE visitor[h].at = "log"
    <3>1. /\ named' = visitor[h].to /\ visitor'[h].at = "push"
          /\ guide' = guide /\ phones' = phones
          /\ visitor'[h].to = visitor[h].to /\ visitor'[h].guide = visitor[h].guide
      BY <1>5, <2>3 DEF AgentStep
    <3>2. TheirGuide(visitor[h].guide)'
      BY <1>2, <2>3, <3>1 DEF TheirGuide
    <3>3. Reporting({"log", "push"})'
      BY <3>1 DEF Reporting
    <3> QED
      BY <1>2, <2>1, <2>3, <3>1, <3>2, <3>3 DEF Appointing, AgentPlaces
  <2>4. CASE visitor[h].at = "push"
    <3>1. /\ phones' = Notified(visitor[h]) /\ visitor'[h].at = "idle"
          /\ guide' = guide /\ named' = named
      BY <1>5, <2>4 DEF AgentStep
    <3>2. guide = visitor[h].to /\ named = visitor[h].to /\ phones = {visitor[h].guide} \ {NoAgent}
      BY <1>2, <2>4 DEF TheirGuide
    <3>3. phones' = {guide} \ {NoAgent}
      BY <3>1, <3>2 DEF Notified
    <3> QED
      BY <2>1, <3>1, <3>2, <3>3 DEF Appointing, AgentPlaces, TheirGuide
  <2> QED
    BY <1>5, <2>2, <2>3, <2>4 DEF AgentStep
<1> QED
  BY <1>3, <1>4, <1>5 DEF RequestStep

-----------------------------------------------------------------------------
VisitInv == VisitTypes /\ FinalInv /\ LastInv /\ AgentInv

LEMMA VisitStep == VisitInv /\ [VisitNext]_visitVars => VisitInv'
<1> SUFFICES ASSUME VisitInv, [VisitNext]_visitVars PROVE VisitInv'
  OBVIOUS
<1>1. VisitTypes'
  BY VisitTypesStep DEF VisitInv
<1>2. ASSUME visitCrashes' = 0 PROVE FinalInv' /\ LastInv' /\ AgentInv'
  <2>1. ~VisitCrash
    BY <1>2, VisitCrashEffect DEF VisitInv
  <2>2. CASE UNCHANGED visitVars
    <3>1. visitCrashes' = visitCrashes /\ UNCHANGED <<visit, guide, said, named, phones, visitor>>
          /\ statusRaced' = statusRaced /\ agentRaced' = agentRaced
      BY <2>2, Zenon DEF visitVars
    <3> QED
      BY <3>1 DEF VisitInv, FinalInv, LastInv, AgentInv, Learnt, Known, Records, Writing,
                  Reporting, Appointing, TheirGuide
  <2>3. CASE VisitNext
    <3>1. PICK h \in VisitHandlers :
            \/ CreateVisit(h) \/ RecordSent(h)
            \/ \E p \in People : \E s \in Statuses : ReadStatus(h, p, s)
            \/ SetStatus(h) \/ RecordStatus(h)
            \/ \E p \in People : \E a \in Agents \cup {NoAgent} : ReadAgent(h, p, a)
            \/ Appoint(h) \/ LogAgent(h) \/ PushAgents(h)
      BY <2>1, <2>3 DEF VisitNext
    <3>2. /\ \A g \in VisitHandlers \ {h} : visitor'[g] = visitor[g]
          /\ RequestStep(h)
      BY <3>1, PlainSteps DEF VisitInv
    <3>3. visitCrashes' = visitCrashes
      BY <3>2 DEF RequestStep, VisitCreated, Sent, StatusRead, StatusSet, StatusRecorded, AgentRead,
                  AgentStep
    <3> QED
      BY <1>2, <3>2, <3>3, FinalStep, LastStep, AgentStepKeeps DEF VisitInv
  <2> QED
    BY <2>2, <2>3
<1>3. visitCrashes' # 0 => FinalInv' /\ LastInv' /\ AgentInv'
  BY DEF FinalInv, LastInv, AgentInv
<1> QED
  BY <1>1, <1>2, <1>3 DEF VisitInv

LEMMA VisitInitInv == VisitInit => VisitInv
<1> SUFFICES ASSUME VisitInit PROVE VisitInv
  OBVIOUS
<1>1. \A h \in VisitHandlers : visitor[h].at = "idle"
  BY DEF VisitInit, NoRequest
<1>2. FinalInv
  BY <1>1 DEF VisitInit, FinalInv, Learnt, Finals
<1>3. LastInv
  BY <1>1 DEF VisitInit, LastInv, Writing, Finals
<1>4. AgentInv
  BY <1>1 DEF VisitInit, AgentInv, Appointing, AgentPlaces, TheirGuide
<1> QED
  BY <1>2, <1>3, <1>4, InitVisit DEF VisitInv

LEMMA VisitInvHolds == VisitSpec => []VisitInv
BY VisitInitInv, VisitStep, PTL DEF VisitSpec

LEMMA VisitInvImplies == VisitInv => VisitCorrect
<1> SUFFICES ASSUME VisitInv PROVE VisitCorrect
  OBVIOUS
<1>1. VisitTypeOK
  <2>1. statusRaced \in BOOLEAN /\ agentRaced \in BOOLEAN
    BY Zenon DEF VisitInv, VisitTypes
  <2> QED
    BY <2>1 DEF VisitInv, VisitTypes, VisitTypeOK, RequestType, VisitPlaces
<1>2. FinalIsRecorded
  BY DEF VisitInv, FinalInv, Learnt, Known, FinalIsRecorded, Reporting
<1>3. LastRecordIsStatus
  BY DEF VisitInv, LastInv, LastRecordIsStatus
<1>4. AgentKnows
  BY DEF VisitInv, AgentInv, AgentKnows, TheirGuide
<1> QED
  BY <1>1, <1>2, <1>3, <1>4 DEF VisitCorrect

\* Whatever the requests, their interleaving and where the service dies: a visit that is
\* done or cancelled was recorded as such; and while requests of one kind do not overlap,
\* the last record is its status, and exactly its guide holds it for his.
THEOREM VisitIsCorrect == VisitSpec => []VisitCorrect
BY VisitInvHolds, VisitInvImplies, PTL

\* updateStatus never writes for a guide who was withdrawn between its read and its write.
THEOREM WithdrawnDoesNotWriteCorrect == VisitSpec => WithdrawnDoesNotWrite
<1>1. VisitTypes /\ [VisitNext]_visitVars =>
        [\A h \in VisitHandlers :
           (visitor[h].at = "set" /\ visit' # visit /\ visitor'[h].at # "set")
             => visitor[h].by \in {Owner, guide, Coordinator}]_visitVars
  <2> SUFFICES ASSUME VisitTypes, VisitNext, NEW h \in VisitHandlers,
                      visitor[h].at = "set", visit' # visit, visitor'[h].at # "set"
               PROVE  visitor[h].by \in {Owner, guide, Coordinator}
    BY Zenon
  <2>1. ~VisitCrash
    BY VisitCrashEffect
  <2>2. PICK g \in VisitHandlers :
            \/ CreateVisit(g) \/ RecordSent(g)
            \/ \E p \in People : \E s \in Statuses : ReadStatus(g, p, s)
            \/ SetStatus(g) \/ RecordStatus(g)
            \/ \E p \in People : \E a \in Agents \cup {NoAgent} : ReadAgent(g, p, a)
            \/ Appoint(g) \/ LogAgent(g) \/ PushAgents(g)
    BY <2>1 DEF VisitNext
  <2>3. g = h /\ RequestStep(h)
    BY <2>2, PlainSteps
  <2> QED
    BY <2>3 DEF RequestStep, VisitCreated, Sent, StatusRead, StatusSet, StatusRecorded, AgentRead,
                AgentStep, MayWrite
<1> QED
  BY <1>1, VisitInvHolds, PTL DEF VisitSpec, VisitInv, WithdrawnDoesNotWrite

-----------------------------------------------------------------------------
(* A visit to a Meet                                                         *)

Answers == {"completed", "no-answer"}
RowTypes == {"scheduled", "answered", "no-answer", "completed"}
RowType == [type : RowTypes, time : Nat, status : RowTypes]
SyncType ==
  [at : {"idle", "fetch", "look", "save"}, answer : {"none"} \cup Answers, text : BOOLEAN,
   time : Nat, seen : SUBSET RowTypes, v : Nat]

MeetTypes ==
  /\ hour \in Nat /\ meetAt \in VisitHours /\ ended \in Nat
  /\ booking \in {"none", "placed", "met", "subscribed", "saved", "done", "failed"}
  /\ draft \in {"pending", "active", "failed"}
  /\ subscription \in {"pending", "active", "failed", "expired"}
  /\ sweep \in {"due", "found", "active", "failed", "mark", "swept"}
  /\ until \in Nat /\ live \in Nat /\ version \in Nat
  /\ signals \in Seq(RowType)
  /\ attendance \in {"scheduled"} \cup Answers /\ told \subseteq Answers
  /\ linked \in BOOLEAN /\ meetText \in BOOLEAN /\ syncRaced \in BOOLEAN
  /\ byClient \in BOOLEAN /\ tryFailed \in BOOLEAN
  /\ sync \in [Syncs -> SyncType]
  /\ \A h \in Syncs : sync[h].at \in {"look", "save"} => sync[h].answer \in Answers
  /\ meetFailures \in Nat /\ meetCrashes \in Nat

\* What a sync that goes on to `state` leaves of the others.
LEMMA SyncGoes ==
  ASSUME MeetTypes, NEW h \in Syncs, NEW state \in SyncType, SyncGoto(h, state),
         state.at \in {"look", "save"} => state.answer \in Answers
  PROVE  /\ sync' \in [Syncs -> SyncType] /\ sync'[h] = state
         /\ \A g \in Syncs \ {h} : sync'[g] = sync[g]
         /\ \A g \in Syncs : sync'[g].at \in {"look", "save"} => sync'[g].answer \in Answers
  BY DEF MeetTypes, SyncGoto

LEMMA NoSyncType == NoSync \in SyncType /\ NoSync.at = "idle"
  BY DEF NoSync, SyncType

\* The rows after a save: those before it in their places, then the new ones.
LEMMA MergedRows ==
  ASSUME MeetTypes, NEW s \in SyncType, s.answer \in Answers
  PROVE  /\ Merged(s) \in Seq(RowType)
         /\ Len(Merged(s)) = Len(signals) + Len(New(s))
         /\ \A i \in 1 .. Len(signals) :
              Merged(s)[i] = IF signals[i].type \in Old(s) THEN Row(s, signals[i].type)
                             ELSE signals[i]
         /\ \A i \in 1 .. Len(New(s)) : Merged(s)[Len(signals) + i] = New(s)[i]
         /\ New(s) \in Seq(RowType)
         /\ \A type \in RowTypes :
              Row(s, type) \in RowType /\ Row(s, type).type = type /\ Row(s, type).time = s.time
<1>1. \A type \in RowTypes :
        Row(s, type) \in RowType /\ Row(s, type).type = type /\ Row(s, type).time = s.time
  BY DEF Row, RowType, RowTypes, SyncType, Answers
<1>2. Verdict(s.answer) \in RowTypes /\ "completed" \in RowTypes
  BY DEF Verdict, RowTypes
<1>3. New(s) \in Seq(RowType)
  BY <1>1, <1>2 DEF New, Pushed
<1>4. signals \in Seq(RowType)
  BY DEF MeetTypes
<1> DEFINE kept == [i \in DOMAIN signals |->
                      IF signals[i].type \in Old(s) THEN Row(s, signals[i].type)
                      ELSE signals[i]]
<1>5. kept \in Seq(RowType) /\ Len(kept) = Len(signals)
      /\ \A i \in 1 .. Len(signals) :
           kept[i] = IF signals[i].type \in Old(s) THEN Row(s, signals[i].type) ELSE signals[i]
  <2>1. ASSUME NEW i \in DOMAIN signals PROVE kept[i] \in RowType
    <3>1. signals[i] \in RowType
      BY <1>4
    <3>2. signals[i].type \in RowTypes
      BY <3>1 DEF RowType
    <3> QED
      BY <1>1, <3>1, <3>2
  <2>2. kept \in [1 .. Len(signals) -> RowType]
    BY <1>4, <2>1
  <2> QED
    BY <1>4, <2>2
<1>6. Merged(s) = kept \o New(s)
  BY DEF Merged
<1> HIDE DEF kept
<1>7. Merged(s) \in Seq(RowType) /\ Len(Merged(s)) = Len(signals) + Len(New(s))
  <2>1. kept \in Seq(RowType) /\ Len(kept) = Len(signals)
    BY <1>5
  <2>2. kept \o New(s) \in Seq(RowType) /\ Len(kept \o New(s)) = Len(kept) + Len(New(s))
    BY <1>3, <2>1
  <2> QED
    BY <1>6, <2>1, <2>2
<1>8. \A i \in 1 .. Len(signals) : Merged(s)[i] = kept[i]
  BY <1>3, <1>4, <1>5, <1>6
<1>9. \A i \in 1 .. Len(New(s)) : Merged(s)[Len(signals) + i] = New(s)[i]
  BY <1>3, <1>4, <1>5, <1>6
<1> QED
  BY <1>1, <1>3, <1>5, <1>7, <1>8, <1>9

LEMMA InitMeet == MeetAssumption /\ MeetInit => MeetTypes
<1> SUFFICES ASSUME MeetAssumption, MeetInit PROVE MeetTypes
  OBVIOUS
<1>1. /\ linked \in BOOLEAN /\ meetText \in BOOLEAN /\ syncRaced \in BOOLEAN
      /\ byClient \in BOOLEAN /\ tryFailed \in BOOLEAN
  BY DEF MeetInit
<1>2. signals \in Seq(RowType)
  BY DEF MeetInit
<1> QED
  BY <1>1, <1>2, NoSyncType DEF MeetInit, MeetTypes

\* The steps of the syncs leave the visit and its subscription alone; only a save that is
\* not refused changes the log.
SyncsOnly ==
  UNCHANGED <<hour, meetAt, ended, booking, draft, linked, subscription, until, live, sweep,
              tryFailed, meetCrashes>>
LogKept == UNCHANGED <<signals, version, attendance, meetText, told>>

\* A step of a sync, in plain terms: what it does to itself and to the log.
Started(h) ==
  /\ linked /\ sync[h] = NoSync /\ sync'[h].at \in {"fetch", "look"}
  /\ sync'[h].at = "look" => byClient'
  /\ syncRaced' = (syncRaced \/ \E g \in Syncs : sync[g] # NoSync)
  /\ byClient' = TRUE \/ byClient' = byClient
  /\ LogKept
Answered(h) ==
  /\ sync[h].at = "fetch"
  /\ \/ sync'[h] = NoSync
     \/ sync'[h].at = "look" /\ sync'[h].answer = "no-answer" /\ ended = 0
     \/ sync'[h].at = "look" /\ sync'[h].answer = "completed" /\ ended # 0
  /\ LogKept /\ UNCHANGED <<syncRaced, byClient>>
Looked(h) ==
  /\ sync[h].at = "look"
  /\ \/ signals = <<>> /\ sync'[h] = NoSync
     \/ /\ signals # <<>> /\ sync'[h].at = "save" /\ sync'[h].answer = sync[h].answer
        /\ sync'[h].seen = TypesOf(signals) /\ sync'[h].v = version
  /\ LogKept /\ UNCHANGED <<syncRaced, byClient>>
Saved(h) ==
  /\ sync[h].at = "save" /\ sync'[h] = NoSync
  /\ \/ /\ Old(sync[h]) = {} \/ sync[h].v = version
        /\ signals' = Merged(sync[h])
        /\ version' = (IF New(sync[h]) = <<>> THEN version ELSE version + 1)
        /\ attendance' = sync[h].answer /\ meetText' = TextAfter(sync[h])
        /\ told' = told \cup {sync[h].answer}
     \/ LogKept
  /\ UNCHANGED <<syncRaced, byClient>>
SyncStep(h) == Started(h) \/ Answered(h) \/ Looked(h) \/ Saved(h)

LEMMA SyncSteps ==
  ASSUME MeetTypes, NEW h \in Syncs,
         FetchArtifacts(h) \/ ToldByClient(h) \/ Fetched(h) \/ LookLog(h) \/ SaveSync(h)
  PROVE  /\ SyncStep(h)
         /\ sync' \in [Syncs -> SyncType]
         /\ \A g \in Syncs \ {h} : sync'[g] = sync[g]
         /\ \A g \in Syncs : sync'[g].at \in {"look", "save"} => sync'[g].answer \in Answers
         /\ SyncsOnly
         /\ meetFailures' \in Nat /\ (meetFailures' = 0 => meetFailures = 0)
<1>1. sync[h] \in SyncType /\ hour \in Nat /\ ended \in Nat /\ version \in Nat
      /\ meetFailures \in Nat /\ signals \in Seq(RowType)
  BY DEF MeetTypes
<1>2. CASE FetchArtifacts(h)
  <2> DEFINE r == [NoSync EXCEPT !.at = "fetch"]
  <2>1. r \in SyncType /\ r.at = "fetch"
    BY DEF NoSync, SyncType
  <2>2. SyncGoto(h, r) /\ linked /\ sync[h] = NoSync
        /\ syncRaced' = (syncRaced \/ \E g \in Syncs : sync[g] # NoSync)
        /\ UNCHANGED <<hour, meetAt, ended, bookingVars, subscriptionVars, logVars, told,
                       byClient, boundVars>>
    BY <1>2, Zenon DEF FetchArtifacts, StartSync
  <2> HIDE DEF r
  <2>3. /\ sync'[h] = r /\ sync' \in [Syncs -> SyncType]
        /\ \A g \in Syncs \ {h} : sync'[g] = sync[g]
        /\ \A g \in Syncs : sync'[g].at \in {"look", "save"} => sync'[g].answer \in Answers
    BY <2>1, <2>2, SyncGoes
  <2>6. LogKept
    BY <2>2 DEF LogKept, logVars
  <2>4. Started(h)
    BY <2>1, <2>2, <2>3, <2>6, Zenon DEF Started
  <2>5. /\ SyncsOnly
        /\ meetFailures' \in Nat /\ (meetFailures' = 0 => meetFailures = 0)
    BY <1>1, <2>2 DEF boundVars, bookingVars, subscriptionVars, SyncsOnly
  <2>9. SyncStep(h)
    BY <1>1, <2>2, <2>3, <2>4, <2>5, Zenon DEF SyncStep
  <2> QED
    BY <2>2, <2>3, <2>4, <2>5, <2>9
<1>3. CASE ToldByClient(h)
  <2>1. PICK answer \in Answers, t \in BOOLEAN :
          StartSync(h, [NoSync EXCEPT !.at = "look", !.answer = answer, !.text = t,
                                      !.time = hour])
    BY <1>3 DEF ToldByClient, Answers
  <2> DEFINE r == [NoSync EXCEPT !.at = "look", !.answer = answer, !.text = t, !.time = hour]
  <2>2. r \in SyncType /\ r.at = "look" /\ r.answer \in Answers
    BY <1>1 DEF NoSync, SyncType
  <2>3. SyncGoto(h, r) /\ linked /\ sync[h] = NoSync /\ byClient' = TRUE
        /\ syncRaced' = (syncRaced \/ \E g \in Syncs : sync[g] # NoSync)
        /\ UNCHANGED <<hour, meetAt, ended, bookingVars, subscriptionVars, logVars, told,
                       boundVars>>
    BY <1>3, <2>1, Zenon DEF ToldByClient, StartSync
  <2> HIDE DEF r
  <2>4. /\ sync'[h] = r /\ sync' \in [Syncs -> SyncType]
        /\ \A g \in Syncs \ {h} : sync'[g] = sync[g]
        /\ \A g \in Syncs : sync'[g].at \in {"look", "save"} => sync'[g].answer \in Answers
    BY <2>2, <2>3, SyncGoes
  <2>7. LogKept
    BY <2>3 DEF LogKept, logVars
  <2>5. Started(h)
    BY <2>2, <2>3, <2>4, <2>7, Zenon DEF Started
  <2>6. /\ SyncsOnly
        /\ meetFailures' \in Nat /\ (meetFailures' = 0 => meetFailures = 0)
    BY <1>1, <2>3 DEF boundVars, bookingVars, subscriptionVars, SyncsOnly
  <2>9. SyncStep(h)
    BY <1>1, <2>3, <2>4, <2>5, <2>6, Zenon DEF SyncStep
  <2> QED
    BY <2>3, <2>4, <2>5, <2>6, <2>9
<1>4. CASE Fetched(h)
  <2>1. PICK r \in SyncType :
          /\ SyncGoto(h, r)
          /\ \/ r = NoSync
             \/ r.at = "look" /\ r.answer = "no-answer" /\ ended = 0
             \/ r.at = "look" /\ r.answer = "completed" /\ ended # 0
    <3>1. CASE ended = 0
               /\ SyncGoto(h, [NoSync EXCEPT !.at = "look", !.answer = "no-answer", !.time = hour])
      <4>1. [NoSync EXCEPT !.at = "look", !.answer = "no-answer", !.time = hour] \in SyncType
            /\ [NoSync EXCEPT !.at = "look", !.answer = "no-answer", !.time = hour].at = "look"
            /\ [NoSync EXCEPT !.at = "look", !.answer = "no-answer", !.time = hour].answer
                 = "no-answer"
        BY <1>1 DEF NoSync, SyncType, Answers
      <4> QED
        BY <3>1, <4>1, Zenon
    <3>2. ASSUME ended > 0, NEW t \in BOOLEAN,
                 SyncGoto(h, [NoSync EXCEPT !.at = "look", !.answer = "completed",
                                            !.text = t, !.time = ended])
          PROVE  \E r \in SyncType :
                   /\ SyncGoto(h, r)
                   /\ r.at = "look" /\ r.answer = "completed" /\ ended # 0
      <4> DEFINE r == [NoSync EXCEPT !.at = "look", !.answer = "completed", !.text = t,
                                     !.time = ended]
      <4>1. r \in SyncType /\ r.at = "look" /\ r.answer = "completed"
        BY <1>1 DEF NoSync, SyncType, Answers
      <4>2. ended # 0
        BY <1>1, <3>2
      <4> HIDE DEF r
      <4>3. SyncGoto(h, r)
        BY <3>2 DEF r
      <4> QED
        BY <4>1, <4>2, <4>3, Zenon
    <3>3. CASE SyncGoto(h, NoSync)
      BY <3>3, NoSyncType, Zenon
    <3> QED
      BY <1>4, <3>1, <3>2, <3>3, Zenon DEF Fetched, FetchError
  <2>2. sync[h].at = "fetch" /\ UNCHANGED <<logVars, told, syncRaced, byClient, hour, meetAt, ended,
                                            bookingVars, subscriptionVars, meetCrashes>>
    BY <1>4 DEF Fetched
  <2>3. meetFailures' = meetFailures \/ meetFailures' = meetFailures + 1
    BY <1>4 DEF Fetched, MeetFails
  <2>4. meetFailures' \in Nat /\ (meetFailures' = 0 => meetFailures = 0)
    BY <1>1, <2>3
  <2>5. r.at \in {"look", "save"} => r.answer \in Answers
    BY <2>1, NoSyncType DEF Answers
  <2>6. /\ sync'[h] = r /\ sync' \in [Syncs -> SyncType]
        /\ \A g \in Syncs \ {h} : sync'[g] = sync[g]
        /\ \A g \in Syncs : sync'[g].at \in {"look", "save"} => sync'[g].answer \in Answers
    BY <2>1, <2>5, SyncGoes
  <2>8. SyncsOnly
    BY <2>2 DEF SyncsOnly, bookingVars, subscriptionVars
  <2>10. LogKept /\ UNCHANGED <<syncRaced, byClient>>
    BY <2>2 DEF LogKept, logVars
  <2>7. Answered(h)
    BY <2>1, <2>2, <2>6, <2>10, Zenon DEF Answered
  <2>9. SyncStep(h)
    BY <2>4, <2>6, <2>7, <2>8, Zenon DEF SyncStep
  <2> QED
    BY <2>4, <2>6, <2>7, <2>8, <2>9
<1>5. CASE LookLog(h)
  <2>1. sync[h].at = "look" /\ sync[h].answer \in Answers
        /\ UNCHANGED <<logVars, told, syncRaced, byClient, hour, meetAt, ended,
                       bookingVars, subscriptionVars, meetFailures, meetCrashes>>
    BY <1>5 DEF LookLog, MeetTypes, boundVars
  <2>4. /\ SyncsOnly
        /\ meetFailures' \in Nat /\ (meetFailures' = 0 => meetFailures = 0)
    BY <1>1, <2>1 DEF SyncsOnly, bookingVars, subscriptionVars
  <2>5. LogKept /\ UNCHANGED <<syncRaced, byClient>>
    BY <2>1 DEF LogKept, logVars
  <2>2. CASE signals = <<>>
    <3>1. SyncGoto(h, NoSync)
      BY <1>5, <2>2 DEF LookLog
    <3>2. /\ sync'[h] = NoSync /\ sync' \in [Syncs -> SyncType]
          /\ \A g \in Syncs \ {h} : sync'[g] = sync[g]
          /\ \A g \in Syncs : sync'[g].at \in {"look", "save"} => sync'[g].answer \in Answers
      BY <3>1, NoSyncType, SyncGoes
    <3>3. Looked(h)
      BY <2>1, <2>2, <2>5, <3>2, Zenon DEF Looked
    <3>9. SyncStep(h)
      BY <2>4, <3>2, <3>3, Zenon DEF SyncStep
    <3> QED
      BY <2>4, <3>2, <3>3, <3>9
  <2>3. CASE signals # <<>>
    <3> DEFINE r == [sync[h] EXCEPT !.at = "save", !.seen = TypesOf(signals), !.v = version]
    <3>1. SyncGoto(h, r)
      BY <1>5, <2>3 DEF LookLog
    <3>2. TypesOf(signals) \in SUBSET RowTypes
      <4>1. \A i \in DOMAIN signals : signals[i] \in RowType
        BY <1>1
      <4> QED
        BY <4>1 DEF TypesOf, RowType
    <3>3. r \in SyncType /\ r.at = "save" /\ r.answer = sync[h].answer
          /\ r.seen = TypesOf(signals) /\ r.v = version
      BY <1>1, <3>2 DEF SyncType
    <3> HIDE DEF r
    <3>4. /\ sync'[h] = r /\ sync' \in [Syncs -> SyncType]
          /\ \A g \in Syncs \ {h} : sync'[g] = sync[g]
          /\ \A g \in Syncs : sync'[g].at \in {"look", "save"} => sync'[g].answer \in Answers
      BY <2>1, <3>1, <3>3, SyncGoes
    <3>5. Looked(h)
      BY <2>1, <2>3, <2>5, <3>3, <3>4, Zenon DEF Looked
    <3>9. SyncStep(h)
      BY <2>4, <3>4, <3>5, Zenon DEF SyncStep
    <3> QED
      BY <2>4, <3>4, <3>5, <3>9
  <2> QED
    BY <2>2, <2>3
<1>6. CASE SaveSync(h)
  <2>1. /\ sync[h].at = "save" /\ SyncGoto(h, NoSync)
        /\ UNCHANGED <<syncRaced, byClient, hour, meetAt, ended, bookingVars,
                       subscriptionVars, boundVars>>
    BY <1>6 DEF SaveSync
  <2>2. /\ sync'[h] = NoSync /\ sync' \in [Syncs -> SyncType]
        /\ \A g \in Syncs \ {h} : sync'[g] = sync[g]
        /\ \A g \in Syncs : sync'[g].at \in {"look", "save"} => sync'[g].answer \in Answers
    BY <2>1, NoSyncType, SyncGoes
  <2>5. \/ /\ Old(sync[h]) = {} \/ sync[h].v = version
           /\ signals' = Merged(sync[h])
           /\ version' = (IF New(sync[h]) = <<>> THEN version ELSE version + 1)
           /\ attendance' = sync[h].answer /\ meetText' = TextAfter(sync[h])
           /\ told' = told \cup {sync[h].answer}
        \/ UNCHANGED <<logVars, told>>
    BY <1>6, Zenon DEF SaveSync
  <2>6. UNCHANGED <<logVars, told>> => LogKept
    BY DEF LogKept, logVars
  <2>3. Saved(h)
    BY <2>1, <2>2, <2>5, <2>6, Zenon DEF Saved
  <2>4. /\ SyncsOnly
        /\ meetFailures' \in Nat /\ (meetFailures' = 0 => meetFailures = 0)
    BY <1>1, <2>1 DEF boundVars, bookingVars, subscriptionVars, SyncsOnly
  <2>9. SyncStep(h)
    BY <1>1, <2>1, <2>2, <2>3, <2>4, Zenon DEF SyncStep
  <2> QED
    BY <2>1, <2>2, <2>3, <2>4, <2>9
<1> QED
  BY <1>2, <1>3, <1>4, <1>5, <1>6

-----------------------------------------------------------------------------
\* The other steps leave the syncs and, but for LogVisit, the log alone.
SyncsKept == UNCHANGED <<version, attendance, meetText, sync, told, syncRaced, byClient>>

\* An attempt that succeeds, and one that fails.
Subscribed ==
  /\ until' = hour + Ttl /\ live' = live + 1
  /\ UNCHANGED <<meetFailures, tryFailed>>
NotSubscribed ==
  /\ MeetFails /\ tryFailed' = TRUE /\ live' \in {live, live + 1} /\ until' = until

Nearby ==
  /\ booking = "met" /\ booking' = "subscribed"
  /\ \/ Near /\ Subscribed /\ draft' = "active"
     \/ Near /\ NotSubscribed /\ draft' = "failed"
     \/ ~Near /\ draft' = "pending" /\ UNCHANGED <<until, live, tryFailed, meetFailures>>
  /\ UNCHANGED <<hour, meetAt, ended, linked, subscription, sweep, signals, meetCrashes>>

Found ==
  /\ sweep = "found"
  /\ \/ sweep' = "active" /\ Subscribed
     \/ sweep' = "failed" /\ NotSubscribed
  /\ UNCHANGED <<hour, meetAt, ended, booking, draft, linked, subscription, signals,
                 meetCrashes>>

LEMMA SubscribeSteps ==
  /\ SubscribeNow => Nearby /\ SyncsKept
  /\ SweepSubscribe => Found /\ SyncsKept
<1>1. SubscribeNow => Nearby /\ SyncsKept
  BY DEF SubscribeNow, Attempt, Nearby, Subscribed, NotSubscribed, SyncsKept, logVars,
         syncVars
<1>2. ASSUME SweepSubscribe PROVE Found /\ SyncsKept
  <2>1. /\ sweep = "found"
        /\ UNCHANGED <<hour, meetAt, ended, bookingVars, subscription, logVars, syncVars,
                       meetCrashes>>
    BY <1>2 DEF SweepSubscribe
  <2>2. \/ sweep' = "active" /\ Subscribed
        \/ sweep' = "failed" /\ NotSubscribed
    BY <1>2 DEF SweepSubscribe, Attempt, Subscribed, NotSubscribed
  <2>3. SyncsKept
    BY <2>1 DEF SyncsKept, logVars, syncVars
  <2>4. UNCHANGED <<hour, meetAt, ended, booking, draft, linked, subscription, signals,
                    meetCrashes>>
    BY <2>1 DEF logVars, bookingVars
  <2> QED
    BY <2>1, <2>2, <2>3, <2>4 DEF Found
<1> QED
  BY <1>1, <1>2

\* The steps of the visit and of the sweeps, without the syncs.
VisitStepOf ==
  \/ Tick \/ Confer \/ Place \/ InsertEntry \/ Nearby \/ SaveVisit \/ LogVisit
  \/ SweepLook \/ Found \/ SweepSave \/ SweepMark

LEMMA MeetSteps ==
  ASSUME MeetNext, ~(\E h \in Syncs : FetchArtifacts(h) \/ ToldByClient(h) \/ Fetched(h)
                                        \/ LookLog(h) \/ SaveSync(h))
  PROVE  (VisitStepOf /\ SyncsKept) \/ MeetCrash
<1>1. \/ Tick \/ Confer \/ Place \/ InsertEntry \/ SubscribeNow \/ SaveVisit \/ LogVisit
      \/ SweepLook \/ SweepSubscribe \/ SweepSave \/ SweepMark \/ MeetCrash
  BY DEF MeetNext
<1>2. Tick \/ Confer \/ Place \/ InsertEntry => SyncsKept
  BY DEF Tick, Confer, Place, InsertEntry, SyncsKept, logVars, syncVars
<1>3. SaveVisit \/ LogVisit \/ SweepLook \/ SweepSave \/ SweepMark => SyncsKept
  BY DEF SaveVisit, LogVisit, SweepLook, SweepSave, SweepMark, SyncsKept, logVars, syncVars
<1> QED
  BY <1>1, <1>2, <1>3, SubscribeSteps DEF VisitStepOf

LEMMA MeetCrashEffect ==
  ASSUME MeetTypes, MeetCrash
  PROVE  /\ meetCrashes' \in Nat /\ meetCrashes' # 0
         /\ booking' = (IF booking \in {"none", "done"} THEN booking ELSE "failed")
         /\ sweep' = "swept"
         /\ sync' \in [Syncs -> SyncType] /\ \A h \in Syncs : sync'[h] = NoSync
         /\ UNCHANGED <<hour, meetAt, ended, draft, linked, subscription, until, live,
                        tryFailed, signals, version, attendance, meetText, told, syncRaced,
                        byClient, meetFailures>>
<1>1. meetCrashes \in Nat /\ meetCrashes' = meetCrashes + 1
  BY DEF MeetTypes, MeetCrash
<1>2. meetCrashes' \in Nat /\ meetCrashes' # 0
  BY <1>1
<1>3. sync' \in [Syncs -> SyncType] /\ \A h \in Syncs : sync'[h] = NoSync
  BY NoSyncType DEF MeetCrash
<1>4. UNCHANGED <<hour, meetAt, ended, draft, linked, subscription, until, live,
                  tryFailed, signals, version, attendance, meetText, told, syncRaced,
                  byClient, meetFailures>>
  BY DEF MeetCrash, logVars
<1> QED
  BY <1>2, <1>3, <1>4 DEF MeetCrash

\* Types: of what the visit, the sweeps and the bounds are, ...
VisitPart ==
  /\ hour \in Nat /\ meetAt \in VisitHours /\ ended \in Nat
  /\ booking \in {"none", "placed", "met", "subscribed", "saved", "done", "failed"}
  /\ draft \in {"pending", "active", "failed"}
  /\ subscription \in {"pending", "active", "failed", "expired"}
  /\ sweep \in {"due", "found", "active", "failed", "mark", "swept"}
  /\ until \in Nat /\ live \in Nat
  /\ signals \in Seq(RowType)
  /\ meetFailures \in Nat /\ meetCrashes \in Nat

LEMMA VisitPartStep ==
  ASSUME MeetAssumption, VisitPart, VisitStepOf
  PROVE  VisitPart'
<1> USE DEF VisitPart
<1>1. Ttl \in Nat /\ meetAt \in Nat
  BY DEF MeetAssumption
<1>2. CASE Tick
  BY <1>2 DEF Tick, bookingVars, logVars, boundVars
<1>3. CASE Confer
  BY <1>3 DEF Confer, bookingVars, subscriptionVars, logVars, boundVars
<1>4. CASE Place
  BY <1>4 DEF Place, subscriptionVars, logVars, boundVars
<1>5. CASE InsertEntry
  BY <1>5 DEF InsertEntry, MeetFails, subscriptionVars, logVars
<1>6. Subscribed \/ NotSubscribed => until' \in Nat /\ live' \in Nat /\ meetFailures' \in Nat
  BY <1>1 DEF Subscribed, NotSubscribed, MeetFails
<1>7. CASE Nearby
  BY <1>6, <1>7 DEF Nearby
<1>8. CASE SaveVisit
  BY <1>8 DEF SaveVisit, logVars, boundVars
<1>9. CASE LogVisit
  <2>1. <<[type |-> "scheduled", time |-> meetAt, status |-> "scheduled"]>> \in Seq(RowType)
    BY <1>1 DEF RowType, RowTypes
  <2> QED
    BY <1>9, <2>1 DEF LogVisit, subscriptionVars, boundVars
<1>10. CASE SweepLook
  BY <1>10 DEF SweepLook, bookingVars, logVars, boundVars
<1>11. CASE Found
  BY <1>6, <1>11 DEF Found
<1>12. CASE SweepSave
  BY <1>12 DEF SweepSave, bookingVars, logVars, boundVars
<1>13. CASE SweepMark
  BY <1>13 DEF SweepMark, bookingVars, logVars, boundVars
<1> QED
  BY <1>2, <1>3, <1>4, <1>5, <1>7, <1>8, <1>9, <1>10, <1>11, <1>12, <1>13 DEF VisitStepOf

\* ... and of the Boolean variables.
MeetFlags ==
  /\ linked \in BOOLEAN /\ meetText \in BOOLEAN /\ syncRaced \in BOOLEAN
  /\ byClient \in BOOLEAN /\ tryFailed \in BOOLEAN

LEMMA MeetFlagsStep == MeetFlags /\ [MeetNext]_meetVars => MeetFlags'
<1> SUFFICES ASSUME MeetFlags, [MeetNext]_meetVars PROVE MeetFlags'
  OBVIOUS
<1>1. linked' = linked \/ linked' = TRUE
  BY DEF MeetNext, Tick, Confer, Place, InsertEntry, SubscribeNow, SaveVisit, LogVisit,
         SweepLook, SweepSubscribe, SweepSave, SweepMark, FetchArtifacts, ToldByClient,
         Fetched, LookLog, SaveSync, MeetCrash, meetVars, bookingVars
<1>2. tryFailed' = tryFailed \/ tryFailed' = TRUE \/ tryFailed' = FALSE
  BY SubscribeSteps
     DEF MeetNext, Tick, Confer, Place, InsertEntry, Nearby, Found, Subscribed, NotSubscribed,
         SaveVisit, LogVisit, SweepLook, SweepSave, SweepMark, FetchArtifacts, ToldByClient,
         Fetched, LookLog, SaveSync, MeetCrash, meetVars, subscriptionVars
<1>3. byClient' = byClient \/ byClient' = TRUE
  BY DEF MeetNext, Tick, Confer, Place, InsertEntry, SubscribeNow, SaveVisit, LogVisit,
         SweepLook, SweepSubscribe, SweepSave, SweepMark, FetchArtifacts, ToldByClient,
         Fetched, LookLog, SaveSync, MeetCrash, meetVars, syncVars
<1>4. syncRaced' = syncRaced \/ syncRaced' = (syncRaced \/ \E g \in Syncs : sync[g] # NoSync)
  BY DEF MeetNext, Tick, Confer, Place, InsertEntry, SubscribeNow, SaveVisit, LogVisit,
         SweepLook, SweepSubscribe, SweepSave, SweepMark, FetchArtifacts, ToldByClient,
         Fetched, LookLog, SaveSync, StartSync, MeetCrash, meetVars, syncVars
<1>5. meetText' = meetText \/ \E h \in Syncs : meetText' = TextAfter(sync[h])
  BY DEF MeetNext, Tick, Confer, Place, InsertEntry, SubscribeNow, SaveVisit, LogVisit,
         SweepLook, SweepSubscribe, SweepSave, SweepMark, FetchArtifacts, ToldByClient,
         Fetched, LookLog, SaveSync, MeetCrash, meetVars, logVars
<1> QED
  BY <1>1, <1>2, <1>3, <1>4, <1>5, Zenon DEF MeetFlags, TextAfter

LEMMA MeetTypesStep == MeetAssumption /\ MeetTypes /\ [MeetNext]_meetVars => MeetTypes'
<1> SUFFICES ASSUME MeetAssumption, MeetTypes, [MeetNext]_meetVars PROVE MeetTypes'
  OBVIOUS
<1>1. MeetFlags'
  <2>1. MeetFlags
    BY Zenon DEF MeetTypes, MeetFlags
  <2> QED
    BY <2>1, MeetFlagsStep
<1>2. VisitPart /\ version \in Nat
  BY DEF MeetTypes, VisitPart
<1> DEFINE SyncPart ==
      /\ sync \in [Syncs -> SyncType]
      /\ \A h \in Syncs : sync[h].at \in {"look", "save"} => sync[h].answer \in Answers
      /\ version \in Nat
      /\ attendance \in {"scheduled"} \cup Answers /\ told \subseteq Answers
<1>3. SyncPart
  BY DEF MeetTypes
<1>4. ASSUME NEW h \in Syncs,
             FetchArtifacts(h) \/ ToldByClient(h) \/ Fetched(h) \/ LookLog(h) \/ SaveSync(h)
      PROVE  VisitPart' /\ SyncPart'
  <2>1. /\ SyncStep(h)
        /\ sync' \in [Syncs -> SyncType]
        /\ \A g \in Syncs : sync'[g].at \in {"look", "save"} => sync'[g].answer \in Answers
        /\ SyncsOnly /\ meetFailures' \in Nat
    BY <1>4, SyncSteps
  <2>2. CASE LogKept
    BY <1>2, <1>3, <2>1, <2>2 DEF LogKept, SyncsOnly, VisitPart
  <2>3. CASE ~LogKept
    <3>1. /\ sync[h].at = "save"
          /\ signals' = Merged(sync[h])
          /\ version' = (IF New(sync[h]) = <<>> THEN version ELSE version + 1)
          /\ attendance' = sync[h].answer /\ told' = told \cup {sync[h].answer}
      BY <2>1, <2>3 DEF SyncStep, Started, Answered, Looked, Saved
    <3>2. sync[h] \in SyncType /\ sync[h].answer \in Answers
      BY <1>3, <3>1
    <3>3. Merged(sync[h]) \in Seq(RowType)
      BY <3>2, MergedRows
    <3>4. VisitPart'
      BY <1>2, <2>1, <3>1, <3>3 DEF SyncsOnly, VisitPart
    <3>5. version' \in Nat
      BY <1>2, <3>1
    <3> QED
      BY <1>3, <2>1, <3>1, <3>2, <3>4, <3>5
  <2> QED
    BY <2>2, <2>3
<1>5. ASSUME VisitStepOf, SyncsKept PROVE VisitPart' /\ SyncPart'
  BY <1>2, <1>3, <1>5, VisitPartStep DEF SyncsKept
<1>6. ASSUME MeetCrash PROVE VisitPart' /\ SyncPart'
  <2>1. VisitPart'
    BY <1>2, <1>6, MeetCrashEffect DEF VisitPart
  <2>2. SyncPart'
    BY <1>3, <1>6, MeetCrashEffect, NoSyncType
  <2> QED
    BY <2>1, <2>2
<1>7. ASSUME UNCHANGED meetVars PROVE VisitPart' /\ SyncPart'
  <2>1. VisitPart'
    BY <1>2, <1>7 DEF VisitPart, meetVars, bookingVars, subscriptionVars, logVars, boundVars
  <2>2. SyncPart'
    BY <1>3, <1>7 DEF meetVars, logVars, syncVars
  <2> QED
    BY <2>1, <2>2
<1>8. VisitPart' /\ SyncPart'
  BY <1>4, <1>5, <1>6, <1>7, MeetSteps
<1> HIDE DEF SyncPart
<1>9. /\ sync' \in [Syncs -> SyncType]
      /\ \A h \in Syncs : sync'[h].at \in {"look", "save"} => sync'[h].answer \in Answers
      /\ version' \in Nat
      /\ attendance' \in {"scheduled"} \cup Answers /\ told' \subseteq Answers
  BY <1>8 DEF SyncPart
<1> QED
  BY <1>1, <1>8, <1>9, Zenon DEF MeetTypes, MeetFlags, VisitPart

-----------------------------------------------------------------------------
\* Where the booking and the sweep are, against whether the visit has its link.
LinkInv ==
  /\ booking \in {"none", "placed", "met", "subscribed"} => ~linked
  /\ booking \in {"saved", "done"} => linked
  /\ sweep \in {"found", "active", "failed"} => linked
  /\ ~linked => subscription = "pending"

\* Without a crash: a subscription that is marked active lasts for this hour, one that
\* was just made for longer, and from the sweep of the visit's hour on until the visit.
CoverInv ==
  meetCrashes = 0 =>
    /\ linked /\ hour = meetAt /\ sweep \in {"active", "failed", "mark", "swept"}
         /\ ~tryFailed => until >= meetAt
    /\ booking = "subscribed" /\ hour = meetAt /\ ~tryFailed => until >= meetAt
    /\ linked /\ subscription = "active" => until >= hour
    /\ linked /\ subscription = "active" /\ sweep = "swept" => until > hour
    /\ booking = "subscribed" /\ draft = "active" => until > hour
    /\ sweep = "active" => until > hour

\* Without a failure: there is a subscription exactly from the attempt on, it lasts until
\* the visit, and by the time it expires the visit is over.
CountInv ==
  (meetFailures = 0 /\ meetCrashes = 0) =>
    /\ live \in {0, 1} /\ (live = 1 => until >= meetAt)
    /\ booking # "failed" /\ sweep # "failed" /\ (sweep = "found" => Near)
    /\ booking \in {"none", "placed", "met"} => live = 0
    /\ booking = "subscribed" => \/ draft = "active" /\ live = 1
                                 \/ draft = "pending" /\ live = 0
    /\ linked => \/ subscription = "pending" /\ live = 0 /\ sweep # "active"
                 \/ subscription = "pending" /\ live = 1 /\ sweep = "active"
                 \/ /\ subscription \in {"active", "expired"} /\ live = 1
                    /\ sweep \notin {"found", "active"}
    /\ subscription = "expired" => until <= hour /\ (sweep # "swept" => until < hour)

LEMMA LinkStep == LinkInv /\ [MeetNext]_meetVars => LinkInv'
<1> SUFFICES ASSUME LinkInv, [MeetNext]_meetVars PROVE LinkInv'
  OBVIOUS
<1> USE DEF LinkInv
<1>1. ASSUME UNCHANGED <<booking, linked, subscription, sweep>> PROVE LinkInv'
  BY <1>1
<1>2. CASE \E h \in Syncs : FetchArtifacts(h) \/ ToldByClient(h) \/ Fetched(h) \/ LookLog(h)
                              \/ SaveSync(h)
  BY <1>1, <1>2 DEF FetchArtifacts, ToldByClient, Fetched, LookLog, SaveSync, bookingVars,
                    subscriptionVars
<1>3. CASE UNCHANGED meetVars
  BY <1>1, <1>3 DEF meetVars, bookingVars, subscriptionVars
<1>4. CASE Tick \/ Confer
  BY <1>4 DEF Tick, Confer, bookingVars, subscriptionVars
<1>5. CASE Place \/ InsertEntry \/ Nearby \/ SaveVisit \/ LogVisit
  BY <1>5 DEF Place, InsertEntry, Nearby, SaveVisit, LogVisit, subscriptionVars
<1>6. CASE SweepLook \/ Found \/ SweepSave \/ SweepMark
  BY <1>6 DEF SweepLook, Found, SweepSave, SweepMark, bookingVars
<1>7. CASE MeetCrash
  BY <1>7 DEF MeetCrash
<1> QED
  BY <1>2, <1>3, <1>4, <1>5, <1>6, <1>7, MeetSteps DEF VisitStepOf

\* Numbers and what the visit is made of, for the steps below.
LEMMA CoverStep ==
  ASSUME MeetAssumption, MeetTypes, LinkInv, CoverInv, VisitStepOf, meetCrashes' = meetCrashes
  PROVE  CoverInv'
<1> SUFFICES ASSUME meetCrashes = 0 PROVE CoverInv'
  BY DEF CoverInv
<1>1. /\ Ttl \in Nat /\ Ttl > 0 /\ meetAt \in Nat /\ hour \in Nat /\ until \in Nat
      /\ booking \in {"none", "placed", "met", "subscribed", "saved", "done", "failed"}
      /\ draft \in {"pending", "active", "failed"}
      /\ subscription \in {"pending", "active", "failed", "expired"}
  BY DEF MeetAssumption, MeetTypes
<1>2. hour + Ttl \in Nat /\ hour + Ttl > hour
  BY <1>1
<1> USE DEF CoverInv, LinkInv
<1>3. CASE Tick
  <2>1. /\ sweep = "swept" /\ sweep' = "due" /\ hour' = hour + 1
        /\ booking # "subscribed" /\ UNCHANGED <<meetAt, booking, linked, subscription, until>>
    BY <1>3 DEF Tick, bookingVars
  <2> QED
    BY <1>1, <2>1
<1>4. CASE Confer
  BY <1>4 DEF Confer, bookingVars, subscriptionVars
<1>5. CASE Place
  BY <1>5 DEF Place, subscriptionVars
<1>6. CASE InsertEntry
  BY <1>6 DEF InsertEntry, subscriptionVars
<1>7. CASE Nearby
  <2>1. ~linked /\ UNCHANGED <<linked, sweep, hour, meetAt, subscription>>
        /\ sweep \notin {"found", "active", "failed"}
    BY <1>7 DEF Nearby
  <2>2. draft' = "active" => until' = hour + Ttl
    BY <1>7 DEF Nearby, Subscribed
  <2>3. hour = meetAt /\ ~tryFailed' => until' = hour + Ttl
    BY <1>1, <1>7 DEF Nearby, Subscribed, NotSubscribed, Near
  <2> QED
    BY <1>1, <1>2, <2>1, <2>2, <2>3
<1>8. CASE SaveVisit
  <2>1. /\ booking = "subscribed" /\ booking' = "saved" /\ subscription' = draft
        /\ sweep \notin {"found", "active", "failed"}
        /\ UNCHANGED <<sweep, hour, meetAt, until, tryFailed>>
    BY <1>8 DEF SaveVisit
  <2> QED
    BY <1>1, <2>1
<1>9. CASE LogVisit
  BY <1>9 DEF LogVisit, subscriptionVars
<1>10. CASE SweepLook
  <2>1. /\ sweep = "due" /\ sweep' \in {"found", "mark"}
        /\ (sweep' = "found") = (linked /\ Sweeps /\ hour <= meetAt /\ Near)
        /\ UNCHANGED <<hour, meetAt, booking, draft, linked, subscription, until, tryFailed>>
    BY <1>10 DEF SweepLook, bookingVars
  <2>2. linked /\ hour = meetAt /\ sweep' # "found" => subscription = "active"
    BY <1>1, <2>1 DEF Sweeps, Near
  <2> QED
    BY <1>1, <2>1, <2>2
<1>11. CASE Found
  <2>1. /\ sweep = "found" /\ linked /\ booking # "subscribed"
        /\ UNCHANGED <<hour, meetAt, booking, draft, linked, subscription>>
        /\ \/ sweep' = "active" /\ until' = hour + Ttl
           \/ sweep' = "failed" /\ tryFailed' = TRUE /\ until' = until
    BY <1>11 DEF Found, Subscribed, NotSubscribed
  <2> QED
    BY <1>1, <1>2, <2>1
<1>12. CASE SweepSave
  <2>1. /\ sweep \in {"active", "failed"} /\ subscription' = sweep /\ sweep' = "mark"
        /\ UNCHANGED <<hour, meetAt, booking, draft, linked, until, tryFailed>>
    BY <1>12 DEF SweepSave, bookingVars
  <2> QED
    BY <1>1, <2>1
<1>13. CASE SweepMark
  <2>1. /\ sweep = "mark" /\ sweep' = "swept"
        /\ subscription' = "active" => subscription = "active" /\ ~(until <= hour)
        /\ UNCHANGED <<hour, meetAt, booking, draft, linked, until, tryFailed>>
    BY <1>13 DEF SweepMark, bookingVars
  <2> QED
    BY <1>1, <2>1
<1> QED
  BY <1>3, <1>4, <1>5, <1>6, <1>7, <1>8, <1>9, <1>10, <1>11, <1>12, <1>13 DEF VisitStepOf

LEMMA CountStep ==
  ASSUME MeetAssumption, MeetTypes, LinkInv, CountInv, VisitStepOf, meetCrashes' = meetCrashes
  PROVE  CountInv'
<1> SUFFICES ASSUME meetFailures' = 0, meetCrashes = 0 PROVE CountInv'
  BY DEF CountInv
<1>1. /\ Ttl \in Nat /\ meetAt \in Nat /\ hour \in Nat /\ until \in Nat /\ meetFailures \in Nat
      /\ booking \in {"none", "placed", "met", "subscribed", "saved", "done", "failed"}
      /\ draft \in {"pending", "active", "failed"}
      /\ subscription \in {"pending", "active", "failed", "expired"}
  BY DEF MeetAssumption, MeetTypes
<1>2. ~MeetFails
  BY <1>1 DEF MeetFails
<1>3. meetFailures' = meetFailures
  BY <1>2 DEF VisitStepOf, Tick, Confer, Place, InsertEntry, Nearby, Subscribed, NotSubscribed,
              SaveVisit, LogVisit, SweepLook, Found, SweepSave, SweepMark, boundVars
<1>4. Subscribed => until' = hour + Ttl /\ live' = live + 1
  BY DEF Subscribed
<1> USE DEF CountInv, LinkInv, Near
<1>5. CASE Tick
  <2>1. /\ sweep = "swept" /\ sweep' = "due" /\ hour' = hour + 1
        /\ UNCHANGED <<meetAt, booking, draft, linked, subscription, until, live>>
    BY <1>5 DEF Tick, bookingVars
  <2> QED
    BY <1>1, <1>3, <2>1
<1>6. CASE Confer
  BY <1>3, <1>6 DEF Confer, bookingVars, subscriptionVars
<1>7. CASE Place
  BY <1>3, <1>7 DEF Place, subscriptionVars
<1>8. CASE InsertEntry
  BY <1>2, <1>3, <1>8 DEF InsertEntry, subscriptionVars
<1>9. CASE Nearby
  <2>1. /\ ~linked /\ live = 0 /\ booking' = "subscribed"
        /\ UNCHANGED <<linked, sweep, hour, meetAt, subscription>>
        /\ subscription = "pending"
    BY <1>3, <1>9 DEF Nearby
  <2>2. CASE draft' = "active" /\ Near /\ Subscribed
    BY <1>1, <1>3, <1>4, <2>1, <2>2
  <2>3. CASE draft' = "pending" /\ live' = live /\ until' = until
    BY <1>1, <1>3, <2>1, <2>3
  <2> QED
    BY <1>2, <1>9, <2>2, <2>3 DEF Nearby, NotSubscribed
<1>10. CASE SaveVisit
  <2>1. /\ booking = "subscribed" /\ booking' = "saved" /\ subscription' = draft
        /\ sweep \notin {"found", "active", "failed"}
        /\ UNCHANGED <<sweep, hour, meetAt, until, live>>
    BY <1>10 DEF SaveVisit
  <2> QED
    BY <1>1, <1>3, <2>1
<1>11. CASE LogVisit
  BY <1>3, <1>11 DEF LogVisit, subscriptionVars
<1>12. CASE SweepLook
  <2>1. /\ sweep = "due" /\ sweep' \in {"found", "mark"}
        /\ sweep' = "found" => linked /\ Sweeps /\ hour <= meetAt /\ Near
        /\ UNCHANGED <<hour, meetAt, booking, draft, linked, subscription, until, live>>
    BY <1>12 DEF SweepLook, bookingVars
  <2>2. sweep' = "found" => subscription = "pending" /\ live = 0
    <3>1. sweep' = "found" => subscription # "expired"
      BY <1>1, <1>3, <2>1
    <3> QED
      BY <1>3, <2>1, <3>1 DEF Sweeps
  <2> QED
    BY <1>1, <1>3, <2>1, <2>2
<1>13. CASE Found
  <2>1. /\ sweep = "found" /\ linked /\ subscription = "pending" /\ live = 0
        /\ sweep' = "active" /\ Subscribed
        /\ UNCHANGED <<hour, meetAt, booking, draft, linked, subscription>>
    BY <1>2, <1>3, <1>13 DEF Found, NotSubscribed
  <2> QED
    BY <1>1, <1>3, <1>4, <2>1
<1>14. CASE SweepSave
  <2>1. /\ sweep = "active" /\ linked /\ subscription' = "active" /\ sweep' = "mark"
        /\ UNCHANGED <<hour, meetAt, booking, draft, linked, until, live>>
    BY <1>3, <1>14 DEF SweepSave, bookingVars
  <2> QED
    BY <1>1, <1>3, <2>1
<1>15. CASE SweepMark
  <2>1. /\ sweep = "mark" /\ sweep' = "swept"
        /\ \/ subscription' = subscription
           \/ subscription = "active" /\ subscription' = "expired" /\ until <= hour
        /\ UNCHANGED <<hour, meetAt, booking, draft, linked, until, live>>
    BY <1>15 DEF SweepMark, bookingVars
  <2> QED
    BY <1>1, <1>3, <2>1
<1> QED
  BY <1>5, <1>6, <1>7, <1>8, <1>9, <1>10, <1>11, <1>12, <1>13, <1>14, <1>15 DEF VisitStepOf

-----------------------------------------------------------------------------
\* The log has rows from the end of the booking on; a sync that is about to save knows
\* signals that the log has.
RowsInv ==
  /\ signals # <<>> => booking = "done"
  /\ signals = <<>> => told = {} /\ \A h \in Syncs : sync[h].at # "save"
  /\ \A h \in Syncs : sync[h].at = "save" => sync[h].seen \subseteq TypesOf(signals)

\* While syncs have told nothing but `a`, its two signals come in pairs: the second, of
\* the same time, right behind the first, and a sync knows both or neither.
Paired(a) ==
  /\ \A i \in DOMAIN signals : signals[i].type \in {"scheduled", Verdict(a), "completed"}
  /\ \A i \in DOMAIN signals : signals[i].type = "completed" =>
       /\ i - 1 \in DOMAIN signals
       /\ signals[i - 1].type = Verdict(a) /\ signals[i - 1].status = Verdict(a)
       /\ signals[i - 1].time = signals[i].time
  /\ \A i \in DOMAIN signals : signals[i].type = Verdict(a) =>
       i + 1 \in DOMAIN signals /\ signals[i + 1].type = "completed"
  /\ told = {a} => \E i \in DOMAIN signals : signals[i].type = "completed"
  /\ \A h \in Syncs : sync[h].at = "save" =>
       (Verdict(a) \in sync[h].seen <=> "completed" \in sync[h].seen)
PairInv == \A a \in Answers : told \subseteq {a} => Paired(a)

\* Without overlapping syncs one is under way and knows all signals of the log.
AloneInv ==
  ~syncRaced =>
    /\ \A g, h \in Syncs : sync[g] # NoSync /\ sync[h] # NoSync => g = h
    /\ \A i, j \in DOMAIN signals : signals[i].type = signals[j].type => i = j
    /\ \A h \in Syncs : sync[h].at = "save" => sync[h].seen = TypesOf(signals)

\* Unless a client told it, nobody came to a conference that was not held, and a sync
\* that found none finds a log that says so.
HeldInv ==
  (~syncRaced /\ ~byClient) =>
    /\ attendance = "completed" => ended # 0
    /\ \A h \in Syncs : sync[h].at \in {"look", "save"} =>
         /\ sync[h].answer = "completed" => ended # 0
         /\ sync[h].answer = "no-answer" => attendance # "completed"

\* What a save does to the rows: their types stay, and it adds those of its two signals
\* that it does not know.
LEMMA SavedRows ==
  ASSUME MeetTypes, NEW s \in SyncType, s.answer \in Answers
  PROVE  /\ \A i \in 1 .. Len(signals) : Merged(s)[i].type = signals[i].type
         /\ \A i \in 1 .. Len(signals) : signals[i].type \notin Old(s) => Merged(s)[i] = signals[i]
         /\ \A i \in 1 .. Len(signals) :
              signals[i].type \in Old(s) => Merged(s)[i] = Row(s, signals[i].type)
         /\ DOMAIN Merged(s) = 1 .. (Len(signals) + Len(New(s)))
         /\ \A i \in 1 .. Len(New(s)) : Merged(s)[Len(signals) + i] = New(s)[i]
         /\ Verdict(s.answer) \in RowTypes \ {"completed", "scheduled"}
         /\ Row(s, Verdict(s.answer)).status = Verdict(s.answer)
         /\ Verdict(s.answer) \in s.seen /\ "completed" \in s.seen => New(s) = <<>>
         /\ Verdict(s.answer) \notin s.seen /\ "completed" \in s.seen =>
              New(s) = <<Row(s, Verdict(s.answer))>>
         /\ Verdict(s.answer) \in s.seen /\ "completed" \notin s.seen =>
              New(s) = <<Row(s, "completed")>>
         /\ Verdict(s.answer) \notin s.seen /\ "completed" \notin s.seen =>
              New(s) = <<Row(s, Verdict(s.answer)), Row(s, "completed")>>
<1>1. signals \in Seq(RowType)
  BY DEF MeetTypes
<1>2. \A i \in 1 .. Len(signals) : signals[i] \in RowType
  BY <1>1
<1>3. \A i \in 1 .. Len(signals) : signals[i].type \in RowTypes
  BY <1>2 DEF RowType
<1>4. \A i \in 1 .. Len(signals) :
        Merged(s)[i] = IF signals[i].type \in Old(s) THEN Row(s, signals[i].type) ELSE signals[i]
  BY MergedRows
<1>5. \A type \in RowTypes : Row(s, type).type = type
  BY MergedRows
<1>6. \A i \in 1 .. Len(signals) : Merged(s)[i].type = signals[i].type
  BY <1>3, <1>4, <1>5
<1>7. DOMAIN Merged(s) = 1 .. (Len(signals) + Len(New(s)))
  <2>1. Merged(s) \in Seq(RowType) /\ Len(Merged(s)) = Len(signals) + Len(New(s))
    BY MergedRows
  <2> QED
    BY <2>1
<1>8. /\ Verdict(s.answer) \in RowTypes \ {"completed", "scheduled"}
      /\ Row(s, Verdict(s.answer)).status = Verdict(s.answer)
  BY DEF Verdict, RowTypes, Row, Answers
<1>9. \A i \in 1 .. Len(New(s)) : Merged(s)[Len(signals) + i] = New(s)[i]
  BY MergedRows
<1>10. ASSUME NEW r, NEW q
       PROVE  <<>> \o <<>> = <<>> /\ <<r>> \o <<>> = <<r>> /\ <<>> \o <<r>> = <<r>>
                /\ <<r>> \o <<q>> = <<r, q>>
  <2>1. <<>> \in Seq({r, q}) /\ <<r>> \in Seq({r, q}) /\ <<q>> \in Seq({r, q})
    OBVIOUS
  <2>2. <<r>> \o <<q>> = <<r, q>>
    <3>1. /\ <<r>> \o <<q>> \in Seq({r, q}) /\ Len(<<r>> \o <<q>>) = 2
          /\ (<<r>> \o <<q>>)[1] = r /\ (<<r>> \o <<q>>)[2] = q
      BY <2>1
    <3>2. <<r, q>> \in Seq({r, q}) /\ Len(<<r, q>>) = 2 /\ <<r, q>>[1] = r /\ <<r, q>>[2] = q
      OBVIOUS
    <3>3. \A i \in 1 .. 2 : (<<r>> \o <<q>>)[i] = <<r, q>>[i]
      BY <3>1, <3>2
    <3> QED
      BY <3>1, <3>2, <3>3, SeqEqual
  <2> QED
    BY <2>1, <2>2, ConcatEmptySeq
<1>11. /\ Verdict(s.answer) \in s.seen /\ "completed" \in s.seen => New(s) = <<>>
       /\ Verdict(s.answer) \notin s.seen /\ "completed" \in s.seen =>
            New(s) = <<Row(s, Verdict(s.answer))>>
       /\ Verdict(s.answer) \in s.seen /\ "completed" \notin s.seen =>
            New(s) = <<Row(s, "completed")>>
       /\ Verdict(s.answer) \notin s.seen /\ "completed" \notin s.seen =>
            New(s) = <<Row(s, Verdict(s.answer)), Row(s, "completed")>>
  BY <1>10, Zenon DEF New, Pushed
<1> QED
  BY <1>4, <1>6, <1>7, <1>8, <1>9, <1>11

\* A log that only grows by types keeps what the syncs know.
LEMMA SavedTypes ==
  ASSUME MeetTypes, NEW s \in SyncType, s.answer \in Answers, signals' = Merged(s)
  PROVE  /\ TypesOf(signals) \subseteq TypesOf(signals')
         /\ signals' = <<>> => signals = <<>> /\ New(s) = <<>>
<1>1. signals \in Seq(RowType) /\ New(s) \in Seq(RowType)
  BY MergedRows DEF MeetTypes
<1>2. Len(signals') = Len(signals) + Len(New(s)) /\ signals' \in Seq(RowType)
  BY MergedRows
<1>3. DOMAIN signals = 1 .. Len(signals) /\ Len(signals) \in Nat /\ Len(New(s)) \in Nat
      /\ DOMAIN signals' = 1 .. Len(signals')
  BY <1>1, <1>2
<1>4. \A i \in DOMAIN signals : i \in DOMAIN signals' /\ signals'[i].type = signals[i].type
  BY <1>2, <1>3, SavedRows
<1>5. TypesOf(signals) \subseteq TypesOf(signals')
  BY <1>4 DEF TypesOf
<1>6. signals' = <<>> => Len(signals) = 0 /\ Len(New(s)) = 0
  <2>1. signals' = <<>> => Len(signals') = 0
    OBVIOUS
  <2> QED
    BY <1>2, <1>3, <2>1
<1> QED
  BY <1>1, <1>5, <1>6

LEMMA RowsStep ==
  ASSUME MeetTypes, LinkInv, RowsInv, [MeetNext]_meetVars
  PROVE  RowsInv'
<1> USE DEF RowsInv
<1>1. ASSUME UNCHANGED <<booking, signals, told, sync>> PROVE RowsInv'
  BY <1>1
<1>2. ASSUME NEW h \in Syncs,
             FetchArtifacts(h) \/ ToldByClient(h) \/ Fetched(h) \/ LookLog(h) \/ SaveSync(h)
      PROVE  RowsInv'
  <2>1. /\ SyncStep(h) /\ booking' = booking
        /\ \A g \in Syncs \ {h} : sync'[g] = sync[g]
    BY <1>2, SyncSteps DEF SyncsOnly
  <2>2. NoSync.at = "idle"
    BY NoSyncType
  <2>3. CASE LogKept
    <3>1. signals' = signals /\ told' = told
      BY <2>3 DEF LogKept
    <3>2. sync'[h].at = "save" => signals # <<>> /\ sync'[h].seen = TypesOf(signals)
      BY <2>1, <2>2 DEF SyncStep, Started, Answered, Looked, Saved
    <3> QED
      BY <2>1, <3>1, <3>2
  <2>4. CASE ~LogKept
    <3>1. sync[h].at = "save" /\ signals' = Merged(sync[h]) /\ sync'[h].at = "idle"
      BY <2>1, <2>2, <2>4 DEF SyncStep, Started, Answered, Looked, Saved
    <3>2. sync[h] \in SyncType /\ sync[h].answer \in Answers /\ signals # <<>>
      BY <3>1 DEF MeetTypes
    <3>3. signals' # <<>> /\ TypesOf(signals) \subseteq TypesOf(signals')
      BY <3>1, <3>2, SavedTypes
    <3> QED
      BY <2>1, <3>1, <3>2, <3>3
  <2> QED
    BY <2>3, <2>4
<1>3. CASE LogVisit /\ SyncsKept
  <2>1. booking = "saved" /\ booking' = "done" /\ told' = told /\ sync' = sync
        /\ signals' = <<[type |-> "scheduled", time |-> meetAt, status |-> "scheduled"]>>
    BY <1>3 DEF LogVisit, SyncsKept
  <2>2. signals = <<>> /\ signals' # <<>>
    BY <2>1
  <2> QED
    BY <2>1, <2>2
<1>4. CASE VisitStepOf /\ SyncsKept /\ ~LogVisit
  <2>1. UNCHANGED <<signals, told, sync>>
    BY <1>4 DEF VisitStepOf, SyncsKept, Tick, Confer, Place, InsertEntry, Nearby, SaveVisit,
                SweepLook, Found, SweepSave, SweepMark, logVars
  <2>2. booking = "done" => booking' = "done"
    BY <1>4 DEF VisitStepOf, Tick, Confer, Place, InsertEntry, Nearby, SaveVisit,
                SweepLook, Found, SweepSave, SweepMark, bookingVars
  <2> QED
    BY <2>1, <2>2
<1>5. CASE MeetCrash
  BY <1>5, MeetCrashEffect, NoSyncType
<1>6. CASE UNCHANGED meetVars
  BY <1>1, <1>6 DEF meetVars, bookingVars, logVars, syncVars
<1> QED
  BY <1>2, <1>3, <1>4, <1>5, <1>6, MeetSteps

\* What a save leaves of a log whose signals come in pairs.
LEMMA SavedPairs ==
  ASSUME MeetTypes, RowsInv, NEW h \in Syncs, sync[h].at = "save",
         LET s == sync[h] IN Paired(s.answer) /\ signals' = Merged(s)
  PROVE  LET a == sync[h].answer IN
         /\ \A i \in DOMAIN signals' :
              signals'[i].type \in {"scheduled", Verdict(a), "completed"}
         /\ \A i \in DOMAIN signals' : signals'[i].type = "completed" =>
              /\ i - 1 \in DOMAIN signals'
              /\ signals'[i - 1].type = Verdict(a) /\ signals'[i - 1].status = Verdict(a)
              /\ signals'[i - 1].time = signals'[i].time
         /\ \A i \in DOMAIN signals' : signals'[i].type = Verdict(a) =>
              i + 1 \in DOMAIN signals' /\ signals'[i + 1].type = "completed"
         /\ \E i \in DOMAIN signals' : signals'[i].type = "completed"
<1> DEFINE s == sync[h]
           n == Len(signals)
           V == Verdict(s.answer)
<1>1. s \in SyncType /\ s.answer \in Answers /\ signals \in Seq(RowType) /\ n \in Nat
      /\ DOMAIN signals = 1 .. n /\ Paired(s.answer) /\ signals' = Merged(s)
  BY DEF MeetTypes
<1>2. V \in RowTypes \ {"completed", "scheduled"} /\ "completed" \in RowTypes
  BY <1>1, SavedRows DEF RowTypes
<1>3. V \in s.seen <=> "completed" \in s.seen
  BY <1>1 DEF Paired
<1>4. /\ \A i \in 1 .. n : signals[i].type \in {"scheduled", V, "completed"}
      /\ \A i \in 1 .. n : signals[i].type = "completed" =>
           /\ i - 1 \in 1 .. n
           /\ signals[i - 1].type = V /\ signals[i - 1].status = V
           /\ signals[i - 1].time = signals[i].time
      /\ \A i \in 1 .. n : signals[i].type = V =>
           i + 1 \in 1 .. n /\ signals[i + 1].type = "completed"
  BY <1>1 DEF Paired
<1>5. \A i \in 1 .. n : signals'[i].type = signals[i].type
  BY <1>1, SavedRows
<1>6. /\ Row(s, V).type = V /\ Row(s, V).status = V /\ Row(s, V).time = s.time
      /\ Row(s, "completed").type = "completed" /\ Row(s, "completed").time = s.time
  BY <1>1, <1>2, MergedRows, SavedRows
<1>7. CASE V \notin s.seen
  <2>1. New(s) = <<Row(s, V), Row(s, "completed")>> /\ Old(s) = {}
    BY <1>1, <1>3, <1>7, SavedRows DEF Old
  <2>2. DOMAIN signals' = 1 .. (n + 2)
    <3>1. Len(New(s)) = 2
      BY <2>1
    <3> QED
      BY <1>1, <3>1, SavedRows
  <2>3. \A i \in 1 .. n : signals'[i] = signals[i]
    BY <1>1, <2>1, SavedRows
  <2>4. signals'[n + 1] = Row(s, V) /\ signals'[n + 2] = Row(s, "completed")
    <3>1. 1 \in 1 .. Len(New(s)) /\ 2 \in 1 .. Len(New(s)) /\ New(s)[1] = Row(s, V)
          /\ New(s)[2] = Row(s, "completed")
      BY <2>1
    <3> QED
      BY <1>1, <3>1, SavedRows
  <2>5. \A i \in 1 .. (n + 2) : i \in 1 .. n \/ i = n + 1 \/ i = n + 2
    BY <1>1
  <2> HIDE DEF s, n, V
  <2>6. \A i \in 1 .. (n + 2) : signals'[i].type = "completed" =>
          /\ i - 1 \in 1 .. (n + 2)
          /\ signals'[i - 1].type = V /\ signals'[i - 1].status = V
          /\ signals'[i - 1].time = signals'[i].time
    <3> SUFFICES ASSUME NEW i \in 1 .. (n + 2), signals'[i].type = "completed"
                 PROVE  /\ i - 1 \in 1 .. (n + 2)
                        /\ signals'[i - 1].type = V /\ signals'[i - 1].status = V
                        /\ signals'[i - 1].time = signals'[i].time
      OBVIOUS
    <3>1. CASE i \in 1 .. n
      <4>1. i - 1 \in 1 .. n /\ signals'[i] = signals[i] /\ signals'[i - 1] = signals[i - 1]
        BY <1>4, <2>3, <3>1
      <4> QED
        BY <1>1, <1>4, <3>1, <4>1
    <3>2. CASE i = n + 1
      BY <1>2, <1>6, <2>4, <3>2
    <3>3. CASE i = n + 2
      <4>1. i - 1 = n + 1 /\ i - 1 \in 1 .. (n + 2)
        BY <1>1, <3>3
      <4> QED
        BY <1>6, <2>4, <3>3, <4>1
    <3> QED
      BY <2>5, <3>1, <3>2, <3>3
  <2>7. \A i \in 1 .. (n + 2) : signals'[i].type = V =>
          i + 1 \in 1 .. (n + 2) /\ signals'[i + 1].type = "completed"
    <3> SUFFICES ASSUME NEW i \in 1 .. (n + 2), signals'[i].type = V
                 PROVE  i + 1 \in 1 .. (n + 2) /\ signals'[i + 1].type = "completed"
      OBVIOUS
    <3>1. CASE i \in 1 .. n
      <4>1. i + 1 \in 1 .. n /\ signals[i + 1].type = "completed"
        BY <1>4, <2>3, <3>1
      <4> QED
        BY <1>1, <2>3, <4>1
    <3>2. CASE i = n + 1
      <4>1. i + 1 = n + 2 /\ i + 1 \in 1 .. (n + 2)
        BY <1>1, <3>2
      <4> QED
        BY <1>6, <2>4, <4>1
    <3>3. CASE i = n + 2
      BY <1>2, <1>6, <2>4, <3>3
    <3> QED
      BY <2>5, <3>1, <3>2, <3>3
  <2>8. \A i \in 1 .. (n + 2) : signals'[i].type \in {"scheduled", V, "completed"}
    BY <1>4, <1>6, <2>3, <2>4, <2>5
  <2>9. n + 2 \in 1 .. (n + 2) /\ signals'[n + 2].type = "completed"
    BY <1>1, <1>6, <2>4
  <2> QED
    BY <2>2, <2>6, <2>7, <2>8, <2>9 DEF V, s
<1>8. CASE V \in s.seen
  <2>1. New(s) = <<>> /\ Old(s) = {V, "completed"} /\ "completed" \in s.seen
    BY <1>1, <1>3, <1>8, SavedRows DEF Old
  <2>2. DOMAIN signals' = 1 .. n
    <3>1. Len(New(s)) = 0
      BY <2>1
    <3> QED
      BY <1>1, <3>1, SavedRows
  <2>3. \A i \in 1 .. n : signals[i].type \in {V, "completed"} =>
          signals'[i] = Row(s, signals[i].type)
    BY <1>1, <2>1, SavedRows
  <2>4. PICK k \in 1 .. n : signals[k].type = "completed"
    BY <1>1, <2>1 DEF RowsInv, TypesOf
  <2> HIDE DEF s, n, V
  <2>5. \A i \in 1 .. n : signals'[i].type = "completed" =>
          /\ i - 1 \in 1 .. n
          /\ signals'[i - 1].type = V /\ signals'[i - 1].status = V
          /\ signals'[i - 1].time = signals'[i].time
    <3> SUFFICES ASSUME NEW i \in 1 .. n, signals'[i].type = "completed"
                 PROVE  /\ i - 1 \in 1 .. n
                        /\ signals'[i - 1].type = V /\ signals'[i - 1].status = V
                        /\ signals'[i - 1].time = signals'[i].time
      OBVIOUS
    <3>1. signals[i].type = "completed" /\ i - 1 \in 1 .. n /\ signals[i - 1].type = V
      BY <1>4, <1>5
    <3>2. signals'[i] = Row(s, "completed") /\ signals'[i - 1] = Row(s, V)
      BY <2>3, <3>1
    <3> QED
      BY <1>6, <3>1, <3>2
  <2> QED
    BY <1>4, <1>5, <2>2, <2>4, <2>5 DEF V, s
<1> QED
  BY <1>7, <1>8

LEMMA PairStep ==
  ASSUME MeetTypes, RowsInv, LinkInv, PairInv, [MeetNext]_meetVars
  PROVE  PairInv'
<1> SUFFICES ASSUME NEW a \in Answers, told' \subseteq {a} PROVE Paired(a)'
  BY DEF PairInv
<1>0. NoSync.at = "idle"
  BY NoSyncType
<1>1. ASSUME told \subseteq {a} PROVE Paired(a)
  BY <1>1 DEF PairInv
<1>2. ASSUME UNCHANGED <<signals, told>>, \A h \in Syncs : sync'[h] = sync[h] \/ sync'[h] = NoSync
      PROVE  Paired(a)'
  BY <1>0, <1>1, <1>2 DEF Paired
<1>3. ASSUME NEW h \in Syncs,
             FetchArtifacts(h) \/ ToldByClient(h) \/ Fetched(h) \/ LookLog(h) \/ SaveSync(h)
      PROVE  Paired(a)'
  <2>1. /\ SyncStep(h)
        /\ \A g \in Syncs \ {h} : sync'[g] = sync[g]
    BY <1>3, SyncSteps
  <2>2. CASE LogKept
    <3>1. signals' = signals /\ told' = told /\ Paired(a)
      BY <1>1, <2>2 DEF LogKept
    <3>2. sync'[h].at = "save" => sync'[h].seen = TypesOf(signals)
      BY <1>0, <2>1 DEF SyncStep, Started, Answered, Looked, Saved
    <3>3. Verdict(a) \in TypesOf(signals) <=> "completed" \in TypesOf(signals)
      BY <3>1 DEF Paired, TypesOf
    <3> QED
      BY <2>1, <3>1, <3>2, <3>3 DEF Paired
  <2>3. CASE ~LogKept
    <3>1. /\ sync[h].at = "save" /\ signals' = Merged(sync[h])
          /\ told' = told \cup {sync[h].answer} /\ sync'[h].at = "idle"
      BY <1>0, <2>1, <2>3 DEF SyncStep, Started, Answered, Looked, Saved
    <3>2. sync[h].answer = a /\ told \subseteq {a} /\ Paired(a)
      BY <1>1, <3>1
    <3>3. /\ \A i \in DOMAIN signals' :
               signals'[i].type \in {"scheduled", Verdict(a), "completed"}
          /\ \A i \in DOMAIN signals' : signals'[i].type = "completed" =>
               /\ i - 1 \in DOMAIN signals'
               /\ signals'[i - 1].type = Verdict(a) /\ signals'[i - 1].status = Verdict(a)
               /\ signals'[i - 1].time = signals'[i].time
          /\ \A i \in DOMAIN signals' : signals'[i].type = Verdict(a) =>
               i + 1 \in DOMAIN signals' /\ signals'[i + 1].type = "completed"
          /\ \E i \in DOMAIN signals' : signals'[i].type = "completed"
      BY <3>1, <3>2, SavedPairs
    <3> QED
      BY <2>1, <3>1, <3>2, <3>3 DEF Paired
  <2> QED
    BY <2>2, <2>3
<1>4. CASE LogVisit /\ SyncsKept
  <2>1. booking = "saved" /\ told' = told /\ sync' = sync
        /\ signals' = <<[type |-> "scheduled", time |-> meetAt, status |-> "scheduled"]>>
    BY <1>4 DEF LogVisit, SyncsKept
  <2>2. signals = <<>> /\ told' # {a} /\ \A h \in Syncs : sync'[h].at # "save"
    BY <2>1 DEF RowsInv
  <2>3. Verdict(a) # "scheduled"
    BY DEF Verdict
  <2>4. \A i \in DOMAIN signals' : signals'[i].type = "scheduled"
    BY <2>1
  <2> QED
    BY <2>2, <2>3, <2>4 DEF Paired
<1>5. CASE VisitStepOf /\ SyncsKept /\ ~LogVisit
  <2>1. UNCHANGED <<signals, told, sync>>
    BY <1>5 DEF VisitStepOf, SyncsKept, Tick, Confer, Place, InsertEntry, Nearby, SaveVisit,
                SweepLook, Found, SweepSave, SweepMark, logVars
  <2> QED
    BY <1>2, <2>1
<1>6. CASE MeetCrash
  BY <1>2, <1>6, MeetCrashEffect
<1>7. CASE UNCHANGED meetVars
  BY <1>2, <1>7 DEF meetVars, logVars, syncVars
<1> QED
  BY <1>3, <1>4, <1>5, <1>6, <1>7, MeetSteps

LEMMA AloneStep ==
  ASSUME MeetTypes, RowsInv, LinkInv, AloneInv, [MeetNext]_meetVars
  PROVE  AloneInv'
<1> SUFFICES ASSUME ~syncRaced'
             PROVE  /\ (\A g, h \in Syncs : sync[g] # NoSync /\ sync[h] # NoSync => g = h)'
                    /\ (\A i, j \in DOMAIN signals : signals[i].type = signals[j].type => i = j)'
                    /\ (\A h \in Syncs : sync[h].at = "save"
                          => sync[h].seen = TypesOf(signals))'
  BY DEF AloneInv
<1>0. NoSync.at = "idle"
  BY NoSyncType
<1>1. ASSUME syncRaced' = syncRaced
      PROVE  /\ \A g, h \in Syncs : sync[g] # NoSync /\ sync[h] # NoSync => g = h
             /\ \A i, j \in DOMAIN signals : signals[i].type = signals[j].type => i = j
             /\ \A h \in Syncs : sync[h].at = "save" => sync[h].seen = TypesOf(signals)
  BY <1>1, Zenon DEF AloneInv
<1>2. ASSUME UNCHANGED <<signals, syncRaced>>,
             \A h \in Syncs : sync'[h] = sync[h] \/ sync'[h] = NoSync
      PROVE  AloneInv'
  BY <1>0, <1>1, <1>2 DEF AloneInv
<1>3. ASSUME NEW h \in Syncs,
             FetchArtifacts(h) \/ ToldByClient(h) \/ Fetched(h) \/ LookLog(h) \/ SaveSync(h)
      PROVE  AloneInv'
  <2>1. /\ SyncStep(h)
        /\ \A g \in Syncs \ {h} : sync'[g] = sync[g]
    BY <1>3, SyncSteps
  <2>2. CASE Started(h)
    <3>1. syncRaced' = (syncRaced \/ \E g \in Syncs : sync[g] # NoSync)
      BY <2>2 DEF Started
    <3>2. ~syncRaced /\ \A g \in Syncs : sync[g] = NoSync
      BY <3>1, Zenon
    <3>3. \A i, j \in DOMAIN signals : signals[i].type = signals[j].type => i = j
      BY <3>2, Zenon DEF AloneInv
    <3>4. signals' = signals /\ sync'[h].at # "save"
      BY <2>2 DEF Started, LogKept
    <3> QED
      BY <1>0, <2>1, <3>2, <3>3, <3>4 DEF AloneInv
  <2>3. CASE ~Started(h)
    <3>0. syncRaced' = syncRaced
      BY <2>1, <2>3, Zenon DEF SyncStep, Answered, Looked, Saved
    <3>1. sync[h] # NoSync
      BY <1>0, <2>1, <2>3 DEF SyncStep, Answered, Looked, Saved
    <3>2. \A g \in Syncs \ {h} : sync[g] = NoSync /\ sync'[g] = NoSync
      BY <1>1, <2>1, <3>0, <3>1
    <3>3. CASE LogKept
      <4>1. signals' = signals
        BY <3>3 DEF LogKept
      <4>2. sync'[h].at = "save" => sync'[h].seen = TypesOf(signals)
        BY <1>0, <2>1, <2>3 DEF SyncStep, Answered, Looked, Saved
      <4> QED
        BY <1>0, <1>1, <3>0, <3>2, <4>1, <4>2 DEF AloneInv
    <3>4. CASE ~LogKept
      <4> DEFINE s == sync[h]
                 n == Len(signals)
                 V == Verdict(s.answer)
      <4>1. /\ s.at = "save" /\ signals' = Merged(s) /\ sync'[h] = NoSync
        BY <2>1, <2>3, <3>4 DEF SyncStep, Answered, Looked, Saved
      <4>2. s \in SyncType /\ s.answer \in Answers /\ signals \in Seq(RowType) /\ n \in Nat
            /\ DOMAIN signals = 1 .. n /\ s.seen = TypesOf(signals)
        BY <1>1, <3>0, <4>1 DEF MeetTypes
      <4>3. /\ \A i \in 1 .. n : signals'[i].type = signals[i].type /\ signals[i].type \in s.seen
            /\ \A i \in 1 .. Len(New(s)) : signals'[n + i] = New(s)[i]
            /\ DOMAIN signals' = 1 .. (n + Len(New(s)))
        BY <4>1, <4>2, SavedRows DEF TypesOf
      <4>4. V \in RowTypes \ {"completed"} /\ "completed" \in RowTypes
        BY <4>2, SavedRows DEF RowTypes
      <4>5. Row(s, V).type = V /\ Row(s, "completed").type = "completed"
        BY <4>2, <4>4, MergedRows
      <4>6. /\ New(s) \in Seq(RowType) /\ Len(New(s)) \in Nat
            /\ \A i \in 1 .. Len(New(s)) : New(s)[i].type \notin s.seen
            /\ \A i, j \in 1 .. Len(New(s)) : New(s)[i].type = New(s)[j].type => i = j
        <5>1. New(s) \in Seq(RowType)
          BY <4>2, MergedRows
        <5>2. CASE V \in s.seen /\ "completed" \in s.seen
          <6>1. New(s) = <<>>
            BY <4>2, <5>2, SavedRows
          <6> QED
            BY <5>1, <6>1
        <5>3. CASE V \notin s.seen /\ "completed" \in s.seen
          <6>1. New(s) = <<Row(s, V)>>
            BY <4>2, <5>3, SavedRows
          <6>2. Len(New(s)) = 1 /\ New(s)[1] = Row(s, V)
            BY <6>1
          <6> QED
            BY <4>5, <5>1, <5>3, <6>2
        <5>4. CASE V \in s.seen /\ "completed" \notin s.seen
          <6>1. New(s) = <<Row(s, "completed")>>
            BY <4>2, <5>4, SavedRows
          <6>2. Len(New(s)) = 1 /\ New(s)[1] = Row(s, "completed")
            BY <6>1
          <6> QED
            BY <4>5, <5>1, <5>4, <6>2
        <5>5. CASE V \notin s.seen /\ "completed" \notin s.seen
          <6>1. New(s) = <<Row(s, V), Row(s, "completed")>>
            BY <4>2, <5>5, SavedRows
          <6>2. Len(New(s)) = 2 /\ New(s)[1] = Row(s, V) /\ New(s)[2] = Row(s, "completed")
            BY <6>1
          <6> QED
            BY <4>4, <4>5, <5>1, <5>5, <6>2
        <5> QED
          BY <5>2, <5>3, <5>4, <5>5
      <4> HIDE DEF s, n, V
      <4>7. \A i \in DOMAIN signals' :
              \/ i \in 1 .. n
              \/ i - n \in 1 .. Len(New(s)) /\ i = n + (i - n)
        BY <4>2, <4>3, <4>6
      <4>8. \A i, j \in DOMAIN signals' : signals'[i].type = signals'[j].type => i = j
        <5> SUFFICES ASSUME NEW i \in DOMAIN signals', NEW j \in DOMAIN signals',
                            signals'[i].type = signals'[j].type
                     PROVE  i = j
          OBVIOUS
        <5>1. \A k \in DOMAIN signals' : k \notin 1 .. n =>
                 signals'[k].type = New(s)[k - n].type /\ signals'[k].type \notin s.seen
          BY <4>3, <4>6, <4>7
        <5>2. CASE i \in 1 .. n
          <6>1. j \in 1 .. n
            BY <4>3, <5>1, <5>2
          <6> QED
            BY <1>1, <3>0, <4>2, <4>3, <5>2, <6>1
        <5>3. CASE i \notin 1 .. n
          <6>1. j \notin 1 .. n
            BY <4>3, <5>1, <5>3
          <6>2. i - n = j - n
            BY <4>6, <4>7, <5>1, <5>3, <6>1
          <6>3. i \in Int /\ j \in Int
            BY <4>3
          <6> QED
            BY <4>2, <6>2, <6>3
        <5> QED
          BY <5>2, <5>3
      <4> QED
        BY <1>0, <3>0, <3>2, <4>1, <4>8 DEF AloneInv
    <3> QED
      BY <3>3, <3>4
  <2> QED
    BY <2>2, <2>3
<1>4. ASSUME LogVisit, SyncsKept PROVE AloneInv'
  <2>1. booking = "saved" /\ syncRaced' = syncRaced /\ sync' = sync
        /\ signals' = <<[type |-> "scheduled", time |-> meetAt, status |-> "scheduled"]>>
    BY <1>4 DEF LogVisit, SyncsKept
  <2>2. signals = <<>> /\ \A h \in Syncs : sync'[h].at # "save"
    BY <2>1 DEF RowsInv
  <2>3. \A i, j \in DOMAIN signals' : i = j
    BY <2>1
  <2> QED
    BY <1>1, <2>1, <2>2, <2>3 DEF AloneInv
<1>5. ASSUME VisitStepOf, SyncsKept, ~LogVisit PROVE AloneInv'
  <2>1. UNCHANGED <<signals, syncRaced, sync>>
    BY <1>5 DEF VisitStepOf, SyncsKept, Tick, Confer, Place, InsertEntry, Nearby, SaveVisit,
                SweepLook, Found, SweepSave, SweepMark, logVars
  <2> QED
    BY <1>2, <2>1
<1>6. ASSUME MeetCrash PROVE AloneInv'
  BY <1>2, <1>6, MeetCrashEffect
<1>7. ASSUME UNCHANGED meetVars PROVE AloneInv'
  BY <1>2, <1>7 DEF meetVars, logVars, syncVars
<1>8. AloneInv'
  BY <1>3, <1>4, <1>5, <1>6, <1>7, MeetSteps
<1> QED
  BY <1>8, Zenon DEF AloneInv

LEMMA HeldStep ==
  ASSUME MeetTypes, AloneInv, HeldInv, [MeetNext]_meetVars
  PROVE  HeldInv'
<1>0. NoSync.at = "idle"
  BY NoSyncType
<1>1. SUFFICES ASSUME ~syncRaced', ~byClient' PROVE HeldInv'
  BY DEF HeldInv
<1>2. ASSUME ~syncRaced, ~byClient
      PROVE  /\ attendance = "completed" => ended # 0
             /\ \A h \in Syncs : sync[h].at \in {"look", "save"} =>
                  /\ sync[h].answer = "completed" => ended # 0
                  /\ sync[h].answer = "no-answer" => attendance # "completed"
             /\ \A g, h \in Syncs : sync[g] # NoSync /\ sync[h] # NoSync => g = h
  BY <1>2, Zenon DEF HeldInv, AloneInv
<1>3. ASSUME NEW h \in Syncs,
             FetchArtifacts(h) \/ ToldByClient(h) \/ Fetched(h) \/ LookLog(h) \/ SaveSync(h)
      PROVE  HeldInv'
  <2>1. /\ SyncStep(h) /\ ended' = ended
        /\ \A g \in Syncs \ {h} : sync'[g] = sync[g]
    BY <1>3, SyncSteps DEF SyncsOnly
  <2>2. ~syncRaced /\ ~byClient
    <3>1. \/ syncRaced' = syncRaced
          \/ syncRaced' = (syncRaced \/ \E g \in Syncs : sync[g] # NoSync)
      BY <2>1 DEF SyncStep, Started, Answered, Looked, Saved
    <3>2. byClient' = byClient \/ byClient' = TRUE
      BY <2>1 DEF SyncStep, Started, Answered, Looked, Saved
    <3>3. ~syncRaced
      BY <1>1, <3>1, Zenon
    <3>4. ~byClient
      BY <1>1, <3>2
    <3> QED
      BY <3>3, <3>4
  <2>3. CASE Started(h)
    <3>1. attendance' = attendance /\ sync'[h].at = "fetch"
      BY <1>1, <2>3 DEF Started, LogKept
    <3> QED
      BY <1>2, <2>1, <2>2, <3>1 DEF HeldInv
  <2>4. CASE Answered(h)
    <3>1. attendance' = attendance
      BY <2>4 DEF Answered, LogKept
    <3> QED
      BY <1>0, <1>2, <2>1, <2>2, <2>4, <3>1 DEF HeldInv, Answered
  <2>5. CASE Looked(h)
    <3>1. attendance' = attendance
      BY <2>5 DEF Looked, LogKept
    <3> QED
      BY <1>0, <1>2, <2>1, <2>2, <2>5, <3>1 DEF HeldInv, Looked
  <2>6. CASE Saved(h)
    <3>1. sync[h].at = "save" /\ sync'[h] = NoSync /\ sync[h] # NoSync
      BY <1>0, <2>6 DEF Saved
    <3>2. attendance' = attendance \/ attendance' = sync[h].answer
      BY <2>6 DEF Saved, LogKept
    <3>3. \A g \in Syncs : sync'[g] = NoSync
      BY <1>2, <2>1, <2>2, <3>1
    <3> QED
      BY <1>0, <1>2, <2>1, <2>2, <3>1, <3>2, <3>3 DEF HeldInv
  <2> QED
    BY <2>1, <2>3, <2>4, <2>5, <2>6 DEF SyncStep
<1>4. ASSUME UNCHANGED <<attendance, syncRaced, byClient>>,
             \A h \in Syncs : sync'[h] = sync[h] \/ sync'[h] = NoSync,
             ended # 0 => ended' # 0
      PROVE  HeldInv'
  <2>1. ~syncRaced /\ ~byClient
    BY <1>1, <1>4, Zenon
  <2> QED
    BY <1>0, <1>2, <1>4, <2>1 DEF HeldInv
<1>5. CASE VisitStepOf /\ SyncsKept
  <2>1. UNCHANGED <<attendance, syncRaced, byClient, sync>>
    BY <1>5 DEF SyncsKept
  <2>2. ended # 0 => ended' # 0
    BY <1>5 DEF VisitStepOf, SyncsKept, Tick, Confer, Place, InsertEntry, Nearby, SaveVisit,
                LogVisit, SweepLook, Found, SweepSave, SweepMark
  <2> QED
    BY <1>4, <2>1, <2>2
<1>6. CASE MeetCrash
  BY <1>4, <1>6, MeetCrashEffect
<1>7. CASE UNCHANGED meetVars
  BY <1>4, <1>7 DEF meetVars, logVars, syncVars
<1> QED
  BY <1>3, <1>5, <1>6, <1>7, MeetSteps

-----------------------------------------------------------------------------
MeetInv ==
  MeetTypes /\ LinkInv /\ CoverInv /\ CountInv /\ RowsInv /\ PairInv /\ AloneInv /\ HeldInv

LEMMA MeetInvInit == MeetAssumption /\ MeetInit => MeetInv
<1> SUFFICES ASSUME MeetAssumption, MeetInit PROVE MeetInv
  OBVIOUS
<1>1. NoSync.at = "idle" /\ \A h \in Syncs : sync[h] = NoSync
  BY NoSyncType DEF MeetInit
<1>2. LinkInv /\ CoverInv /\ CountInv
  BY DEF MeetInit, LinkInv, CoverInv, CountInv
<1>3. RowsInv /\ PairInv /\ HeldInv
  BY <1>1 DEF MeetInit, RowsInv, PairInv, Paired, HeldInv
<1>4. AloneInv
  BY <1>1 DEF MeetInit, AloneInv
<1> QED
  BY <1>2, <1>3, <1>4, InitMeet DEF MeetInv

LEMMA MeetInvStep == MeetAssumption /\ MeetInv /\ [MeetNext]_meetVars => MeetInv'
<1> SUFFICES ASSUME MeetAssumption, MeetInv, [MeetNext]_meetVars PROVE MeetInv'
  OBVIOUS
<1>1. CoverInv' /\ CountInv'
  <2>1. CASE \E h \in Syncs : FetchArtifacts(h) \/ ToldByClient(h) \/ Fetched(h) \/ LookLog(h)
                                \/ SaveSync(h)
    <3>1. SyncsOnly /\ (meetFailures' = 0 => meetFailures = 0)
      BY <2>1, SyncSteps DEF MeetInv
    <3> QED
      BY <3>1 DEF SyncsOnly, MeetInv, CoverInv, CountInv, Near
  <2>2. CASE VisitStepOf
    <3>1. meetCrashes' = meetCrashes
      BY <2>2 DEF VisitStepOf, Tick, Confer, Place, InsertEntry, Nearby, SaveVisit, LogVisit,
                  SweepLook, Found, SweepSave, SweepMark, boundVars
    <3> QED
      BY <2>2, <3>1, CoverStep, CountStep DEF MeetInv
  <2>3. CASE MeetCrash
    BY <2>3, MeetCrashEffect DEF MeetInv, CoverInv, CountInv
  <2>4. CASE UNCHANGED meetVars
    <3>1. UNCHANGED <<hour, meetAt, booking, draft, linked, subscription, until, live, sweep,
                      tryFailed, meetFailures, meetCrashes>>
      BY <2>4 DEF meetVars, bookingVars, subscriptionVars, boundVars
    <3> QED
      BY <3>1 DEF MeetInv, CoverInv, CountInv, Near
  <2> QED
    BY <2>1, <2>2, <2>3, <2>4, MeetSteps
<1> QED
  BY <1>1, MeetTypesStep, LinkStep, RowsStep, PairStep, AloneStep, HeldStep DEF MeetInv

LEMMA MeetInvariant == MeetSpec => []MeetInv
BY MeetAssumption, MeetInvInit, MeetInvStep, PTL DEF MeetSpec

\* With its signals in pairs the log is shown as what the syncs found.
LEMMA PairsAreShown ==
  ASSUME MeetTypes, NEW a \in Answers, Paired(a), told = {a}
  PROVE  Resolved(signals, attendance) = StatusOutcome(Verdict(a))
<1> DEFINE done == {i \in DOMAIN signals : signals[i].type = "completed"}
           e == LatestOf(signals, done)
<1>1. signals \in Seq(RowType) /\ DOMAIN signals = 1 .. Len(signals)
  BY DEF MeetTypes
<1>2. Timed(signals)
  <2>1. \A i \in DOMAIN signals : signals[i] \in RowType
    BY <1>1
  <2> QED
    BY <1>1, <2>1 DEF Timed, RowType
<1>3. done # {} /\ done \in SUBSET DOMAIN signals
  BY DEF Paired
<1>4. e \in done
  BY <1>2, <1>3, Latest
<1> HIDE DEF e
<1>5. /\ e - 1 \in DOMAIN signals /\ signals[e - 1].type = Verdict(a)
      /\ signals[e - 1].status = Verdict(a) /\ signals[e - 1].time = signals[e].time
  BY <1>4 DEF Paired
<1>6. Preceding(signals) = {i \in DOMAIN signals : Earlier(signals, i, e)}
  BY <1>3 DEF Preceding, e
<1>7. \A i \in DOMAIN signals : i \in Nat /\ signals[i].time \in Nat
  BY <1>1, <1>2 DEF Timed
<1>8. e - 1 \in Preceding(signals)
  BY <1>4, <1>5, <1>6, <1>7 DEF Earlier
<1>9. \A i \in Preceding(signals) \ {e - 1} : Earlier(signals, i, e - 1)
  <2> SUFFICES ASSUME NEW i \in DOMAIN signals, Earlier(signals, i, e), i # e - 1
               PROVE  Earlier(signals, i, e - 1)
    BY <1>6
  <2> QED
    BY <1>4, <1>5, <1>7 DEF Earlier
<1>10. LatestOf(signals, Preceding(signals)) = e - 1
  <2>1. Preceding(signals) \in SUBSET DOMAIN signals /\ Preceding(signals) # {}
    BY <1>6, <1>8
  <2> QED
    BY <1>2, <1>8, <1>9, <2>1, Latest
<1>11. Resolved(signals, attendance) = EventOutcome(Verdict(a), Verdict(a))
  BY <1>5, <1>8, <1>10 DEF Resolved, Verdict
<1> QED
  BY <1>11 DEF EventOutcome, Verdict

LEMMA MeetInvImplies == MeetAssumption /\ MeetInv => MeetCorrect
<1> SUFFICES ASSUME MeetAssumption, MeetInv PROVE MeetCorrect
  OBVIOUS
<1>1. MeetTypeOK
  <2>1. {linked, meetText, syncRaced, byClient, tryFailed} \subseteq BOOLEAN
    BY DEF MeetInv, MeetTypes
  <2>2. \A i \in DOMAIN signals :
          /\ signals[i].type \in {"scheduled", "answered", "no-answer", "completed"}
          /\ signals[i].status \in {"scheduled", "answered", "no-answer", "completed"}
          /\ signals[i].time \in Nat
    <3>1. \A i \in DOMAIN signals : signals[i] \in RowType
      BY DEF MeetInv, MeetTypes
    <3> QED
      BY <3>1 DEF RowType, RowTypes
  <2>3. \A h \in Syncs : sync[h].at \in {"idle", "fetch", "look", "save"}
    BY DEF MeetInv, MeetTypes, SyncType
  <2>4. attendance \in {"scheduled", "completed", "no-answer"}
    BY DEF MeetInv, MeetTypes, Answers
  <2>5. /\ hour \in Nat /\ meetAt \in VisitHours /\ ended \in Nat
        /\ booking \in {"none", "placed", "met", "subscribed", "saved", "done", "failed"}
        /\ {draft, subscription} \subseteq {"pending", "active", "failed", "expired"}
        /\ sweep \in {"due", "found", "active", "failed", "mark", "swept"}
        /\ until \in Nat /\ live \in Nat /\ version \in Nat
    BY DEF MeetInv, MeetTypes
  <2> QED
    BY <2>1, <2>2, <2>3, <2>4, <2>5, Zenon DEF MeetTypeOK
<1>2. OneRowPerSignal
  BY Zenon DEF MeetInv, AloneInv, OneRowPerSignal
<1>3. OneMindIsShown
  <2>1. ASSUME NEW a \in Answers, told = {a}
        PROVE  Resolved(signals, attendance) = StatusOutcome(Verdict(a))
    BY <2>1, PairsAreShown DEF MeetInv, PairInv
  <2>2. StatusOutcome(Verdict("completed")) = "answered"
        /\ StatusOutcome(Verdict("no-answer")) = "no_answer"
    BY DEF Verdict, StatusOutcome
  <2> QED
    BY <2>1, <2>2 DEF OneMindIsShown, Answers
<1>4. CoveredAtStart
  BY DEF MeetInv, CoverInv, CoveredAtStart
<1>5. OneSubscription
  BY DEF MeetInv, CountInv, OneSubscription
<1> QED
  BY <1>1, <1>2, <1>3, <1>4, <1>5 DEF MeetCorrect

\* Whatever the hour of the visit, the life of a subscription and the overlapping syncs:
\* a visit is subscribed to once and, unless an attempt of its hour failed, until it
\* begins; and its log shows what the syncs found, as long as they found the same.
THEOREM MeetIsCorrect == MeetSpec => []MeetCorrect
BY MeetAssumption, MeetInvariant, MeetInvImplies, PTL

\* Syncs that do not overlap keep the attendance, and all of them keep the transcript.
THEOREM SyncKeepsCorrect == MeetSpec => SyncKeeps
<1>1. MeetInv /\ [MeetNext]_meetVars =>
        [attendance = "completed" => attendance' = "completed" \/ byClient \/ syncRaced]_attendance
  <2> SUFFICES ASSUME MeetInv, [MeetNext]_meetVars, attendance' # attendance,
                      attendance = "completed", ~byClient, ~syncRaced
               PROVE  attendance' = "completed"
    BY Zenon
  <2>1. PICK h \in Syncs :
          FetchArtifacts(h) \/ ToldByClient(h) \/ Fetched(h) \/ LookLog(h) \/ SaveSync(h)
    BY MeetSteps, MeetCrashEffect DEF SyncsKept, meetVars, logVars, MeetInv
  <2>2. SyncStep(h)
    BY <2>1, SyncSteps DEF MeetInv
  <2>3. sync[h].at = "save" /\ attendance' = sync[h].answer
    BY <2>2 DEF SyncStep, Started, Answered, Looked, Saved, LogKept
  <2> QED
    BY <2>3 DEF MeetInv, HeldInv, MeetTypes, Answers
<1>2. MeetInv /\ [MeetNext]_meetVars => [meetText => meetText']_meetText
  <2> SUFFICES ASSUME MeetInv, [MeetNext]_meetVars, meetText' # meetText, meetText
               PROVE  meetText'
    BY Zenon
  <2>1. PICK h \in Syncs :
          FetchArtifacts(h) \/ ToldByClient(h) \/ Fetched(h) \/ LookLog(h) \/ SaveSync(h)
    BY MeetSteps, MeetCrashEffect DEF SyncsKept, meetVars, logVars, MeetInv
  <2>2. SyncStep(h)
    BY <2>1, SyncSteps DEF MeetInv
  <2>3. meetText' = TextAfter(sync[h])
    BY <2>2 DEF SyncStep, Started, Answered, Looked, Saved, LogKept
  <2> QED
    BY <2>3, Zenon DEF TextAfter
<1> QED
  BY <1>1, <1>2, MeetInvariant, PTL DEF MeetSpec, SyncKeeps, AttendedStays, TranscriptStays

=============================================================================
