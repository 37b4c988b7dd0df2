---------------------- MODULE MarketingCampaignProofs ----------------------
(***************************************************************************)
(* What holds of MarketingCampaign for any sets of recipients and processes *)
(* and any bounds: types, that only a death strands a recipient in          *)
(* 'sending', that the claim keeps a recipient to one message, that a        *)
(* completed campaign forgets nobody, and how much a cancellation leaks.     *)
(***************************************************************************)
EXTENDS MarketingCampaign, FiniteSetTheorems, TLAPS

\* A receipt handler holds a receipt status, never an internal one.
HookSeen == \A p \in Procs : pc[p] = "apply" => seen[p] \in ReceiptStatus

\* A process has a recipient where its code works on one, and the one it sends
\* to is no longer on its list.
Held == \A p \in Procs :
  /\ pc[p] \in {"rpc", "answered", "requeue", "apply"} => cur[p] \in Recipients
  /\ pc[p] \in {"rpc", "answered"} => cur[p] \notin todo[p]

\* TypeOK is inductive with these two: what a process saves is what it holds.
TypeInv == TypeOK /\ HookSeen /\ Held

-----------------------------------------------------------------------------
(* The invariant behind OneMessagePerRecipient                               *)

Launching(l) ==
  pc[l] \in {"check", "build", "preview", "reject", "insert"}

\* Before the campaign starts sending nothing has been sent, no tick has it.
Quiet ==
  /\ status # "sending"
  /\ \A w \in Workers : pc[w] = "idle"
  /\ \A t \in Retriers : pc[t] \in {"idle", "find"}
  /\ \A h \in Hooks : pc[h] = "idle"
  /\ \A r \in Recipients : ~hasMessageId[r]
  /\ \A r \in Recipients : recipient[r] \in {"absent", "pending", "cancelled"}

QuietUntilStarted ==
  /\ launches = 0 => Quiet
  /\ \A l \in Launchers : launches <= 1 /\ Launching(l) =>
       launches = 1 /\ Quiet /\ \A k \in Launchers : Launching(k) => k = l

\* The process has read the recipient as pending and has yet to send to it.
Owes(p, r) ==
  \/ pc[p] \in {"reopen", "send", "rpc", "answered"} /\ r \in todo[p]
  \/ pc[p] = "rpc" /\ cur[p] = r

Fresh(r) == retries[r] = 0

\* While a recipient waits for its first message at most one tick is in a batch,
\* the claim is its own, and nobody is about to complete the campaign.
ClaimProtects ==
  (\E r \in Recipients : Fresh(r) /\ recipient[r] = "pending") =>
    /\ \A w \in Workers : InBatch(w) => gate = "claimed"
    /\ \A w, v \in Workers : InBatch(w) /\ InBatch(v) => w = v
    /\ \A w \in Workers : pc[w] # "complete"

FirstMessage == \A r \in Recipients : Fresh(r) =>
  /\ sends[r] <= 1
  /\ sends[r] = 1 => recipient[r] \notin {"absent", "pending"}
  /\ \A p \in Senders : Owes(p, r) => sends[r] = 0 /\ p \in Workers
  /\ \A p, q \in Senders : Owes(p, r) /\ Owes(q, r) => p = q
  /\ \A p \in Senders : Owes(p, r) => recipient[r] # "absent"
  /\ \A p \in Senders : pc[p] = "rpc" /\ cur[p] = r => recipient[r] # "pending"

\* Which process may be where, as far as the argument needs it.
Places ==
  /\ \A w \in Workers : pc[w] \in {"idle", "load", "send", "rpc", "answered",
                                    "delay", "count", "complete"}
  /\ \A t \in Retriers : pc[t] \in {"idle", "find", "requeue", "reopen", "send",
                                    "rpc", "answered"}
  /\ \A l \in Launchers : pc[l] = "idle" \/ Launching(l)
  /\ \A c \in Cancellers : pc[c] \in {"idle", "mark", "save"}
  /\ \A h \in Hooks : pc[h] \in {"idle", "apply"}

Undisturbed == lapses = 0 /\ launches <= 1

OneMessageInv ==
  /\ TypeInv
  /\ Places
  /\ Undisturbed => QuietUntilStarted /\ ClaimProtects /\ FirstMessage

-----------------------------------------------------------------------------
(* Types                                                                     *)

\* No step leaves the types.
LEMMA TypeStep == TypeInv /\ [Next]_vars => TypeOK'
<1> SUFFICES ASSUME TypeOK, HookSeen, Held, [Next]_vars PROVE TypeOK'
  BY DEF TypeInv
<1> USE DEF TypeOK, db, local, history, Goto, Finish, CampaignStatus, ReceiptStatus,
            RecipientStatus, PcValues, SeenValues
<1>1. CASE UNCHANGED vars
  BY <1>1 DEF vars
<1>2. CASE SendNext
  <2> PICK p \in Senders : \/ \E r \in Recipients : StartSend(p, r)
                           \/ \E o \in RpcOutcome : Rpc(p, o)
                           \/ SaveOutcome(p)
    BY <1>2 DEF SendNext
  <2>1. ASSUME NEW r \in Recipients, StartSend(p, r) PROVE TypeOK'
    <3>1. recipient' \in [Recipients -> RecipientStatus]
      BY <2>1 DEF StartSend
    <3>2. revived' \in Nat
      BY <2>1 DEF StartSend
    <3>3. todo' \in [Procs -> SUBSET Recipients]
      BY <2>1 DEF StartSend
    <3>4. cur' \in [Procs -> Recipients \cup {None}]
      BY <2>1 DEF StartSend
    <3>5. pc' \in [Procs -> PcValues]
      BY <2>1 DEF StartSend
    <3> QED
      BY <2>1, <3>1, <3>2, <3>3, <3>4, <3>5 DEF StartSend
  <2>2. ASSUME NEW o \in RpcOutcome, Rpc(p, o) PROVE TypeOK'
    <3>1. sends' \in [Recipients -> Nat]
      <4>1. CASE cur[p] \in Recipients
        BY <2>2, <4>1 DEF Rpc
      <4>2. CASE cur[p] \notin Recipients
        BY <2>2, <4>2 DEF Rpc
      <4> QED
        BY <4>1, <4>2
    <3>2. seen' \in [Procs -> SeenValues]
      BY <2>2 DEF Rpc
    <3>3. pc' \in [Procs -> PcValues]
      BY <2>2 DEF Rpc
    <3> QED
      BY <2>2, <3>1, <3>2, <3>3 DEF Rpc
  <2>3. CASE SaveOutcome(p)
    BY <2>3 DEF SaveOutcome
  <2> QED
    BY <2>1, <2>2, <2>3
<1>3. CASE WorkerNext
  <2> PICK w \in Workers : Claim(w) \/ Load(w) \/ Delay(w) \/ Count(w) \/ Complete(w)
    BY <1>3 DEF WorkerNext
  <2>1. CASE Claim(w)
    BY <2>1 DEF Claim
  <2>2. CASE Load(w)
    <3>1. PICK batch \in SUBSET Recipients :
            /\ todo' = [todo EXCEPT ![w] = batch]
            /\ pc' = [pc EXCEPT ![w] = IF batch = {} THEN "count" ELSE "send"]
      BY <2>2 DEF Load
    <3>2. todo' \in [Procs -> SUBSET Recipients]
      BY <3>1
    <3>3. pc' \in [Procs -> PcValues]
      BY <3>1
    <3> QED
      BY <2>2, <3>2, <3>3 DEF Load
  <2>3. CASE Delay(w)
    BY <2>3 DEF Delay
  <2>4. CASE Count(w)
    BY <2>4 DEF Count
  <2>5. CASE Complete(w)
    BY <2>5 DEF Complete
  <2> QED
    BY <2>1, <2>2, <2>3, <2>4, <2>5
<1>4. CASE DelayElapses
  BY <1>4 DEF DelayElapses
<1>5. CASE ClaimElapses
  BY <1>5 DEF ClaimElapses
<1>6. CASE LaunchNext
  <2> PICK l \in Launchers :
        \/ LaunchRead(l) \/ LaunchCheck(l) \/ LaunchBuild(l) \/ LaunchPreview(l)
        \/ LaunchReject(l) \/ LaunchThrow(l) \/ LaunchStart(l)
        \/ \E r \in Recipients : LaunchInsert(l, r)
    BY <1>6 DEF LaunchNext
  <2>1. CASE LaunchRead(l)
    <3>1. launches' \in Nat
      BY <2>1 DEF LaunchRead
    <3>2. pc' \in [Procs -> PcValues]
      BY <2>1 DEF LaunchRead
    <3> QED
      BY <2>1, <3>1, <3>2 DEF LaunchRead
  <2>2. CASE LaunchCheck(l)
    BY <2>2 DEF LaunchCheck
  <2>3. CASE LaunchBuild(l)
    BY <2>3 DEF LaunchBuild
  <2>4. CASE LaunchPreview(l)
    <3>1. todo' \in [Procs -> SUBSET Recipients]
      BY <2>4 DEF LaunchPreview
    <3>2. pc' \in [Procs -> PcValues]
      BY <2>4 DEF LaunchPreview
    <3> QED
      BY <2>4, <3>1, <3>2 DEF LaunchPreview
  <2>5. CASE LaunchReject(l)
    BY <2>5 DEF LaunchReject
  <2>6. CASE LaunchThrow(l)
    BY <2>6 DEF LaunchThrow
  <2>7. CASE LaunchStart(l)
    BY <2>7 DEF LaunchStart
  <2>8. ASSUME NEW r \in Recipients, LaunchInsert(l, r) PROVE TypeOK'
    BY <2>8 DEF LaunchInsert
  <2> QED
    BY <2>1, <2>2, <2>3, <2>4, <2>5, <2>6, <2>7, <2>8
<1>7. CASE CancelNext
  <2> PICK c \in Cancellers : CancelRead(c) \/ CancelMark(c) \/ CancelSave(c)
    BY <1>7 DEF CancelNext
  <2>1. CASE CancelRead(c)
    <3>1. cancels' \in Nat
      BY <2>1 DEF CancelRead
    <3>2. pc' \in [Procs -> PcValues]
      BY <2>1 DEF CancelRead
    <3> QED
      BY <2>1, <3>1, <3>2 DEF CancelRead
  <2>2. CASE CancelMark(c)
    <3>1. recipient' \in [Recipients -> RecipientStatus]
      BY <2>2 DEF CancelMark
    <3>2. pc' \in [Procs -> PcValues]
      BY <2>2 DEF CancelMark
    <3> QED
      BY <2>2, <3>1, <3>2 DEF CancelMark
  <2>3. CASE CancelSave(c)
    BY <2>3 DEF CancelSave
  <2> QED
    BY <2>1, <2>2, <2>3
<1>8. CASE RetryNext
  <2> PICK t \in Retriers :
        \/ RetryRead(t) \/ RetryConflict(t) \/ RetryRequeue(t) \/ RetryReopen(t)
        \/ \E r \in Recipients : RetryFind(t, r)
    BY <1>8 DEF RetryNext
  <2>1. CASE RetryRead(t)
    BY <2>1 DEF RetryRead
  <2>2. CASE RetryConflict(t)
    BY <2>2 DEF RetryConflict
  <2>3. CASE RetryRequeue(t)
    <3>1. recipient' \in [Recipients -> RecipientStatus]
      BY <2>3 DEF RetryRequeue
    <3>2. retries' \in [Recipients -> Nat]
      BY <2>3 DEF RetryRequeue, Held, Procs, Senders
    <3>3. todo' \in [Procs -> SUBSET Recipients]
      BY <2>3 DEF RetryRequeue, Held, Procs, Senders
    <3>4. pc' \in [Procs -> PcValues]
      BY <2>3 DEF RetryRequeue
    <3> QED
      BY <2>3, <3>1, <3>2, <3>3, <3>4 DEF RetryRequeue
  <2>4. CASE RetryReopen(t)
    BY <2>4 DEF RetryReopen
  <2>5. ASSUME NEW r \in Recipients, RetryFind(t, r) PROVE TypeOK'
    BY <2>5 DEF RetryFind
  <2> QED
    BY <2>1, <2>2, <2>3, <2>4, <2>5
<1>9. CASE HookNext
  <2> PICK h \in Hooks : \/ \E r \in Recipients, s \in ReceiptStatus : HookRead(h, r, s)
                         \/ HookApply(h)
    BY <1>9 DEF HookNext
  <2>1. ASSUME NEW r \in Recipients, NEW s \in ReceiptStatus, HookRead(h, r, s)
        PROVE TypeOK'
    <3>1. cur' \in [Procs -> Recipients \cup {None}]
      BY <2>1 DEF HookRead
    <3>2. seen' \in [Procs -> SeenValues]
      BY <2>1 DEF HookRead
    <3>3. pc' \in [Procs -> PcValues]
      BY <2>1 DEF HookRead
    <3> QED
      BY <2>1, <3>1, <3>2, <3>3 DEF HookRead
  <2>2. CASE HookApply(h)
    <3>1. recipient' \in [Recipients -> RecipientStatus]
      BY <2>2 DEF HookApply, HookSeen, Procs
    <3>2. todo' \in [Procs -> SUBSET Recipients]
      BY <2>2 DEF HookApply
    <3>3. cur' \in [Procs -> Recipients \cup {None}]
      BY <2>2 DEF HookApply
    <3>4. seen' \in [Procs -> SeenValues]
      BY <2>2 DEF HookApply
    <3>5. pc' \in [Procs -> PcValues]
      BY <2>2 DEF HookApply
    <3> QED
      BY <2>2, <3>1, <3>2, <3>3, <3>4, <3>5 DEF HookApply
  <2> QED
    BY <2>1, <2>2
<1>10. ASSUME NEW p \in Procs, Abort(p) PROVE TypeOK'
  BY <1>10 DEF Abort
<1> QED
  BY <1>1, <1>2, <1>3, <1>4, <1>5, <1>6, <1>7, <1>8, <1>9, <1>10 DEF Next

\* Nor does a step leave a process without the recipient it works on.
LEMMA HeldStep == TypeInv /\ [Next]_vars => HookSeen' /\ Held'
<1> SUFFICES ASSUME TypeOK, HookSeen, Held, [Next]_vars PROVE HookSeen' /\ Held'
  BY DEF TypeInv
<1> USE DEF TypeOK, HookSeen, Held, db, local, history, Goto, Finish
<1>1. CASE UNCHANGED vars
  BY <1>1 DEF vars
<1>2. CASE SendNext
  BY <1>2 DEF SendNext, StartSend, Rpc, SaveOutcome
<1>3. CASE WorkerNext
  BY <1>3 DEF WorkerNext, Claim, Load, Delay, Count, Complete
<1>4. CASE DelayElapses \/ ClaimElapses
  BY <1>4 DEF DelayElapses, ClaimElapses
<1>5. CASE LaunchNext
  BY <1>5 DEF LaunchNext, LaunchRead, LaunchCheck, LaunchBuild, LaunchPreview,
              LaunchReject, LaunchInsert, LaunchThrow, LaunchStart
<1>6. CASE CancelNext
  BY <1>6 DEF CancelNext, CancelRead, CancelMark, CancelSave
<1>7. CASE RetryNext
  BY <1>7 DEF RetryNext, RetryRead, RetryFind, RetryConflict, RetryRequeue, RetryReopen
<1>8. CASE HookNext
  BY <1>8 DEF HookNext, HookRead, HookApply
<1>9. ASSUME NEW p \in Procs, Abort(p) PROVE HookSeen' /\ Held'
  BY <1>9 DEF Abort
<1> QED
  BY <1>1, <1>2, <1>3, <1>4, <1>5, <1>6, <1>7, <1>8, <1>9 DEF Next

LEMMA InitTypeInv == Init => TypeInv
<1> SUFFICES ASSUME Init PROVE TypeInv
  OBVIOUS
<1>1. TypeOK
  BY DEF Init, TypeOK, CampaignStatus, RecipientStatus, PcValues, SeenValues
<1> QED
  BY <1>1 DEF Init, TypeInv, HookSeen, Held

\* Every process holds what its code works on, in every instance.
THEOREM TypeCorrect == Spec => []TypeOK
<1>1. Init => TypeInv
  BY InitTypeInv
<1>2. TypeInv /\ [Next]_vars => TypeInv'
  BY TypeStep, HeldStep DEF TypeInv
<1>3. TypeInv => TypeOK
  BY DEF TypeInv
<1> QED
  BY <1>1, <1>2, <1>3, PTL DEF Spec

-----------------------------------------------------------------------------
(* Only a death strands a recipient in 'sending'                             *)

LEMMA SendingStep ==
  TypeInv /\ SendingIsInHand /\ [Next]_vars => SendingIsInHand'
<1> SUFFICES ASSUME TypeOK, HookSeen, Held, SendingIsInHand, [Next]_vars,
                    aborts' = 0, NEW r \in Recipients, recipient'[r] = "sending"
             PROVE (\E p \in Senders : Calling(p, r))'
  BY DEF TypeInv, SendingIsInHand
<1> USE DEF TypeOK, SendingIsInHand, Calling, Senders, Procs, db, local, history, Goto, Finish
<1>1. CASE UNCHANGED vars
  BY <1>1 DEF vars
<1>2. CASE SendNext
  <2> PICK p \in Senders : \/ \E s \in Recipients : StartSend(p, s)
                           \/ \E o \in RpcOutcome : Rpc(p, o)
                           \/ SaveOutcome(p)
    BY <1>2 DEF SendNext
  <2>1. ASSUME NEW s \in Recipients, StartSend(p, s) PROVE (\E q \in Senders : Calling(q, r))'
    BY <2>1 DEF StartSend
  <2>2. ASSUME NEW o \in RpcOutcome, Rpc(p, o) PROVE (\E q \in Senders : Calling(q, r))'
    BY <2>2 DEF Rpc
  <2>3. CASE SaveOutcome(p)
    BY <2>3 DEF SaveOutcome, Held
  <2> QED
    BY <2>1, <2>2, <2>3
<1>3. CASE WorkerNext
  BY <1>3 DEF WorkerNext, Claim, Load, Delay, Count, Complete
<1>4. CASE DelayElapses \/ ClaimElapses
  BY <1>4 DEF DelayElapses, ClaimElapses
<1>5. CASE LaunchNext
  BY <1>5 DEF LaunchNext, LaunchRead, LaunchCheck, LaunchBuild, LaunchPreview,
              LaunchReject, LaunchInsert, LaunchThrow, LaunchStart
<1>6. CASE CancelNext
  BY <1>6 DEF CancelNext, CancelRead, CancelMark, CancelSave
<1>7. CASE RetryNext
  BY <1>7 DEF RetryNext, RetryRead, RetryFind, RetryConflict, RetryRequeue, RetryReopen
<1>8. CASE HookNext
  BY <1>8 DEF HookNext, HookRead, HookApply, HookSeen, ReceiptStatus
<1>9. ASSUME NEW p \in Procs, Abort(p) PROVE FALSE
  BY <1>9 DEF Abort
<1> QED
  BY <1>1, <1>2, <1>3, <1>4, <1>5, <1>6, <1>7, <1>8, <1>9 DEF Next

\* The dispatcher's rule for recipients marked sending, in every instance.
THEOREM SendingCorrect == Spec => []SendingIsInHand
<1>1. Init => TypeInv /\ SendingIsInHand
  BY InitTypeInv DEF Init, SendingIsInHand
<1>2. TypeInv /\ SendingIsInHand /\ [Next]_vars => (TypeInv /\ SendingIsInHand)'
  BY TypeStep, HeldStep, SendingStep DEF TypeInv
<1> QED
  BY <1>1, <1>2, PTL DEF Spec

\* The two together: what the dispatcher promises.
THEOREM DispatchSafeCorrect == Spec => []DispatchSafe
<1>1. TypeOK /\ SendingIsInHand => DispatchSafe
  BY DEF DispatchSafe
<1> QED
  BY <1>1, TypeCorrect, SendingCorrect, PTL

-----------------------------------------------------------------------------
(* The claim keeps a recipient to one message                                *)

LEMMA PlacesStep == TypeInv /\ Places /\ [Next]_vars => Places'
<1> SUFFICES ASSUME TypeOK, Places, [Next]_vars PROVE Places'
  BY DEF TypeInv
<1> USE ProcsAssumption DEF TypeOK, Places, Launching, Senders, Procs, db, local,
                            history, Goto, Finish
<1>1. CASE UNCHANGED vars
  BY <1>1 DEF vars
<1>2. CASE SendNext
  BY <1>2 DEF SendNext, StartSend, Rpc, SaveOutcome
<1>3. CASE WorkerNext
  BY <1>3 DEF WorkerNext, Claim, Load, Delay, Count, Complete
<1>4. CASE DelayElapses \/ ClaimElapses
  BY <1>4 DEF DelayElapses, ClaimElapses
<1>5. CASE LaunchNext
  BY <1>5 DEF LaunchNext, LaunchRead, LaunchCheck, LaunchBuild, LaunchPreview,
              LaunchReject, LaunchInsert, LaunchThrow, LaunchStart
<1>6. CASE CancelNext
  BY <1>6 DEF CancelNext, CancelRead, CancelMark, CancelSave
<1>7. CASE RetryNext
  BY <1>7 DEF RetryNext, RetryRead, RetryFind, RetryConflict, RetryRequeue, RetryReopen
<1>8. CASE HookNext
  BY <1>8 DEF HookNext, HookRead, HookApply
<1>9. ASSUME NEW p \in Procs, Abort(p) PROVE Places'
  BY <1>9 DEF Abort
<1> QED
  BY <1>1, <1>2, <1>3, <1>4, <1>5, <1>6, <1>7, <1>8, <1>9 DEF Next

\* The premise of the argument, once false, stays false.
LEMMA UndisturbedBefore == TypeOK /\ [Next]_vars /\ Undisturbed' => Undisturbed
<1> SUFFICES ASSUME TypeOK, [Next]_vars, Undisturbed' PROVE Undisturbed
  OBVIOUS
<1> USE DEF TypeOK, Undisturbed, db, local, history
<1>1. CASE UNCHANGED vars
  BY <1>1 DEF vars
<1>2. CASE SendNext
  BY <1>2 DEF SendNext, StartSend, Rpc, SaveOutcome
<1>3. CASE WorkerNext
  BY <1>3 DEF WorkerNext, Claim, Load, Delay, Count, Complete
<1>4. CASE DelayElapses \/ ClaimElapses
  BY <1>4 DEF DelayElapses, ClaimElapses
<1>5. CASE LaunchNext
  BY <1>5 DEF LaunchNext, LaunchRead, LaunchCheck, LaunchBuild, LaunchPreview,
              LaunchReject, LaunchInsert, LaunchThrow, LaunchStart
<1>6. CASE CancelNext
  BY <1>6 DEF CancelNext, CancelRead, CancelMark, CancelSave
<1>7. CASE RetryNext
  BY <1>7 DEF RetryNext, RetryRead, RetryFind, RetryConflict, RetryRequeue, RetryReopen
<1>8. CASE HookNext
  BY <1>8 DEF HookNext, HookRead, HookApply
<1>9. ASSUME NEW p \in Procs, Abort(p) PROVE Undisturbed
  BY <1>9 DEF Abort
<1> QED
  BY <1>1, <1>2, <1>3, <1>4, <1>5, <1>6, <1>7, <1>8, <1>9 DEF Next

LEMMA QuietStep ==
  TypeInv /\ Places /\ QuietUntilStarted /\ [Next]_vars => QuietUntilStarted'
<1> SUFFICES ASSUME TypeOK, Places, QuietUntilStarted, [Next]_vars
             PROVE QuietUntilStarted'
  BY DEF TypeInv
<1> USE ProcsAssumption DEF TypeOK, Places, Launching, QuietUntilStarted, Quiet,
        Senders, Procs, db, local, history, Goto, Finish
<1>1. CASE UNCHANGED vars
  BY <1>1 DEF vars
<1>2. CASE SendNext
  BY <1>2 DEF SendNext, StartSend, Rpc, SaveOutcome
<1>3. CASE WorkerNext
  BY <1>3 DEF WorkerNext, Claim, Load, Delay, Count, Complete
<1>4. CASE DelayElapses \/ ClaimElapses
  BY <1>4 DEF DelayElapses, ClaimElapses
<1>5. CASE LaunchNext
  BY <1>5 DEF LaunchNext, LaunchRead, LaunchCheck, LaunchBuild, LaunchPreview,
              LaunchReject, LaunchInsert, LaunchThrow, LaunchStart
<1>6. CASE CancelNext
  BY <1>6 DEF CancelNext, CancelRead, CancelMark, CancelSave
<1>7. CASE RetryNext
  BY <1>7 DEF RetryNext, RetryRead, RetryFind, RetryConflict, RetryRequeue, RetryReopen
<1>8. CASE HookNext
  BY <1>8 DEF HookNext, HookRead, HookApply
<1>9. ASSUME NEW p \in Procs, Abort(p) PROVE QuietUntilStarted'
  BY <1>9 DEF Abort
<1> QED
  BY <1>1, <1>2, <1>3, <1>4, <1>5, <1>6, <1>7, <1>8, <1>9 DEF Next

\* A recipient that waits for its first message was waiting before, or has just
\* been inserted by the launch, when no tick was in a batch.
LEMMA ClaimStep ==
  TypeInv /\ Places /\ Undisturbed /\ Undisturbed' /\ QuietUntilStarted /\ ClaimProtects
    /\ [Next]_vars => ClaimProtects'
<1> SUFFICES ASSUME TypeOK, HookSeen, Held, Places, Undisturbed, Undisturbed', QuietUntilStarted,
                    ClaimProtects, [Next]_vars,
                    NEW r \in Recipients, Fresh(r)', recipient'[r] = "pending"
             PROVE /\ \A w \in Workers : InBatch(w)' => gate' = "claimed"
                   /\ \A w, v \in Workers : InBatch(w)' /\ InBatch(v)' => w = v
                   /\ \A w \in Workers : pc'[w] # "complete"
  BY DEF TypeInv, ClaimProtects
<1> DEFINE Goal == /\ \A w \in Workers : InBatch(w)' => gate' = "claimed"
                   /\ \A w, v \in Workers : InBatch(w)' /\ InBatch(v)' => w = v
                   /\ \A w \in Workers : pc'[w] # "complete"
<1> USE ProcsAssumption DEF TypeOK, Places, Launching, Undisturbed, QuietUntilStarted, Quiet,
        ClaimProtects, Fresh, InBatch, Unsettled, HookSeen, ReceiptStatus, Held,
        Senders, Procs, db, local, history, Goto, Finish
<1>1. CASE UNCHANGED vars
  BY <1>1 DEF vars
<1>2. CASE SendNext
  BY <1>2 DEF SendNext, StartSend, Rpc, SaveOutcome
<1>3. CASE WorkerNext
  BY <1>3 DEF WorkerNext, Claim, Load, Delay, Count, Complete
<1>4. CASE DelayElapses \/ ClaimElapses
  BY <1>4 DEF DelayElapses, ClaimElapses
<1>5. CASE LaunchNext
  BY <1>5 DEF LaunchNext, LaunchRead, LaunchCheck, LaunchBuild, LaunchPreview,
              LaunchReject, LaunchInsert, LaunchThrow, LaunchStart
<1>6. CASE CancelNext
  BY <1>6 DEF CancelNext, CancelRead, CancelMark, CancelSave
<1>7. CASE RetryNext
  BY <1>7 DEF RetryNext, RetryRead, RetryFind, RetryConflict, RetryRequeue, RetryReopen
<1>8. CASE HookNext
  BY <1>8 DEF HookNext, HookRead, HookApply
<1>9. ASSUME NEW p \in Procs, Abort(p) PROVE Goal
  BY <1>9 DEF Abort
<1> QED
  BY <1>1, <1>2, <1>3, <1>4, <1>5, <1>6, <1>7, <1>8, <1>9 DEF Next

LEMMA FirstStep ==
  TypeInv /\ Places /\ Undisturbed /\ Undisturbed' /\ QuietUntilStarted /\ ClaimProtects
    /\ FirstMessage /\ [Next]_vars => FirstMessage'
<1> SUFFICES ASSUME TypeOK, HookSeen, Held, Places, Undisturbed, Undisturbed', QuietUntilStarted,
                    ClaimProtects, FirstMessage, [Next]_vars
             PROVE FirstMessage'
  BY DEF TypeInv
<1> USE ProcsAssumption DEF TypeOK, Places, Launching, Undisturbed, QuietUntilStarted, Quiet,
        ClaimProtects, FirstMessage, Fresh, Owes, InBatch, Unsettled, HookSeen, ReceiptStatus,
        Held, Senders, Procs, db, local, history, Goto, Finish
<1>1. CASE UNCHANGED vars
  BY <1>1 DEF vars
<1>2. CASE SendNext
  <2> PICK p \in Senders : \/ \E s \in Recipients : StartSend(p, s)
                           \/ \E o \in RpcOutcome : Rpc(p, o)
                           \/ SaveOutcome(p)
    BY <1>2 DEF SendNext
  <2>1. ASSUME NEW s \in Recipients, StartSend(p, s) PROVE FirstMessage'
    <3>1. \A r \in Recipients, q \in Senders : Owes(q, r)' => Owes(q, r)
      BY <2>1 DEF StartSend
    <3>2. Owes(p, s)
      BY <2>1 DEF StartSend
    <3> QED
      BY <2>1, <3>1, <3>2 DEF StartSend
  <2>2. ASSUME NEW o \in RpcOutcome, Rpc(p, o) PROVE FirstMessage'
    <3>1. cur[p] \in Recipients /\ Owes(p, cur[p])
      BY <2>2 DEF Rpc
    <3>2. \A r \in Recipients, q \in Senders : Owes(q, r)' => Owes(q, r) /\ (q = p => r # cur[p])
      BY <2>2 DEF Rpc
    <3>3. \A r \in Recipients : r # cur[p] => sends'[r] = sends[r]
      BY <2>2, <3>1 DEF Rpc
    <3>4. sends'[cur[p]] \in {sends[cur[p]], sends[cur[p]] + 1}
      BY <2>2, <3>1 DEF Rpc
    <3>5. UNCHANGED <<recipient, retries, cur>> /\ pc' = [pc EXCEPT ![p] = "answered"]
      BY <2>2 DEF Rpc
    <3> SUFFICES ASSUME NEW r \in Recipients, Fresh(r)
                 PROVE /\ sends'[r] <= 1
                       /\ sends'[r] = 1 => recipient[r] \notin {"absent", "pending"}
                       /\ \A q \in Senders : Owes(q, r)' => sends'[r] = 0 /\ q \in Workers
                       /\ \A q, k \in Senders : Owes(q, r)' /\ Owes(k, r)' => q = k
                       /\ \A q \in Senders : Owes(q, r)' => recipient[r] # "absent"
                       /\ \A q \in Senders : pc'[q] = "rpc" /\ cur[q] = r => recipient[r] # "pending"
      BY <3>5
    <3>6. CASE r = cur[p]
      BY <2>2, <3>1, <3>2, <3>4, <3>5, <3>6 DEF Rpc
    <3>7. CASE r # cur[p]
      BY <3>1, <3>2, <3>3, <3>5, <3>7
    <3> QED
      BY <3>6, <3>7
  <2>3. CASE SaveOutcome(p)
    <3>1. \A r \in Recipients, q \in Senders : Owes(q, r)' => Owes(q, r)
      BY <2>3 DEF SaveOutcome
    <3> QED
      BY <2>3, <3>1 DEF SaveOutcome
  <2> QED
    BY <2>1, <2>2, <2>3
<1>3. CASE WorkerNext
  BY <1>3 DEF WorkerNext, Claim, Load, Delay, Count, Complete
<1>4. CASE DelayElapses \/ ClaimElapses
  BY <1>4 DEF DelayElapses, ClaimElapses
<1>5. CASE LaunchNext
  BY <1>5 DEF LaunchNext, LaunchRead, LaunchCheck, LaunchBuild, LaunchPreview,
              LaunchReject, LaunchInsert, LaunchThrow, LaunchStart
<1>6. CASE CancelNext
  BY <1>6 DEF CancelNext, CancelRead, CancelMark, CancelSave
<1>7. CASE RetryNext
  BY <1>7 DEF RetryNext, RetryRead, RetryFind, RetryConflict, RetryRequeue, RetryReopen
<1>8. CASE HookNext
  BY <1>8 DEF HookNext, HookRead, HookApply
<1>9. ASSUME NEW p \in Procs, Abort(p) PROVE FirstMessage'
  BY <1>9 DEF Abort
<1> QED
  BY <1>1, <1>2, <1>3, <1>4, <1>5, <1>6, <1>7, <1>8, <1>9 DEF Next

LEMMA OneMessageStep == OneMessageInv /\ [Next]_vars => OneMessageInv'
<1> SUFFICES ASSUME OneMessageInv, [Next]_vars PROVE OneMessageInv'
  OBVIOUS
<1>1. TypeInv' /\ Places'
  BY TypeStep, HeldStep, PlacesStep DEF OneMessageInv, TypeInv
<1>2. ASSUME Undisturbed' PROVE (QuietUntilStarted /\ ClaimProtects /\ FirstMessage)'
  <2>1. Undisturbed
    BY <1>2, UndisturbedBefore DEF OneMessageInv, TypeInv
  <2> QED
    BY <1>2, <2>1, QuietStep, ClaimStep, FirstStep DEF OneMessageInv
<1> QED
  BY <1>1, <1>2 DEF OneMessageInv

\* A recipient nobody retries is sent one message, in every instance.
THEOREM OneMessageCorrect == Spec => []OneMessagePerRecipient
<1>1. Init => OneMessageInv
  BY InitTypeInv DEF Init, OneMessageInv, Places, Undisturbed, QuietUntilStarted, Quiet,
     Launching, ClaimProtects, FirstMessage, Owes, InBatch, Senders, Procs
<1>2. OneMessageInv /\ [Next]_vars => OneMessageInv'
  BY OneMessageStep
<1>3. OneMessageInv => OneMessagePerRecipient
  BY DEF OneMessageInv, Undisturbed, FirstMessage, Fresh, OneMessagePerRecipient
<1> QED
  BY <1>1, <1>2, <1>3, PTL DEF Spec

-----------------------------------------------------------------------------
(* A completed campaign forgets nobody                                       *)

\* A retry has one recipient on its list, a tick those of the batch it is in.
Lists ==
  /\ \A t \in Retriers : \A r, s \in todo[t] : r = s
  /\ \A w \in Workers : todo[w] # {} => pc[w] \in {"send", "rpc", "answered"}

\* The campaign is completed, or a tick is about to save that it is.
Over == status = "completed" \/ \E w \in Workers : pc[w] = "complete"

\* What is pending by then is what a retry has put back and has yet to send.
OverForgetsNobody ==
  /\ launches = 0 => ~Over
  /\ launches <= 1 /\ Over => \A l \in Launchers : ~Launching(l)
  /\ aborts = 0 /\ launches <= 1 /\ Over =>
       \A r \in Recipients : recipient[r] = "pending" =>
         \E t \in Retriers : pc[t] \in {"send", "reopen"} /\ r \in todo[t]

LEMMA ListsStep == TypeInv /\ Places /\ Lists /\ [Next]_vars => Lists'
<1> SUFFICES ASSUME TypeOK, Held, Places, Lists, [Next]_vars PROVE Lists'
  BY DEF TypeInv
<1> USE ProcsAssumption DEF TypeOK, Places, Launching, Lists, Senders, Procs, db, local,
                            history, Goto, Finish
<1>1. CASE UNCHANGED vars
  BY <1>1 DEF vars
<1>2. CASE SendNext
  BY <1>2 DEF SendNext, StartSend, Rpc, SaveOutcome
<1>3. CASE WorkerNext
  BY <1>3 DEF WorkerNext, Claim, Load, Delay, Count, Complete
<1>4. CASE DelayElapses \/ ClaimElapses
  BY <1>4 DEF DelayElapses, ClaimElapses
<1>5. CASE LaunchNext
  BY <1>5 DEF LaunchNext, LaunchRead, LaunchCheck, LaunchBuild, LaunchPreview,
              LaunchReject, LaunchInsert, LaunchThrow, LaunchStart
<1>6. CASE CancelNext
  BY <1>6 DEF CancelNext, CancelRead, CancelMark, CancelSave
<1>7. CASE RetryNext
  BY <1>7 DEF RetryNext, RetryRead, RetryFind, RetryConflict, RetryRequeue, RetryReopen
<1>8. CASE HookNext
  BY <1>8 DEF HookNext, HookRead, HookApply
<1>9. ASSUME NEW p \in Procs, Abort(p) PROVE Lists'
  BY <1>9 DEF Abort
<1> QED
  BY <1>1, <1>2, <1>3, <1>4, <1>5, <1>6, <1>7, <1>8, <1>9 DEF Next

\* A tick counts nobody before the campaign is over, and afterwards only a retry
\* makes a recipient pending: the launch had inserted the last one by then.
LEMMA OverStep ==
  TypeInv /\ Places /\ QuietUntilStarted /\ Lists /\ OverForgetsNobody /\ [Next]_vars
    => OverForgetsNobody'
<1> SUFFICES ASSUME TypeOK, HookSeen, Held, Places, QuietUntilStarted, Lists,
                    OverForgetsNobody, [Next]_vars
             PROVE OverForgetsNobody'
  BY DEF TypeInv
<1> USE ProcsAssumption DEF TypeOK, Places, Launching, QuietUntilStarted, Quiet, Lists, Over,
        OverForgetsNobody, HookSeen, ReceiptStatus, Held, Unsettled, Senders, Procs, db, local,
        history, Goto, Finish
<1>1. CASE UNCHANGED vars
  BY <1>1 DEF vars
<1>2. CASE SendNext
  BY <1>2 DEF SendNext, StartSend, Rpc, SaveOutcome
<1>3. CASE WorkerNext
  BY <1>3 DEF WorkerNext, Claim, Load, Delay, Count, Complete
<1>4. CASE DelayElapses \/ ClaimElapses
  BY <1>4 DEF DelayElapses, ClaimElapses
<1>5. CASE LaunchNext
  BY <1>5 DEF LaunchNext, LaunchRead, LaunchCheck, LaunchBuild, LaunchPreview,
              LaunchReject, LaunchInsert, LaunchThrow, LaunchStart
<1>6. CASE CancelNext
  BY <1>6 DEF CancelNext, CancelRead, CancelMark, CancelSave
<1>7. CASE RetryNext
  BY <1>7 DEF RetryNext, RetryRead, RetryFind, RetryConflict, RetryRequeue, RetryReopen
<1>8. CASE HookNext
  BY <1>8 DEF HookNext, HookRead, HookApply
<1>9. ASSUME NEW p \in Procs, Abort(p) PROVE OverForgetsNobody'
  BY <1>9 DEF Abort
<1> QED
  BY <1>1, <1>2, <1>3, <1>4, <1>5, <1>6, <1>7, <1>8, <1>9 DEF Next

\* Nobody is left behind by a tick that completes the campaign over a launch, a
\* retry, a cancellation or a receipt it has not seen.
THEOREM CompletedForgetsNobodyCorrect == Spec => []CompletedForgetsNobody
<1> DEFINE I == /\ TypeInv /\ Places /\ QuietUntilStarted /\ Lists
                /\ SendingIsInHand /\ OverForgetsNobody
<1>1. Init => I
  BY InitTypeInv DEF Init, Places, QuietUntilStarted, Quiet, Launching, Lists, Over,
     SendingIsInHand, OverForgetsNobody, Senders, Procs
<1>2. I /\ [Next]_vars => I'
  BY TypeStep, HeldStep, PlacesStep, QuietStep, ListsStep, SendingStep, OverStep DEF TypeInv
<1>3. I => CompletedForgetsNobody
  BY DEF CompletedForgetsNobody, OverForgetsNobody, Over, SendingIsInHand, InHand, Unsettled,
     Senders
<1> QED
  BY <1>1, <1>2, <1>3, PTL DEF Spec

-----------------------------------------------------------------------------
(* A cancellation leaks one batch at most                                    *)

Calm == Undisturbed /\ \A r \in Recipients : retries[r] = 0

\* One tick at a time has a list.  Once a recipient of it is cancelled nobody is
\* pending any more, and no tick will have another list.
OneBatchLeft ==
  /\ \A w, v \in Workers : todo[w] # {} /\ todo[v] # {} => w = v
  /\ revived <= BatchSize
  /\ \A w \in Workers : revived + Cardinality(todo[w]) <= BatchSize
  /\ (\E r \in Recipients : recipient[r] = "pending") =>
       /\ revived = 0
       /\ \A w \in Workers : \A r \in todo[w] : recipient[r] # "cancelled"
  /\ launches = 0 => revived = 0
  /\ \A l \in Launchers : Launching(l) => revived = 0

\* A retry that was accepted is never taken back.
LEMMA CalmBefore == TypeInv /\ [Next]_vars /\ Calm' => Calm
<1> SUFFICES ASSUME TypeOK, HookSeen, Held, [Next]_vars, Calm' PROVE Calm
  BY DEF TypeInv
<1>1. Undisturbed BY UndisturbedBefore DEF Calm
<1>2. \A r \in Recipients : retries[r] = 0
  <2> USE DEF TypeOK, Calm, db, local, history
  <2>1. CASE UNCHANGED vars
    BY <2>1 DEF vars
  <2>2. CASE SendNext
    BY <2>2 DEF SendNext, StartSend, Rpc, SaveOutcome
  <2>3. CASE WorkerNext
    BY <2>3 DEF WorkerNext, Claim, Load, Delay, Count, Complete
  <2>4. CASE DelayElapses \/ ClaimElapses
    BY <2>4 DEF DelayElapses, ClaimElapses
  <2>5. CASE LaunchNext
    BY <2>5 DEF LaunchNext, LaunchRead, LaunchCheck, LaunchBuild, LaunchPreview,
                LaunchReject, LaunchInsert, LaunchThrow, LaunchStart
  <2>6. CASE CancelNext
    BY <2>6 DEF CancelNext, CancelRead, CancelMark, CancelSave
  <2>7. CASE RetryNext
    <3>1. ASSUME NEW t \in Retriers, RetryRequeue(t) PROVE FALSE
      <4>1. cur[t] \in Recipients BY <3>1 DEF RetryRequeue, Held, Procs, Senders
      <4>2. retries'[cur[t]] = retries[cur[t]] + 1 BY <3>1, <4>1 DEF RetryRequeue
      <4> QED BY <4>1, <4>2
    <3> QED BY <2>7, <3>1 DEF RetryNext, RetryRead, RetryFind, RetryConflict, RetryReopen
  <2>8. CASE HookNext
    BY <2>8 DEF HookNext, HookRead, HookApply
  <2>9. ASSUME NEW p \in Procs, Abort(p) PROVE \A r \in Recipients : retries[r] = 0
    BY <2>9 DEF Abort
  <2> QED
    BY <2>1, <2>2, <2>3, <2>4, <2>5, <2>6, <2>7, <2>8, <2>9 DEF Next
<1> QED BY <1>1, <1>2 DEF Calm

\* A list is finite; without a recipient it had it is one shorter.
LEMMA ListFacts ==
  ASSUME TypeOK, NEW p \in Procs
  PROVE  /\ IsFiniteSet(todo[p]) /\ Cardinality(todo[p]) \in Nat
         /\ todo[p] # {} => Cardinality(todo[p]) >= 1
         /\ \A r \in todo[p] : Cardinality(todo[p] \ {r}) = Cardinality(todo[p]) - 1
<1>1. IsFiniteSet(todo[p])
  BY RecipientsAssumption, FS_Subset DEF TypeOK
<1>2. Cardinality(todo[p]) \in Nat BY <1>1, FS_CardinalityType
<1>3. todo[p] # {} => Cardinality(todo[p]) # 0 BY <1>1, FS_EmptySet
<1>4. \A r \in todo[p] : Cardinality(todo[p] \ {r}) = Cardinality(todo[p]) - 1
  BY <1>1, FS_RemoveElement
<1> QED BY <1>1, <1>2, <1>3, <1>4

\* Without a retry only a tick sends.
LEMMA TicksSend ==
  ASSUME Calm, FirstMessage, NEW p \in Senders, NEW r \in Recipients, StartSend(p, r)
  PROVE  p \in Workers
<1>1. Fresh(r) BY DEF Calm, Fresh
<1>2. Owes(p, r) BY DEF StartSend, Owes
<1> QED BY <1>1, <1>2 DEF FirstMessage

\* A step that leaves the lists of the ticks alone and makes nobody pending.
LEMMA SameLists ==
  ASSUME TypeInv, OneBatchLeft,
         UNCHANGED revived, \A w \in Workers : todo'[w] = todo[w] \/ todo'[w] = {},
         \A r \in Recipients : /\ recipient'[r] = "pending" => recipient[r] = "pending"
                               /\ recipient'[r] = "cancelled" =>
                                    \/ recipient[r] = "cancelled"
                                    \/ \A s \in Recipients : recipient'[s] # "pending",
         launches' = 0 => launches = 0,
         \A l \in Launchers : Launching(l)' => Launching(l) \/ launches = 0
  PROVE  OneBatchLeft'
<1> USE DEF TypeInv, TypeOK, Procs, Senders
<1>1. \A w, v \in Workers : todo'[w] # {} /\ todo'[v] # {} => w = v
  BY DEF OneBatchLeft
<1>2. revived' <= BatchSize BY DEF OneBatchLeft
<1>3. ASSUME NEW w \in Workers PROVE revived' + Cardinality(todo'[w]) <= BatchSize
  <2>1. CASE todo'[w] = todo[w] BY <2>1 DEF OneBatchLeft
  <2>2. CASE todo'[w] = {}
    <3>1. Cardinality(todo'[w]) = 0 BY <2>2, FS_EmptySet
    <3> QED BY <1>2, <3>1
  <2> QED BY <2>1, <2>2
<1>4. ASSUME NEW s \in Recipients, recipient'[s] = "pending"
      PROVE  /\ revived' = 0
             /\ \A w \in Workers : \A r \in todo'[w] : recipient'[r] # "cancelled"
  BY <1>4 DEF OneBatchLeft
<1>5. (launches' = 0 => revived' = 0) /\ \A l \in Launchers : Launching(l)' => revived' = 0
  BY DEF OneBatchLeft
<1> QED BY <1>1, <1>2, <1>3, <1>4, <1>5 DEF OneBatchLeft

\* A cancelled recipient is sent to only while nobody is pending.
LEMMA SendLists ==
  ASSUME TypeInv, Calm, FirstMessage, OneBatchLeft, QuietUntilStarted,
         NEW w \in Workers, NEW r \in Recipients, StartSend(w, r)
  PROVE  OneBatchLeft'
<1> USE DEF TypeInv, TypeOK, Procs, Senders
<1>1. /\ r \in todo[w] /\ todo' = [todo EXCEPT ![w] = @ \ {r}]
      /\ recipient' = [recipient EXCEPT ![r] = "sending"]
      /\ launches' = launches /\ pc[w] = "send" /\ pc' = [pc EXCEPT ![w] = "rpc"]
      /\ revived' = IF recipient[r] = "cancelled" THEN revived + 1 ELSE revived
  BY DEF StartSend, Goto
<1>2. todo'[w] = todo[w] \ {r} /\ \A v \in Workers : v # w => todo'[v] = {} /\ todo[v] = {}
  BY <1>1 DEF OneBatchLeft
<1>3. revived' \in Nat /\ revived' <= revived + 1 BY <1>1
<1>4. revived + Cardinality(todo[w]) <= BatchSize BY DEF OneBatchLeft
<1>5. /\ Cardinality(todo[w]) \in Nat /\ Cardinality(todo[w]) >= 1
      /\ Cardinality(todo'[w]) = Cardinality(todo[w]) - 1
  BY <1>1, <1>2, ListFacts
<1>6. revived' + Cardinality(todo'[w]) <= BatchSize /\ revived' <= BatchSize
  BY <1>3, <1>4, <1>5, BatchSizeAssumption
<1>7. ASSUME NEW v \in Workers PROVE revived' + Cardinality(todo'[v]) <= BatchSize
  <2>1. CASE v = w BY <1>6, <2>1
  <2>2. CASE v # w
    <3>1. Cardinality(todo'[v]) = 0 BY <1>2, <2>2, FS_EmptySet
    <3> QED BY <1>3, <1>6, <3>1
  <2> QED BY <2>1, <2>2
<1>8. ASSUME NEW s \in Recipients, recipient'[s] = "pending"
      PROVE  /\ revived' = 0
             /\ \A v \in Workers : \A q \in todo'[v] : recipient'[q] # "cancelled"
  <2>1. /\ recipient[s] = "pending" /\ revived = 0
        /\ \A v \in Workers : \A q \in todo[v] : recipient[q] # "cancelled"
    BY <1>1, <1>8 DEF OneBatchLeft
  <2> QED BY <1>1, <1>2, <2>1
<1>9. launches' # 0 /\ \A l \in Launchers : ~Launching(l)'
  BY <1>1, ProcsAssumption DEF QuietUntilStarted, Quiet, Calm, Undisturbed, Launching
<1>10. \A v, u \in Workers : todo'[v] # {} /\ todo'[u] # {} => v = u
  BY <1>2
<1> QED BY <1>6, <1>7, <1>8, <1>9, <1>10 DEF OneBatchLeft

\* A tick that finds somebody pending is the only one in a batch.
LEMMA LoadLists ==
  ASSUME TypeInv, ClaimProtects, Calm, Lists, OneBatchLeft, NEW w \in Workers, Load(w)
  PROVE  OneBatchLeft'
<1> USE DEF TypeInv, TypeOK, Procs, Senders
<1> DEFINE pending == {r \in Recipients : recipient[r] = "pending"}
<1>1. PICK batch \in SUBSET pending :
        /\ Cardinality(batch) <= BatchSize
        /\ todo' = [todo EXCEPT ![w] = batch]
        /\ Goto(w, IF batch = {} THEN "count" ELSE "send")
  BY DEF Load
<1>2. UNCHANGED <<recipient, revived, launches>> /\ pc[w] = "load" /\ todo[w] = {}
  BY DEF Load, db, history, Lists
<1>3. \A l \in Launchers : Launching(l)' => Launching(l)
  BY <1>1, ProcsAssumption DEF Goto, Launching
<1>4. CASE batch = {}
  <2>1. \A v \in Workers : todo'[v] = todo[v] BY <1>1, <1>2, <1>4
  <2> QED BY <1>2, <1>3, <2>1, SameLists
<1>5. CASE batch # {}
  <2>1. revived = 0 /\ \A v \in Workers : v # w => todo[v] = {}
    <3>1. \E r \in Recipients : Fresh(r) /\ recipient[r] = "pending"
      BY <1>5 DEF Calm, Fresh
    <3>2. \A v \in Workers : InBatch(v) => v = w
      BY <1>2, <3>1 DEF ClaimProtects, InBatch
    <3>3. \A v \in Workers : v # w => todo[v] = {}
      BY <3>2 DEF Lists, InBatch
    <3> QED BY <3>1, <3>3 DEF OneBatchLeft
  <2>2. todo'[w] = batch /\ \A v \in Workers : v # w => todo'[v] = {}
    BY <1>1, <2>1
  <2>3. batch \subseteq Recipients OBVIOUS
  <2>4. Cardinality(batch) \in Nat
    BY <2>3, RecipientsAssumption, FS_Subset, FS_CardinalityType
  <2>5. ASSUME NEW v \in Workers PROVE revived' + Cardinality(todo'[v]) <= BatchSize
    <3>1. CASE v = w
      <4>1. Cardinality(todo'[v]) = Cardinality(batch) BY <2>2, <3>1
      <4> QED BY <1>1, <1>2, <2>1, <2>4, <4>1, BatchSizeAssumption
    <3>2. CASE v # w
      <4>1. Cardinality(todo'[v]) = 0 BY <2>2, <3>2, FS_EmptySet
      <4> QED BY <1>2, <2>1, <4>1, BatchSizeAssumption
    <3> QED BY <3>1, <3>2
  <2>6. \A v \in Workers : \A r \in todo'[v] : recipient'[r] # "cancelled"
    BY <1>2, <2>2
  <2>7. revived' = 0 BY <1>2, <2>1
  <2> QED BY <2>2, <2>5, <2>6, <2>7, BatchSizeAssumption DEF OneBatchLeft
<1> QED BY <1>4, <1>5

LEMMA BatchStep ==
  TypeInv /\ Places /\ Lists /\ QuietUntilStarted /\ Calm /\ Calm' /\ ClaimProtects
    /\ FirstMessage /\ OneBatchLeft /\ [Next]_vars => OneBatchLeft'
<1> SUFFICES ASSUME TypeInv, Places, Lists, QuietUntilStarted, Calm, Calm', ClaimProtects,
                    FirstMessage, OneBatchLeft, [Next]_vars
             PROVE OneBatchLeft'
  OBVIOUS
<1> DEFINE same ==
      /\ UNCHANGED revived
      /\ \A w \in Workers : todo'[w] = todo[w] \/ todo'[w] = {}
      /\ \A r \in Recipients : /\ recipient'[r] = "pending" => recipient[r] = "pending"
                               /\ recipient'[r] = "cancelled" =>
                                    \/ recipient[r] = "cancelled"
                                    \/ \A s \in Recipients : recipient'[s] # "pending"
      /\ launches' = 0 => launches = 0
      /\ \A l \in Launchers : Launching(l)' => Launching(l) \/ launches = 0
<1>0. same => OneBatchLeft'
  BY SameLists
<1> USE ProcsAssumption DEF TypeInv, TypeOK, Places, Senders, Procs, db, local, history, Goto,
                            Finish
<1>1. CASE UNCHANGED vars
  <2>1. same BY <1>1 DEF vars, Launching
  <2> QED BY <1>0, <2>1
<1>2. CASE SendNext
  <2>1. ASSUME NEW p \in Senders, NEW r \in Recipients, StartSend(p, r) PROVE OneBatchLeft'
    BY <2>1, TicksSend, SendLists
  <2>2. ASSUME NEW p \in Senders, (\E o \in RpcOutcome : Rpc(p, o)) \/ SaveOutcome(p)
        PROVE OneBatchLeft'
    <3>1. same BY <2>2 DEF Rpc, SaveOutcome, Launching
    <3> QED BY <1>0, <3>1
  <2> QED BY <1>2, <2>1, <2>2 DEF SendNext
<1>3. CASE WorkerNext
  <2>1. ASSUME NEW w \in Workers, Load(w) PROVE OneBatchLeft'
    BY <2>1, LoadLists
  <2>2. ASSUME NEW w \in Workers, Claim(w) \/ Delay(w) \/ Count(w) \/ Complete(w)
        PROVE OneBatchLeft'
    <3>1. same BY <2>2 DEF Claim, Delay, Count, Complete, Launching
    <3> QED BY <1>0, <3>1
  <2> QED BY <1>3, <2>1, <2>2 DEF WorkerNext
<1>4. CASE DelayElapses \/ ClaimElapses
  <2>1. same BY <1>4 DEF DelayElapses, ClaimElapses, Launching
  <2> QED BY <1>0, <2>1
<1>5. CASE LaunchNext
  <2>1. ASSUME NEW l \in Launchers, NEW r \in Recipients, LaunchInsert(l, r)
        PROVE OneBatchLeft'
    <3>1. Launching(l) /\ launches <= 1 BY <2>1 DEF LaunchInsert, Launching, Calm, Undisturbed
    <3>2. revived = 0 /\ \A w \in Workers : todo[w] = {}
      BY <3>1 DEF OneBatchLeft, QuietUntilStarted, Quiet, Lists
    <3>3. revived' = 0 /\ \A w \in Workers : todo'[w] = {}
      BY <2>1, <3>2 DEF LaunchInsert
    <3>4. \A w \in Workers : Cardinality(todo'[w]) = 0 BY <3>3, FS_EmptySet
    <3> QED BY <3>3, <3>4, BatchSizeAssumption DEF OneBatchLeft
  <2>2. ASSUME NEW l \in Launchers,
               \/ LaunchRead(l) \/ LaunchCheck(l) \/ LaunchBuild(l) \/ LaunchPreview(l)
               \/ LaunchReject(l) \/ LaunchThrow(l) \/ LaunchStart(l)
        PROVE OneBatchLeft'
    <3>1. same
      <4>1. CASE LaunchRead(l)
        <5>1. launches = 0
          BY <4>1 DEF LaunchRead, Calm, Undisturbed
        <5> QED BY <4>1, <5>1 DEF LaunchRead
      <4>2. CASE LaunchPreview(l) BY <4>2 DEF LaunchPreview, Launching
      <4>3. CASE LaunchCheck(l) \/ LaunchBuild(l) \/ LaunchReject(l)
        BY <4>3 DEF LaunchCheck, LaunchBuild, LaunchReject, Launching
      <4>4. CASE LaunchThrow(l) \/ LaunchStart(l)
        BY <4>4 DEF LaunchThrow, LaunchStart, Launching
      <4> QED BY <2>2, <4>1, <4>2, <4>3, <4>4
    <3> QED BY <1>0, <3>1
  <2> QED BY <1>5, <2>1, <2>2 DEF LaunchNext
<1>6. CASE CancelNext
  <2>1. same BY <1>6 DEF CancelNext, CancelRead, CancelMark, CancelSave, Launching, Unsettled
  <2> QED BY <1>0, <2>1
<1>7. CASE RetryNext
  <2>1. ASSUME NEW t \in Retriers, RetryRequeue(t) PROVE FALSE
    <3>1. cur[t] \in Recipients BY <2>1 DEF RetryRequeue, Held
    <3>2. retries'[cur[t]] = retries[cur[t]] + 1 BY <2>1, <3>1 DEF RetryRequeue
    <3> QED BY <3>1, <3>2 DEF Calm
  <2>2. same
    BY <1>7, <2>1 DEF RetryNext, RetryRead, RetryFind, RetryConflict, RetryReopen, Launching
  <2> QED BY <1>0, <2>2
<1>8. CASE HookNext
  <2>1. same
    BY <1>8 DEF HookNext, HookRead, HookApply, HookSeen, ReceiptStatus, Launching
  <2> QED BY <1>0, <2>1
<1>9. ASSUME NEW p \in Procs, Abort(p) PROVE OneBatchLeft'
  <2>1. same BY <1>9 DEF Abort, Launching
  <2> QED BY <1>0, <2>1
<1> QED
  BY <1>1, <1>2, <1>3, <1>4, <1>5, <1>6, <1>7, <1>8, <1>9 DEF Next

\* However a cancellation, the batch under way, ticks, receipts and deaths meet: as
\* long as no batch outlives its claim, nobody is retried and the campaign was
\* launched once, no more cancelled recipients get the message than a batch has.
THEOREM CancelLeaksOneBatchCorrect == Spec => []CancelLeaksOneBatch
<1> DEFINE I == OneMessageInv /\ QuietUntilStarted /\ Lists /\ (Calm => OneBatchLeft)
<1>1. Init => I
  <2> SUFFICES ASSUME Init PROVE I
    OBVIOUS
  <2>1. OneMessageInv /\ QuietUntilStarted /\ Lists
    BY InitTypeInv DEF Init, OneMessageInv, Places, Undisturbed, QuietUntilStarted, Quiet,
       Launching, ClaimProtects, FirstMessage, Owes, InBatch, Lists, Senders, Procs
  <2>2. \A w \in Workers : todo[w] = {} BY DEF Init, Procs, Senders
  <2>3. \A w \in Workers : Cardinality(todo[w]) = 0 BY <2>2, FS_EmptySet
  <2>4. revived = 0 /\ \A r \in Recipients : recipient[r] # "pending"
    BY DEF Init
  <2>5. \A w \in Workers : revived + Cardinality(todo[w]) <= BatchSize
    BY <2>3, <2>4, BatchSizeAssumption
  <2> QED BY <2>1, <2>2, <2>4, <2>5, BatchSizeAssumption DEF OneBatchLeft
<1>2. I /\ [Next]_vars => I'
  <2> SUFFICES ASSUME I, [Next]_vars PROVE I'
    OBVIOUS
  <2>1. OneMessageInv' /\ QuietUntilStarted' /\ Lists'
    BY OneMessageStep, QuietStep, ListsStep DEF OneMessageInv
  <2>2. ASSUME Calm' PROVE OneBatchLeft'
    BY <2>2, CalmBefore, BatchStep DEF OneMessageInv, Calm
  <2> QED BY <2>1, <2>2
<1>3. I => CancelLeaksOneBatch
  BY DEF CancelLeaksOneBatch, Calm, Undisturbed, OneBatchLeft
<1> QED
  BY <1>1, <1>2, <1>3, PTL DEF Spec

=============================================================================
