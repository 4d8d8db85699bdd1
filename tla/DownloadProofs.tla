--------------------------- MODULE DownloadProofs ---------------------------
(***************************************************************************)
(* Theorems about Download, for every set of hosts, every number of        *)
(* workers per host and of segments, counter width and timeout limit.      *)
(***************************************************************************)
EXTENDS Download, TLAPS

-----------------------------------------------------------------------------
(* Type correctness.                                                       *)

(* Adding one to an Int8 gives an Int8.                                    *)
LEMMA Int8Closed ==
    ASSUME NEW x \in Int8
    PROVE  ToInt8(x + 1) \in Int8
BY Int8Assumption DEF Int8, ToInt8

(* increase_timeout_counter keeps the counters Int8s.                      *)
LEMMA IncreaseTyped ==
    ASSUME HostTypeOK, NEW h \in Hosts, IncreaseTimeoutCounter(h)
    PROVE  HostTypeOK'
<1> DEFINE count == ToInt8(timeout_counter[h] + 1)
<1>1. count \in Int8
  BY Int8Closed DEF HostTypeOK
<1>2. timeout_counter' = [timeout_counter EXCEPT ![h] = count]
  BY DEF IncreaseTimeoutCounter
<1>3. (count >= TIMEOUT_COUNTER_LIMIT) \in BOOLEAN
  BY <1>1, LimitAssumption, Int8Assumption DEF Int8
<1>4. ban' = [ban EXCEPT ![h] = ban[h] \/ count >= TIMEOUT_COUNTER_LIMIT]
  BY DEF IncreaseTimeoutCounter
<1> HIDE DEF count
<1>5. timeout_counter' \in [Hosts -> Int8]
  BY <1>1, <1>2 DEF HostTypeOK
<1>6. ban' \in [Hosts -> BOOLEAN]
  BY <1>3, <1>4, Zenon DEF HostTypeOK
<1>7. QED
  BY <1>5, <1>6 DEF HostTypeOK

(* set_segment and unset_busy keep the bookkeeping of the resource typed.  *)
LEMMA SetSegmentTyped ==
    ASSUME ResourceTypeOK(Workers), NEW s \in Segments, SetSegment(s)
    PROVE  ResourceTypeOK(Workers)'
BY Uint16Assumption DEF ResourceTypeOK, SetSegment

(* unset_busy, for whatever id the caller passes.                          *)
LEMMA UnsetBusyTyped ==
    ASSUME ResourceTypeOK(Workers), NEW s, UnsetBusy(s)
    PROVE  ResourceTypeOK(Workers)'
BY DEF ResourceTypeOK, UnsetBusy, NotifyOne

(* The steps of a worker's thread, by what they change besides pc.         *)
LEMMA WorkerTyped ==
    ASSUME TypeOK, NEW w \in Workers, WorkerStep(w) \/ ReceiveEnds(w) \/ Wakeup(w),
           pc[w] \in {"set", "failed", "receive"} => seg[w] \in Segments
    PROVE  TypeOK'
<1> USE DEF TypeOK, Goto, peerVars, hostVars, resourceVars, serviceVars, checkVars, resultVars,
            flagVars, workerVars, WorkerStates, SegmentIds
<1>1. CASE \/ Connected(w) \/ ConnectFails(w) \/ Proceed(w) \/ LeaveClosed(w)
           \/ NoSegmentLeft(w) \/ NotCompleted(w) \/ RequestSegment(w)
           \/ RequestFails(w) \/ ReceiveFails(w)
  BY <1>1 DEF Connected, ConnectFails, Proceed, LeaveClosed, NoSegmentLeft,
     NotCompleted, RequestSegment, RequestFails, ReceiveFails, HostTypeOK, ResourceTypeOK
<1>2. CASE OpenSocket(w)
  BY <1>2 DEF OpenSocket, HostTypeOK, ResourceTypeOK
<1>3. CASE \E s \in Segments : GetSegment(w, s)
  BY <1>3 DEF GetSegment, TakeSegment, HostTypeOK, ResourceTypeOK
<1>4. CASE WaitForSegment(w)
  BY <1>4 DEF WaitForSegment, Wait, HostTypeOK, ResourceTypeOK
<1>5. CASE OwnSegment(w)
  BY <1>5 DEF OwnSegment, HostTypeOK, ResourceTypeOK
<1>6. CASE ClearTimeouted(w)
  BY <1>6 DEF ClearTimeouted, HostTypeOK, ResourceTypeOK
<1>7. CASE CompleteSegment(w)
  BY <1>7, SetSegmentTyped DEF CompleteSegment, HostTypeOK
<1>8. CASE GiveBack(w)
  BY <1>8, UnsetBusyTyped DEF GiveBack, HostTypeOK
<1>9. CASE WorkerTerminated(w)
  BY <1>9 DEF WorkerTerminated, HostTypeOK, ResourceTypeOK
<1>10. CASE ReceiveSegment(w)
  BY <1>10 DEF ReceiveSegment, HostTypeOK, ResourceTypeOK
<1>11. CASE Wakeup(w)
  BY <1>11 DEF Wakeup, SpuriousWakeup, HostTypeOK, ResourceTypeOK
<1>12. CASE GiveBackCrashes(w)
  BY <1>12 DEF GiveBackCrashes, ServiceStates, HostTypeOK, ResourceTypeOK
<1>13. QED
  BY <1>1, <1>2, <1>3, <1>4, <1>5, <1>6, <1>7, <1>8, <1>9, <1>10, <1>11, <1>12
     DEF WorkerStep, ReceiveEnds

(* The steps of the service's thread, and the end of a ban.                *)
LEMMA ServiceTyped ==
    ASSUME TypeOK, ServiceStep \/ TimeoutFires \/ \E h \in Hosts : BanOver(h)
    PROVE  TypeOK'
<1> USE DEF TypeOK, Visit, peerVars, hostVars, resourceVars, checkVars, resultVars, flagVars,
            workerVars, serviceVars, WorkerStates, ServiceStates, SegmentIds
<1>1. CASE \E candidates \in SUBSET Workers : CreateWorkers(candidates)
  BY <1>1 DEF CreateWorkers, HostTypeOK, ResourceTypeOK
<1>2. CASE \E w \in Workers : InitWorker(w)
  BY <1>2 DEF InitWorker, HostTypeOK, ResourceTypeOK
<1>3. CASE \E w \in Workers : SurveyAvailable(w) \/ SurveyUnavailable(w)
  BY <1>3 DEF SurveyAvailable, SurveyUnavailable, HostTypeOK, ResourceTypeOK
<1>4. CASE \E w \in Workers : RaiseTimeouted(w)
  BY <1>4 DEF RaiseTimeouted, HostTypeOK, ResourceTypeOK
<1>5. CASE \E w \in Workers : ReadOwned(w)
  BY <1>5 DEF ReadOwned, HostTypeOK, ResourceTypeOK
<1>6. CASE \E w \in Workers : ReleaseOwned(w)
  BY <1>6, UnsetBusyTyped DEF ReleaseOwned, HostTypeOK
<1>7. CASE \E w \in Workers : CloseWorker(w) \/ CloseUnopened(w)
  BY <1>7 DEF CloseWorker, CloseUnopened, HostTypeOK, ResourceTypeOK
<1>8. CASE DownloadCompleted \/ IntervalOver \/ ReleaseOutOfRange
  BY <1>8 DEF DownloadCompleted, IntervalOver, ReleaseOutOfRange, HostTypeOK,
     ResourceTypeOK
<1>9. CASE AddFile \/ StoreResource \/ JoinWorkers
  BY <1>9 DEF AddFile, StoreResource, JoinWorkers, HostTypeOK, ResourceTypeOK
<1>10. CASE TimeoutFires
  BY <1>10, IncreaseTyped DEF TimeoutFires, ChargeHost, ResourceTypeOK
<1>11. CASE \E h \in Hosts : BanOver(h)
  BY <1>11 DEF BanOver, BanExpires, HostTypeOK, ResourceTypeOK
<1>12. QED
  BY <1>1, <1>2, <1>3, <1>4, <1>5, <1>6, <1>7, <1>8, <1>9, <1>10, <1>11
     DEF ServiceStep

-----------------------------------------------------------------------------
(* Safety of every download.  NoLeakedSegment alone is not inductive: it   *)
(* takes that the segment a worker releases is the one it holds.           *)

(* A worker between get_segment and set_segment holds a real segment, and  *)
(* owned_segment_id names it from the line after get_segment on.           *)
HoldsOwned ==
    \A w \in Workers :
        /\ pc[w] \in Holding => seg[w] \in Segments
        /\ pc[w] \in Holding \ {"got"} => owned_segment_id[w] = seg[w]

(* A worker past receive_segment has put its segment into the buffer.      *)
DataInHand == \A w \in Workers : pc[w] \in {"received", "set"} => seg[w] \in received

(* init_workers starts threads that were not started before.               *)
NotStarted ==
    /\ svc = "create" => \A w \in Workers : pc[w] = "unborn"
    /\ svc = "init" => \A w \in todo : pc[w] = "unborn"

SafetyInv ==
    /\ TypeOK
    /\ NotStarted
    /\ HoldsOwned
    /\ DataInHand
    /\ NoLeakedSegment
    /\ CompletedHasData

(* A download that has not begun satisfies the invariant.                  *)
LEMMA SafetyInit == Init => SafetyInv
<1> SUFFICES ASSUME Init PROVE SafetyInv
  OBVIOUS
<1>1. 0 \in Int8 /\ 0 \in 0..Uint16Max
  BY Int8Assumption, Uint16Assumption DEF Int8
<1>2. TypeOK
  BY <1>1, StartAssumption DEF Init, HostInit, ResourceInit, TypeOK, HostTypeOK, ResourceTypeOK,
              WorkerStates, ServiceStates, SegmentIds
<1>3. NotStarted /\ HoldsOwned /\ DataInHand
  BY DEF Init, NotStarted, HoldsOwned, DataInHand, Holding
<1>4. NoLeakedSegment /\ CompletedHasData
  BY DEF Init, ResourceInit, NoLeakedSegment, CompletedHasData
<1>5. QED
  BY <1>2, <1>3, <1>4 DEF SafetyInv

(* A step of a worker w keeps the relation between what it holds, what it  *)
(* owns and what is busy.                                                  *)
LEMMA WorkerSafe ==
    ASSUME SafetyInv, NEW w \in Workers, WorkerStep(w) \/ ReceiveEnds(w) \/ Wakeup(w)
    PROVE  /\ NotStarted' /\ HoldsOwned' /\ DataInHand'
           /\ NoLeakedSegment' /\ CompletedHasData'
<1> USE DEF SafetyInv, TypeOK, NotStarted, HoldsOwned, DataInHand, NoLeakedSegment,
            CompletedHasData,
            Holds, Holding, Goto, resourceVars, serviceVars, flagVars
<1>1. CASE \/ Connected(w) \/ ConnectFails(w) \/ Proceed(w) \/ LeaveClosed(w)
           \/ NoSegmentLeft(w) \/ NotCompleted(w)
  BY <1>1 DEF Connected, ConnectFails, Proceed, LeaveClosed, NoSegmentLeft, NotCompleted
<1>2. CASE RequestSegment(w) \/ RequestFails(w) \/ ReceiveFails(w)
  BY <1>2 DEF RequestSegment, RequestFails, ReceiveFails
<1>3. CASE OpenSocket(w)
  BY <1>3 DEF OpenSocket
<1>4. ASSUME NEW s \in Segments, GetSegment(w, s)
      PROVE  /\ NotStarted' /\ HoldsOwned' /\ DataInHand'
             /\ NoLeakedSegment' /\ CompletedHasData'
  BY <1>4 DEF GetSegment, TakeSegment
<1>5. CASE WaitForSegment(w)
  BY <1>5 DEF WaitForSegment, Wait
<1>6. CASE OwnSegment(w)
  BY <1>6 DEF OwnSegment
<1>7. CASE ClearTimeouted(w)
  BY <1>7 DEF ClearTimeouted
<1>8. CASE CompleteSegment(w)
  BY <1>8 DEF CompleteSegment, SetSegment
<1>9. CASE GiveBack(w)
  BY <1>9 DEF GiveBack, UnsetBusy
<1>10. CASE WorkerTerminated(w)
  BY <1>10 DEF WorkerTerminated
<1>11. CASE ReceiveSegment(w)
  BY <1>11 DEF ReceiveSegment
<1>12. CASE Wakeup(w)
  BY <1>12 DEF Wakeup, SpuriousWakeup, workerVars
<1>13. CASE GiveBackCrashes(w)
  BY <1>13 DEF GiveBackCrashes, workerVars
<1>14. QED
  BY <1>1, <1>2, <1>3, <1>4, <1>5, <1>6, <1>7, <1>8, <1>9, <1>10, <1>11, <1>12, <1>13
     DEF WorkerStep, ReceiveEnds

(* The service never marks a segment busy and never moves a worker that    *)
(* holds one, so it can only help NoLeakedSegment.                         *)
LEMMA ServiceSafe ==
    ASSUME SafetyInv, ServiceStep \/ TimeoutFires \/ \E h \in Hosts : BanOver(h)
    PROVE  /\ NotStarted' /\ HoldsOwned' /\ DataInHand'
           /\ NoLeakedSegment' /\ CompletedHasData'
<1> DEFINE Kept ==
      /\ busy_segments' \subseteq busy_segments
      /\ UNCHANGED <<completed_segments, seg, owned_segment_id, received>>
<1> USE DEF Visit, resourceVars, workerVars, serviceVars, flagVars
<1>1. CASE \E w \in Workers : InitWorker(w)
  <2>1. PICK w \in Workers : InitWorker(w)
    BY <1>1
  <2>2. pc[w] = "unborn" /\ w \in todo
    BY <2>1 DEF InitWorker, SafetyInv, NotStarted
  <2>3. Kept /\ pc' = [pc EXCEPT ![w] = "connect"]
    BY <2>1 DEF InitWorker
  <2>4. NotStarted'
    BY <2>1, <2>2 DEF InitWorker, SafetyInv, NotStarted, TypeOK
  <2>5. QED
    BY <2>2, <2>3, <2>4 DEF SafetyInv, HoldsOwned, DataInHand, NoLeakedSegment,
       CompletedHasData, Holds, Holding, TypeOK
<1>2. ASSUME Kept, pc' = pc, NotStarted'
      PROVE  /\ NotStarted' /\ HoldsOwned' /\ DataInHand'
             /\ NoLeakedSegment' /\ CompletedHasData'
  BY <1>2 DEF SafetyInv, HoldsOwned, DataInHand, NoLeakedSegment, CompletedHasData,
     Holds, TypeOK
<1>3. CASE \E candidates \in SUBSET Workers : CreateWorkers(candidates)
  <2>1. Kept /\ pc' = pc /\ todo' \subseteq Workers
    BY <1>3 DEF CreateWorkers
  <2>2. NotStarted'
    BY <1>3, <2>1 DEF CreateWorkers, SafetyInv, NotStarted
  <2>3. QED
    BY <1>2, <2>1, <2>2
<1>4. CASE \E h \in Hosts : BanOver(h)
  <2>1. Kept /\ pc' = pc /\ svc' = svc /\ todo' = todo
    BY <1>4 DEF BanOver
  <2>2. QED
    BY <1>2, <2>1 DEF SafetyInv, NotStarted
<1>5. CASE \/ \E w \in Workers : \/ SurveyAvailable(w) \/ SurveyUnavailable(w)
                               \/ RaiseTimeouted(w) \/ ReadOwned(w)
                               \/ CloseWorker(w) \/ CloseUnopened(w)
           \/ DownloadCompleted \/ IntervalOver \/ ReleaseOutOfRange
           \/ AddFile \/ StoreResource \/ JoinWorkers
  <2>1. Kept /\ pc' = pc /\ svc' \notin {"create", "init"}
    BY <1>5 DEF SurveyAvailable, SurveyUnavailable, RaiseTimeouted, ReadOwned,
       CloseWorker, CloseUnopened, DownloadCompleted, IntervalOver,
       ReleaseOutOfRange, AddFile, StoreResource, JoinWorkers
  <2>2. QED
    BY <1>2, <2>1 DEF NotStarted
<1>6. CASE \E w \in Workers : ReleaseOwned(w) \/ ChargeHost(w)
  <2>1. Kept /\ pc' = pc /\ svc' \notin {"create", "init"}
    BY <1>6 DEF ReleaseOwned, UnsetBusy, ChargeHost
  <2>2. QED
    BY <1>2, <2>1 DEF NotStarted
<1>7. QED
  BY <1>1, <1>3, <1>4, <1>5, <1>6 DEF ServiceStep, TimeoutFires

(* Every step of every thread preserves the invariant.                     *)
LEMMA SafetyStep == SafetyInv /\ [Next]_vars => SafetyInv'
<1> SUFFICES ASSUME SafetyInv, [Next]_vars PROVE SafetyInv'
  OBVIOUS
<1>1. CASE \E w \in Workers : WorkerStep(w) \/ ReceiveEnds(w) \/ Wakeup(w)
  <2>1. PICK w \in Workers : WorkerStep(w) \/ ReceiveEnds(w) \/ Wakeup(w)
    BY <1>1
  <2>2. pc[w] \in {"set", "failed", "receive"} => seg[w] \in Segments
    BY DEF SafetyInv, HoldsOwned, Holding
  <2>3. TypeOK'
    BY <2>1, <2>2, WorkerTyped DEF SafetyInv
  <2>4. QED
    BY <2>1, <2>3, WorkerSafe DEF SafetyInv
<1>2. CASE ServiceStep \/ TimeoutFires \/ \E h \in Hosts : BanOver(h)
  <2>1. TypeOK'
    BY <1>2, ServiceTyped DEF SafetyInv
  <2>2. QED
    BY <1>2, <2>1, ServiceSafe DEF SafetyInv
<1>3. CASE Over \/ UNCHANGED vars
  BY <1>3 DEF Over, vars, peerVars, hostVars, resourceVars, workerVars, serviceVars, flagVars,
     checkVars, resultVars, SafetyInv, TypeOK, HostTypeOK, ResourceTypeOK, NotStarted,
     HoldsOwned, DataInHand, NoLeakedSegment, CompletedHasData, Holds
<1>4. QED
  BY <1>1, <1>2, <1>3 DEF Next, QuietNext

(* The inductive invariant of all downloads, timeouts included: it relates *)
(* what each worker thread holds, the busy bits of get_segment and         *)
(* unset_busy, and the data buffer filled by receive_segment.              *)
THEOREM SafetyInvariant == Spec => []SafetyInv
BY SafetyInit, SafetyStep, PTL DEF Spec

(* Every variable keeps its type in every download.                        *)
THEOREM TypeCorrect == Spec => []TypeOK
<1>1. SafetyInv => TypeOK
  BY DEF SafetyInv
<1>2. QED
  BY <1>1, SafetyInvariant, PTL

(* No interleaving of failures, timeouts and closing leaves a segment busy *)
(* with no worker left that would complete it or give it back.             *)
THEOREM NoSegmentLeaks == Spec => []NoLeakedSegment
<1>1. SafetyInv => NoLeakedSegment
  BY DEF SafetyInv
<1>2. QED
  BY <1>1, SafetyInvariant, PTL

(* A segment counts as completed only when its bytes are in the buffer.    *)
THEOREM CompletedImpliesReceived == Spec => []CompletedHasData
<1>1. SafetyInv => CompletedHasData
  BY DEF SafetyInv
<1>2. QED
  BY <1>1, SafetyInvariant, PTL
=============================================================================
