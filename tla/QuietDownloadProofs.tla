------------------------- MODULE QuietDownloadProofs -------------------------
(***************************************************************************)
(* Theorems about the downloads in which no timeout fires: the bookkeeping *)
(* of CompleteResource is exact, the stored file is complete, and the      *)
(* download implements SegmentTransfer.                                    *)
(***************************************************************************)
EXTENDS DownloadProofs, FiniteSetTheorems

(* What a worker holds is marked busy, and nothing busy is completed: with *)
(* no timeout, only the holder of a segment clears its busy bit.           *)
HeldIsBusy == \A w \in Workers : pc[w] \in Holding => seg[w] \in busy_segments
BusyNotCompleted == busy_segments \cap completed_segments = {}

(* The service stores a file only after it saw the download completed.     *)
CompleteBeforeStore == svc \in {"add_file", "store"} => completed_segments = Segments

Bookkeeping ==
    /\ svc \notin {"late", "unset"}
    /\ ExclusiveHolder
    /\ HeldIsBusy
    /\ BusyNotCompleted
    /\ CounterExact
    /\ CompleteBeforeStore
    /\ StoredIsComplete

QuietInv == SafetyInv /\ Bookkeeping

-----------------------------------------------------------------------------
(* There are SegmentsCount segments, and finitely many are completed.      *)
LEMMA SegmentsFinite ==
    /\ IsFiniteSet(Segments)
    /\ Cardinality(Segments) = SegmentsCount
<1>1. SegmentsCount \in Nat
  BY Uint16Assumption, SegmentsCountAssumption
<1>2. QED
  BY <1>1, FS_Interval DEF Segments

(* When as many segments are completed as there are, all of them are.      *)
LEMMA CompletedFinite ==
    ASSUME completed_segments \subseteq Segments
    PROVE  /\ IsFiniteSet(completed_segments)
           /\ Cardinality(completed_segments) \in Nat
           /\ Cardinality(completed_segments) <= SegmentsCount
           /\ Cardinality(completed_segments) = SegmentsCount
                => completed_segments = Segments
BY SegmentsFinite, FS_Subset, FS_CardinalityType

(* set_segment of a segment that is not completed counts it, and the       *)
(* Uint16 counter does not wrap round.                                     *)
LEMMA SetSegmentCounts ==
    ASSUME TypeOK, CounterExact, NEW s \in Segments, s \notin completed_segments,
           SetSegment(s)
    PROVE  CounterExact'
<1>1. completed_segments \subseteq Segments
  BY DEF TypeOK, ResourceTypeOK
<1>2. Cardinality(completed_segments) # SegmentsCount
  BY <1>1, CompletedFinite
<1>3. completed_counter # Uint16Max
  BY <1>1, <1>2, CompletedFinite, Uint16Assumption, SegmentsCountAssumption
     DEF CounterExact
<1>4. completed_counter' = completed_counter + 1
  BY <1>3 DEF SetSegment
<1>5. Cardinality(completed_segments \cup {s}) = Cardinality(completed_segments) + 1
  BY <1>1, CompletedFinite, FS_AddElement
<1>6. completed_segments' = completed_segments \cup {s}
  BY DEF SetSegment
<1>7. QED
  BY <1>4, <1>5, <1>6 DEF CounterExact

(* A download that has not begun satisfies the invariant.                  *)
LEMMA QuietInit == Init => QuietInv
<1> SUFFICES ASSUME Init PROVE QuietInv
  OBVIOUS
<1>1. SafetyInv
  BY SafetyInit
<1>2. CounterExact
  BY FS_EmptySet DEF Init, ResourceInit, CounterExact
<1>3. QED
  BY <1>1, <1>2 DEF Init, ResourceInit, QuietInv, Bookkeeping, ExclusiveHolder,
     HeldIsBusy,
     BusyNotCompleted, CompleteBeforeStore, StoredIsComplete, Holding

(* A worker takes only free segments, and completes or releases its own.   *)
LEMMA WorkerQuiet ==
    ASSUME QuietInv, NEW w \in Workers, WorkerStep(w) \/ ReceiveEnds(w) \/ Wakeup(w)
    PROVE  Bookkeeping'
<1> USE DEF Goto, serviceVars, resultVars, flagVars
<1>1. CASE \/ Connected(w) \/ ConnectFails(w) \/ Proceed(w) \/ LeaveClosed(w)
           \/ NoSegmentLeft(w) \/ NotCompleted(w) \/ OpenSocket(w)
           \/ WaitForSegment(w) \/ WorkerTerminated(w) \/ Wakeup(w)
  <2>1. /\ UNCHANGED <<busy_segments, completed_segments, completed_counter, seg>>
        /\ UNCHANGED <<svc, outcome, stored>>
        /\ \A v \in Workers : pc'[v] \in Holding => pc[v] \in Holding
    BY <1>1 DEF Connected, ConnectFails, Proceed, LeaveClosed, NoSegmentLeft,
       NotCompleted, OpenSocket, WaitForSegment, Wait, WorkerTerminated, Wakeup,
       SpuriousWakeup, workerVars, resourceVars, Holding, QuietInv, Bookkeeping,
       SafetyInv, TypeOK
  <2>2. QED
    BY <2>1 DEF QuietInv, Bookkeeping, ExclusiveHolder, HeldIsBusy, BusyNotCompleted,
       CounterExact, CompleteBeforeStore, StoredIsComplete
<1>2. CASE \/ OwnSegment(w) \/ RequestSegment(w) \/ RequestFails(w)
           \/ ReceiveSegment(w) \/ ReceiveFails(w) \/ ClearTimeouted(w)
  <2>1. /\ UNCHANGED <<busy_segments, completed_segments, completed_counter, seg>>
        /\ UNCHANGED <<svc, outcome, stored>>
        /\ \A v \in Workers : pc'[v] \in Holding => pc[v] \in Holding
    BY <1>2 DEF OwnSegment, RequestSegment, RequestFails, ReceiveSegment, ReceiveFails,
       ClearTimeouted, resourceVars, Holding, QuietInv, Bookkeeping, SafetyInv, TypeOK
  <2>2. QED
    BY <2>1 DEF QuietInv, Bookkeeping, ExclusiveHolder, HeldIsBusy, BusyNotCompleted,
       CounterExact, CompleteBeforeStore, StoredIsComplete
<1>3. ASSUME NEW s \in Segments, GetSegment(w, s)
      PROVE  Bookkeeping'
  <2>1. s \notin busy_segments /\ s \notin completed_segments
    BY <1>3 DEF GetSegment, TakeSegment, IsFirst, Downloadable
  <2>2. \A v \in Workers : pc[v] \in Holding => seg[v] # s
    BY <2>1 DEF QuietInv, Bookkeeping, HeldIsBusy
  <2>3. /\ busy_segments' = busy_segments \cup {s}
        /\ seg' = [seg EXCEPT ![w] = s]
        /\ pc' = [pc EXCEPT ![w] = "got"]
        /\ UNCHANGED <<completed_segments, completed_counter, svc, outcome, stored>>
    BY <1>3 DEF GetSegment, TakeSegment
  <2>4. ExclusiveHolder' /\ HeldIsBusy' /\ BusyNotCompleted'
    BY <2>1, <2>2, <2>3 DEF QuietInv, Bookkeeping, SafetyInv, TypeOK, ExclusiveHolder,
       HeldIsBusy,
       BusyNotCompleted
  <2>5. QED
    BY <2>3, <2>4 DEF QuietInv, Bookkeeping, CounterExact, CompleteBeforeStore,
       StoredIsComplete
<1>4. CASE CompleteSegment(w)
  <2> DEFINE s == seg[w]
  <2>1. s \in busy_segments /\ s \in Segments /\ s \notin completed_segments
    BY <1>4 DEF CompleteSegment, QuietInv, Bookkeeping, SafetyInv, HeldIsBusy,
       BusyNotCompleted,
       HoldsOwned, Holding
  <2>2. /\ busy_segments' = busy_segments \ {s}
        /\ completed_segments' = completed_segments \cup {s}
        /\ SetSegment(s)
        /\ seg' = [seg EXCEPT ![w] = NO_SEGMENT_ID]
        /\ pc' = [pc EXCEPT ![w] = "loop"]
        /\ UNCHANGED <<svc, outcome, stored>>
    BY <1>4 DEF CompleteSegment, SetSegment
  <2>3. \A v \in Workers : pc[v] \in Holding /\ v # w => seg[v] # s
    BY <1>4 DEF CompleteSegment, QuietInv, Bookkeeping, ExclusiveHolder, Holding
  <2>4. CounterExact'
    BY <2>1, <2>2, SetSegmentCounts DEF QuietInv, Bookkeeping, SafetyInv
  <2>5. ExclusiveHolder' /\ HeldIsBusy' /\ BusyNotCompleted'
    BY <2>1, <2>2, <2>3 DEF QuietInv, Bookkeeping, SafetyInv, TypeOK, ExclusiveHolder,
       HeldIsBusy,
       BusyNotCompleted, Holding
  <2>6. QED
    BY <2>1, <2>2, <2>4, <2>5 DEF QuietInv, Bookkeeping, CompleteBeforeStore,
       StoredIsComplete
<1>5. CASE GiveBack(w)
  <2> DEFINE s == seg[w]
  <2>1. owned_segment_id[w] = s
    BY <1>5 DEF GiveBack, QuietInv, Bookkeeping, SafetyInv, HoldsOwned, Holding
  <2>2. /\ busy_segments' = busy_segments \ {s}
        /\ seg' = [seg EXCEPT ![w] = NO_SEGMENT_ID]
        /\ pc' = [pc EXCEPT ![w] = "throw"]
        /\ UNCHANGED <<completed_segments, completed_counter, svc, outcome, stored>>
    BY <1>5, <2>1 DEF GiveBack, UnsetBusy
  <2>3. \A v \in Workers : pc[v] \in Holding /\ v # w => seg[v] # s
    BY <1>5 DEF GiveBack, QuietInv, Bookkeeping, ExclusiveHolder, Holding
  <2>4. ExclusiveHolder' /\ HeldIsBusy' /\ BusyNotCompleted'
    BY <2>2, <2>3 DEF QuietInv, Bookkeeping, SafetyInv, TypeOK, ExclusiveHolder,
       HeldIsBusy,
       BusyNotCompleted, Holding
  <2>5. QED
    BY <2>2, <2>4 DEF QuietInv, Bookkeeping, CounterExact, CompleteBeforeStore,
       StoredIsComplete
<1>6. CASE GiveBackCrashes(w)
  <2>1. /\ UNCHANGED <<busy_segments, completed_segments, completed_counter, seg, pc>>
        /\ UNCHANGED <<outcome, stored>> /\ svc' = "terminated"
    BY <1>6 DEF GiveBackCrashes, workerVars, resourceVars
  <2>2. QED
    BY <2>1 DEF QuietInv, Bookkeeping, ExclusiveHolder, HeldIsBusy, BusyNotCompleted,
       CounterExact, CompleteBeforeStore, StoredIsComplete
<1>7. QED
  BY <1>1, <1>2, <1>3, <1>4, <1>5, <1>6 DEF WorkerStep, ReceiveEnds

(* Without timeouts the service leaves the busy and completed bits alone.  *)
LEMMA ServiceQuiet ==
    ASSUME QuietInv, ServiceStep \/ \E h \in Hosts : BanOver(h)
    PROVE  Bookkeeping'
<1> DEFINE Same == UNCHANGED <<busy_segments, completed_segments, completed_counter, seg>>
<1> USE DEF Visit, resourceVars, workerVars, serviceVars, flagVars, resultVars
<1>1. ASSUME Same,
             \A w \in Workers : pc'[w] \in Holding => pc[w] \in Holding,
             svc' \notin {"late", "unset"}, CompleteBeforeStore', StoredIsComplete'
      PROVE  Bookkeeping'
  BY <1>1 DEF QuietInv, Bookkeeping, ExclusiveHolder, HeldIsBusy, BusyNotCompleted,
     CounterExact
<1>2. CASE \E w \in Workers : InitWorker(w)
  <2>1. /\ Same /\ UNCHANGED <<outcome, stored>>
        /\ svc' \notin {"late", "unset", "add_file", "store"}
        /\ \A w \in Workers : pc'[w] \in Holding => pc[w] \in Holding
    BY <1>2 DEF InitWorker, Holding, QuietInv, Bookkeeping, SafetyInv, TypeOK
  <2>2. QED
    BY <1>1, <2>1 DEF QuietInv, Bookkeeping, CompleteBeforeStore, StoredIsComplete
<1>3. CASE DownloadCompleted
  <2>1. completed_segments = Segments
    BY <1>3, CompletedFinite DEF DownloadCompleted, IsCompleted, QuietInv, Bookkeeping,
       SafetyInv,
       TypeOK, ResourceTypeOK, CounterExact
  <2>2. Same /\ UNCHANGED <<pc, outcome, stored>> /\ svc' = "add_file"
    BY <1>3 DEF DownloadCompleted
  <2>3. QED
    BY <1>1, <2>1, <2>2 DEF QuietInv, Bookkeeping, CompleteBeforeStore, StoredIsComplete
<1>4. CASE AddFile
  <2>1. Same /\ UNCHANGED <<pc, outcome, stored>> /\ svc = "add_file" /\ svc' = "store"
    BY <1>4 DEF AddFile
  <2>2. QED
    BY <1>1, <2>1 DEF QuietInv, Bookkeeping, CompleteBeforeStore, StoredIsComplete
<1>5. CASE StoreResource
  <2>1. Same /\ UNCHANGED pc /\ svc = "store" /\ svc' = "close"
    BY <1>5 DEF StoreResource
  <2>2. received = Segments
    BY <2>1 DEF QuietInv, Bookkeeping, CompleteBeforeStore, SafetyInv,
       CompletedHasData, TypeOK
  <2>3. StoredIsComplete'
    BY <1>5, <2>2 DEF StoreResource, StoredIsComplete
  <2>4. QED
    BY <1>1, <2>1, <2>3 DEF CompleteBeforeStore
<1>6. CASE \/ \E candidates \in SUBSET Workers : CreateWorkers(candidates)
           \/ \E w \in Workers : SurveyUnavailable(w)
  <2>1. /\ Same /\ UNCHANGED <<pc, stored>>
        /\ svc' \notin {"late", "unset", "add_file", "store"}
        /\ outcome' = outcome \/ outcome' = "failed"
    BY <1>6 DEF CreateWorkers, SurveyUnavailable
  <2>2. QED
    BY <1>1, <2>1 DEF QuietInv, Bookkeeping, CompleteBeforeStore, StoredIsComplete
<1>7. CASE \/ \E w \in Workers : \/ SurveyAvailable(w) \/ RaiseTimeouted(w)
                               \/ CloseWorker(w) \/ CloseUnopened(w)
           \/ IntervalOver \/ JoinWorkers
  <2>1. /\ Same /\ UNCHANGED <<pc, outcome, stored>>
        /\ svc' \notin {"late", "unset", "add_file", "store"}
    BY <1>7 DEF SurveyAvailable, RaiseTimeouted, CloseWorker, CloseUnopened,
       IntervalOver, JoinWorkers
  <2>2. QED
    BY <1>1, <2>1 DEF QuietInv, Bookkeeping, CompleteBeforeStore, StoredIsComplete
<1>8. CASE \/ \E w \in Workers : ReadOwned(w) \/ ReleaseOwned(w)
           \/ ReleaseOutOfRange
  BY <1>8 DEF ReadOwned, ReleaseOwned, ReleaseOutOfRange, QuietInv, Bookkeeping
<1>9. CASE \E h \in Hosts : BanOver(h)
  <2>1. Same /\ UNCHANGED <<pc, svc, outcome, stored>>
    BY <1>9 DEF BanOver
  <2>2. QED
    BY <1>1, <2>1 DEF QuietInv, Bookkeeping, CompleteBeforeStore, StoredIsComplete
<1>10. QED
  BY <1>2, <1>3, <1>4, <1>5, <1>6, <1>7, <1>8, <1>9 DEF ServiceStep

(* Every step other than a timeout preserves the invariant.                *)
LEMMA QuietStep == QuietInv /\ [QuietNext]_vars => QuietInv'
<1> SUFFICES ASSUME QuietInv, [QuietNext]_vars PROVE QuietInv'
  OBVIOUS
<1>1. SafetyInv'
  BY SafetyStep DEF QuietInv, Bookkeeping, Next
<1>2. CASE \E w \in Workers : WorkerStep(w) \/ ReceiveEnds(w) \/ Wakeup(w)
  BY <1>1, <1>2, WorkerQuiet DEF QuietInv, Bookkeeping
<1>3. CASE ServiceStep \/ \E h \in Hosts : BanOver(h)
  BY <1>1, <1>3, ServiceQuiet DEF QuietInv, Bookkeeping
<1>4. CASE Over \/ UNCHANGED vars
  BY <1>1, <1>4 DEF Over, vars, resourceVars, workerVars, serviceVars, flagVars,
     resultVars, QuietInv, Bookkeeping, ExclusiveHolder, HeldIsBusy, BusyNotCompleted,
     CounterExact,
     CompleteBeforeStore, StoredIsComplete
<1>5. QED
  BY <1>2, <1>3, <1>4 DEF QuietNext

(* The inductive invariant of the downloads in which check_timeout never   *)
(* finds its flag raised: busy bits, completed bits, completed_counter and *)
(* what the workers hold agree.                                            *)
THEOREM QuietInvariant == QuietSpec => []QuietInv
BY QuietInit, QuietStep, PTL DEF QuietSpec

(* As long as no timeout fires, no two workers download the same segment.  *)
THEOREM QuietExclusive == QuietSpec => []ExclusiveHolder
<1>1. QuietInv => ExclusiveHolder
  BY DEF QuietInv, Bookkeeping
<1>2. QED
  BY <1>1, QuietInvariant, PTL

(* As long as no timeout fires, completed_counter is the number of         *)
(* completed segments.                                                     *)
THEOREM QuietCounter == QuietSpec => []CounterExact
<1>1. QuietInv => CounterExact
  BY DEF QuietInv, Bookkeeping
<1>2. QED
  BY <1>1, QuietInvariant, PTL

(* As long as no timeout fires, a file that store_resource wrote has the   *)
(* data of every segment.                                                  *)
THEOREM QuietStoredComplete == QuietSpec => []StoredIsComplete
<1>1. QuietInv => StoredIsComplete
  BY DEF QuietInv, Bookkeeping
<1>2. QED
  BY <1>1, QuietInvariant, PTL

-----------------------------------------------------------------------------
(* Refinement: a quiet download is a SegmentTransfer.                      *)

InHand(w) == IF pc[w] \in Holding THEN {seg[w]} ELSE {}

(* The initial states are those of SegmentTransfer.                        *)
LEMMA TransferInit == Init => Transfer!Init
BY DEF Init, ResourceInit, Transfer!Init, Holding

(* Most steps leave alone all that SegmentTransfer sees.                   *)
LEMMA StutterStep ==
    ASSUME \A w \in Workers : InHand(w)' = InHand(w),
           completed_segments' = completed_segments,
           stored' = stored
    PROVE  UNCHANGED Transfer!transferVars
BY DEF Transfer!transferVars, InHand

(* Each step of a worker is a step of SegmentTransfer, or none.            *)
LEMMA WorkerTransfers ==
    ASSUME QuietInv, NEW w \in Workers, WorkerStep(w) \/ ReceiveEnds(w) \/ Wakeup(w)
    PROVE  [Transfer!Next]_Transfer!transferVars
<1> DEFINE hand == [v \in Workers |-> InHand(v)]
<1> USE DEF Goto, serviceVars, resultVars, flagVars
<1>1. CASE \/ Connected(w) \/ ConnectFails(w) \/ Proceed(w) \/ LeaveClosed(w)
           \/ NoSegmentLeft(w) \/ NotCompleted(w) \/ OpenSocket(w)
           \/ WaitForSegment(w) \/ WorkerTerminated(w) \/ Wakeup(w)
  <2>1. /\ UNCHANGED <<completed_segments, stored>>
        /\ \A v \in Workers : InHand(v)' = InHand(v)
    BY <1>1 DEF Connected, ConnectFails, Proceed, LeaveClosed, NoSegmentLeft,
       NotCompleted, OpenSocket, WaitForSegment, Wait, WorkerTerminated, Wakeup,
       SpuriousWakeup, workerVars, resourceVars, Holding, InHand, QuietInv,
       SafetyInv, TypeOK
  <2>2. QED
    BY <2>1, StutterStep
<1>2. CASE \/ OwnSegment(w) \/ RequestSegment(w) \/ RequestFails(w)
           \/ ReceiveSegment(w) \/ ReceiveFails(w) \/ ClearTimeouted(w)
  <2>1. /\ UNCHANGED <<completed_segments, stored>>
        /\ \A v \in Workers : InHand(v)' = InHand(v)
    BY <1>2 DEF OwnSegment, RequestSegment, RequestFails, ReceiveSegment, ReceiveFails,
       ClearTimeouted, resourceVars, Holding, InHand, QuietInv, SafetyInv, TypeOK
  <2>2. QED
    BY <2>1, StutterStep
<1>3. ASSUME NEW s \in Segments, GetSegment(w, s)
      PROVE  Transfer!Assign(w, s)
  <2>1. s \notin busy_segments /\ s \notin completed_segments
    BY <1>3 DEF GetSegment, TakeSegment, IsFirst, Downloadable
  <2>2. \A v \in Workers : s \notin InHand(v)
    BY <2>1 DEF QuietInv, Bookkeeping, HeldIsBusy, InHand
  <2>3. InHand(w) = {}
    BY <1>3 DEF GetSegment, InHand, Holding
  <2>4. UNCHANGED <<completed_segments, stored>>
    BY <1>3 DEF GetSegment, TakeSegment
  <2>5. \A v \in Workers : InHand(v)' = IF v = w THEN {s} ELSE InHand(v)
    BY <1>3 DEF GetSegment, InHand, Holding, QuietInv, SafetyInv, TypeOK
  <2>6. hand' = [hand EXCEPT ![w] = {s}]
    BY <2>5
  <2>7. QED
    BY <2>1, <2>2, <2>3, <2>4, <2>6 DEF Transfer!Assign, InHand
<1>4. CASE CompleteSegment(w)
  <2>1. InHand(w) = {seg[w]}
    BY <1>4 DEF CompleteSegment, InHand, Holding
  <2>2. completed_segments' = completed_segments \cup InHand(w) /\ stored' = stored
    BY <1>4, <2>1 DEF CompleteSegment, SetSegment
  <2>3. \A v \in Workers : InHand(v)' = IF v = w THEN {} ELSE InHand(v)
    BY <1>4 DEF CompleteSegment, InHand, Holding, QuietInv, SafetyInv, TypeOK
  <2>4. hand' = [hand EXCEPT ![w] = {}]
    BY <2>3
  <2>5. Transfer!Complete(w)
    BY <2>1, <2>2, <2>4 DEF Transfer!Complete, InHand
  <2>6. QED
    BY <2>5 DEF Transfer!Next
<1>5. CASE GiveBack(w)
  <2>1. InHand(w) = {seg[w]}
    BY <1>5 DEF GiveBack, InHand, Holding
  <2>2. UNCHANGED <<completed_segments, stored>>
    BY <1>5 DEF GiveBack, UnsetBusy
  <2>3. \A v \in Workers : InHand(v)' = IF v = w THEN {} ELSE InHand(v)
    BY <1>5 DEF GiveBack, InHand, Holding, QuietInv, SafetyInv, TypeOK
  <2>4. hand' = [hand EXCEPT ![w] = {}]
    BY <2>3
  <2>5. Transfer!GiveUp(w)
    BY <2>1, <2>2, <2>4 DEF Transfer!GiveUp, InHand
  <2>6. QED
    BY <2>5 DEF Transfer!Next
<1>6. CASE GiveBackCrashes(w)
  <2>1. UNCHANGED <<pc, seg, completed_segments, stored>>
    BY <1>6 DEF GiveBackCrashes, workerVars, resourceVars
  <2>2. QED
    BY <2>1, StutterStep DEF InHand
<1>7. QED
  BY <1>1, <1>2, <1>3, <1>4, <1>5, <1>6 DEF WorkerStep, ReceiveEnds, Transfer!Next

(* Each step of the service is a Store, or leaves the transfer alone.      *)
LEMMA ServiceTransfers ==
    ASSUME QuietInv, ServiceStep \/ \E h \in Hosts : BanOver(h)
    PROVE  [Transfer!Next]_Transfer!transferVars
<1> USE DEF Visit, resourceVars, workerVars, serviceVars, flagVars, resultVars
<1>1. CASE StoreResource
  <2>1. /\ UNCHANGED <<pc, seg, completed_segments>>
        /\ stored' = received \/ stored' = stored
        /\ svc = "store"
    BY <1>1 DEF StoreResource
  <2>2. completed_segments = Segments /\ received = Segments
    BY <2>1 DEF QuietInv, Bookkeeping, CompleteBeforeStore, SafetyInv,
       CompletedHasData, TypeOK
  <2>3. \A w \in Workers : InHand(w)' = InHand(w)
    BY <2>1 DEF InHand
  <2>4. CASE stored' = stored
    BY <2>1, <2>3, <2>4, StutterStep
  <2>5. CASE stored' = received
    BY <2>1, <2>2, <2>5 DEF Transfer!Next, Transfer!Store
  <2>6. QED
    BY <2>1, <2>4, <2>5
<1>2. CASE \E w \in Workers : InitWorker(w)
  <2>1. PICK w \in Workers : InitWorker(w)
    BY <1>2
  <2>2. pc[w] = "unborn"
    BY <2>1 DEF InitWorker, QuietInv, SafetyInv, NotStarted
  <2>3. \A v \in Workers : InHand(v)' = InHand(v)
    BY <2>1, <2>2 DEF InitWorker, InHand, Holding, QuietInv, SafetyInv, TypeOK
  <2>4. QED
    BY <2>1, <2>3, StutterStep DEF InitWorker
<1>3. CASE \E h \in Hosts : BanOver(h)
  <2>1. UNCHANGED <<pc, seg, completed_segments, stored>>
    BY <1>3 DEF BanOver
  <2>2. QED
    BY <2>1, StutterStep DEF InHand
<1>4. CASE ServiceStep /\ ~StoreResource /\ ~\E w \in Workers : InitWorker(w)
  <2>1. UNCHANGED <<pc, seg, completed_segments, stored>>
    BY <1>4 DEF ServiceStep, CreateWorkers, SurveyAvailable, SurveyUnavailable,
       RaiseTimeouted, ReadOwned, ReleaseOwned, UnsetBusy, CloseWorker, CloseUnopened,
       DownloadCompleted, IntervalOver, ReleaseOutOfRange, AddFile, JoinWorkers
  <2>2. QED
    BY <2>1, StutterStep DEF InHand
<1>5. QED
  BY <1>1, <1>2, <1>3, <1>4

(* As long as no timeout fires, a download hands out, completes, gives     *)
(* back and stores segments the way SegmentTransfer allows.                *)
THEOREM QuietImplementsTransfer == QuietSpec => ImplementsTransfer
<1>1. QuietInv /\ [QuietNext]_vars => [Transfer!Next]_Transfer!transferVars
  <2> SUFFICES ASSUME QuietInv, [QuietNext]_vars
               PROVE  [Transfer!Next]_Transfer!transferVars
    OBVIOUS
  <2>1. CASE Over \/ UNCHANGED vars
    <3>1. UNCHANGED <<pc, seg, completed_segments, stored>>
      BY <2>1 DEF Over, vars, resourceVars, workerVars, serviceVars, resultVars
    <3>2. QED
      BY <3>1, StutterStep DEF InHand
  <2>2. QED
    BY <2>1, WorkerTransfers, ServiceTransfers DEF QuietNext
<1>2. QED
  BY <1>1, TransferInit, QuietInvariant, PTL DEF QuietSpec, ImplementsTransfer,
     Transfer!Spec
=============================================================================
