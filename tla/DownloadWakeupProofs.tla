------------------------ MODULE DownloadWakeupProofs ------------------------
(***************************************************************************)
(* Theorems about the sleepers of a download: the one wakeup of each       *)
(* unset_busy is enough, for every number of workers, hosts and segments,  *)
(* with timeouts as well as without.                                       *)
(*                                                                         *)
(* It is so only until completed_counter reaches SegmentsCount, and the    *)
(* counter is a Uint16: what is proved of downloads with timeouts is for   *)
(* those too small for it to wrap round.  That it stays below the number   *)
(* of workers times the number of segments is a theorem too.               *)
(***************************************************************************)
EXTENDS QuietDownloadProofs

-----------------------------------------------------------------------------
(* The parts of the invariant.                                             *)

(* A worker blocked in cv.wait is inside get_segment.                      *)
SleepersInGet == \A w \in cv : pc[w] = "get"

(* Each set_segment can be put down to a worker and a segment, no two to   *)
(* the same: a worker that has completed a segment does not hold it any    *)
(* more, and never gets it again.                                          *)
Accounts(D) ==
    /\ D \subseteq Workers \X completed_segments
    /\ IsFiniteSet(D) /\ Cardinality(D) = completed_counter
    /\ \A w \in Workers, s \in Segments : <<w, s>> \in D => ~Holds(w, s)

CompletedOncePerWorker == \E D : Accounts(D)

(* What a worker may do inside get_segment and out of it: the steps of all *)
(* threads, by what they change of the state that the sleepers depend on.  *)
Same == UNCHANGED <<busy_segments, completed_segments, completed_counter, cv, seg>>
Moves(w, from, to) ==
    /\ Same
    /\ pc[w] \in from
    /\ \E p \in to : pc' = [pc EXCEPT ![w] = p]

WakeupStep(w) ==
    \/ Moves(w, {"unborn", "connect", "connecting", "loop", "throw"},
             {"connect", "connecting", "loop", "throw", "ended"})
    \/ Moves(w, Holding \ {"set", "failed"}, Holding \ {"got"})
    \/ Moves(w, {"loop"}, {"get"})
    \/ w \notin cv /\ IsCompleted /\ Moves(w, {"get"}, {"ended"})
    \/ w \notin cv /\ Moves(w, {"get"}, {"scan"})
    \/ \E s \in Segments : GetSegment(w, s)
    \/ WaitForSegment(w)
    \/ CompleteSegment(w)
    \/ GiveBack(w)

(* A wakeup, unset_busy by the service, or a step that sleepers do not see. *)
ServiceWakeup ==
    /\ UNCHANGED <<completed_segments, completed_counter, pc, seg>>
    /\ \/ busy_segments' = busy_segments /\ cv' \subseteq cv
       \/ \E s : UnsetBusy(s)

(* Every step is one of those.                                             *)
LEMMA StepKinds ==
    ASSUME SafetyInv, [Next]_vars
    PROVE  (\E w \in Workers : WakeupStep(w)) \/ ServiceWakeup
<1> USE DEF Goto, Visit, vars, peerVars, resourceVars, workerVars, serviceVars, flagVars
<1>1. ASSUME NEW w \in Workers, WorkerStep(w) \/ ReceiveEnds(w)
      PROVE  WakeupStep(w) \/ ServiceWakeup
  <2>1. CASE OpenSocket(w) \/ Connected(w) \/ ConnectFails(w) \/ LeaveClosed(w)
             \/ WorkerTerminated(w)
    BY <2>1 DEF OpenSocket, Connected, ConnectFails, LeaveClosed, WorkerTerminated,
       WakeupStep, Moves, Same
  <2>2. CASE Proceed(w)
    BY <2>2 DEF Proceed, WakeupStep, Moves, Same
  <2>3. CASE NoSegmentLeft(w) \/ NotCompleted(w)
    BY <2>3 DEF NoSegmentLeft, NotCompleted, WakeupStep, Moves, Same
  <2>4. CASE OwnSegment(w) \/ RequestSegment(w) \/ RequestFails(w) \/ ReceiveSegment(w)
             \/ ReceiveFails(w) \/ ClearTimeouted(w)
    BY <2>4 DEF OwnSegment, RequestSegment, RequestFails, ReceiveSegment, ReceiveFails,
       ClearTimeouted, WakeupStep, Moves, Same, Holding
  <2>5. CASE GiveBackCrashes(w)
    BY <2>5 DEF GiveBackCrashes, ServiceWakeup
  <2>6. QED
    BY <1>1, <2>1, <2>2, <2>3, <2>4, <2>5 DEF WorkerStep, ReceiveEnds, WakeupStep
<1>2. ASSUME NEW w \in Workers, Wakeup(w)
      PROVE  ServiceWakeup
  BY <1>2 DEF Wakeup, SpuriousWakeup, ServiceWakeup
<1>3. ASSUME NEW w \in Workers, InitWorker(w)
      PROVE  WakeupStep(w)
  BY <1>3 DEF InitWorker, SafetyInv, NotStarted, WakeupStep, Moves, Same
<1>4. ASSUME NEW w \in Workers, ReleaseOwned(w)
      PROVE  ServiceWakeup
  BY <1>4 DEF ReleaseOwned, UnsetBusy, ServiceWakeup
<1>5. CASE \/ \E candidates \in SUBSET Workers : CreateWorkers(candidates)
           \/ \E w \in Workers : \/ SurveyAvailable(w) \/ SurveyUnavailable(w)
                                 \/ RaiseTimeouted(w) \/ ReadOwned(w)
                                 \/ CloseWorker(w) \/ CloseUnopened(w)
                                 \/ ChargeHost(w)
           \/ DownloadCompleted \/ IntervalOver \/ ReleaseOutOfRange
           \/ AddFile \/ StoreResource \/ JoinWorkers
           \/ \E h \in Hosts : BanOver(h)
           \/ Over \/ UNCHANGED vars
  BY <1>5 DEF CreateWorkers, SurveyAvailable, SurveyUnavailable, RaiseTimeouted,
     ReadOwned, CloseWorker, CloseUnopened, ChargeHost, DownloadCompleted,
     IntervalOver, ReleaseOutOfRange, AddFile, StoreResource, JoinWorkers, BanOver,
     Over, ServiceWakeup
<1>6. QED
  BY <1>1, <1>2, <1>3, <1>4, <1>5 DEF Next, QuietNext, ServiceStep, TimeoutFires

-----------------------------------------------------------------------------
(* Sleepers stay inside get_segment: nothing but a wakeup moves them.      *)
LEMMA SleepersStep ==
    ASSUME SafetyInv, SleepersInGet, [Next]_vars
    PROVE  SleepersInGet'
<1>1. pc \in [Workers -> WorkerStates] /\ cv \subseteq Workers
  BY DEF SafetyInv, TypeOK, ResourceTypeOK
<1>2. CASE ServiceWakeup
  BY <1>2 DEF ServiceWakeup, UnsetBusy, NotifyOne, SleepersInGet
<1>3. ASSUME NEW w \in Workers, WakeupStep(w)
      PROVE  SleepersInGet'
  <2>1. ASSUME NEW s \in Segments, GetSegment(w, s)
        PROVE  SleepersInGet'
    BY <1>1, <2>1 DEF GetSegment, TakeSegment, Goto, SleepersInGet
  <2>2. CASE WaitForSegment(w)
    BY <1>1, <2>2 DEF WaitForSegment, Wait, Goto, SleepersInGet
  <2>3. CASE CompleteSegment(w) \/ GiveBack(w)
    BY <1>1, <2>3 DEF CompleteSegment, SetSegment, GiveBack, UnsetBusy, NotifyOne, Goto,
       SleepersInGet
  <2>4. ASSUME NEW from, NEW to, Moves(w, from, to), "get" \notin from \/ w \notin cv
        PROVE  SleepersInGet'
    BY <1>1, <2>4 DEF Moves, Same, SleepersInGet
  <2>5. QED
    BY <1>3, <2>1, <2>2, <2>3, <2>4 DEF WakeupStep, Holding
<1>4. QED
  BY <1>2, <1>3, StepKinds

-----------------------------------------------------------------------------
(* No more segments are free than workers are awake.                       *)

(* The sets that AwakeForFree counts are finite.                           *)
LEMMA CountsFinite ==
    /\ IsFiniteSet(Downloadable) /\ Cardinality(Downloadable) \in Nat
    /\ IsFiniteSet(Awake) /\ Cardinality(Awake) \in Nat
<1>1. Downloadable \in SUBSET Segments /\ Awake \in SUBSET Workers
  BY DEF Downloadable, Awake
<1>2. IsFiniteSet(Downloadable) /\ IsFiniteSet(Awake)
  BY <1>1, SegmentsFinite, WorkersAssumption, FS_Subset
<1>3. QED
  BY <1>2, FS_CardinalityType

(* The same in the next state.                                             *)
LEMMA CountsFiniteNext ==
    /\ IsFiniteSet(Downloadable') /\ Cardinality(Downloadable') \in Nat
    /\ IsFiniteSet(Awake') /\ Cardinality(Awake') \in Nat
<1>1. Downloadable' \in SUBSET Segments /\ Awake' \in SUBSET Workers
  BY DEF Downloadable, Awake
<1>2. IsFiniteSet(Downloadable') /\ IsFiniteSet(Awake')
  BY <1>1, SegmentsFinite, WorkersAssumption, FS_Subset
<1>3. QED
  BY <1>2, FS_CardinalityType

(* A step that frees no segment and sends nobody away.                     *)
LEMMA AwakeKept ==
    ASSUME AwakeForFree, cv' \subseteq cv,
           completed_counter' < SegmentsCount => completed_counter < SegmentsCount,
           Downloadable' \subseteq Downloadable, Awake \subseteq Awake'
    PROVE  AwakeForFree'
<1>1. Cardinality(Downloadable') <= Cardinality(Downloadable)
  BY CountsFinite, FS_Subset
<1>2. Cardinality(Awake) <= Cardinality(Awake')
  BY CountsFiniteNext, FS_Subset
<1>3. QED
  BY <1>1, <1>2, CountsFinite, CountsFiniteNext DEF AwakeForFree

(* unset_busy frees one segment at most, and wakes a worker if there is    *)
(* one to wake.                                                            *)
LEMMA AwakeNotified ==
    ASSUME AwakeForFree, SleepersInGet, cv \subseteq Workers,
           NEW s, UnsetBusy(s),
           \A w \in cv : pc'[w] = pc[w],
           Awake \subseteq {w \in Workers : w \notin cv /\ pc'[w] \in {"get", "scan"}}
    PROVE  AwakeForFree'
<1>1. CASE cv' = {}
  BY <1>1 DEF AwakeForFree
<1>2. ASSUME NEW t \in cv, cv' = cv \ {t}
      PROVE  AwakeForFree'
  <2>1. Downloadable' \subseteq Downloadable \cup {s}
    BY DEF UnsetBusy, Downloadable
  <2>2. Cardinality(Downloadable') <= Cardinality(Downloadable) + 1
    <3>1. /\ IsFiniteSet(Downloadable \cup {s})
          /\ \/ Cardinality(Downloadable \cup {s}) = Cardinality(Downloadable)
             \/ Cardinality(Downloadable \cup {s}) = Cardinality(Downloadable) + 1
      BY CountsFinite, FS_AddElement
    <3>2. Cardinality(Downloadable') <= Cardinality(Downloadable \cup {s})
      BY <2>1, <3>1, FS_Subset
    <3>3. QED
      BY <3>1, <3>2, CountsFinite, CountsFiniteNext
  <2>3. t \notin Awake /\ Awake \cup {t} \subseteq Awake'
    BY <1>2 DEF Awake, SleepersInGet
  <2>4. Cardinality(Awake) + 1 <= Cardinality(Awake')
    <3>1. Cardinality(Awake \cup {t}) = Cardinality(Awake) + 1
      BY <2>3, CountsFinite, FS_AddElement
    <3>2. Cardinality(Awake \cup {t}) <= Cardinality(Awake')
      BY <2>3, CountsFiniteNext, FS_Subset
    <3>3. QED
      BY <3>1, <3>2
  <2>5. completed_counter' = completed_counter /\ cv # {}
    BY <1>2 DEF UnsetBusy
  <2>6. QED
    BY <2>2, <2>4, <2>5, CountsFinite, CountsFiniteNext DEF AwakeForFree
<1>3. QED
  BY <1>1, <1>2 DEF UnsetBusy, NotifyOne

(* Every step keeps the balance, unless the counter wraps round.           *)
LEMMA AwakeStep ==
    ASSUME SafetyInv, SleepersInGet, AwakeForFree, [Next]_vars,
           completed_counter <= completed_counter'
    PROVE  AwakeForFree'
<1>1. /\ pc \in [Workers -> WorkerStates] /\ cv \subseteq Workers
      /\ completed_counter \in Nat /\ completed_counter' \in Nat
      /\ SegmentsCount \in Nat
  <2>1. SafetyInv'
    BY SafetyStep
  <2>2. QED
    BY <2>1, Uint16Assumption, SegmentsCountAssumption
       DEF SafetyInv, TypeOK, ResourceTypeOK
<1>2. completed_counter' < SegmentsCount => completed_counter < SegmentsCount
  BY <1>1
<1>3. CASE ServiceWakeup
  <2>1. CASE busy_segments' = busy_segments /\ cv' \subseteq cv
    BY <1>2, <1>3, <2>1, AwakeKept DEF ServiceWakeup, Downloadable, Awake
  <2>2. ASSUME NEW s, UnsetBusy(s) PROVE AwakeForFree'
    BY <1>1, <1>3, <2>2, AwakeNotified DEF ServiceWakeup, Awake
  <2>3. QED
    BY <1>3, <2>1, <2>2 DEF ServiceWakeup
<1>4. ASSUME NEW w \in Workers, WakeupStep(w)
      PROVE  AwakeForFree'
  <2>1. ASSUME NEW s \in Segments, GetSegment(w, s)
        PROVE  AwakeForFree'
    <3>1. /\ s \in Downloadable /\ Downloadable' = Downloadable \ {s}
          /\ cv' = cv /\ completed_counter' = completed_counter
      BY <2>1 DEF GetSegment, TakeSegment, IsFirst, Downloadable
    <3>2. w \in Awake /\ Awake' = Awake \ {w}
      BY <1>1, <2>1 DEF GetSegment, TakeSegment, Goto, Awake, SleepersInGet
    <3>3. Cardinality(Downloadable') = Cardinality(Downloadable) - 1
      BY <3>1, CountsFinite, FS_RemoveElement
    <3>4. Cardinality(Awake') = Cardinality(Awake) - 1
      BY <3>2, CountsFinite, FS_RemoveElement
    <3>5. QED
      BY <3>1, <3>3, <3>4, CountsFinite DEF AwakeForFree
  <2>2. CASE WaitForSegment(w)
    <3>1. Downloadable' = {}
      BY <2>2 DEF WaitForSegment, Wait, Downloadable
    <3>2. QED
      BY <3>1, CountsFiniteNext, FS_EmptySet DEF AwakeForFree
  <2>3. CASE CompleteSegment(w)
    <3>1. cv' \subseteq cv /\ Downloadable' \subseteq Downloadable
      BY <2>3 DEF CompleteSegment, SetSegment, Downloadable
    <3>2. Awake \subseteq Awake'
      BY <1>1, <2>3, <3>1 DEF CompleteSegment, Goto, Awake
    <3>3. QED
      BY <1>2, <3>1, <3>2, AwakeKept
  <2>4. CASE GiveBack(w)
    <3>1. UnsetBusy(owned_segment_id[w])
      BY <2>4 DEF GiveBack
    <3>2. \A v \in cv : pc'[v] = pc[v]
      BY <1>1, <2>4 DEF GiveBack, Goto, SleepersInGet
    <3>3. Awake \subseteq {v \in Workers : v \notin cv /\ pc'[v] \in {"get", "scan"}}
      BY <1>1, <2>4 DEF GiveBack, Goto, Awake
    <3>4. QED
      BY <1>1, <3>1, <3>2, <3>3, AwakeNotified
  <2>5. CASE w \notin cv /\ IsCompleted /\ Moves(w, {"get"}, {"ended"})
    BY <1>1, <2>5 DEF IsCompleted, Moves, Same, AwakeForFree
  <2>6. ASSUME NEW from, NEW to, Moves(w, from, to),
               from \cap {"get", "scan"} = {} \/ to = {"scan"}
        PROVE  AwakeForFree'
    <3>1. cv' = cv /\ Downloadable' = Downloadable
      BY <2>6 DEF Moves, Same, Downloadable
    <3>2. Awake \subseteq Awake'
      BY <1>1, <2>6, <3>1 DEF Moves, Awake
    <3>3. QED
      BY <1>2, <3>1, <3>2, AwakeKept
  <2>7. QED
    BY <1>4, <2>1, <2>2, <2>3, <2>4, <2>5, <2>6 DEF WakeupStep, Holding
<1>5. QED
  BY <1>3, <1>4, StepKinds

-----------------------------------------------------------------------------
(* How far completed_counter can run ahead.                                *)

(* The pairs of a worker and a segment bound the counter.                  *)
LEMMA AccountsBound ==
    ASSUME SafetyInv, CompletedOncePerWorker
    PROVE  completed_counter <= Cardinality(Workers) * SegmentsCount
<1>1. PICK D : Accounts(D)
  BY DEF CompletedOncePerWorker
<1>2. D \in SUBSET (Workers \X Segments)
  BY <1>1 DEF Accounts, SafetyInv, TypeOK, ResourceTypeOK
<1>3. /\ IsFiniteSet(Workers \X Segments)
      /\ Cardinality(Workers \X Segments) = Cardinality(Workers) * SegmentsCount
  BY WorkersAssumption, SegmentsFinite, FS_Product
<1>4. Cardinality(D) <= Cardinality(Workers \X Segments)
  BY <1>2, <1>3, FS_Subset
<1>5. QED
  BY <1>1, <1>3, <1>4 DEF Accounts

(* When the counter cannot reach its largest value and go on, every step   *)
(* can be accounted for, and the counter never falls.                      *)
LEMMA AccountsStep ==
    ASSUME SafetyInv, CompletedOncePerWorker, [Next]_vars,
           Cardinality(Workers) * SegmentsCount <= Uint16Max
    PROVE  CompletedOncePerWorker' /\ completed_counter <= completed_counter'
<1>1. /\ pc \in [Workers -> WorkerStates] /\ seg \in [Workers -> SegmentIds]
      /\ completed_segments \subseteq Segments /\ completed_counter \in Nat
  BY Uint16Assumption DEF SafetyInv, TypeOK, ResourceTypeOK
<1>2. PICK D : Accounts(D)
  BY DEF CompletedOncePerWorker
<1>3. ASSUME UNCHANGED <<completed_segments, completed_counter>>,
             \A v \in Workers, s \in completed_segments : Holds(v, s)' => Holds(v, s)
      PROVE  CompletedOncePerWorker' /\ completed_counter <= completed_counter'
  <2>1. Accounts(D)'
    BY <1>1, <1>2, <1>3 DEF Accounts
  <2>2. QED
    BY <1>1, <1>3, <2>1 DEF CompletedOncePerWorker
<1>4. CASE ServiceWakeup
  BY <1>3, <1>4 DEF ServiceWakeup, Holds
<1>5. ASSUME NEW w \in Workers, WakeupStep(w)
      PROVE  CompletedOncePerWorker' /\ completed_counter <= completed_counter'
  <2>1. ASSUME NEW s \in Segments, GetSegment(w, s)
        PROVE  CompletedOncePerWorker' /\ completed_counter <= completed_counter'
    <3>1. UNCHANGED <<completed_segments, completed_counter>> /\ s \notin completed_segments
      BY <2>1 DEF GetSegment, TakeSegment, IsFirst, Downloadable
    <3>2. \A v \in Workers, t \in completed_segments : Holds(v, t)' => Holds(v, t)
      BY <1>1, <2>1, <3>1 DEF GetSegment, Goto, Holds
    <3>3. QED
      BY <1>3, <3>1, <3>2
  <2>2. CASE WaitForSegment(w)
    <3>1. \A v \in Workers, t \in completed_segments : Holds(v, t)' => Holds(v, t)
      BY <1>1, <2>2 DEF WaitForSegment, Goto, Holds, Holding
    <3>2. QED
      BY <1>3, <2>2, <3>1 DEF WaitForSegment, Wait
  <2>3. CASE GiveBack(w)
    <3>1. \A v \in Workers, t \in completed_segments : Holds(v, t)' => Holds(v, t)
      BY <1>1, <2>3 DEF GiveBack, Goto, Holds, Holding
    <3>2. QED
      BY <1>3, <2>3, <3>1 DEF GiveBack, UnsetBusy
  <2>4. ASSUME NEW from, NEW to, Moves(w, from, to),
               from \subseteq Holding \/ to \cap Holding = {}
        PROVE  CompletedOncePerWorker' /\ completed_counter <= completed_counter'
    <3>1. \A v \in Workers, t \in completed_segments : Holds(v, t)' => Holds(v, t)
      BY <1>1, <2>4 DEF Moves, Same, Holds
    <3>2. QED
      BY <1>3, <2>4, <3>1 DEF Moves, Same
  <2>5. CASE CompleteSegment(w)
    <3> PICK E : E = D \cup {<<w, seg[w]>>}
      OBVIOUS
    <3>1. /\ Holds(w, seg[w]) /\ seg[w] \in Segments
          /\ seg' = [seg EXCEPT ![w] = NO_SEGMENT_ID] /\ pc' = [pc EXCEPT ![w] = "loop"]
          /\ completed_segments' = completed_segments \cup {seg[w]}
      BY <2>5 DEF CompleteSegment, SetSegment, Goto, Holds, Holding, SafetyInv, HoldsOwned
    <3>2. <<w, seg[w]>> \notin D
      BY <1>2, <3>1 DEF Accounts
    <3>3. /\ IsFiniteSet(E) /\ Cardinality(E) = completed_counter + 1
      BY <1>2, <3>2, FS_AddElement DEF Accounts
    <3>4. E \subseteq Workers \X completed_segments'
      BY <1>2, <3>1 DEF Accounts
    <3>5. completed_counter + 1 <= Cardinality(Workers) * SegmentsCount
      <4>1. E \in SUBSET (Workers \X Segments)
        BY <1>1, <1>2, <3>1 DEF Accounts
      <4>2. /\ IsFiniteSet(Workers \X Segments)
            /\ Cardinality(Workers \X Segments) = Cardinality(Workers) * SegmentsCount
        BY WorkersAssumption, SegmentsFinite, FS_Product
      <4>3. Cardinality(E) <= Cardinality(Workers \X Segments)
        BY <4>1, <4>2, FS_Subset
      <4>4. QED
        BY <3>3, <4>2, <4>3
    <3>6. completed_counter # Uint16Max
      <4>1. Cardinality(Workers) * SegmentsCount \in Nat
        BY WorkersAssumption, SegmentsFinite, FS_Product, FS_CardinalityType
      <4>2. QED
        BY <1>1, <3>5, <4>1, Uint16Assumption
    <3>7. completed_counter' = completed_counter + 1
      BY <2>5, <3>6 DEF CompleteSegment, SetSegment
    <3>8. \A v \in Workers, s \in Segments : <<v, s>> \in E => ~Holds(v, s)'
      <4> SUFFICES ASSUME NEW v \in Workers, NEW s \in Segments, <<v, s>> \in E
                   PROVE  ~Holds(v, s)'
        OBVIOUS
      <4>1. CASE v = w
        BY <1>1, <3>1, <4>1 DEF Holds, Holding
      <4>2. CASE v # w
        BY <1>1, <1>2, <3>1, <4>2 DEF Holds, Accounts
      <4>3. QED
        BY <4>1, <4>2
    <3>9. Accounts(E)'
      BY <3>3, <3>4, <3>7, <3>8 DEF Accounts
    <3>10. QED
      BY <1>1, <3>7, <3>9 DEF CompletedOncePerWorker
  <2>6. QED
    BY <1>5, <2>1, <2>2, <2>3, <2>4, <2>5 DEF WakeupStep, Holding
<1>6. QED
  BY <1>4, <1>5, StepKinds

-----------------------------------------------------------------------------
(* The theorems.                                                           *)

(* A download that has not begun: nobody sleeps, nothing is counted.       *)
LEMMA WakeupInit == Init => SleepersInGet /\ CompletedOncePerWorker /\ AwakeForFree
<1> SUFFICES ASSUME Init PROVE SleepersInGet /\ CompletedOncePerWorker /\ AwakeForFree
  OBVIOUS
<1>1. cv = {} /\ completed_counter = 0
  BY DEF Init, ResourceInit
<1>2. Accounts({})
  BY <1>1, FS_EmptySet DEF Accounts
<1>3. QED
  BY <1>1, <1>2 DEF SleepersInGet, CompletedOncePerWorker, AwakeForFree

(* The inductive invariant of the sleepers, timeouts included: who sleeps, *)
(* who completed what, and how many segments wait for how many workers.    *)
THEOREM WakeupInvariant ==
    ASSUME Cardinality(Workers) * SegmentsCount <= Uint16Max
    PROVE  Spec => [](SafetyInv /\ SleepersInGet /\ CompletedOncePerWorker /\ AwakeForFree)
<1> DEFINE WakeupInv ==
      SafetyInv /\ SleepersInGet /\ CompletedOncePerWorker /\ AwakeForFree
<1>1. Init => WakeupInv
  BY SafetyInit, WakeupInit
<1>2. WakeupInv /\ [Next]_vars => WakeupInv'
  <2> SUFFICES ASSUME WakeupInv, [Next]_vars PROVE WakeupInv'
    OBVIOUS
  <2>1. SafetyInv'
    BY SafetyStep
  <2>2. SleepersInGet'
    BY SleepersStep
  <2>3. CompletedOncePerWorker' /\ completed_counter <= completed_counter'
    BY AccountsStep
  <2>4. AwakeForFree'
    BY <2>3, AwakeStep
  <2>5. QED
    BY <2>1, <2>2, <2>3, <2>4
<1>3. QED
  BY <1>1, <1>2, PTL DEF Spec

(* Whatever fails or times out, a free segment does not wait for a sleeper *)
(* until the download counts as completed: the notify_one of unset_busy is *)
(* enough.                                                                 *)
THEOREM WakeupsSuffice ==
    ASSUME Cardinality(Workers) * SegmentsCount <= Uint16Max
    PROVE  Spec => []AwakeForFree
BY WakeupInvariant, PTL

(* Timeouts hand segments out again, but completed_counter never passes    *)
(* the number of workers times the number of segments, so set_segment does *)
(* not make the Uint16 wrap round in downloads for which that fits into it.*)
THEOREM CounterBounded ==
    ASSUME Cardinality(Workers) * SegmentsCount <= Uint16Max
    PROVE  Spec => [](completed_counter <= Cardinality(Workers) * SegmentsCount)
<1>1. SafetyInv /\ CompletedOncePerWorker
        => completed_counter <= Cardinality(Workers) * SegmentsCount
  BY AccountsBound
<1>2. QED
  BY <1>1, WakeupInvariant, PTL

(* As long as no timeout fires the counter is exact, and the wakeups are   *)
(* enough in downloads of every size.                                      *)
THEOREM QuietWakeupsSuffice == QuietSpec => []AwakeForFree
<1>1. Init => SleepersInGet /\ AwakeForFree
  BY WakeupInit
<1>2. QuietInv /\ SleepersInGet /\ AwakeForFree /\ [QuietNext]_vars /\ QuietInv'
        => SleepersInGet' /\ AwakeForFree'
  <2> SUFFICES ASSUME QuietInv, SleepersInGet, AwakeForFree, [QuietNext]_vars, QuietInv'
               PROVE  SleepersInGet' /\ AwakeForFree'
    OBVIOUS
  <2>1. SafetyInv /\ [Next]_vars
    BY DEF QuietInv, Next
  <2>2. completed_segments \subseteq completed_segments'
    BY <2>1, StepKinds DEF WakeupStep, Moves, Same, ServiceWakeup, GetSegment,
       TakeSegment, WaitForSegment, Wait, CompleteSegment, SetSegment, GiveBack,
       UnsetBusy
  <2>3. /\ completed_counter = Cardinality(completed_segments)
        /\ completed_counter' = Cardinality(completed_segments')
        /\ completed_segments' \subseteq Segments
    BY DEF QuietInv, Bookkeeping, CounterExact, SafetyInv, TypeOK, ResourceTypeOK
  <2>4. completed_counter <= completed_counter'
    BY <2>2, <2>3, SegmentsFinite, FS_Subset
  <2>5. QED
    BY <2>1, <2>4, SleepersStep, AwakeStep
<1>3. QED
  BY <1>1, <1>2, QuietInvariant, PTL DEF QuietSpec
=============================================================================
