-------------------------- MODULE CompleteResource --------------------------
(***************************************************************************)
(* src/src/CompleteResource.cpp: the file being downloaded, shared by all  *)
(* the download workers of one DownloadService.  Every operator below is   *)
(* one critical section of complete_resource_mutex.  get_segment is two of *)
(* them, IsCompleted and then TakeSegment or Wait: the mutex is free       *)
(* between the two.                                                        *)
(***************************************************************************)
EXTENDS Integers, FiniteSets

CONSTANTS
    Uint16Max,     \* 65535, the largest Uint16
    SegmentsCount  \* calc_segments_count() of the resource, a Uint16

ASSUME Uint16Assumption == Uint16Max \in Nat
ASSUME SegmentsCountAssumption == SegmentsCount \in 0..Uint16Max

VARIABLES
    busy_segments,       \* the segments whose busy bit is set
    completed_segments,  \* the segments whose completed bit is set
    completed_counter,   \* a Uint16, incremented by every set_segment
    cv                   \* the threads blocked in cv.wait

resourceVars == <<busy_segments, completed_segments, completed_counter, cv>>

NO_SEGMENT_ID == Uint16Max
Segments == 0..(SegmentsCount - 1)

ResourceTypeOK(threads) ==
    /\ busy_segments \subseteq Segments
    /\ completed_segments \subseteq Segments
    /\ completed_counter \in 0..Uint16Max
    /\ cv \subseteq threads

ResourceInit ==
    /\ busy_segments = {}
    /\ completed_segments = {}
    /\ completed_counter = 0
    /\ cv = {}

(* Mutant: completed one segment too early.                                *)
IsNearlyCompleted == completed_counter + 1 >= SegmentsCount

IsCompleted == completed_counter = SegmentsCount

(* Mutant: the completed bit is not looked at.                             *)
DownloadableAgain == Segments \ busy_segments

Downloadable == Segments \ (busy_segments \cup completed_segments)

(* The loop of get_segment stops at the lowest downloadable id.            *)
IsFirst(s) == s \in Downloadable /\ \A t \in Downloadable : s <= t

(* Mutant: the busy bit is not set.                                        *)
TakeWithoutBusy(s) == IsFirst(s) /\ UNCHANGED resourceVars

TakeSegment(s) ==
    /\ IsFirst(s)
    /\ busy_segments' = busy_segments \cup {s}
    /\ UNCHANGED <<completed_segments, completed_counter, cv>>

(* No segment to hand out: cv.wait(lk), with no predicate.                 *)
Wait(t) ==
    /\ Downloadable = {}
    /\ cv' = cv \cup {t}
    /\ UNCHANGED <<busy_segments, completed_segments, completed_counter>>

(* Mutant: the completed segment is not counted.                           *)
SetSegmentUncounted(s) ==
    /\ busy_segments' = busy_segments \ {s}
    /\ completed_segments' = completed_segments \cup {s}
    /\ UNCHANGED <<completed_counter, cv>>

(* set_segment does not ask whether the segment was completed before.      *)
SetSegment(s) ==
    LET count == IF completed_counter = Uint16Max THEN 0 ELSE completed_counter + 1
    IN  /\ busy_segments' = busy_segments \ {s}
        /\ completed_segments' = completed_segments \cup {s}
        /\ completed_counter' = count
        /\ cv' = IF count = SegmentsCount THEN {} ELSE cv

(* notify_one wakes some waiting thread when there is one.                 *)
NotifyOne ==
    \/ cv = {} /\ cv' = cv
    \/ \E t \in cv : cv' = cv \ {t}

(* Mutant: nobody is notified.                                             *)
UnsetBusySilently(s) ==
    /\ busy_segments' = busy_segments \ {s}
    /\ UNCHANGED <<completed_segments, completed_counter, cv>>

(* unset_busy does not ask whose segment it is.  For NO_SEGMENT_ID, which  *)
(* is out of the bitset's range, this is the outcome where the write hits  *)
(* no bit of the bitset; the caller adds the one where it is fatal.        *)
UnsetBusy(s) ==
    /\ busy_segments' = busy_segments \ {s}
    /\ NotifyOne
    /\ UNCHANGED <<completed_segments, completed_counter>>

(* A condition variable may wake a waiter on its own.                      *)
SpuriousWakeup(t) ==
    /\ t \in cv
    /\ cv' = cv \ {t}
    /\ UNCHANGED <<busy_segments, completed_segments, completed_counter>>
=============================================================================
