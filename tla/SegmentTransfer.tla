--------------------------- MODULE SegmentTransfer ---------------------------
(***************************************************************************)
(* What a download promises (include/CompleteResource.h and                *)
(* include/DownloadService.h): segments are handed out to workers one at   *)
(* a time, each to one worker at a time; a worker completes its segment or *)
(* gives it back; the file is stored once every segment is there.          *)
(***************************************************************************)
CONSTANTS Workers, Segments

VARIABLES
    holds,  \* holds[w]: the segment in the hands of w, as a set of at most one
    done,   \* the segments that were completed
    file    \* the segments in the file on disk

transferVars == <<holds, done, file>>

Init ==
    /\ holds = [w \in Workers |-> {}]
    /\ done = {}
    /\ file = {}

Assign(w, s) ==
    /\ holds[w] = {}
    /\ s \notin done
    /\ \A v \in Workers : s \notin holds[v]
    /\ holds' = [holds EXCEPT ![w] = {s}]
    /\ UNCHANGED <<done, file>>

Complete(w) ==
    /\ holds[w] # {}
    /\ done' = done \cup holds[w]
    /\ holds' = [holds EXCEPT ![w] = {}]
    /\ UNCHANGED file

GiveUp(w) ==
    /\ holds[w] # {}
    /\ holds' = [holds EXCEPT ![w] = {}]
    /\ UNCHANGED <<done, file>>

Store ==
    /\ done = Segments
    /\ file' = Segments
    /\ UNCHANGED <<holds, done>>

Next ==
    \/ \E w \in Workers :
        \/ \E s \in Segments : Assign(w, s)
        \/ Complete(w)
        \/ GiveUp(w)
    \/ Store

Spec == Init /\ [][Next]_transferVars
=============================================================================
