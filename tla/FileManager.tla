----------------------------- MODULE FileManager -----------------------------
(***************************************************************************)
(* src/src/FileManager.cpp: the locks on local files and what is on disk.  *)
(* Every operator is one critical section of wlmutex, rlmutex or           *)
(* condvmutex, or one operation on a file outside of them; the callers run *)
(* them in the order of read_lock, get_segment, read_unlock and            *)
(* store_resource.                                                         *)
(***************************************************************************)
EXTENDS Integers, FiniteSets

CONSTANT Files  \* file names

VARIABLES
    rlocked_files,  \* the files with an open stream (one entry at most each)
    broken,         \* those whose stream is in a failed state
    wlocked_files,  \* wlocked_files[f]: how often f occurs in the vector
    condv,          \* the threads waiting on the condition variable
    disk            \* disk[f]: "absent", "partial" while written, "whole"

fileVars == <<rlocked_files, broken, wlocked_files, condv, disk>>

FileTypeOK(threads) ==
    /\ rlocked_files \subseteq Files
    /\ broken \subseteq rlocked_files
    /\ wlocked_files \in [Files -> Nat]
    /\ condv \subseteq threads
    /\ disk \in [Files -> {"absent", "partial", "whole"}]

FileInit ==
    /\ rlocked_files = {}
    /\ broken = {}
    /\ wlocked_files = [f \in Files |-> 0]
    /\ condv = {}
    /\ disk \in [Files -> {"absent", "whole"}]

(* The wlmutex section of read_lock.                                       *)
WriteLocked(f) == wlocked_files[f] > 0

(* condv.wait, entered after the mutex of the vectors was released.        *)
AwaitUnlock(t) ==
    /\ condv' = condv \cup {t}
    /\ UNCHANGED <<rlocked_files, broken, wlocked_files, disk>>

SpuriousWakeup(t) ==
    /\ t \in condv
    /\ condv' = condv \ {t}
    /\ UNCHANGED <<rlocked_files, broken, wlocked_files, disk>>

(* The rlmutex section of read_lock: keep the open stream or open one.  A  *)
(* file that exists may fail to open too (permissions, descriptors).       *)
OpenForReading(f) ==
    /\ \/ disk[f] # "absent" /\ rlocked_files' = rlocked_files \cup {f}
       \/ UNCHANGED rlocked_files
    /\ UNCHANGED <<broken, wlocked_files, condv, disk>>

(* get_segment on an open stream.  A size above SEGMENT_SIZE is refused    *)
(* before the stream is used; a read past the end fails and leaves the     *)
(* stream failed, and then every later seekg fails as well.                *)
ReadSegment(f) ==
    /\ f \in rlocked_files \ broken
    /\ UNCHANGED fileVars

ReadSegmentFails(f) ==
    /\ f \in rlocked_files
    /\ broken' \in {broken, broken \cup {f}}
    /\ UNCHANGED <<rlocked_files, wlocked_files, condv, disk>>

(* Mutant: the entry goes, the failed stream stays.                        *)
ReadUnlockKeepsStream(f) ==
    /\ rlocked_files' = rlocked_files \ {f}
    /\ UNCHANGED <<broken, wlocked_files, condv, disk>>

(* read_unlock closes the stream whoever else uses it; nobody is notified. *)
ReadUnlock(f) ==
    /\ rlocked_files' = rlocked_files \ {f}
    /\ broken' = broken \ {f}
    /\ UNCHANGED <<wlocked_files, condv, disk>>

(* write_lock with wlmutex and rlmutex held: other writers do not matter.  *)
WriteLock(f) ==
    /\ f \notin rlocked_files
    /\ wlocked_files' = [wlocked_files EXCEPT ![f] = @ + 1]
    /\ UNCHANGED <<rlocked_files, broken, condv, disk>>

(* The body of store_resource: truncate or create the file, then write it. *)
OpenForWriting(f) ==
    /\ disk' = [disk EXCEPT ![f] = "partial"]
    /\ UNCHANGED <<rlocked_files, broken, wlocked_files, condv>>

WriteFile(f) ==
    /\ \/ disk' = [disk EXCEPT ![f] = "whole"]
       \/ UNCHANGED disk  \* the write failed, which is only logged
    /\ UNCHANGED <<rlocked_files, broken, wlocked_files, condv>>

(* Mutant: every entry of that name is erased.                             *)
WriteUnlockAll(f) ==
    /\ wlocked_files' = [wlocked_files EXCEPT ![f] = 0]
    /\ UNCHANGED <<rlocked_files, broken, condv, disk>>

(* write_unlock erases one entry, and notifies with wlmutex released.      *)
WriteUnlock(f) ==
    /\ wlocked_files' = [wlocked_files EXCEPT ![f] = @ - 1]
    /\ UNCHANGED <<rlocked_files, broken, condv, disk>>

NotifyAll ==
    /\ condv' = {}
    /\ UNCHANGED <<rlocked_files, broken, wlocked_files, disk>>
=============================================================================
