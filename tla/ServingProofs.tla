---------------------------- MODULE ServingProofs ----------------------------
(***************************************************************************)
(* Theorems about Serving, for every set of files, connections and         *)
(* downloads.                                                              *)
(***************************************************************************)
EXTENDS Serving, FiniteSetTheorems, TLAPS

(* The downloads that have an entry in wlocked_files for f: those that     *)
(* store it, and those that failed to create it and left the lock behind.  *)
Storing(f) ==
    {d \in Downloads : dfile[d] = f /\ dpc[d] \in {"open", "write", "unlock", "failed"}}

(* wlocked_files counts them.  That a writer stays locked is not inductive *)
(* by itself: write_unlock takes one entry of that name, and only the      *)
(* count says that one is left for the other writer.                       *)
WriteLockPerDownload == \A f \in Files : wlocked_files[f] = Cardinality(Storing(f))

(* The types need the other two: only a worker that is alive is answered,  *)
(* so cur is a connection when its answer is sent, and write_unlock finds  *)
(* an entry to erase, because its caller has one of its own.               *)
ServingInv ==
    /\ TypeOK
    /\ NoHandlerOfDeleted
    /\ WriteLockPerDownload

(* A server that has not accepted anybody satisfies the invariant.         *)
LEMMA ServingInit == Init => ServingInv
<1> SUFFICES ASSUME Init PROVE ServingInv
  OBVIOUS
<1>1. TypeOK
  BY DEF Init, FileInit, TypeOK, FileTypeOK, ServerStates, DownloadStates
<1>2. NoHandlerOfDeleted
  BY DEF Init, NoHandlerOfDeleted
<1>3. ASSUME NEW f \in Files PROVE wlocked_files[f] = Cardinality(Storing(f))
  <2>1. Storing(f) = {}
    BY DEF Init, Storing
  <2>2. QED
    BY <2>1, FS_EmptySet DEF Init, FileInit
<1>4. QED
  BY <1>1, <1>2, <1>3 DEF ServingInv, WriteLockPerDownload

-----------------------------------------------------------------------------
(* The entries of wlocked_files and the downloads they belong to.          *)

(* The downloads that are storing a file are finitely many.                *)
LEMMA StoringFinite ==
    ASSUME NEW f
    PROVE  IsFiniteSet(Storing(f)) /\ Cardinality(Storing(f)) \in Nat
<1>1. Storing(f) \subseteq Downloads
  BY DEF Storing
<1>2. IsFiniteSet(Storing(f))
  BY <1>1, DownloadsAssumption, FS_Subset
<1>3. QED
  BY <1>2, FS_CardinalityType

(* A step that neither locks nor unlocks: every download that was storing  *)
(* a file still is, and no other one has begun to.                         *)
LEMMA SameStoring ==
    ASSUME ServingInv, wlocked_files' = wlocked_files, dfile' = dfile,
           \A d \in Downloads :
             dpc'[d] \in {"open", "write", "unlock", "failed"}
               <=> dpc[d] \in {"open", "write", "unlock", "failed"}
    PROVE  WriteLockPerDownload'
<1>1. ASSUME NEW f \in Files PROVE Storing(f)' = Storing(f)
  BY DEF Storing
<1>2. QED
  BY <1>1 DEF ServingInv, WriteLockPerDownload

(* write_lock adds the entry of the download that calls it.                *)
LEMMA LockCounts ==
    ASSUME ServingInv, NEW d \in Downloads, TakeWriteLock(d)
    PROVE  WriteLockPerDownload'
<1>1. /\ dpc[d] = "lock" /\ dpc' = [dpc EXCEPT ![d] = "open"]
      /\ dfile' = dfile
      /\ wlocked_files' = [wlocked_files EXCEPT ![dfile[d]] = @ + 1]
  BY DEF TakeWriteLock, Move, WriteLock
<1>2. ASSUME NEW f \in Files PROVE wlocked_files'[f] = Cardinality(Storing(f)')
  <2>1. CASE f = dfile[d]
    <3>1. d \notin Storing(f) /\ Storing(f)' = Storing(f) \cup {d}
      BY <1>1, <2>1 DEF Storing, ServingInv, TypeOK
    <3>2. Cardinality(Storing(f)') = Cardinality(Storing(f)) + 1
      BY <3>1, StoringFinite, FS_AddElement
    <3>3. QED
      BY <1>1, <2>1, <3>2 DEF ServingInv, TypeOK, FileTypeOK, WriteLockPerDownload
  <2>2. CASE f # dfile[d]
    <3>1. Storing(f)' = Storing(f)
      BY <1>1, <2>2 DEF Storing, ServingInv, TypeOK
    <3>2. QED
      BY <1>1, <2>2, <3>1 DEF ServingInv, TypeOK, FileTypeOK, WriteLockPerDownload
  <2>3. QED
    BY <2>1, <2>2
<1>3. QED
  BY <1>2 DEF WriteLockPerDownload

(* write_unlock finds an entry to erase, and takes no other download's.    *)
LEMMA UnlockCounts ==
    ASSUME ServingInv, NEW d \in Downloads, ReleaseWriteLock(d)
    PROVE  WriteLockPerDownload' /\ wlocked_files' \in [Files -> Nat]
<1>1. /\ dpc[d] = "unlock" /\ dpc' = [dpc EXCEPT ![d] = "notify"]
      /\ dfile' = dfile /\ dfile[d] \in Files
      /\ wlocked_files' = [wlocked_files EXCEPT ![dfile[d]] = @ - 1]
  BY DEF ReleaseWriteLock, Move, WriteUnlock, ServingInv, TypeOK
<1>2. ASSUME NEW f \in Files
      PROVE  wlocked_files'[f] = Cardinality(Storing(f)') /\ wlocked_files'[f] \in Nat
  <2>1. CASE f = dfile[d]
    <3>1. d \in Storing(f) /\ Storing(f)' = Storing(f) \ {d}
      BY <1>1, <2>1 DEF Storing, ServingInv, TypeOK
    <3>2. /\ Cardinality(Storing(f)') = Cardinality(Storing(f)) - 1
          /\ Cardinality(Storing(f)') \in Nat
      BY <3>1, StoringFinite, FS_RemoveElement, FS_CardinalityType
    <3>3. QED
      BY <1>1, <2>1, <3>2 DEF ServingInv, TypeOK, FileTypeOK, WriteLockPerDownload
  <2>2. CASE f # dfile[d]
    <3>1. Storing(f)' = Storing(f)
      BY <1>1, <2>2 DEF Storing, ServingInv, TypeOK
    <3>2. QED
      BY <1>1, <2>2, <3>1 DEF ServingInv, TypeOK, FileTypeOK, WriteLockPerDownload
  <2>3. QED
    BY <2>1, <2>2
<1>3. wlocked_files' \in [Files -> Nat]
  BY <1>1, <1>2 DEF ServingInv, TypeOK, FileTypeOK
<1>4. QED
  BY <1>2, <1>3 DEF WriteLockPerDownload

-----------------------------------------------------------------------------
(* The steps of the server thread.                                         *)

(* Between two handlers: a connection is accepted, something has arrived,  *)
(* or an answer is out.                                                    *)
LEMMA IdleSafe ==
    ASSUME ServingInv,
           \/ \E c \in Conns :
                \/ Accept(c) \/ UnknownArrives(c) \/ ReadFails(c)
                \/ SegmentSent(c) \/ SendFails(c)
                \/ \E f \in Files : RequestArrives(c, f) \/ QuitArrives(c, f)
           \/ AcceptFails
    PROVE  ServingInv'
<1> USE DEF fileVars, handlerVars, downloadVars, connVars
<1>1. srv = "idle" /\ srv' \in {"idle", "check", "terminated"}
  BY DEF Accept, UnknownArrives, ReadFails, SegmentSent, SendFails, RequestArrives,
     QuitArrives, AcceptFails
<1>2. WriteLockPerDownload'
  <2>1. wlocked_files' = wlocked_files /\ dfile' = dfile /\ dpc' = dpc
    BY DEF Accept, UnknownArrives, ReadFails, SegmentSent, SendFails, RequestArrives,
       QuitArrives, ReadUnlock, AcceptFails
  <2>2. QED
    BY <2>1, SameStoring
<1>3. TypeOK' /\ NoHandlerOfDeleted'
  <2> USE DEF ServingInv, TypeOK, FileTypeOK, NoHandlerOfDeleted, ServerStates
  <2>1. ASSUME NEW c \in Conns, Accept(c)
        PROVE  TypeOK' /\ NoHandlerOfDeleted'
    BY <2>1 DEF Accept
  <2>2. ASSUME NEW c \in Conns, UnknownArrives(c) \/ ReadFails(c)
        PROVE  TypeOK' /\ NoHandlerOfDeleted'
    BY <2>2 DEF UnknownArrives, ReadFails
  <2>3. ASSUME NEW c \in Conns, SegmentSent(c) \/ SendFails(c)
        PROVE  TypeOK' /\ NoHandlerOfDeleted'
    BY <2>3 DEF SegmentSent, SendFails
  <2>4. ASSUME NEW c \in Conns, NEW f \in Files, RequestArrives(c, f)
        PROVE  TypeOK' /\ NoHandlerOfDeleted'
    BY <2>4 DEF RequestArrives
  <2>5. ASSUME NEW c \in Conns, NEW f \in Files, QuitArrives(c, f)
        PROVE  TypeOK' /\ NoHandlerOfDeleted'
    BY <2>5 DEF QuitArrives, ReadUnlock
  <2>6. CASE AcceptFails
    BY <2>6 DEF AcceptFails
  <2>7. QED
    BY <2>1, <2>2, <2>3, <2>4, <2>5, <2>6
<1>4. QED
  BY <1>1, <1>2, <1>3 DEF ServingInv

(* Inside handle_read: the worker of the request is alive and has nothing  *)
(* pending until the handler answers or deletes it.                        *)
LEMMA HandlerSafe ==
    ASSUME ServingInv,
           \/ CheckWriteLock \/ WaitForWriter \/ OpenStream
           \/ GetSegment \/ GetSegmentNoStream
           \/ ServerWakeup
    PROVE  ServingInv'
<1> USE DEF fileVars, handlerVars, downloadVars, connVars
<1>1. WriteLockPerDownload'
  <2>1. wlocked_files' = wlocked_files /\ dfile' = dfile /\ dpc' = dpc
    BY DEF CheckWriteLock, WaitForWriter, AwaitUnlock, OpenStream, OpenForReading,
       GetSegment, ReadSegment, ReadSegmentFails, GetSegmentNoStream, ServerWakeup,
       SpuriousWakeup
  <2>2. QED
    BY <2>1, SameStoring
<1>2. TypeOK' /\ NoHandlerOfDeleted'
  <2> USE DEF ServingInv, TypeOK, FileTypeOK, NoHandlerOfDeleted,
              ServerStates
  <2>1. CASE CheckWriteLock
    BY <2>1 DEF CheckWriteLock
  <2>2. CASE WaitForWriter
    BY <2>2 DEF WaitForWriter, AwaitUnlock, Threads
  <2>3. CASE OpenStream
    BY <2>3 DEF OpenStream, OpenForReading
  <2>4. CASE GetSegment
    BY <2>4 DEF GetSegment, ReadSegment, ReadSegmentFails, Reply, DeleteWorker, EndHandler
  <2>5. CASE GetSegmentNoStream
    BY <2>5 DEF GetSegmentNoStream, ReadSegment, ReadSegmentFails, Reply, DeleteWorker, EndHandler
  <2>6. CASE ServerWakeup
    BY <2>6 DEF ServerWakeup, SpuriousWakeup
  <2>7. QED
    BY <2>1, <2>2, <2>3, <2>4, <2>5, <2>6
<1>3. QED
  BY <1>1, <1>2 DEF ServingInv

-----------------------------------------------------------------------------
(* The steps of a download: they change no connection and close no stream. *)
LEMMA DownloadSafe ==
    ASSUME ServingInv, NEW d \in Downloads, DownloadStep(d)
    PROVE  ServingInv'
<1> USE DEF fileVars, handlerVars, downloadVars, connVars, Move
<1>1. WriteLockPerDownload' /\ wlocked_files' \in [Files -> Nat]
  <2>1. CASE TakeWriteLock(d)
    <3>1. WriteLockPerDownload'
      BY <2>1, LockCounts
    <3>2. wlocked_files' \in [Files -> Nat]
      BY <2>1 DEF TakeWriteLock, WriteLock, ServingInv, TypeOK, FileTypeOK
    <3>3. QED
      BY <3>1, <3>2
  <2>2. CASE ReleaseWriteLock(d)
    BY <2>2, UnlockCounts
  <2>3. CASE \/ FindReadLocked(d) \/ WaitForReader(d) \/ CreateFile(d)
             \/ CreateFileFails(d) \/ FillFile(d) \/ NotifyWaiters(d)
             \/ DownloadWakeup(d)
    <3>1. /\ wlocked_files' = wlocked_files /\ dfile' = dfile
          /\ \A e \in Downloads :
               dpc'[e] \in {"open", "write", "unlock", "failed"}
                 <=> dpc[e] \in {"open", "write", "unlock", "failed"}
      BY <2>3 DEF FindReadLocked, WaitForReader, AwaitUnlock, CreateFile,
         OpenForWriting, CreateFileFails, FillFile, WriteFile, NotifyWaiters,
         NotifyAll, DownloadWakeup, SpuriousWakeup, ServingInv, TypeOK
    <3>2. QED
      BY <3>1, SameStoring DEF ServingInv, TypeOK, FileTypeOK
  <2>4. QED
    BY <2>1, <2>2, <2>3 DEF DownloadStep
<1>2. UNCHANGED <<rlocked_files, broken, connVars, handlerVars, dfile>>
  BY DEF DownloadStep, TakeWriteLock, WriteLock, FindReadLocked, WaitForReader,
     AwaitUnlock, CreateFile, OpenForWriting, CreateFileFails, FillFile, WriteFile,
     ReleaseWriteLock, WriteUnlock, NotifyWaiters, NotifyAll, DownloadWakeup,
     SpuriousWakeup
<1>3. condv' \subseteq Threads
  BY DEF DownloadStep, TakeWriteLock, WriteLock, FindReadLocked, WaitForReader,
     AwaitUnlock, CreateFile, OpenForWriting, CreateFileFails, FillFile, WriteFile,
     ReleaseWriteLock, WriteUnlock, NotifyWaiters, NotifyAll, DownloadWakeup,
     SpuriousWakeup, ServingInv, TypeOK, FileTypeOK, Threads
<1>4. disk' \in [Files -> {"absent", "partial", "whole"}]
  BY DEF DownloadStep, TakeWriteLock, WriteLock, FindReadLocked, WaitForReader,
     AwaitUnlock, CreateFile, OpenForWriting, CreateFileFails, FillFile, WriteFile,
     ReleaseWriteLock, WriteUnlock, NotifyWaiters, NotifyAll, DownloadWakeup,
     SpuriousWakeup, ServingInv, TypeOK, FileTypeOK
<1>5. dpc' \in [Downloads -> DownloadStates]
  BY DEF DownloadStep, TakeWriteLock, FindReadLocked, WaitForReader, CreateFile,
     CreateFileFails, FillFile, ReleaseWriteLock, NotifyWaiters, DownloadWakeup,
     ServingInv, TypeOK, DownloadStates
<1>6. QED
  BY <1>1, <1>2, <1>3, <1>4, <1>5 DEF ServingInv, TypeOK, FileTypeOK,
     NoHandlerOfDeleted

(* Every step of every thread preserves the invariant.                     *)
LEMMA ServingStep == ServingInv /\ [Next]_vars => ServingInv'
<1> SUFFICES ASSUME ServingInv, [Next]_vars PROVE ServingInv'
  OBVIOUS
<1>1. CASE ServerStep
  BY <1>1, IdleSafe, HandlerSafe DEF ServerStep
<1>2. CASE \E d \in Downloads : DownloadStep(d)
  BY <1>2, DownloadSafe
<1>3. CASE Terminated \/ UNCHANGED vars
  <2>1. WriteLockPerDownload'
    BY <1>3, SameStoring DEF Terminated, vars, fileVars, downloadVars
  <2>2. QED
    BY <1>3, <2>1 DEF Terminated, vars, fileVars, connVars, handlerVars, downloadVars,
       ServingInv, TypeOK, FileTypeOK, NoHandlerOfDeleted
<1>4. QED
  BY <1>1, <1>2, <1>3 DEF Next

-----------------------------------------------------------------------------
(* The inductive invariant of the file server: it relates the requests on  *)
(* their way through handle_read, the pending operations of the workers,   *)
(* the open streams and the locks of store_resource.                       *)
THEOREM ServingInvariant == Spec => []ServingInv
BY ServingInit, ServingStep, PTL DEF Spec

(* Every variable of the file server keeps its type; in particular, no     *)
(* write_unlock finds its entry gone.                                      *)
THEOREM ServingTypeCorrect == Spec => []TypeOK
<1>1. ServingInv => TypeOK
  BY DEF ServingInv
<1>2. QED
  BY <1>1, ServingInvariant, PTL

(* No handler of a RequestWorker runs after its "delete this".             *)
THEOREM NoUseAfterDelete == Spec => []NoHandlerOfDeleted
<1>1. ServingInv => NoHandlerOfDeleted
  BY DEF ServingInv
<1>2. QED
  BY <1>1, ServingInvariant, PTL

(* Whoever writes a file keeps read_lock out until it has finished, even   *)
(* when another download of the same name finishes first.                  *)
THEOREM WritersStayLocked == Spec => []WriterStaysLocked
<1>1. ServingInv => WriterStaysLocked
  <2> SUFFICES ASSUME ServingInv, NEW d \in Downloads,
                      dpc[d] \in {"open", "write", "unlock"}
               PROVE  WriteLocked(dfile[d])
    BY DEF WriterStaysLocked
  <2>1. dfile[d] \in Files
    BY DEF ServingInv, TypeOK
  <2>2. d \in Storing(dfile[d])
    BY DEF Storing
  <2>3. Cardinality(Storing(dfile[d])) \in Nat /\ Cardinality(Storing(dfile[d])) # 0
    BY <2>2, StoringFinite, FS_EmptySet
  <2>4. QED
    BY <2>1, <2>3 DEF WriteLocked, ServingInv, WriteLockPerDownload
<1>2. QED
  BY <1>1, ServingInvariant, PTL
=============================================================================
