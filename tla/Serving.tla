------------------------------- MODULE Serving -------------------------------
(***************************************************************************)
(* The file server of a node (src/src/RequestServer.cpp and                *)
(* src/src/RequestWorker.cpp) next to the downloads that store files       *)
(* (DownloadService::store_file), over the shared FileManager.             *)
(*                                                                         *)
(* One thread runs the io_service of RequestServerModule and with it every *)
(* handler of every RequestWorker; each download has its own thread.       *)
(***************************************************************************)
EXTENDS FileManager

CONSTANTS
    Conns,      \* TCP connections, one RequestWorker each
    Downloads,  \* downloads that have come to store_resource
    Server,     \* the thread of the server
    None        \* no connection

ASSUME ServingAssumption == Server \notin Downloads /\ None \notin Conns
ASSUME DownloadsAssumption == IsFiniteSet(Downloads)

VARIABLES
    live,       \* the RequestWorker objects that exist
    reading,    \* those with an async_read_some pending
    writing,    \* those with an async_write pending
    srv,        \* where the server thread is
    cur,        \* the RequestWorker whose handler runs
    req_file,   \* the file that handler is about
    dpc,        \* dpc[d]: where the thread of download d is
    dfile       \* dfile[d]: the file it stores

connVars     == <<live, reading, writing>>
handlerVars  == <<srv, cur, req_file>>
downloadVars == <<dpc, dfile>>
vars == <<fileVars, connVars, handlerVars, downloadVars>>

Threads == Downloads \cup {Server}

ServerStates == {"idle", "check", "wait", "open", "get", "terminated"}
DownloadStates ==
    {"lock", "wait", "open", "write", "unlock", "notify", "stored", "failed"}

(* The data types of all variables of the file server.                     *)
TypeOK ==
    /\ FileTypeOK(Threads)
    /\ live \subseteq Conns /\ reading \subseteq Conns /\ writing \subseteq Conns
    /\ srv \in ServerStates
    /\ cur \in Conns \cup {None}
    /\ req_file \in Files
    /\ dpc \in [Downloads -> DownloadStates]
    /\ dfile \in [Downloads -> Files]

Init ==
    /\ FileInit
    /\ live = {} /\ reading = {} /\ writing = {}
    /\ srv = "idle"
    /\ cur = None
    /\ req_file \in Files
    /\ dpc = [d \in Downloads |-> "lock"]
    /\ dfile \in [Downloads -> Files]

Running == srv # "terminated"

-----------------------------------------------------------------------------
(* The server thread, between two handlers.                                *)

(* handle_accept and start: the new worker waits for a request.            *)
Accept(c) ==
    /\ srv = "idle"
    /\ c \notin live
    /\ live' = live \cup {c}
    /\ reading' = reading \cup {c}
    /\ UNCHANGED <<fileVars, writing, handlerVars, downloadVars>>

(* A worker whose accept failed is deleted before start() set send_data,   *)
(* so its destructor may delete any address.                               *)
AcceptFails ==
    /\ srv = "idle"
    /\ srv' \in {"idle", "terminated"}
    /\ UNCHANGED <<fileVars, connVars, cur, req_file, downloadVars>>

(* handle_read: bytes_transferred is ignored, the file name is whatever    *)
(* the buffer holds.                                                       *)
RequestArrives(c, f) ==
    /\ srv = "idle"
    /\ c \in reading
    /\ reading' = reading \ {c}
    /\ srv' = "check"
    /\ cur' = c
    /\ req_file' = f
    /\ UNCHANGED <<fileVars, live, writing, downloadVars>>

(* QUIT_CONN.  After an erase, the loop of read_unlock goes on with an     *)
(* invalid iterator.                                                       *)
QuitArrives(c, f) ==
    /\ srv = "idle"
    /\ c \in reading
    /\ ReadUnlock(f)
    /\ reading' = reading \ {c}
    /\ live' = live \ {c}
    /\ srv' \in IF f \in rlocked_files THEN {"idle", "terminated"} ELSE {"idle"}
    /\ UNCHANGED <<writing, cur, req_file, downloadVars>>

(* Any other command: the worker stays, but never reads again.             *)
UnknownArrives(c) ==
    /\ srv = "idle"
    /\ c \in reading
    /\ reading' = reading \ {c}
    /\ UNCHANGED <<fileVars, live, writing, handlerVars, downloadVars>>

ReadFails(c) ==
    /\ srv = "idle"
    /\ c \in reading
    /\ reading' = reading \ {c}
    /\ live' = live \ {c}
    /\ UNCHANGED <<fileVars, writing, handlerVars, downloadVars>>

(* handle_write.                                                           *)
SegmentSent(c) ==
    /\ srv = "idle"
    /\ c \in writing
    /\ writing' = writing \ {c}
    /\ reading' = reading \cup {c}
    /\ UNCHANGED <<fileVars, live, handlerVars, downloadVars>>

(* Mutant: the deleted worker starts its next read.                        *)
SendFailsGoesOn(c) ==
    /\ srv = "idle"
    /\ c \in writing
    /\ writing' = writing \ {c}
    /\ live' = live \ {c}
    /\ reading' = reading \cup {c}
    /\ UNCHANGED <<fileVars, handlerVars, downloadVars>>

SendFails(c) ==
    /\ srv = "idle"
    /\ c \in writing
    /\ writing' = writing \ {c}
    /\ live' = live \ {c}
    /\ UNCHANGED <<fileVars, reading, handlerVars, downloadVars>>

-----------------------------------------------------------------------------
(* The server thread inside handle_read: read_lock, then get_segment.      *)

CheckWriteLock ==
    /\ srv = "check"
    /\ Server \notin condv
    /\ srv' = IF WriteLocked(req_file) THEN "wait" ELSE "open"
    /\ UNCHANGED <<fileVars, connVars, cur, req_file, downloadVars>>

WaitForWriter ==
    /\ srv = "wait"
    /\ AwaitUnlock(Server)
    /\ srv' = "check"
    /\ UNCHANGED <<connVars, cur, req_file, downloadVars>>

(* The handler ignores what read_lock returns.                             *)
OpenStream ==
    /\ srv = "open"
    /\ OpenForReading(req_file)
    /\ srv' = "get"
    /\ UNCHANGED <<connVars, cur, req_file, downloadVars>>

Reply ==
    /\ writing' = writing \cup {cur}
    /\ UNCHANGED <<live, reading>>

DeleteWorker ==
    /\ live' = live \ {cur}
    /\ UNCHANGED <<reading, writing>>

EndHandler == srv' = "idle" /\ cur' = None

GetSegment ==
    /\ srv = "get"
    /\ \/ ReadSegment(req_file) /\ Reply
       \/ ReadSegmentFails(req_file) /\ DeleteWorker
    /\ EndHandler
    /\ UNCHANGED <<req_file, downloadVars>>

(* Without a stream for the file, file_ptr is uninitialised: it may point  *)
(* to the stream of another file, to a closed one, or anywhere.            *)
GetSegmentNoStream ==
    /\ srv = "get"
    /\ req_file \notin rlocked_files
    /\ \/ /\ \E f \in Files : ReadSegment(f)
          /\ Reply
          /\ EndHandler
       \/ /\ UNCHANGED fileVars \/ \E f \in Files : ReadSegmentFails(f)
          /\ DeleteWorker
          /\ EndHandler
       \/ /\ srv' = "terminated"
          /\ UNCHANGED <<fileVars, connVars, cur>>
    /\ UNCHANGED <<req_file, downloadVars>>

ServerWakeup ==
    /\ Running
    /\ SpuriousWakeup(Server)
    /\ UNCHANGED <<connVars, handlerVars, downloadVars>>

-----------------------------------------------------------------------------
(* The thread of a download inside store_resource.                         *)

Move(d, from, to) == Running /\ dpc[d] = from /\ dpc' = [dpc EXCEPT ![d] = to]

TakeWriteLock(d) ==
    /\ d \notin condv
    /\ Move(d, "lock", "open")
    /\ WriteLock(dfile[d])
    /\ UNCHANGED <<connVars, handlerVars, dfile>>

FindReadLocked(d) ==
    /\ d \notin condv
    /\ dfile[d] \in rlocked_files
    /\ Move(d, "lock", "wait")
    /\ UNCHANGED <<fileVars, connVars, handlerVars, dfile>>

WaitForReader(d) ==
    /\ Move(d, "wait", "lock")
    /\ AwaitUnlock(d)
    /\ UNCHANGED <<connVars, handlerVars, dfile>>

CreateFile(d) ==
    /\ Move(d, "open", "write")
    /\ OpenForWriting(dfile[d])
    /\ UNCHANGED <<connVars, handlerVars, dfile>>

(* The early return: the write lock stays.                                 *)
CreateFileFails(d) ==
    /\ Move(d, "open", "failed")
    /\ UNCHANGED <<fileVars, connVars, handlerVars, dfile>>

FillFile(d) ==
    /\ Move(d, "write", "unlock")
    /\ WriteFile(dfile[d])
    /\ UNCHANGED <<connVars, handlerVars, dfile>>

ReleaseWriteLock(d) ==
    /\ Move(d, "unlock", "notify")
    /\ WriteUnlock(dfile[d])
    /\ UNCHANGED <<connVars, handlerVars, dfile>>

NotifyWaiters(d) ==
    /\ Move(d, "notify", "stored")
    /\ NotifyAll
    /\ UNCHANGED <<connVars, handlerVars, dfile>>

DownloadWakeup(d) ==
    /\ Running
    /\ SpuriousWakeup(d)
    /\ UNCHANGED <<connVars, handlerVars, downloadVars>>

-----------------------------------------------------------------------------
(* The specification.                                                      *)

ServerStep ==
    \/ \E c \in Conns :
        \/ Accept(c) \/ UnknownArrives(c) \/ ReadFails(c)
        \/ SegmentSent(c) \/ SendFails(c)
        \/ \E f \in Files : RequestArrives(c, f) \/ QuitArrives(c, f)
    \/ AcceptFails
    \/ CheckWriteLock \/ WaitForWriter \/ OpenStream
    \/ GetSegment \/ GetSegmentNoStream
    \/ ServerWakeup

DownloadStep(d) ==
    \/ TakeWriteLock(d) \/ FindReadLocked(d) \/ WaitForReader(d)
    \/ CreateFile(d) \/ CreateFileFails(d) \/ FillFile(d)
    \/ ReleaseWriteLock(d) \/ NotifyWaiters(d)
    \/ DownloadWakeup(d)

Terminated == ~Running /\ UNCHANGED vars

Next == ServerStep \/ (\E d \in Downloads : DownloadStep(d)) \/ Terminated

Spec == Init /\ [][Next]_vars

-----------------------------------------------------------------------------
(* Properties.                                                             *)

(* The operation a handler starts is the only one of its worker, and no    *)
(* operation is pending for a worker that was deleted: "delete this" is    *)
(* never followed by a handler of that object.                             *)
NoHandlerOfDeleted ==
    /\ reading \cup writing \subseteq live
    /\ reading \cap writing = {}
    /\ srv \in {"check", "wait", "open", "get"} => cur \in live \ (reading \cup writing)

(* A file is in wlocked_files as long as any download writes it.  Two      *)
(* downloads may write one file at once, for write_lock does not ask for   *)
(* other writers: even so, the write_unlock of the first to finish does    *)
(* not let read_lock through to the file that the other is still writing.  *)
WriterStaysLocked ==
    \A d \in Downloads : dpc[d] \in {"open", "write", "unlock"} => WriteLocked(dfile[d])

(* FileManager.h on read_lock: "prevents other threads from overwriting it *)
(* until it's closed".  No download has a file open for writing while the  *)
(* server has it open for reading.                                         *)
ReadersExcludeWriters ==
    \A f \in rlocked_files : \A d \in Downloads : dfile[d] = f => dpc[d] # "write"
=============================================================================
