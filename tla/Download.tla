------------------------------ MODULE Download ------------------------------
(***************************************************************************)
(* One download: src/src/DownloadService.cpp and the DownloadWorkers it    *)
(* runs (src/src/DownloadWorker.cpp), over the shared CompleteResource and *)
(* the Host objects.  There is one thread per worker and the thread of the *)
(* service itself; a step is what one thread does between two points where *)
(* another thread can see or change the shared state.                      *)
(*                                                                         *)
(* A resource may list a host more than once (add_file_internal appends to *)
(* hosts_in_possession whatever is there), and each entry gets a worker:   *)
(* host[w] is the host of worker w, and workers may share one.             *)
(***************************************************************************)
EXTENDS Host, CompleteResource

CONSTANT Workers  \* the workers there can be

ASSUME WorkersAssumption == IsFiniteSet(Workers)

VARIABLES
    host,              \* host[w]: the Host of worker w
    workers,           \* the workers that create_workers made
    pc,                \* pc[w]: where the thread of w is
    seg,               \* seg[w]: the local Segment of worker(), if it has one
    owned_segment_id,  \* atomics and flags of the DownloadWorker objects
    timeouted,
    closed,
    socket,            \* socket[w]: "unopened", "open" or "shutdown"
    received,          \* the segments of the data buffer filled by a host
    svc,               \* where the thread of the service is
    todo,              \* the workers its current for loop has yet to visit
    late,              \* the worker, if any, whose timeout is being handled
    victim,            \* the segment check_timeout is about to unset
    outcome,           \* what init() came to
    stored,            \* the segments of the file on disk that hold data
    advertised         \* has add_file made the local host an owner?

peerVars    == <<hostVars, host>>
flagVars    == <<owned_segment_id, timeouted, closed, socket, received>>
workerVars  == <<pc, seg, flagVars>>
checkVars   == <<late, victim>>
resultVars  == <<outcome, stored, advertised>>
serviceVars == <<workers, svc, todo, checkVars, resultVars>>
vars == <<peerVars, resourceVars, workerVars, serviceVars>>

WorkerStates ==
    {"unborn", "connect", "connecting", "loop", "get", "scan", "got", "request",
     "receive", "received", "set", "failed", "throw", "ended"}

ServiceStates ==
    {"create", "init", "control", "survey", "check", "late", "unset", "add_file",
     "store", "close", "join", "destroyed", "terminated"}

SegmentIds == Segments \cup {NO_SEGMENT_ID}

(* The data types of all variables of the download.                        *)
TypeOK ==
    /\ HostTypeOK
    /\ host \in [Workers -> Hosts]
    /\ ResourceTypeOK(Workers)
    /\ workers \subseteq Workers
    /\ pc \in [Workers -> WorkerStates]
    /\ seg \in [Workers -> SegmentIds]
    /\ owned_segment_id \in [Workers -> SegmentIds]
    /\ timeouted \in [Workers -> BOOLEAN]
    /\ closed \in [Workers -> BOOLEAN]
    /\ socket \in [Workers -> {"unopened", "open", "shutdown"}]
    /\ received \subseteq Segments
    /\ svc \in ServiceStates
    /\ todo \subseteq workers
    /\ late \subseteq Workers
    /\ victim \in SegmentIds
    /\ outcome \in {"pending", "stored", "not_stored", "failed"}
    /\ stored \subseteq Segments
    /\ advertised \in BOOLEAN

Init ==
    /\ HostInit
    /\ host \in [Workers -> Hosts]
    /\ ResourceInit
    /\ workers = {}
    /\ pc = [w \in Workers |-> "unborn"]
    /\ seg = [w \in Workers |-> NO_SEGMENT_ID]
    /\ owned_segment_id = [w \in Workers |-> NO_SEGMENT_ID]
    /\ timeouted = [w \in Workers |-> FALSE]
    /\ closed = [w \in Workers |-> FALSE]
    /\ socket = [w \in Workers |-> "unopened"]
    /\ received = {}
    /\ svc = "create"
    /\ todo = {}
    /\ late = {}
    /\ victim = NO_SEGMENT_ID
    /\ outcome = "pending"
    /\ stored = {}
    /\ advertised = FALSE

(* An uncaught exception or a failed assertion ends every thread.          *)
Running == svc # "terminated"

-----------------------------------------------------------------------------
(* The thread of a worker: DownloadWorker::init, connect and worker.       *)

Goto(w, from, to) == Running /\ pc[w] = from /\ pc' = [pc EXCEPT ![w] = to]

(* socket.connect first opens the socket, unless the system has none left, *)
OpenSocket(w) ==
    /\ Goto(w, "connect", "connecting")
    /\ socket' = [socket EXCEPT ![w] = "open"]
    /\ UNCHANGED <<peerVars, resourceVars, serviceVars, seg, owned_segment_id,
                   timeouted, closed, received>>

(* and then blocks until the host has answered or cannot be reached.       *)
Connected(w) ==
    /\ Goto(w, "connecting", "loop")
    /\ UNCHANGED <<peerVars, resourceVars, serviceVars, seg, flagVars>>

ConnectFails(w) ==
    /\ Goto(w, "connect", "throw") \/ Goto(w, "connecting", "throw")
    /\ UNCHANGED <<peerVars, resourceVars, serviceVars, seg, flagVars>>

(* The top of the while loop: leave it when closed, else sit out the ban.  *)
Proceed(w) ==
    /\ IsRetarded(host[w]) => BanWaitOver(host[w])
    /\ ~closed[w]
    /\ Goto(w, "loop", "get")
    /\ UNCHANGED <<peerVars, resourceVars, serviceVars, seg, flagVars>>

LeaveClosed(w) ==
    /\ closed[w]
    /\ Goto(w, "loop", "ended")
    /\ UNCHANGED <<peerVars, resourceVars, serviceVars, seg, flagVars>>

(* get_segment, first critical section (also after a wakeup, because       *)
(* get_segment calls itself): nothing is left, or a segment is looked for. *)
NoSegmentLeft(w) ==
    /\ w \notin cv
    /\ IsCompleted
    /\ Goto(w, "get", "ended")
    /\ UNCHANGED <<peerVars, resourceVars, serviceVars, seg, flagVars>>

NotCompleted(w) ==
    /\ w \notin cv
    /\ ~IsCompleted
    /\ Goto(w, "get", "scan")
    /\ UNCHANGED <<peerVars, resourceVars, serviceVars, seg, flagVars>>

(* get_segment, second critical section.                                   *)
GetSegment(w, s) ==
    /\ Goto(w, "scan", "got")
    /\ TakeSegment(s)
    /\ seg' = [seg EXCEPT ![w] = s]
    /\ UNCHANGED <<peerVars, serviceVars, flagVars>>

WaitForSegment(w) ==
    /\ Goto(w, "scan", "get")
    /\ Wait(w)
    /\ UNCHANGED <<peerVars, serviceVars, seg, flagVars>>

Wakeup(w) ==
    /\ Running
    /\ SpuriousWakeup(w)
    /\ UNCHANGED <<peerVars, workerVars, serviceVars>>

(* owned_segment_id is assigned after the segment was marked busy.         *)
OwnSegment(w) ==
    /\ Goto(w, "got", "request")
    /\ owned_segment_id' = [owned_segment_id EXCEPT ![w] = seg[w]]
    /\ UNCHANGED <<peerVars, resourceVars, serviceVars, seg, timeouted, closed,
                   socket, received>>

(* DownloadWorker::download: request and receive the segment.  Either can  *)
(* fail, and a write to a socket that was shut down does.                  *)
RequestSegment(w) ==
    /\ socket[w] # "shutdown"
    /\ Goto(w, "request", "receive")
    /\ UNCHANGED <<peerVars, resourceVars, serviceVars, seg, flagVars>>

RequestFails(w) ==
    /\ Goto(w, "request", "failed")
    /\ UNCHANGED <<peerVars, resourceVars, serviceVars, seg, flagVars>>

ReceiveSegment(w) ==
    /\ Goto(w, "receive", "received")
    /\ received' = received \cup {seg[w]}
    /\ UNCHANGED <<peerVars, resourceVars, serviceVars, seg, owned_segment_id,
                   timeouted, closed, socket>>

(* Mutant: the error of the read is not looked at.                         *)
ReceiveFailsUnnoticed(w) ==
    /\ Goto(w, "receive", "received")
    /\ UNCHANGED <<peerVars, resourceVars, serviceVars, seg, flagVars>>

ReceiveFails(w) ==
    /\ Goto(w, "receive", "failed")
    /\ UNCHANGED <<peerVars, resourceVars, serviceVars, seg, flagVars>>

ClearTimeouted(w) ==
    /\ Goto(w, "received", "set")
    /\ timeouted' = [timeouted EXCEPT ![w] = FALSE]
    /\ UNCHANGED <<peerVars, resourceVars, serviceVars, seg, owned_segment_id,
                   closed, socket, received>>

CompleteSegment(w) ==
    /\ Goto(w, "set", "loop")
    /\ SetSegment(seg[w])
    /\ seg' = [seg EXCEPT ![w] = NO_SEGMENT_ID]
    /\ UNCHANGED <<peerVars, serviceVars, flagVars>>

(* Mutant: the catch block does not release the segment.                   *)
GiveNothingBack(w) ==
    /\ Goto(w, "failed", "throw")
    /\ seg' = [seg EXCEPT ![w] = NO_SEGMENT_ID]
    /\ UNCHANGED <<peerVars, resourceVars, serviceVars, flagVars>>

(* The catch block of download gives the segment back, and the one of init *)
(* marks the worker closed.                                                *)
GiveBack(w) ==
    /\ Goto(w, "failed", "throw")
    /\ UnsetBusy(owned_segment_id[w])
    /\ seg' = [seg EXCEPT ![w] = NO_SEGMENT_ID]
    /\ UNCHANGED <<peerVars, serviceVars, flagVars>>

(* It composes its message first, with a pointer to a literal moved on by  *)
(* the number of the segment: undefined, and what is read there may end    *)
(* the process before the segment is given back.                           *)
GiveBackCrashes(w) ==
    /\ Running
    /\ pc[w] = "failed"
    /\ svc' = "terminated"
    /\ UNCHANGED <<peerVars, resourceVars, workerVars, workers, todo, checkVars,
                   resultVars>>

WorkerTerminated(w) ==
    /\ Goto(w, "throw", "ended")
    /\ closed' = [closed EXCEPT ![w] = TRUE]
    /\ UNCHANGED <<peerVars, resourceVars, serviceVars, seg, owned_segment_id,
                   timeouted, socket, received>>

-----------------------------------------------------------------------------
(* The thread of the service: DownloadService::init and ~DownloadService.  *)

(* One turn of a for loop over the workers, with what comes after it.      *)
Visit(w, loop, after) ==
    /\ svc = loop
    /\ w \in todo
    /\ todo' = todo \ {w}
    /\ svc' = IF todo = {w} THEN after ELSE loop

(* The candidates are the entries of the resource's list of hosts at this  *)
(* moment.                                                                 *)
CreateWorkers(candidates) ==
    /\ svc = "create"
    /\ workers' = {w \in candidates : ~IsRetarded(host[w])}
    /\ todo' = workers'
    /\ IF workers' = {}
       THEN svc' = "join" /\ outcome' = "failed"
       ELSE svc' = "init" /\ UNCHANGED outcome
    /\ UNCHANGED <<peerVars, resourceVars, workerVars, checkVars, stored, advertised>>

InitWorker(w) ==
    /\ Visit(w, "init", "control")
    /\ pc' = [pc EXCEPT ![w] = "connect"]
    /\ UNCHANGED <<peerVars, resourceVars, seg, flagVars, workers, checkVars,
                   resultVars>>

(* controll_workers: cv.wait_for ends because the predicate holds ...      *)
DownloadCompleted ==
    /\ svc = "control"
    /\ IsCompleted
    /\ svc' = "add_file"
    /\ UNCHANGED <<peerVars, resourceVars, workerVars, workers, todo, checkVars,
                   resultVars>>

(* ... or because TIMEOUT_CHECK_INTERVAL is over and it does not.          *)
IntervalOver ==
    /\ svc = "control"
    /\ ~IsCompleted
    /\ svc' = "survey"
    /\ todo' = workers
    /\ UNCHANGED <<peerVars, resourceVars, workerVars, workers, checkVars, resultVars>>

IsUnavailable(w) == closed[w] \/ IsRetarded(host[w])

(* all_workers_unavailable: the first available worker ends the survey.    *)
SurveyAvailable(w) ==
    /\ svc = "survey"
    /\ w \in todo
    /\ ~IsUnavailable(w)
    /\ svc' = "check"
    /\ todo' = workers
    /\ UNCHANGED <<peerVars, resourceVars, workerVars, workers, checkVars, resultVars>>

(* When there is none, controll_workers throws; init catches, returns and  *)
(* the service is destroyed.                                               *)
SurveyUnavailable(w) ==
    /\ svc = "survey"
    /\ w \in todo
    /\ IsUnavailable(w)
    /\ IF todo = {w}
       THEN svc' = "close" /\ todo' = workers /\ outcome' = "failed"
       ELSE todo' = todo \ {w} /\ UNCHANGED <<svc, outcome>>
    /\ UNCHANGED <<peerVars, resourceVars, workerVars, workers, checkVars, stored,
                   advertised>>

(* Mutant: the flag is only looked at, never raised.                       *)
RaiseNothing(w) ==
    /\ ~timeouted[w]
    /\ Visit(w, "check", "control")
    /\ UNCHANGED <<peerVars, resourceVars, workerVars, workers, checkVars, resultVars>>

(* check_timeout for one worker: the flag is raised, and will be found     *)
(* raised at the next check if no segment arrives in between.              *)
RaiseTimeouted(w) ==
    /\ ~timeouted[w]
    /\ Visit(w, "check", "control")
    /\ timeouted' = [timeouted EXCEPT ![w] = TRUE]
    /\ UNCHANGED <<peerVars, resourceVars, pc, seg, owned_segment_id, closed,
                   socket, received, workers, checkVars, resultVars>>

(* The flag is still raised: the host is charged, owned_segment_id is read *)
(* for the call of unset_busy, and that segment is released.               *)
ChargeHost(w) ==
    /\ svc = "check"
    /\ w \in todo
    /\ timeouted[w]
    /\ IncreaseTimeoutCounter(host[w])
    /\ svc' = "late"
    /\ todo' = todo \ {w}
    /\ late' = {w}
    /\ UNCHANGED <<host, resourceVars, workerVars, workers, victim, resultVars>>

ReadOwned(w) ==
    /\ svc = "late"
    /\ w \in late
    /\ svc' = "unset"
    /\ victim' = owned_segment_id[w]
    /\ UNCHANGED <<peerVars, resourceVars, workerVars, workers, todo, late, resultVars>>

ReleaseOwned(w) ==
    /\ svc = "unset"
    /\ w \in late
    /\ UnsetBusy(victim)
    /\ timeouted' = [timeouted EXCEPT ![w] = TRUE]
    /\ svc' = IF todo = {} THEN "control" ELSE "check"
    /\ late' = {}
    /\ victim' = NO_SEGMENT_ID
    /\ UNCHANGED <<peerVars, pc, seg, owned_segment_id, closed, socket, received,
                   workers, todo, resultVars>>

(* A worker that never got a segment owns NO_SEGMENT_ID: the bitset is     *)
(* written out of range, which a debug build's assertion does not survive. *)
ReleaseOutOfRange ==
    /\ svc = "unset"
    /\ victim = NO_SEGMENT_ID
    /\ svc' = "terminated"
    /\ UNCHANGED <<peerVars, resourceVars, workerVars, workers, todo, checkVars,
                   resultVars>>

(* store_file: the local host is made an owner first, then the file is     *)
(* written, unless it cannot be opened.                                    *)
AddFile ==
    /\ svc = "add_file"
    /\ svc' = "store"
    /\ advertised' = TRUE
    /\ UNCHANGED <<peerVars, resourceVars, workerVars, workers, todo, checkVars,
                   outcome, stored>>

StoreResource ==
    /\ svc = "store"
    /\ svc' = "close"
    /\ todo' = workers
    /\ \/ outcome' = "stored" /\ stored' = received
       \/ outcome' = "not_stored" /\ UNCHANGED stored
    /\ UNCHANGED <<peerVars, resourceVars, workerVars, workers, checkVars, advertised>>

(* Mutant: close() raises the flag and leaves the socket alone.            *)
CloseWithoutShutdown(w) ==
    /\ socket[w] # "unopened"
    /\ Visit(w, "close", "join")
    /\ closed' = [closed EXCEPT ![w] = TRUE]
    /\ UNCHANGED <<peerVars, resourceVars, pc, seg, owned_segment_id, timeouted,
                   socket, received, workers, checkVars, resultVars>>

(* ~DownloadService: close_workers.  close() sets the flag, then cancels   *)
(* and shuts the socket down.  socket.cancel() throws when the socket was  *)
(* never opened, and an exception that leaves a destructor is fatal.       *)
CloseWorker(w) ==
    /\ socket[w] # "unopened"
    /\ Visit(w, "close", "join")
    /\ closed' = [closed EXCEPT ![w] = TRUE]
    /\ socket' = [socket EXCEPT ![w] = "shutdown"]
    /\ UNCHANGED <<peerVars, resourceVars, pc, seg, owned_segment_id, timeouted,
                   received, workers, checkVars, resultVars>>

CloseUnopened(w) ==
    /\ svc = "close"
    /\ w \in todo
    /\ socket[w] = "unopened"
    /\ closed' = [closed EXCEPT ![w] = TRUE]
    /\ svc' = "terminated"
    /\ UNCHANGED <<peerVars, resourceVars, pc, seg, owned_segment_id, timeouted,
                   socket, received, workers, todo, checkVars, resultVars>>

JoinWorkers ==
    /\ svc = "join"
    /\ \A w \in workers : pc[w] = "ended"
    /\ svc' = "destroyed"
    /\ UNCHANGED <<peerVars, resourceVars, workerVars, workers, todo, checkVars,
                   resultVars>>

(* A ban ends while the download goes on.                                  *)
BanOver(h) ==
    /\ Running
    /\ BanExpires(h)
    /\ UNCHANGED <<host, resourceVars, workerVars, serviceVars>>

(* The download is over, one way or the other.                             *)
Over == svc \in {"destroyed", "terminated"} /\ UNCHANGED vars

-----------------------------------------------------------------------------
(* The specification.                                                      *)

ReceiveEnds(w) == ReceiveSegment(w) \/ ReceiveFails(w)

(* What the thread of a worker does without waiting for another thread or  *)
(* for its host to answer a request.                                       *)
WorkerStep(w) ==
    \/ OpenSocket(w) \/ Connected(w) \/ ConnectFails(w)
    \/ Proceed(w) \/ LeaveClosed(w)
    \/ NoSegmentLeft(w) \/ NotCompleted(w)
    \/ (\E s \in Segments : GetSegment(w, s)) \/ WaitForSegment(w)
    \/ OwnSegment(w)
    \/ RequestSegment(w) \/ RequestFails(w)
    \/ ClearTimeouted(w) \/ CompleteSegment(w)
    \/ GiveBack(w) \/ GiveBackCrashes(w) \/ WorkerTerminated(w)

(* A timeout fires: check_timeout finds the flag raised.                   *)
TimeoutFires == \E w \in Workers : ChargeHost(w)

ServiceStep ==
    \/ \E candidates \in SUBSET Workers : CreateWorkers(candidates)
    \/ \E w \in Workers :
        \/ InitWorker(w)
        \/ SurveyAvailable(w) \/ SurveyUnavailable(w)
        \/ RaiseTimeouted(w) \/ ReadOwned(w) \/ ReleaseOwned(w)
        \/ CloseWorker(w) \/ CloseUnopened(w)
    \/ DownloadCompleted \/ IntervalOver
    \/ ReleaseOutOfRange
    \/ AddFile \/ StoreResource
    \/ JoinWorkers

(* Everything that can happen as long as no timeout fires.                 *)
QuietNext ==
    \/ ServiceStep
    \/ \E w \in Workers : WorkerStep(w) \/ ReceiveEnds(w) \/ Wakeup(w)
    \/ \E h \in Hosts : BanOver(h)
    \/ Over

Next == QuietNext \/ TimeoutFires

Spec == Init /\ [][Next]_vars

(* The downloads in which every worker gets a segment often enough.        *)
QuietSpec == Init /\ [][QuietNext]_vars

-----------------------------------------------------------------------------
(* Properties.                                                             *)

Holding == {"got", "request", "receive", "received", "set", "failed"}
Holds(w, s) == pc[w] \in Holding /\ seg[w] = s

(* A segment marked busy is in the hands of some worker, which will either *)
(* complete it or give it back: no interleaving of failures, timeouts and  *)
(* closing leaves a segment busy for ever (get_segment would then never    *)
(* hand it out again).                                                     *)
NoLeakedSegment == \A s \in busy_segments : \E w \in Workers : Holds(w, s)

(* A segment counts as completed only when its bytes are in the data       *)
(* buffer that store_resource writes to the disk (set_segment comes after  *)
(* receive_segment for that very segment).                                 *)
CompletedHasData == completed_segments \subseteq received

(* The workers on the way to take a segment: awake inside get_segment.     *)
Awake == {w \in Workers \ cv : pc[w] \in {"get", "scan"}}

(* The wakeups of unset_busy suffice until the download counts as          *)
(* completed: while workers sleep in get_segment, no more segments are     *)
(* free than there are workers on the way to take one.  A worker that      *)
(* wakes up later finds is_completed true and leaves, so a segment that is *)
(* given back after completed_counter ran ahead may be left to sleepers.   *)
AwakeForFree ==
    completed_counter < SegmentsCount /\ cv # {} =>
        Cardinality(Downloadable) <= Cardinality(Awake)

(* No two workers download the same segment.                               *)
ExclusiveHolder ==
    \A v, w \in Workers :
        pc[v] \in Holding /\ pc[w] \in Holding /\ v # w => seg[v] # seg[w]

(* completed_counter counts the completed segments, so is_completed is     *)
(* true exactly when every segment was downloaded.                         *)
CounterExact == completed_counter = Cardinality(completed_segments)

(* The file on disk holds the data of every segment.                       *)
StoredIsComplete == outcome = "stored" => stored = Segments

(* As long as no timeout fires, a download is a SegmentTransfer: what      *)
(* get_segment hands out nobody else holds and nobody completed before,    *)
(* each set_segment completes the segment its worker holds, and            *)
(* store_resource runs once all segments are completed.                    *)
Transfer == INSTANCE SegmentTransfer WITH
    holds <- [w \in Workers |-> IF pc[w] \in Holding THEN {seg[w]} ELSE {}],
    done  <- completed_segments,
    file  <- stored

ImplementsTransfer == Transfer!Spec
=============================================================================
