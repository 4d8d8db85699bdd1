# TLA+ specifications of Simple P2P

Simple P2P shares files in a local network.  Every node broadcasts over UDP the
list of the files it owns, serves segments of 1 KiB of them over TCP, and
downloads a file from several hosts at once.  The specifications model one
download with its threads, the bytes it transfers, the file server beside the
downloads that store files, the exchange of beacons and revocations between
nodes, and the threads and queues of one node.  TLC checks them on small
instances; TLAPS proves all safety properties that hold, for every value of the
constants: any number of hosts, workers, segments, connections, files, nodes and
datagrams.

    tlc -workers 2 -config MCDownload_safety.cfg MCDownload
    tlapm DownloadProofs.tla

`PROJECT.json` lists the runs with their properties, the source lines behind
every definition, and one mutant for every property: an operator in the module,
under a comment that begins with "Mutant:", which changes a definition the way
a slip in the code would, and under which the property fails.

## The system

| Part | State | Operations | Threads |
|---|---|---|---|
| `DownloadService` | workers, their threads | `init`, destructor | one thread per download |
| `DownloadWorker` | socket, `timeouted`, `closed`, `owned_segment_id` | `worker` and, from the service, `check_timeout`, `close` | one thread per entry in the list of hosts |
| `CompleteResource` | busy and completed bits, counter, data, condition variable | `get_segment`, `set_segment`, `unset_busy`, `is_completed` | called by all workers and the service |
| `Host` | `timeout_counter`, `ban_time`, possessed resources | `increase_timeout_counter`, `is_retarded` | shared by all downloads |
| `FileManager` | `rlocked_files`, `wlocked_files`, condition variable, files | `read_lock`, `get_segment`, `read_unlock`, `store_resource` | server thread and downloads |
| `RequestServer`, `RequestWorker` | one object per connection, its pending operation | accept, read and write handlers | all in one thread |
| `ResourceDatabase` | hosts, resources, links both ways, `invalidated` | `add_file`, `update_host`, `revoke_resource`, `check_for_gone_hosts` | CLI, UDP and download threads, under one mutex |
| `UdpClient`, `UdpServer`, `UdpModule` | transmit queue, pending receive, timer | `fire_beacon`, `revoke_file`, `handle_receive` | one thread, `revoke_file` from the CLI |
| `CLI`, `main` | the commands; the threads | `add`, `revoke`, `download`, `global`, `help`, `quit`; starting all others | one thread each |
| `Printer`, `LoggingModule` | line queue | `print`, `add_log_line` | one thread each |
| `Resource`, `Segment` | name, size; id, pointer | header encoding, `calc_segments_count` | |

The CLI starts a `DownloadService` in a detached thread.  It asks the database
for the hosts of the resource, runs a worker for each entry and polls every 300 ms
whether the resource is complete or all workers are unavailable.  At the end it
adds the file to the database and has the `FileManager` store it, and from then
on the beacon lists it and the `RequestServer` can serve it.

What is hard in it, and what must hold:

* Download: workers, timeouts and the destructor act on the same busy bits.  No
  segment may stay busy for ever, be counted twice or be stored without data,
  and the download has to end when its hosts fall silent.
* File server: a lock table per direction, each with its own mutex, and handlers
  that delete their own object.  A file must not be overwritten while it is
  read, locks must be released by who took them, and no handler may run on a
  deleted object.
* Discovery: datagrams are lost, repeated and reordered, and downloads end at
  any moment.  Nobody may be credited with a file it never had, and both
  directions of the graph must agree.
* Bytes: the two sides compute the number of segments and the size of the last
  one separately, in different integer types.  The stored file must be the one
  that was announced.
* Node: the transmit queue has two threads and no lock, each send relies on the
  handler of the one before, and the output threads wait without a predicate.
  Datagrams must leave in order, and neither they nor lines may stay behind.

The hazards, each at its line, are in `PROJECT.json`.

## Modules

| Module | Models | Uses |
|---|---|---|
| `Host` | counter and ban of a host | |
| `CompleteResource` | the critical sections of `CompleteResource.cpp` | |
| `Download` | one download: service thread and worker threads | `Host`, `CompleteResource` |
| `SegmentTransfer` | what a download promises (abstract) | |
| `DownloadTimed` | `Download` with fairness and the poll interval | `Download` |
| `DownloadProofs`, `QuietDownloadProofs`, `DownloadWakeupProofs` | theorems | `Download` |
| `FileManager` | the lock tables and files | |
| `Serving` | server thread, connections, storing downloads | `FileManager` |
| `ServingProofs` | theorems | `Serving` |
| `ResourceDatabase` | the database of a node | |
| `Discovery` | nodes, beacons, revocations, commands | `ResourceDatabase` |
| `DiscoveryProofs` | theorems | `Discovery` |
| `Resource` | header of a file, number of its segments | |
| `SegmentData` | the bytes of a download, from header to stored file | `Resource` |
| `SegmentDataProofs` | theorems | `SegmentData` |
| `LineQueue` | the queue and thread of `Printer` and of `LoggingModule` | |
| `UdpClient` | the transmit queue | |
| `Node` | `main`, CLI thread, UDP thread, output threads | `LineQueue`, `UdpClient` |
| `NodeProofs` | theorems | `Node` |
| `MCDownload`, `MCServing`, `MCDiscovery` | symmetry sets for TLC | |

**Download.**  `pc[w]` is where the thread of worker w is, `svc` where the
service is.  `host[w]` is the host of w; `add_file_internal` may list a host
twice, so workers may share one.  A step is what a thread does between two points where others can
see or change shared state: `get_segment` is two steps, because it takes its
mutex twice, and `check_timeout` is three (`ChargeHost`, `ReadOwned`,
`ReleaseOwned`), because the worker may change `owned_segment_id` and the busy
bits in between.  `received` is the set of segments of the data buffer that a
host has filled.  Undefined behaviour is a choice of outcomes: an uninitialised
`ban_time` is banned or not, `unset_busy(NO_SEGMENT_ID)` writes past the bitset
and either hits no bit of it or ends the process, `close()` on a socket that
was never opened throws in a destructor, and the error message of `download`
moves a pointer past its literal, which may end the process before the segment is
given back (`GiveBackCrashes`).  A `Host` outlives a download and nothing resets
its counter: `StartCounters` are the values that earlier downloads may have left.
Data races on the flags are modelled
as atomic accesses in any order.  Whether `ban_time` is in the future is all the
model knows of it.

**Serving.**  One thread runs all handlers, so when `read_lock` waits, the
server stands still.  A download is a thread inside `store_resource`.  Any file
may be asked for, and a file that exists may still fail to open; segment numbers
and sizes are in `SegmentData`.  Where the code is undefined the model chooses:
`get_segment` without an open stream reads another file's stream, or fails on it
and leaves that one failed, or ends the process; the erased iterator in
`read_unlock` may end it too.

`write_lock` does not look for other writers.  Two downloads of files with the
same name do write at the same time in the model, although `FileManager.h:100`
says that it "Blocks other threads from reading/writing to the specified file",
and `FileManager.cpp:256` leaves the check out "because only one thread will
perform wlocks".  `WriterStaysLocked` claims only what is left of the promise:
readers that come to `read_lock` are kept out until the last writer has finished.
A store that cannot create its file keeps its lock for ever (`CreateFileFails`),
which no property excludes.

**Discovery.**  `net` holds every datagram ever sent; none is removed, which
covers loss (never received), delay, duplication and reordering.  Of what is
handed to `send`, any part gets there: after a send error the rest of the queue is
never sent, which is modelled in detail in `Node`.  That owners become known is
therefore no property of the code.  A `revoke` sends and changes the node's own
database in one step: what another thread or node does between the two commutes
with one of them.  A download is only its start and its end here.  The vectors of the database are sets.

**SegmentData.**  A byte is known by its file and its place in it.  The widths
are scaled down: `SEGMENT_SIZE` is 2, the largest `Uint16` 2, the largest
`Uint32` 3 and a name has two characters.  The conversion of a quotient that is
too large for a `Uint16` is undefined and gives any number; the size of the last
segment is reduced to a `Uint32`.  Each host serves one connection, from a copy of
the file that may be shorter or longer than announced or have other bytes.  When
the file cannot be opened, `handle_read` does not notice and `get_segment` uses
an uninitialised pointer: the answer may hold the bytes of any other file
(`OpenFails`).  `RequestCut` is a request that TCP delivers in two pieces, after
the first of which `handle_read` reads whatever segment number its buffer holds;
the rest is then taken for an unknown command.  An answer that breaks off leaves
its first bytes in the buffer (`ReceiveFails`).  The segments for which an answer
came that is wrong in one of these ways are `tainted`; `StoredFaithful` speaks of
all others, so it says that the damage stays where it was done.  Which worker
takes which segment is left to `Download`.

The documentation (`TIN-Dokumentacja.tex:190`) and a comment
(`RequestWorker.cpp:60`) call the name in a header NULL terminated.  A name of 256
characters fills its field and is not; both readers stop at the end of the field,
and `HeaderFaithful` shows that such a name survives.

**Node.**  `send` is three steps (look, append, transmit) and `write_handler`
two (pop, transmit the next), because the CLI thread can come in between; `raced`
remembers that both threads were inside, after which the process may also end.
`ServerFails` destroys the client that `ptr_client` still points to.  A line
queue counts its lines up to `MaxLines`, which stands for that many or more.
Commands are reduced to what they print, send or end.

## Runs

| Run | Instance | Shows |
|---|---|---|
| `download_safety` | 2 workers, 1 or 2 hosts, 2 segments, timeouts | `NoLeakedSegment`, `CompletedHasData`, `AwakeForFree` |
| `download_quiet` | 3 workers, 3 segments, no fired timeout | `ExclusiveHolder`, `CounterExact`, `StoredIsComplete`, `ImplementsTransfer` |
| `download_premature` | 2 workers, 2 segments | `StoredIsComplete` fails with timeouts |
| `download_live` | 2 workers of one host, 1 segment | `OneHostEnds`, `JoinedUnlessAsleep` |
| `download_endless` | 2 silent hosts, 1 segment | `DownloadEnds` fails |
| `download_lost_wakeup` | 2 workers of one host, 1 segment | `CompletedJoins` fails |
| `serving_safety` | 2 files, 2 connections, 2 downloads | `NoHandlerOfDeleted`, `WriterStaysLocked` |
| `serving_exclusion` | 1 of each | `ReadersExcludeWriters` fails |
| `discovery_safety` | 2 nodes, 2 files, 3 datagrams | `GraphConsistent`, `OnlyOwnersCredited` |
| `discovery_revoked` | 2 nodes, 2 files | `RevokedDownloadStaysSilent` fails |
| `segment_data` | sizes 0 to 7, names of 1 to 3, 2 hosts | `HeaderFaithful`, `StoredFaithful`, `WholeFileServed` |
| `node_threads` | 2 datagrams, 2 lines | `SentInOrder`, `PacketsLeave`, `LinesComeOut` |

The five runs that fail show where the code departs from its comments and
documentation:

1. `download_premature`: check_timeout releases a segment whose host is slow.  A
   second worker downloads it, both call `set_segment`, and `completed_counter`
   reaches the number of segments with one missing.  The file is stored and
   advertised.
2. `download_lost_wakeup`: a worker finds the resource not completed, another
   completes the last segment and notifies nobody, then the first finds nothing
   downloadable and waits.  `join_workers` never returns.
3. `download_endless`: a host that never answers is banned from 20 charges on,
   but only until its counter wraps round after 127, and then not before it has
   come up to 20 again.  Two silent hosts half a turn apart, because one fell
   silent some 40 seconds after the other or was late in an earlier download,
   are banned in turn and never together.  The download does not give up.
4. `serving_exclusion`: between the check of `wlocked_files` and the entry in
   `rlocked_files` a download takes the write lock and truncates the file.
5. `discovery_revoked`: a download that ends after a revocation adds the file
   to the node's own list.

**Bounds.**  Two workers are enough for a conflict over a segment, and a third
for one that waits while two work.  `Int8Half` scales the `Int8` counter down
from 128 and `TIMEOUT_COUNTER_LIMIT` from 20, so that bans and the wrap round
happen; the proofs hold for every value.  In `download_live` the values of the
counter at or over the limit must outlast the three polls between two whole
seconds with two charges each, as 20 to 127 do: with one or two such values
the counter runs past all of them while the host is still banned, and the next
ban comes a whole turn later.  There the limit is 1 and `Int8Half` 5, and the
counter starts at 3, where too little of the ban is left: it has to wrap round
first.  In `download_endless` the limit is 4 and `Int8Half` 6, so that as in the
code (108 of 256 values, and four polls at most until the ban ends) a host is
banned for less than half of a turn; the counters start at 0 or 5.  The other
runs start from 0, as a new host does.  Bans of different hosts are
told apart in `download_safety`; `download_quiet` has one host for all three
workers, since without timeouts a ban only decides who is created and when the
service gives up.  `Uint16Max` keeps its value in the modules of a download.
In `SegmentData` files of up to 4 bytes have numbers for all their segments, so
sizes up to 7 cross the limit, and names of three do not fit their field.  Two
datagrams are enough for one to wait behind another or to be overtaken, and two
lines for one to be pushed while another is written.
`BEACON_MAX_COUNT = 1` splits a list of two files into two datagrams.
`MaxDatagrams` bounds the different datagrams of a run: three leave room for
both parts of a list and a revocation, or for lists and revocations of both nodes.  `LEFT_MARGIN` is the code's value.

`download_quiet` does not check for deadlock: `QuietSpec` cuts a behaviour off
where the next step would be a timeout.  Nor does `download_endless`, whose
`SilentSpec` admits no answer at all.  In all other runs every state has a
successor.

**Fairness.**  `DownloadTimed!LiveSpec` assumes that the threads keep running
(weak fairness of each), that `connect` returns, and that a read on a socket
that was shut down returns.  It does not assume that a host answers or that a
condition variable wakes anybody by itself.  Bans need the clock: they end at a
whole second (`std::time_t`), the bans of all hosts at the same one
(`SecondPasses`), and at least three polls of 300 ms lie between two such moments,
which is what `polls` counts.  `SilentSpec` has the same fairness and picks the
behaviours in which every host has a worker and accepts its requests but never
answers, and in which a second has three polls: a counterexample found there is
one of `LiveSpec`.  `Node!LiveSpec`
assumes that every thread keeps running and that sending a datagram ends, well
or badly; nobody types, no timer fires and nothing wakes up by itself.
`PacketsLeave` excepts the queue that stops after a send error, and both it and
`SentInOrder` the behaviours in which the two threads meet in the queue; these
exceptions are in the code.  `LinesComeOut` excepts the lines that were pushed
before their thread first waited: these do stay until the next one.
`JoinedUnlessAsleep` excepts the sleeper in `get_segment`, whom `close()` does
not wake: besides the lost wakeup, that is a worker with nothing to do in a
download that gives up.

## Proofs

Every theorem holds for all values of the constants that the named assumptions
allow; TLC evaluates these in every run.  They say that sets of threads
(`Workers`, `Downloads`) are finite, that widths, sizes and bounds are natural
numbers, that a segment, a name field, a beacon and `LEFT_MARGIN` are not
empty, that `SegmentsCount` is a `Uint16` and the ban limit and `StartCounters` within an `Int8`,
that `Char` is not `NUL`, and that the server thread is none of the downloads.
`MaxPackets`, `MaxBeacon`, `MaxSize`, `MaxDatagrams` and `MaxLines` are bounds for
TLC; the theorems hold for each value of them.

Every proof has the same shape.  An inductive invariant implies the property; a
lemma says that the initial states satisfy it, one lemma per action or kind of
action that a step keeps it, and one step of temporal logic combines them.

**`DownloadProofs`**: `TypeCorrect`, `NoSegmentLeaks` (`NoLeakedSegment`) and
`CompletedImpliesReceived` (`CompletedHasData`), of every download, timeouts
included.  `NoLeakedSegment` is not inductive: `GiveBack` releases
`owned_segment_id`, not the segment it holds, so `SafetyInv` adds that both are
the same from `OwnSegment` on (`HoldsOwned`), that a worker past its read has the
data (`DataInHand`), and that a worker which has not been started holds nothing
(`NotStarted`).  A timeout only clears busy bits, which cannot break it.

**`QuietDownloadProofs`**: of `QuietSpec`, the downloads in which
`check_timeout` never finds its flag raised, `ExclusiveHolder`, `CounterExact`
and `StoredIsComplete` are invariant, and the download implements
`SegmentTransfer`.  The invariant `QuietInv` adds that what is held
is busy, that nothing busy is completed, and that the service stores only after
all is completed; with these, `set_segment` never counts a segment twice and the
counter cannot wrap.  `download_premature` shows that the restriction to quiet
downloads is needed.  The steps that map to `SegmentTransfer` are `GetSegment`
(`Assign`), `CompleteSegment` (`Complete`), `GiveBack` (`GiveUp`) and
`StoreResource` (`Store`); all others leave it alone.

**`DownloadWakeupProofs`**: `WakeupsSuffice` (`AwakeForFree`): `unset_busy`
wakes one sleeper only, and that is enough, because every segment that becomes
free comes with a worker that is awake inside `get_segment`.  The argument has to
show that a worker which leaves `get_segment` by `is_completed` leaves nothing
behind, and here the property has a limit: `completed_counter` may run ahead of
the completed segments (`download_premature`).  From then on a worker that is
woken for a segment leaves, and with four workers another one can sleep over the
segment given back.  `AwakeForFree` therefore speaks of the time until the
counter first reaches `SegmentsCount`, and the counter must not wrap round and
get below that value again.  `CompletedOncePerWorker` puts each `set_segment`
down to a worker and a segment, no two to the same pair, which gives
`CounterBounded`: the counter stays within `Cardinality(Workers) * SegmentsCount`.
Both theorems are for downloads for which this product fits a `Uint16`;
`QuietWakeupsSuffice` needs no such hypothesis.

**`ServingProofs`**: `ServingTypeCorrect`, `NoUseAfterDelete`
(`NoHandlerOfDeleted`) and `WritersStayLocked` (`WriterStaysLocked`).  The last is
not inductive, because `write_unlock` takes any one entry of its name:
`WriteLockPerDownload` adds that the entries of a file are as many as the
downloads that store it or failed to create it.  The types need that as well,
since the count stays a natural number only because whoever unlocks has an entry.

**`DiscoveryProofs`**: `DiscoveryTypeCorrect`, `GraphsConsistent`
(`GraphConsistent`) and `CreditIsDue` (`OnlyOwnersCredited`).  What `Linked`, `Revoked` and
`WithoutGoneHosts` do to each field of a database is stated once, in lemmas.
`OnlyOwnersCredited` needs the network: `OwnersInNet` says that a beacon still on
its way lists only files that its sender has owned.

**`NodeProofs`**: `NodeTypeCorrect` and `DatagramsInOrder` (`SentInOrder`).
`NodeInv` says that the queue holds consecutive numbers up to the last one given
out, that what was sent is below them, that the pending operation is for the
head, and that a thread inside `send` or `write_handler` still knows the queue
(`queue_empty` is true of it, nothing is pending when it transmits).  Whatever
breaks the last part is a step of one thread while the other is inside, which is
what `raced` records; the types and the numbering hold after a race too.

**`SegmentDataProofs`**: `SegmentTypeCorrect`, `HeadersFaithful`,
`FilesStoredFaithfully` (`StoredFaithful`) and `WholeFilesServed`, with the real
widths as well as with those of the run.  The lemmas are about the operators:
`FieldRead` and `HeaderRead` (a name ends at the first NUL or with its field),
`CountExact` (the count does not wrap for a countable file), `RequestedSize`
(`handle_read` asks for the bytes of a segment that the file has) and `BytePlaced`
(each byte has a segment and a place in the buffer).  `SegmentInv` follows the
bytes: a worker waits for a segment that exists, an answer to it holds the bytes
of that segment unless the host went astray or the request was cut, and those of
completed segments that are not tainted are in their place, also after another
answer for the same segment has been written over them in part.

Only model-checked: the liveness properties (`OneHostEnds`,
`JoinedUnlessAsleep`, `PacketsLeave`, `LinesComeOut`), since fairness is out of
reach of the provers, and the counterexamples of the five failing runs.

## Not modelled

* The text of lines and commands, and the parsing of datagrams that are not of
  this program.
* The lifetime of the reference captured by the thread of `download`.
* The bans that several downloads at a time impose on a shared host: how often
  they charge it between two polls is a matter of the clock.  What downloads one
  after the other leave in its counter is modelled (`StartCounters`).
* `remove_file`, which nothing calls.
* That the server thread and a download can wait for each other's `condv` for
  ever is possible in `Serving` (`WaitForReader`, `WaitForWriter`), and no
  property states it: nothing in the repository says otherwise.

## Plan

Done: `Host`, `CompleteResource`, `Download` with any number of workers per
host, `SegmentTransfer`, `DownloadTimed`; `FileManager`, `Serving`,
`ResourceDatabase`, `Discovery`, `Resource`, `SegmentData`, `LineQueue`,
`UdpClient`, `Node`; theorems for every safety property of a passing run.

Next, in this order:

1. Theorems about when the failing safety properties do hold: readers exclude
   writers while no download is between the check and the entry of `read_lock`,
   a revoked file stays silent while nobody downloads it.
2. Action properties of a download and of a node (what `check_timeout` and
   `write_handler` may never do), with their theorems.
3. An abstract specification of the transmit queue, and a proof that a node
   without a race implements it.
4. A composition of the end of `Download` with `Discovery` and `Serving`:
   advertised before stored.
