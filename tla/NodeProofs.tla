----------------------------- MODULE NodeProofs -----------------------------
(***************************************************************************)
(* Theorems about Node: the transmit queue that the CLI thread and the UDP *)
(* thread share without a lock, for every number of datagrams.             *)
(***************************************************************************)
EXTENDS Node, SequenceTheorems, TLAPS

-----------------------------------------------------------------------------
(* The parts of the inductive invariant.                                   *)

(* There is room for every datagram that is on its way into the queue, and *)
(* fire_beacon calls send only while it has one left.                      *)
Budget == queued + Due <= MaxPackets
LeftOver == at["udp"] \in {"send", "push"} => left > 0

(* The queue holds the last datagrams that were queued, in that order.     *)
QueueNumbered ==
    /\ Len(tx_queue) <= queued
    /\ \A i \in 1..Len(tx_queue) : tx_queue[i] = queued - Len(tx_queue) + i

(* What was sent was queued before all that is in the queue.               *)
SentBefore == \A i \in 1..Len(sent) : sent[i] <= queued - Len(tx_queue)

SentSorted == \A i, j \in 1..Len(sent) : i < j => sent[i] < sent[j]

(* The pending operation, if any, is for the head of the queue.            *)
FlightHead == in_flight = <<>> \/ (tx_queue # <<>> /\ in_flight = <<Head(tx_queue)>>)

(* A thread that is inside knows the queue: what it read of it still       *)
(* holds, and nothing is pending when it is about to transmit.             *)
Knows(t) ==
    /\ at[t] = "push" => (queue_empty[t] <=> tx_queue = <<>>)
    /\ at[t] \in {"transmit", "popped"} => in_flight = <<>>

QueueInv == SentBefore /\ SentSorted /\ FlightHead /\ \A t \in Threads : Knows(t)

NodeInv ==
    /\ TypeOK
    /\ Budget
    /\ LeftOver
    /\ QueueNumbered
    /\ ~raced => QueueInv

-----------------------------------------------------------------------------
(* The two threads, and the queues of lines.                               *)

(* Each of the two threads is the other one of the other.                  *)
LEMMA Others == Other("cli") = "udp" /\ Other("udp") = "cli"
<1>1. \E u \in Threads : u # "cli"
  BY DEF Threads
<1>2. \E u \in Threads : u # "udp"
  BY DEF Threads
<1>3. QED
  BY <1>1, <1>2 DEF Other, Threads

(* Every operation on a queue of lines gives a queue of lines.             *)
LEMMA LinesTyped ==
    ASSUME NEW q \in LineQueues
    PROVE  /\ Created(q) \in LineQueues /\ Pushed(q) \in LineQueues
           /\ FirstWait(q) \in LineQueues /\ Drained(q) \in LineQueues
           /\ WokenUp(q) \in LineQueues
<1> USE MaxLinesAssumption DEF LineQueues
<1>1. Created(q) \in LineQueues /\ FirstWait(q) \in LineQueues
  BY DEF Created, FirstWait
<1>2. WokenUp(q) \in LineQueues
  BY DEF WokenUp
<1>3. Pushed(q) \in LineQueues
  <2>1. PICK n : n = IF q.lines = MaxLines THEN q.lines ELSE q.lines + 1
    OBVIOUS
  <2>2. PICK p : p = IF q.worker = "waiting" THEN "awake" ELSE q.worker
    OBVIOUS
  <2>3. n \in 0..MaxLines /\ p \in {"unborn", "created", "waiting", "awake"}
    BY <2>1, <2>2
  <2>4. Pushed(q) = [q EXCEPT !.lines = n, !.worker = p]
    BY <2>1, <2>2 DEF Pushed
  <2>5. QED
    BY <2>3, <2>4
<1>4. Drained(q) \in LineQueues
  <2>1. PICK b \in BOOLEAN : b = (q.written \/ q.lines > 0)
    OBVIOUS
  <2>2. Drained(q) = [q EXCEPT !.lines = 0, !.worker = "waiting", !.written = b]
    BY <2>1 DEF Drained
  <2>3. 0 \in 0..MaxLines
    OBVIOUS
  <2>4. [q EXCEPT !.lines = 0, !.worker = "waiting", !.written = b] \in LineQueues
    BY <2>1, <2>3, Zenon
  <2>5. QED
    BY <2>2, <2>4, Zenon
<1>5. QED
  BY <1>1, <1>2, <1>3, <1>4

(* All steps leave the printer and the logger queues of lines.             *)
LEMMA OutputTyped ==
    ASSUME TypeOK, [Next]_vars
    PROVE  printer' \in LineQueues /\ logger' \in LineQueues
<1>1. printer \in LineQueues /\ logger \in LineQueues
  BY DEF TypeOK
<1>2. /\ printer' \in {printer, Created(printer), Pushed(printer), FirstWait(printer),
                       Drained(printer), WokenUp(printer)}
      /\ logger' \in {logger, Created(logger), Pushed(logger), FirstWait(logger),
                      Drained(logger), WokenUp(logger)}
  <2> USE DEF outputVars, PrintText, Log
  <2>1. CASE MainStep \/ PrinterStep \/ LoggerStep \/ Wakeup
    BY <2>1 DEF MainStep, OptionsGiven, OptionsMissing, StartLogger, StartUdp,
       StartPrinter, StartCLI, InitDone, PrinterStep, LoggerStep, Wakeup
  <2>2. CASE UdpStep \/ Corrupted \/ (\E n \in 1..MaxBeacon : FireBeacon(n)) \/ OthersLog
    BY <2>2 DEF UdpStep, ClientCreated, ClientFails, ServerCreated, ServerFails,
       SendStep, BeginSend, Push, EndSend, SendSucceeds, SendFails, TransmitNext,
       Corrupted, FireBeacon, OthersLog
  <2>3. CASE \/ CliStep \/ CommandPrints \/ CommandRevoke \/ CommandRevokeEarly
             \/ CommandQuit \/ InputEnds
    BY <2>3 DEF CliStep, PrintBanner, PrintHelp, SendStep, BeginSend, Push, EndSend,
       UseDestroyed, PrintDone, CommandPrints, CommandRevoke, CommandRevokeEarly,
       CommandQuit, InputEnds
  <2>4. CASE Over \/ UNCHANGED vars
    BY <2>4 DEF Over, vars
  <2>5. QED
    BY <2>1, <2>2, <2>3, <2>4 DEF Next
<1>3. QED
  BY <1>1, <1>2, LinesTyped

-----------------------------------------------------------------------------
(* The steps, by what they do to the queue.                                *)

(* A step outside of the queue: a thread moves, none goes inside.          *)
Outside ==
    /\ UNCHANGED clientVars
    /\ ptr_client' \in {ptr_client, "client"}
    /\ at' \in [Threads -> CliStates \cup UdpStates]
    /\ at'["cli"] \in CliStates /\ at'["udp"] \in UdpStates
    /\ \A t \in Threads : at'[t] \in {"push", "transmit", "popped"} => at'[t] = at[t]
    /\ left' \in 0..MaxBeacon
    /\ Due' <= Due \/ queued + Due' <= MaxPackets
    /\ at'["udp"] \in {"send", "push"} => left' > 0

(* The node is started, stopped or waits for its user.                     *)
LEMMA MainOutside ==
    ASSUME NodeInv, MainStep \/ PrinterStep \/ LoggerStep \/ Wakeup \/ Corrupted
                    \/ OthersLog \/ CommandQuit \/ Over \/ UNCHANGED vars
    PROVE  Outside /\ process' \in {"running", "exited", "terminated"}
           /\ main' \in MainStates
<1> USE DEF NodeInv, TypeOK, LeftOver, Due, Goto, MainGoes, udpVars, clientVars, vars,
            Threads, CliStates, UdpStates, MainStates, Running
<1>1. CASE \/ OptionsGiven \/ OptionsMissing \/ StartLogger \/ StartPrinter \/ InitDone
           \/ PrinterStep \/ LoggerStep \/ Wakeup \/ Corrupted \/ OthersLog
           \/ CommandQuit \/ Over \/ UNCHANGED vars
  BY <1>1 DEF OptionsGiven, OptionsMissing, StartLogger, StartPrinter, InitDone,
     PrinterStep, LoggerStep, Wakeup, Corrupted, OthersLog, CommandQuit, Over, Outside
<1>2. CASE StartUdp \/ StartCLI
  BY <1>2 DEF StartUdp, StartCLI, Outside
<1>3. QED
  BY <1>1, <1>2 DEF MainStep

(* The UDP thread outside of send and write_handler.                       *)
LEMMA UdpOutside ==
    ASSUME NodeInv,
           \/ ClientCreated \/ ClientFails \/ ServerCreated
           \/ \E n \in 1..MaxBeacon : FireBeacon(n)
    PROVE  Outside /\ UNCHANGED <<process, main>>
<1> USE MaxBeaconAssumption, MaxPacketsAssumption
    DEF NodeInv, TypeOK, ClientTypeOK, LeftOver, Due, Goto, udpVars, clientVars,
        Threads, CliStates, UdpStates
<1>1. CASE ClientCreated \/ ClientFails \/ ServerCreated
  BY <1>1 DEF ClientCreated, ClientFails, ServerCreated, Outside
<1>2. CASE \E n \in 1..MaxBeacon : FireBeacon(n)
  <2>1. PICK n \in 1..MaxBeacon : FireBeacon(n)
    BY <1>2
  <2>2. queued + Due' <= MaxPackets
    BY <2>1 DEF FireBeacon
  <2>3. QED
    BY <2>1, <2>2 DEF FireBeacon, Outside
<1>3. QED
  BY <1>1, <1>2

(* The CLI thread outside of send.                                         *)
LEMMA CliOutside ==
    ASSUME NodeInv,
           \/ PrintBanner \/ PrintHelp \/ UseDestroyed \/ PrintDone \/ CommandPrints
           \/ CommandRevoke \/ CommandRevokeEarly \/ InputEnds
    PROVE  Outside /\ process' \in {process, "terminated"} /\ UNCHANGED main
<1> USE MaxBeaconAssumption, MaxPacketsAssumption
    DEF NodeInv, TypeOK, ClientTypeOK, LeftOver, Due, Goto, udpVars, clientVars,
        Threads, CliStates, UdpStates
<1>1. CASE \/ PrintBanner \/ PrintHelp \/ PrintDone \/ CommandPrints
           \/ CommandRevokeEarly \/ InputEnds
  BY <1>1 DEF PrintBanner, PrintHelp, PrintDone, CommandPrints, CommandRevokeEarly,
     InputEnds, Outside
<1>2. CASE UseDestroyed
  BY <1>2 DEF UseDestroyed, Outside
<1>3. CASE CommandRevoke
  <2>1. queued + Due' <= MaxPackets
    BY <1>3 DEF CommandRevoke
  <2>2. QED
    BY <1>3, <2>1 DEF CommandRevoke, Outside
<1>4. QED
  BY <1>1, <1>2, <1>3

(* A step outside of the queue keeps the invariant.                        *)
LEMMA OutsideKeeps ==
    ASSUME NodeInv, Outside, process' \in {"running", "exited", "terminated"},
           main' \in MainStates, printer' \in LineQueues, logger' \in LineQueues
    PROVE  NodeInv'
<1>1. TypeOK'
  BY DEF NodeInv, TypeOK, ClientTypeOK, Outside, clientVars
<1>2. Budget'
  <2>1. Due \in Int /\ Due' \in Int /\ queued \in Int
    BY MaxBeaconAssumption, MaxPacketsAssumption
       DEF NodeInv, TypeOK, ClientTypeOK, Outside, Due
  <2>2. queued' = queued
    BY DEF Outside, clientVars
  <2>3. queued + Due <= MaxPackets
    BY DEF NodeInv, Budget
  <2>4. Due' <= Due \/ queued + Due' <= MaxPackets
    BY DEF Outside
  <2>5. PICK d \in Int, e \in Int : d = Due /\ e = Due'
    BY <2>1
  <2>6. queued + d <= MaxPackets /\ (e <= d \/ queued + e <= MaxPackets)
    BY <2>3, <2>4, <2>5
  <2>7. queued + e <= MaxPackets
    BY <2>1, <2>6, MaxPacketsAssumption
  <2>8. QED
    BY <2>2, <2>5, <2>7 DEF Budget
<1>3. LeftOver'
  BY DEF Outside, LeftOver
<1>4. QueueNumbered'
  BY DEF NodeInv, QueueNumbered, Outside, clientVars
<1>5. ASSUME ~raced'
      PROVE  QueueInv'
  <2>1. QueueInv
    BY <1>5 DEF NodeInv, Outside, clientVars
  <2>2. ASSUME NEW t \in Threads
        PROVE  Knows(t)'
    <3>1. Knows(t)
      BY <2>1 DEF QueueInv
    <3>2. at'[t] \in {"push", "transmit", "popped"} => at'[t] = at[t]
      BY DEF Outside
    <3>3. UNCHANGED <<queue_empty, tx_queue, in_flight>>
      BY DEF Outside, clientVars
    <3>4. QED
      BY <3>1, <3>2, <3>3 DEF Knows
  <2>3. (SentBefore /\ SentSorted /\ FlightHead)'
    BY <2>1 DEF QueueInv, SentBefore, SentSorted, FlightHead, Outside, clientVars
  <2>4. QED
    BY <2>2, <2>3 DEF QueueInv
<1>6. QED
  BY <1>1, <1>2, <1>3, <1>4, <1>5 DEF NodeInv

(* Where a call of send leaves the threads and the budget: a datagram that *)
(* was due is queued.                                                      *)
Counted ==
    /\ process' = process /\ main' = main
    /\ ptr_client' \in {"null", "client", "dangling"}
    /\ at' \in [Threads -> CliStates \cup UdpStates]
    /\ at'["cli"] \in CliStates /\ at'["udp"] \in UdpStates
    /\ left' \in 0..MaxBeacon
    /\ queued' \in 0..MaxPackets
    /\ Budget' /\ LeftOver'

(* Each of the three steps of send does so, in either thread.              *)
LEMMA SendCounted ==
    ASSUME NodeInv, NEW t \in Threads, SendStep(t)
    PROVE  Counted
<1> USE MaxBeaconAssumption, MaxPacketsAssumption
    DEF NodeInv, TypeOK, ClientTypeOK, Budget, LeftOver, Due, Goto, Threads, CliStates,
        UdpStates
<1>1. CASE BeginSend(t)
  BY <1>1 DEF BeginSend, LookAtQueue, Counted
<1>2. CASE EndSend(t)
  <2>1. CASE t = "cli"
    BY <1>2, <2>1 DEF EndSend, Transmit, AfterSend, Counted
  <2>2. CASE t = "udp"
    BY <1>2, <2>2 DEF EndSend, Transmit, AfterSend, Counted
  <2>3. QED
    BY <2>1, <2>2
<1>3. CASE Push(t)
  <2>1. CASE t = "cli"
    BY <1>3, <2>1 DEF Push, Enqueue, AfterSend, Counted
  <2>2. CASE t = "udp"
    <3>1. at["udp"] = "push" /\ left > 0 /\ left' = left - 1 /\ queued' = queued + 1
      BY <1>3, <2>2 DEF Push, Enqueue
    <3>2. PICK w \in {"transmit", "send", "run"} :
             at' = [at EXCEPT !["udp"] = w] /\ (w = "send" => left - 1 > 0)
      BY <1>3, <2>2, <3>1 DEF Push, AfterSend
    <3>3. Budget' /\ LeftOver'
      BY <3>1, <3>2
    <3>4. QED
      BY <1>3, <3>1, <3>2, <3>3 DEF Push, Counted
  <2>3. QED
    BY <2>1, <2>2
<1>4. QED
  BY <1>1, <1>2, <1>3 DEF SendStep

(* The same for the steps of write_handler and the end of the client.      *)
LEMMA HandlerCounted ==
    ASSUME NodeInv, SendSucceeds \/ SendFails \/ TransmitNext \/ ServerFails
    PROVE  Counted
BY MaxBeaconAssumption, MaxPacketsAssumption
   DEF NodeInv, TypeOK, ClientTypeOK, Budget, LeftOver, Due, Goto, Threads, CliStates,
       UdpStates, SendSucceeds, SendFails, TransmitNext, ServerFails, PopSent, PopFailed,
       Transmit, Destroyed, Counted

-----------------------------------------------------------------------------
(* The accesses to the queue.                                              *)

Queued == ClientTypeOK(Threads)' /\ QueueNumbered' /\ (~raced' => QueueInv')

(* What a race that did not happen tells: it had not happened before, and  *)
(* the other thread is not inside.                                         *)
LEMMA NotRaced ==
    ASSUME NodeInv, NEW u \in Threads, Race(Inside(u))
    PROVE  /\ raced' \in BOOLEAN
           /\ ~raced' => QueueInv /\ at[u] \notin {"push", "transmit", "popped"}
<1>1. raced \in BOOLEAN /\ Inside(u) \in BOOLEAN
  BY DEF NodeInv, TypeOK, ClientTypeOK, Inside
<1>2. raced' = (raced \/ Inside(u))
  BY DEF Race
<1>3. raced' \in BOOLEAN
  BY <1>1, <1>2, Zenon
<1>4. ~raced' => ~raced /\ ~Inside(u)
  BY <1>2, Zenon
<1>5. QED
  BY <1>3, <1>4 DEF NodeInv, Inside

(* send looks at the queue.                                                *)
LEMMA BeginSendQueued ==
    ASSUME NodeInv, NEW t \in Threads, BeginSend(t)
    PROVE  Queued
<1> Other(t) \in Threads /\ \A u \in Threads : u = t \/ u = Other(t)
  BY Others DEF Threads
<1>1. Race(Inside(Other(t))) /\ LookAtQueue(t) /\ at[t] = "send"
      /\ at' = [at EXCEPT ![t] = "push"]
  BY DEF BeginSend, Goto
<1>2. UNCHANGED <<tx_queue, queued, in_flight, sent, failed>>
      /\ queue_empty' = [queue_empty EXCEPT ![t] = tx_queue = <<>>]
  BY <1>1 DEF LookAtQueue
<1>3. queue_empty' \in [Threads -> BOOLEAN]
  <2>1. queue_empty \in [Threads -> BOOLEAN] /\ (tx_queue = <<>>) \in BOOLEAN
    BY DEF NodeInv, TypeOK, ClientTypeOK
  <2>2. QED
    BY <1>2, <2>1, Zenon
<1>4. ClientTypeOK(Threads)'
  BY <1>1, <1>2, <1>3, NotRaced DEF NodeInv, TypeOK, ClientTypeOK
<1>5. QueueNumbered'
  BY <1>2 DEF NodeInv, QueueNumbered
<1>6. ASSUME ~raced'
      PROVE  QueueInv'
  <2>1. QueueInv /\ at[Other(t)] \notin {"push", "transmit", "popped"}
    BY <1>1, <1>6, NotRaced
  <2>2. (SentBefore /\ SentSorted /\ FlightHead)'
    BY <1>2, <2>1 DEF QueueInv, SentBefore, SentSorted, FlightHead
  <2>3. at \in [Threads -> CliStates \cup UdpStates]
        /\ queue_empty \in [Threads -> BOOLEAN]
    BY DEF NodeInv, TypeOK, ClientTypeOK
  <2>4. Knows(t)'
    <3>1. at'[t] = "push" /\ (queue_empty'[t] <=> tx_queue = <<>>)
      BY <1>1, <1>2, <2>3, Zenon
    <3>2. QED
      BY <1>2, <3>1 DEF Knows
  <2>5. ASSUME NEW u \in Threads, u # t
        PROVE  Knows(u)'
    BY <1>1, <2>1, <2>3, <2>5 DEF Knows
  <2>6. QED
    BY <2>2, <2>4, <2>5 DEF QueueInv
<1>7. QED
  BY <1>4, <1>5, <1>6 DEF Queued

(* send appends the datagram.                                              *)
LEMMA PushQueued ==
    ASSUME NodeInv, Counted, NEW t \in Threads, Push(t)
    PROVE  Queued
<1> Other(t) \in Threads /\ \A u \in Threads : u = t \/ u = Other(t)
  BY Others DEF Threads
<1>1. /\ Race(Inside(Other(t))) /\ at[t] = "push"
      /\ at' = [at EXCEPT ![t] = at'[t]]
      /\ at'[t] = "transmit" => queue_empty[t]
      /\ at'[t] \notin {"push", "popped"}
  BY DEF NodeInv, TypeOK, Push, Goto, AfterSend, Threads
<1>2. UNCHANGED <<queue_empty, in_flight, sent, failed>>
      /\ tx_queue' = Append(tx_queue, queued + 1) /\ queued' = queued + 1
  BY DEF Push, Enqueue
<1>3. tx_queue \in Seq(Packets) /\ queued \in Nat /\ queued + 1 \in Packets
  BY <1>2, MaxPacketsAssumption DEF NodeInv, TypeOK, ClientTypeOK, Counted, Packets
<1>4. /\ tx_queue' \in Seq(Packets) /\ Len(tx_queue') = Len(tx_queue) + 1
      /\ \A i \in 1..Len(tx_queue) : tx_queue'[i] = tx_queue[i]
      /\ tx_queue'[Len(tx_queue) + 1] = queued + 1
  BY <1>2, <1>3, AppendProperties
<1>5. ClientTypeOK(Threads)'
  BY <1>1, <1>2, <1>4, NotRaced DEF NodeInv, TypeOK, ClientTypeOK, Counted
<1>6. QueueNumbered'
  <2>1. Len(tx_queue) \in Nat /\ QueueNumbered
    BY <1>3 DEF NodeInv
  <2>2. QED
    BY <1>2, <1>3, <1>4, <2>1 DEF QueueNumbered
<1>7. ASSUME ~raced'
      PROVE  QueueInv'
  <2>1. QueueInv /\ at[Other(t)] \notin {"push", "transmit", "popped"}
    BY <1>1, <1>7, NotRaced
  <2>2. SentBefore' /\ SentSorted'
    <3>1. queued' - Len(tx_queue') = queued - Len(tx_queue)
      BY <1>2, <1>3, <1>4
    <3>2. QED
      BY <1>2, <2>1, <3>1 DEF QueueInv, SentBefore, SentSorted
  <2>3. FlightHead'
    <3>1. tx_queue # <<>> => tx_queue' # <<>> /\ Head(tx_queue') = Head(tx_queue)
      BY <1>3, <1>4
    <3>2. QED
      BY <1>2, <2>1, <3>1 DEF QueueInv, FlightHead
  <2>4. Knows(t)'
    <3>1. at'[t] = "transmit" => in_flight = <<>>
      BY <1>1, <2>1 DEF QueueInv, Knows, FlightHead
    <3>2. QED
      BY <1>1, <1>2, <3>1 DEF Knows
  <2>5. ASSUME NEW u \in Threads, u # t
        PROVE  Knows(u)'
    BY <1>1, <2>1, <2>5 DEF Knows, NodeInv, TypeOK
  <2>6. QED
    BY <2>2, <2>3, <2>4, <2>5 DEF QueueInv
<1>8. QED
  BY <1>5, <1>6, <1>7 DEF Queued

(* send and write_handler transmit the head of the queue, if there is one, *)
(* and the thread goes out.                                                *)
LEMMA TransmitQueued ==
    ASSUME NodeInv, NEW t \in Threads, at[t] \in {"transmit", "popped"},
           Race(Inside(Other(t))),
           Transmit \/ UNCHANGED <<tx_queue, queue_empty, queued, in_flight, sent, failed>>,
           at' = [at EXCEPT ![t] = at'[t]], at'[t] \notin {"push", "transmit", "popped"}
    PROVE  Queued
<1> Other(t) \in Threads /\ \A u \in Threads : u = t \/ u = Other(t)
  BY Others DEF Threads
<1>1. UNCHANGED <<tx_queue, queue_empty, queued, sent, failed>>
      /\ \/ in_flight' = in_flight
         \/ tx_queue # <<>> /\ in_flight' = Append(in_flight, Head(tx_queue))
  BY DEF Transmit
<1>2. tx_queue \in Seq(Packets) /\ in_flight \in Seq(Packets)
  BY DEF NodeInv, TypeOK, ClientTypeOK
<1>3. in_flight' \in Seq(Packets)
  BY <1>1, <1>2
<1>4. ClientTypeOK(Threads)'
  BY <1>1, <1>3, NotRaced DEF NodeInv, TypeOK, ClientTypeOK
<1>5. QueueNumbered'
  BY <1>1 DEF NodeInv, QueueNumbered
<1>6. ASSUME ~raced'
      PROVE  QueueInv'
  <2>1. QueueInv /\ at[Other(t)] \notin {"push", "transmit", "popped"}
    BY <1>6, NotRaced
  <2>2. SentBefore' /\ SentSorted'
    BY <1>1, <2>1 DEF QueueInv, SentBefore, SentSorted
  <2>3. FlightHead'
    <3>1. in_flight = <<>>
      BY <2>1 DEF QueueInv, Knows
    <3>2. QED
      BY <1>1, <1>2, <3>1 DEF FlightHead
  <2>4. ASSUME NEW u \in Threads
        PROVE  Knows(u)'
    <3>1. at'[u] \notin {"push", "transmit", "popped"}
      BY <2>1 DEF NodeInv, TypeOK
    <3>2. QED
      BY <3>1 DEF Knows
  <2>5. QED
    BY <2>2, <2>3, <2>4 DEF QueueInv
<1>7. QED
  BY <1>4, <1>5, <1>6 DEF Queued

(* write_handler takes the head off the queue.                             *)
LEMMA HeadOfQueue ==
    ASSUME NodeInv, tx_queue # <<>>, tx_queue' = Tail(tx_queue), queued' = queued
    PROVE  /\ tx_queue' \in Seq(Packets) /\ QueueNumbered'
           /\ Head(tx_queue) = queued' - Len(tx_queue')
           /\ Len(tx_queue') = Len(tx_queue) - 1
<1>1. tx_queue \in Seq(Packets) /\ queued \in Nat /\ QueueNumbered
  BY MaxPacketsAssumption DEF NodeInv, TypeOK, ClientTypeOK
<1>2. /\ tx_queue' \in Seq(Packets) /\ Len(tx_queue') = Len(tx_queue) - 1
      /\ Len(tx_queue) \in Nat \ {0} /\ Head(tx_queue) = tx_queue[1]
      /\ \A i \in 1..Len(tx_queue') : tx_queue'[i] = tx_queue[i + 1]
  BY <1>1, HeadTailProperties
<1>3. QueueNumbered'
  BY <1>1, <1>2 DEF QueueNumbered
<1>4. QED
  BY <1>1, <1>2, <1>3 DEF QueueNumbered

(* write_handler after an error: the head is gone and nothing is pending.  *)
LEMMA SendFailsQueued ==
    ASSUME NodeInv, SendFails
    PROVE  Queued
<1>1. /\ Race(Inside("cli")) /\ at["udp"] = "run" /\ at' = at
      /\ in_flight # <<>> /\ tx_queue # <<>>
      /\ tx_queue' = Tail(tx_queue) /\ in_flight' = Tail(in_flight)
      /\ failed' = (failed \/ tx_queue' # <<>>)
      /\ UNCHANGED <<queue_empty, queued, sent>>
  BY DEF SendFails, PopFailed
<1>2. /\ tx_queue' \in Seq(Packets) /\ QueueNumbered'
      /\ Len(tx_queue') = Len(tx_queue) - 1
  BY <1>1, HeadOfQueue
<1>3. failed' \in BOOLEAN
  <2>1. failed \in BOOLEAN
    BY DEF NodeInv, TypeOK, ClientTypeOK
  <2>2. QED
    BY <1>1, <2>1, Zenon
<1>4. in_flight \in Seq(Packets) /\ sent \in Seq(Packets) /\ tx_queue \in Seq(Packets)
      /\ queued \in Nat
  BY MaxPacketsAssumption DEF NodeInv, TypeOK, ClientTypeOK
<1>5. "cli" \in Threads /\ in_flight' \in Seq(Packets)
  BY <1>1, <1>4 DEF Threads
<1>6. ClientTypeOK(Threads)'
  BY <1>1, <1>2, <1>3, <1>5, NotRaced DEF NodeInv, TypeOK, ClientTypeOK
<1>7. ASSUME ~raced'
      PROVE  QueueInv'
  <2>1. QueueInv /\ at["cli"] \notin {"push", "transmit", "popped"}
    BY <1>1, <1>5, <1>7, NotRaced
  <2>2. SentSorted'
    BY <1>1, <2>1 DEF QueueInv, SentSorted
  <2>3. SentBefore'
    <3>1. ASSUME NEW i \in 1..Len(sent)
          PROVE  sent[i] <= queued - (Len(tx_queue) - 1)
      <4>1. sent[i] \in Packets /\ Len(tx_queue) \in Nat
        BY <1>4, ElementOfSeq, LenProperties
      <4>2. sent[i] <= queued - Len(tx_queue)
        BY <2>1 DEF QueueInv, SentBefore
      <4>3. QED
        BY <1>4, <4>1, <4>2, MaxPacketsAssumption DEF Packets
    <3>2. QED
      BY <1>1, <1>2, <3>1 DEF SentBefore
  <2>4. in_flight' = <<>>
    BY <1>1, <1>4, <2>1 DEF QueueInv, FlightHead
  <2>5. \A u \in Threads : Knows(u)'
    BY <1>1, <2>1, <2>4 DEF Knows, Threads
  <2>6. QED
    BY <2>2, <2>3, <2>4, <2>5 DEF QueueInv, FlightHead
<1>8. QED
  BY <1>2, <1>6, <1>7 DEF Queued

(* write_handler after a success: the head is the next datagram sent.      *)
LEMMA SendSucceedsQueued ==
    ASSUME NodeInv, SendSucceeds
    PROVE  Queued
<1>1. /\ Race(Inside("cli")) /\ at["udp"] = "run"
      /\ at' = [at EXCEPT !["udp"] = "popped"]
      /\ in_flight # <<>> /\ tx_queue # <<>>
      /\ tx_queue' = Tail(tx_queue) /\ in_flight' = Tail(in_flight)
      /\ sent' = Append(sent, Head(in_flight))
      /\ UNCHANGED <<queue_empty, queued, failed>>
  BY DEF SendSucceeds, PopSent, Goto
<1>2. /\ tx_queue' \in Seq(Packets) /\ QueueNumbered'
      /\ Head(tx_queue) = queued' - Len(tx_queue')
      /\ Len(tx_queue') = Len(tx_queue) - 1
  BY <1>1, HeadOfQueue
<1>3. in_flight \in Seq(Packets) /\ sent \in Seq(Packets) /\ tx_queue \in Seq(Packets)
      /\ queued \in Nat
  BY MaxPacketsAssumption DEF NodeInv, TypeOK, ClientTypeOK
<1>4. "cli" \in Threads /\ in_flight' \in Seq(Packets) /\ Head(in_flight) \in Packets
  BY <1>1, <1>3 DEF Threads
<1>5. /\ sent' \in Seq(Packets) /\ Len(sent') = Len(sent) + 1 /\ Len(sent) \in Nat
      /\ \A i \in 1..Len(sent) : sent'[i] = sent[i]
      /\ sent'[Len(sent) + 1] = Head(in_flight)
  BY <1>1, <1>3, <1>4, AppendProperties
<1>6. ClientTypeOK(Threads)'
  BY <1>1, <1>2, <1>4, <1>5, NotRaced DEF NodeInv, TypeOK, ClientTypeOK
<1>7. ASSUME ~raced'
      PROVE  QueueInv'
  <2>1. QueueInv /\ at["cli"] \notin {"push", "transmit", "popped"}
    BY <1>1, <1>4, <1>7, NotRaced
  <2>2. in_flight = <<Head(tx_queue)>>
    BY <1>1, <2>1 DEF QueueInv, FlightHead
  <2>3. Head(in_flight) = queued - (Len(tx_queue) - 1) /\ in_flight' = <<>>
    BY <1>1, <1>2, <2>2
  <2>4. ASSUME NEW i \in 1..Len(sent)
        PROVE  sent[i] < queued - (Len(tx_queue) - 1)
    <3>1. sent[i] \in Packets /\ Len(tx_queue) \in Nat
      BY <1>3, ElementOfSeq, LenProperties
    <3>2. sent[i] <= queued - Len(tx_queue)
      BY <2>1 DEF QueueInv, SentBefore
    <3>3. QED
      BY <1>3, <3>1, <3>2, MaxPacketsAssumption DEF Packets
  <2>5. PICK h \in Int : h = queued - (Len(tx_queue) - 1)
    <3>1. Len(tx_queue) \in Nat
      BY <1>3, LenProperties
    <3>2. queued - (Len(tx_queue) - 1) \in Int
      BY <1>3, <3>1
    <3>3. QED
      BY <3>2, Zenon
  <2>6. /\ \A i \in 1..Len(sent) : sent'[i] \in Int /\ sent'[i] < h
        /\ sent'[Len(sent) + 1] = h
    <3>1. ASSUME NEW i \in 1..Len(sent)
          PROVE  sent'[i] \in Int /\ sent'[i] < h
      <4>1. sent'[i] = sent[i] /\ sent[i] \in Packets
        BY <1>3, <1>5, ElementOfSeq
      <4>2. QED
        BY <2>4, <2>5, <4>1, MaxPacketsAssumption DEF Packets
    <3>2. QED
      BY <1>5, <2>3, <2>5, <3>1
  <2>7. SentBefore'
    <3>1. \A i \in 1..(Len(sent) + 1) : sent'[i] <= h
      BY <1>5, <2>6
    <3>2. QED
      BY <1>1, <1>2, <1>5, <2>5, <3>1 DEF SentBefore
  <2>8. SentSorted'
    <3>1. SentSorted
      BY <2>1 DEF QueueInv
    <3>2. QED
      BY <1>5, <2>6, <3>1 DEF SentSorted
  <2>9. \A u \in Threads : Knows(u)'
    BY <1>1, <2>1, <2>3 DEF Knows, Threads, NodeInv, TypeOK
  <2>10. QED
    BY <2>3, <2>7, <2>8, <2>9 DEF QueueInv, FlightHead
<1>8. QED
  BY <1>2, <1>6, <1>7 DEF Queued

(* The client is destroyed with its queue.                                 *)
LEMMA ServerFailsQueued ==
    ASSUME NodeInv, ServerFails
    PROVE  Queued
<1>1. /\ Race(Inside("cli")) /\ at' = [at EXCEPT !["udp"] = "ended"]
      /\ tx_queue' = <<>> /\ in_flight' = <<>>
      /\ UNCHANGED <<queue_empty, queued, sent, failed>>
  BY DEF ServerFails, Destroyed, Goto
<1>2. tx_queue \in Seq(Packets) /\ queued \in Nat /\ sent \in Seq(Packets)
      /\ "cli" \in Threads
  BY MaxPacketsAssumption DEF NodeInv, TypeOK, ClientTypeOK, Threads
<1>3. ClientTypeOK(Threads)'
  BY <1>1, <1>2, NotRaced DEF NodeInv, TypeOK, ClientTypeOK
<1>4. QueueNumbered'
  BY <1>1, <1>2 DEF QueueNumbered
<1>5. ASSUME ~raced'
      PROVE  QueueInv'
  <2>1. QueueInv /\ at["cli"] \notin {"push", "transmit", "popped"}
    BY <1>1, <1>2, <1>5, NotRaced
  <2>2. SentSorted' /\ FlightHead'
    BY <1>1, <2>1 DEF QueueInv, SentSorted, FlightHead
  <2>3. ASSUME NEW i \in 1..Len(sent)
        PROVE  sent[i] <= queued - 0
    <3>1. sent[i] \in Packets /\ Len(tx_queue) \in Nat
      BY <1>2, ElementOfSeq, LenProperties
    <3>2. sent[i] <= queued - Len(tx_queue)
      BY <2>1 DEF QueueInv, SentBefore
    <3>3. QED
      BY <1>2, <3>1, <3>2, MaxPacketsAssumption DEF Packets
  <2>4. SentBefore'
    BY <1>1, <2>3 DEF SentBefore
  <2>5. \A u \in Threads : Knows(u)'
    BY <1>1, <2>1 DEF Knows, Threads, NodeInv, TypeOK
  <2>6. QED
    BY <2>2, <2>4, <2>5 DEF QueueInv
<1>6. QED
  BY <1>3, <1>4, <1>5 DEF Queued

-----------------------------------------------------------------------------
(* Theorems.                                                               *)

(* A node that has not started anything satisfies the invariant.           *)
LEMMA NodeInit == Init => NodeInv
<1> SUFFICES ASSUME Init
             PROVE  NodeInv
  OBVIOUS
<1> USE MaxPacketsAssumption, MaxBeaconAssumption, MaxLinesAssumption
    DEF Init, ClientInit
<1>1. printer \in LineQueues /\ logger \in LineQueues
  BY DEF NewQueue, LineQueues
<1>2. TypeOK
  <2>1. queue_empty \in [Threads -> BOOLEAN] /\ failed \in BOOLEAN /\ raced \in BOOLEAN
    BY Zenon
  <2>2. ClientTypeOK(Threads)
    BY <2>1 DEF ClientTypeOK
  <2>3. at \in [Threads -> CliStates \cup UdpStates] /\ at["cli"] \in CliStates
        /\ at["udp"] \in UdpStates
    BY DEF Threads, CliStates, UdpStates
  <2>4. process \in {"running", "exited", "terminated"} /\ main \in MainStates
        /\ ptr_client \in {"null", "client", "dangling"} /\ left \in 0..MaxBeacon
    BY DEF MainStates
  <2>5. QED
    BY <1>1, <2>2, <2>3, <2>4 DEF TypeOK
<1>3. Budget /\ LeftOver
  BY DEF Budget, LeftOver, Due, Threads
<1>4. QueueNumbered
  BY DEF QueueNumbered
<1>5. QueueInv
  BY DEF QueueInv, SentBefore, SentSorted, FlightHead, Knows, Threads
<1>6. QED
  BY <1>2, <1>3, <1>4, <1>5 DEF NodeInv

(* Every step of every thread keeps it.                                    *)
LEMMA NodeStep == NodeInv /\ [Next]_vars => NodeInv'
<1> SUFFICES ASSUME NodeInv, [Next]_vars
             PROVE  NodeInv'
  OBVIOUS
<1>1. printer' \in LineQueues /\ logger' \in LineQueues
  BY OutputTyped DEF NodeInv
<1>2. process \in {"running", "exited", "terminated"} /\ main \in MainStates
  BY DEF NodeInv, TypeOK
<1>3. ASSUME Counted, Queued
      PROVE  NodeInv'
  <2>1. TypeOK'
    BY <1>1, <1>2, <1>3 DEF TypeOK, Counted, Queued
  <2>2. QED
    BY <1>3, <2>1 DEF NodeInv, Counted, Queued
<1>4. CASE MainStep \/ PrinterStep \/ LoggerStep \/ Wakeup \/ Corrupted
           \/ OthersLog \/ CommandQuit \/ Over \/ UNCHANGED vars
  BY <1>1, <1>4, MainOutside, OutsideKeeps
<1>5. CASE \/ ClientCreated \/ ClientFails \/ ServerCreated
           \/ \E n \in 1..MaxBeacon : FireBeacon(n)
  BY <1>1, <1>2, <1>5, UdpOutside, OutsideKeeps
<1>6. CASE \/ PrintBanner \/ PrintHelp \/ UseDestroyed \/ PrintDone \/ CommandPrints
           \/ CommandRevoke \/ CommandRevokeEarly \/ InputEnds
  <2>1. Outside /\ process' \in {process, "terminated"} /\ main' = main
    BY <1>6, CliOutside
  <2>2. QED
    BY <1>1, <1>2, <2>1, OutsideKeeps
<1>7. ASSUME NEW t \in Threads, SendStep(t)
      PROVE  NodeInv'
  <2>1. Counted
    BY <1>7, SendCounted
  <2>2. CASE BeginSend(t)
    BY <1>3, <2>1, <2>2, BeginSendQueued
  <2>3. CASE Push(t)
    BY <1>3, <2>1, <2>3, PushQueued
  <2>4. CASE EndSend(t)
    <3>1. /\ at[t] = "transmit" /\ Transmit /\ Race(Inside(Other(t)))
          /\ at' = [at EXCEPT ![t] = at'[t]]
          /\ at'[t] \notin {"push", "transmit", "popped"}
      BY <2>4 DEF NodeInv, TypeOK, EndSend, Goto, AfterSend, Threads
    <3>2. QED
      BY <1>3, <2>1, <3>1, TransmitQueued
  <2>5. QED
    BY <1>7, <2>2, <2>3, <2>4 DEF SendStep
<1>8. CASE SendSucceeds \/ SendFails \/ ServerFails
  BY <1>3, <1>8, HandlerCounted, SendSucceedsQueued, SendFailsQueued, ServerFailsQueued
<1>9. CASE TransmitNext
  <2>1. /\ at["udp"] = "popped" /\ Race(Inside(Other("udp")))
        /\ Transmit \/ UNCHANGED <<tx_queue, queue_empty, queued, in_flight, sent, failed>>
        /\ at' = [at EXCEPT !["udp"] = at'["udp"]]
        /\ at'["udp"] \notin {"push", "transmit", "popped"}
    BY <1>9, Others DEF NodeInv, TypeOK, TransmitNext, Goto, Threads
  <2>2. "udp" \in Threads
    BY DEF Threads
  <2>3. QED
    BY <1>3, <1>9, <2>1, <2>2, HandlerCounted, TransmitQueued
<1>10. "cli" \in Threads /\ "udp" \in Threads
  BY DEF Threads
<1>11. QED
  BY <1>4, <1>5, <1>6, <1>7, <1>8, <1>9, <1>10 DEF Next, UdpStep, CliStep

(* The queue is numbered without a gap, and as long as the two threads     *)
(* have not met in it the datagrams that were sent precede it and the one  *)
(* pending operation is for its head: main, fire_beacon, revoke_file, send *)
(* and write_handler all keep this.                                        *)
THEOREM NodeInvariant == Spec => []NodeInv
<1>1. Init => NodeInv
  BY NodeInit
<1>2. NodeInv /\ [Next]_vars => NodeInv'
  BY NodeStep
<1>3. QED
  BY <1>1, <1>2, PTL DEF Spec

(* Every variable of the threads, the transmit queue and the two queues of *)
(* lines keeps its type.                                                   *)
THEOREM NodeTypeCorrect == Spec => []TypeOK
<1>1. NodeInv => TypeOK
  BY DEF NodeInv
<1>2. QED
  BY <1>1, NodeInvariant, PTL

(* Until the CLI and the UDP thread meet in Udp_Client, its datagrams      *)
(* leave in the order of the calls of send, none of them twice, however    *)
(* many there are and whichever of them cannot be sent.                    *)
THEOREM DatagramsInOrder == Spec => []SentInOrder
<1>1. NodeInv => SentInOrder
  <2> SUFFICES ASSUME NodeInv, ~raced
               PROVE  /\ \A i, j \in 1..Len(sent) : i < j => sent[i] < sent[j]
                      /\ Len(in_flight) <= 1
                      /\ in_flight # <<>> => in_flight = <<Head(tx_queue)>>
    BY DEF SentInOrder
  <2>1. SentSorted /\ FlightHead
    BY DEF NodeInv, QueueInv
  <2>2. Len(in_flight) <= 1
    <3>1. in_flight = <<>> \/ \E p : in_flight = <<p>>
      BY <2>1 DEF FlightHead
    <3>2. QED
      BY <3>1
  <2>3. QED
    BY <2>1, <2>2 DEF SentSorted, FlightHead
<1>2. QED
  BY <1>1, NodeInvariant, PTL
=============================================================================
