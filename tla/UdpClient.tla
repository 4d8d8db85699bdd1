----------------------------- MODULE UdpClient -----------------------------
(***************************************************************************)
(* The transmit queue of src/src/UdpClient.cpp.  send is called by the UDP *)
(* thread (beacons) and by the CLI thread (revocations), write_handler by  *)
(* the UDP thread, and there is no lock: each operator below is one access *)
(* to the queue, and a thread in the middle of a call is "inside".         *)
(***************************************************************************)
EXTENDS Integers, Sequences

CONSTANT MaxPackets  \* bound on the datagrams given to send

ASSUME MaxPacketsAssumption == MaxPackets \in Nat

VARIABLES
    tx_queue,     \* the datagrams, numbered in the order they were queued
    queue_empty,  \* queue_empty[t]: the local variable of send in thread t
    queued,       \* how many datagrams were queued so far
    in_flight,    \* the datagrams of the pending async_send_to operations
    sent,         \* the datagrams whose operation has succeeded, in order
    failed,       \* has an operation failed while others were queued?
    raced         \* were two threads inside at the same time?

clientVars == <<tx_queue, queue_empty, queued, in_flight, sent, failed, raced>>

Packets == 1..MaxPackets

ClientTypeOK(threads) ==
    /\ tx_queue \in Seq(Packets)
    /\ queue_empty \in [threads -> BOOLEAN]
    /\ queued \in 0..MaxPackets
    /\ in_flight \in Seq(Packets)
    /\ sent \in Seq(Packets)
    /\ failed \in BOOLEAN
    /\ raced \in BOOLEAN

ClientInit(threads) ==
    /\ tx_queue = <<>>
    /\ queue_empty = [t \in threads |-> FALSE]
    /\ queued = 0
    /\ in_flight = <<>>
    /\ sent = <<>>
    /\ failed = FALSE
    /\ raced = FALSE

Race(other_inside) == raced' = (raced \/ other_inside)

(* send: is the queue empty?                                               *)
LookAtQueue(t) ==
    /\ queue_empty' = [queue_empty EXCEPT ![t] = tx_queue = <<>>]
    /\ UNCHANGED <<tx_queue, queued, in_flight, sent, failed>>

(* Mutant: every datagram starts a transmission of its own.                *)
EnqueueAndTransmit(t) ==
    /\ tx_queue' = Append(tx_queue, queued + 1)
    /\ queued' = queued + 1
    /\ in_flight' = Append(in_flight, Head(tx_queue'))
    /\ UNCHANGED <<queue_empty, sent, failed>>

(* send: emplace_back.                                                     *)
Enqueue(t) ==
    /\ tx_queue' = Append(tx_queue, queued + 1)
    /\ queued' = queued + 1
    /\ UNCHANGED <<queue_empty, in_flight, sent, failed>>

(* transmit: the head of the queue, which stays there until it is sent.    *)
Transmit ==
    /\ tx_queue # <<>>
    /\ in_flight' = Append(in_flight, Head(tx_queue))
    /\ UNCHANGED <<tx_queue, queue_empty, queued, sent, failed>>

(* write_handler: pop_front, whatever became of the operation.             *)
PopSent ==
    /\ tx_queue # <<>>
    /\ tx_queue' = Tail(tx_queue)
    /\ in_flight' = Tail(in_flight)
    /\ sent' = Append(sent, Head(in_flight))
    /\ UNCHANGED <<queue_empty, queued, failed>>

PopFailed ==
    /\ tx_queue # <<>>
    /\ tx_queue' = Tail(tx_queue)
    /\ in_flight' = Tail(in_flight)
    /\ failed' = (failed \/ tx_queue' # <<>>)
    /\ UNCHANGED <<queue_empty, queued, sent>>

(* The client is destroyed and its pending operations are aborted.         *)
Destroyed ==
    /\ tx_queue' = <<>>
    /\ in_flight' = <<>>
    /\ UNCHANGED <<queue_empty, queued, sent, failed>>
=============================================================================
