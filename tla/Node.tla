-------------------------------- MODULE Node --------------------------------
(***************************************************************************)
(* The threads of one node and what they share besides the database:       *)
(* src/src/main.cpp starts them one after the other, src/src/CLI.cpp reads *)
(* commands, src/src/UdpModule.cpp sets up the UDP client and server, and  *)
(* all of them write lines to the printer or the logger.  The effect of    *)
(* commands and beacons on the database is in Discovery.                   *)
(***************************************************************************)
EXTENDS LineQueue, UdpClient

CONSTANT MaxBeacon  \* bound on the datagrams of one beacon

ASSUME MaxBeaconAssumption == MaxBeacon \in Nat

VARIABLES
    process,     \* "running", "exited" or "terminated"
    main,        \* what main does next
    at,          \* at[t]: where the CLI and the UDP thread are
    ptr_client,  \* Udp_Module::ptr_client: "null", "client" or "dangling"
    left,        \* datagrams of the current beacon that are not queued yet
    printer,     \* the two queues of lines
    logger

outputVars == <<printer, logger>>
udpVars    == <<clientVars, ptr_client, left>>
vars == <<process, main, at, udpVars, outputVars>>

Threads == {"cli", "udp"}
Other(t) == CHOOSE u \in Threads : u # t

MainStates == {"options", "logger", "udp", "printer", "cli", "server", "join"}

CliStates == {"unborn", "banner", "help", "prompt", "send", "push", "transmit",
              "done", "ended"}

UdpStates == {"unborn", "client", "server", "run", "send", "push", "transmit",
              "popped", "ended"}

(* The data types of all variables.                                        *)
TypeOK ==
    /\ process \in {"running", "exited", "terminated"}
    /\ main \in MainStates
    /\ at \in [Threads -> CliStates \cup UdpStates]
    /\ at["cli"] \in CliStates /\ at["udp"] \in UdpStates
    /\ ClientTypeOK(Threads)
    /\ ptr_client \in {"null", "client", "dangling"}
    /\ left \in 0..MaxBeacon
    /\ printer \in LineQueues
    /\ logger \in LineQueues

Init ==
    /\ process = "running"
    /\ main = "options"
    /\ at = [t \in Threads |-> "unborn"]
    /\ ClientInit(Threads)
    /\ ptr_client = "null"
    /\ left = 0
    /\ printer = NewQueue
    /\ logger = NewQueue

Running == process = "running"
Goto(t, from, to) == Running /\ at[t] = from /\ at' = [at EXCEPT ![t] = to]
PrintText == printer' = Pushed(printer) /\ UNCHANGED logger
Log   == logger' = Pushed(logger) /\ UNCHANGED printer

-----------------------------------------------------------------------------
(* The thread of main.                                                     *)

MainGoes(from, to) == Running /\ main = from /\ main' = to

OptionsGiven ==
    /\ MainGoes("options", "logger")
    /\ UNCHANGED <<process, at, udpVars, outputVars>>

(* A missing option is reported, and help printed, but main goes on: the   *)
(* empty address makes from_string throw.                                  *)
OptionsMissing ==
    /\ Running /\ main = "options"
    /\ process' = "terminated"
    /\ UNCHANGED <<main, at, udpVars, outputVars>>

StartLogger ==
    /\ MainGoes("logger", "udp")
    /\ logger' = Created(logger)
    /\ UNCHANGED <<process, at, udpVars, printer>>

StartUdp ==
    /\ MainGoes("udp", "printer")
    /\ Goto("udp", "unborn", "client")
    /\ UNCHANGED <<process, udpVars, outputVars>>

StartPrinter ==
    /\ MainGoes("printer", "cli")
    /\ printer' = Created(printer)
    /\ UNCHANGED <<process, at, udpVars, logger>>

StartCLI ==
    /\ MainGoes("cli", "server")
    /\ Goto("cli", "unborn", "banner")
    /\ UNCHANGED <<process, udpVars, outputVars>>

(* "Init Done"; then main waits for threads that never end.                *)
InitDone ==
    /\ MainGoes("server", "join")
    /\ PrintText
    /\ UNCHANGED <<process, at, udpVars>>

-----------------------------------------------------------------------------
(* The threads of the printer and the logger.                              *)

PrinterStep ==
    /\ Running
    /\ \/ printer.worker = "created" /\ printer' = FirstWait(printer)
       \/ printer.worker = "awake" /\ printer' = Drained(printer)
    /\ UNCHANGED <<process, main, at, udpVars, logger>>

LoggerStep ==
    /\ Running
    /\ \/ logger.worker = "created" /\ logger' = FirstWait(logger)
       \/ logger.worker = "awake" /\ logger' = Drained(logger)
    /\ UNCHANGED <<process, main, at, udpVars, printer>>

Wakeup ==
    /\ Running
    /\ \/ printer.worker = "waiting" /\ printer' = WokenUp(printer) /\ UNCHANGED logger
       \/ logger.worker = "waiting" /\ logger' = WokenUp(logger) /\ UNCHANGED printer
    /\ UNCHANGED <<process, main, at, udpVars>>

-----------------------------------------------------------------------------
(* Udp_Client::send in either thread, and write_handler.                   *)

Inside(t) == at[t] \in {"push", "transmit", "popped"}

(* Where the thread goes on after send: the CLI reports, fire_beacon has   *)
(* more datagrams or not.                                                  *)
AfterSend(t, n) ==
    CASE t = "cli" -> "done"
      [] t = "udp" -> IF n > 0 THEN "send" ELSE "run"

(* The datagram is prepared and logged, and send looks at the queue.       *)
BeginSend(t) ==
    /\ ptr_client = "client"
    /\ Goto(t, "send", "push")
    /\ LookAtQueue(t)
    /\ Race(Inside(Other(t)))
    /\ Log
    /\ UNCHANGED <<process, main, ptr_client, left>>

Push(t) ==
    LET n == IF t = "udp" THEN left - 1 ELSE left
    IN  /\ ptr_client = "client"
        /\ Goto(t, "push", IF queue_empty[t] THEN "transmit" ELSE AfterSend(t, n))
        /\ Enqueue(t)
        /\ Race(Inside(Other(t)))
        /\ left' = n
        /\ UNCHANGED <<process, main, ptr_client, outputVars>>

EndSend(t) ==
    /\ ptr_client = "client"
    /\ Goto(t, "transmit", AfterSend(t, left))
    /\ Transmit
    /\ Race(Inside(Other(t)))
    /\ UNCHANGED <<process, main, ptr_client, left, outputVars>>

(* io_service.run calls write_handler for a finished operation.            *)
SendSucceeds ==
    /\ in_flight # <<>>
    /\ Goto("udp", "run", "popped")
    /\ PopSent
    /\ Race(Inside("cli"))
    /\ Log
    /\ UNCHANGED <<process, main, ptr_client, left>>

SendFails ==
    /\ in_flight # <<>>
    /\ Running /\ at["udp"] = "run"
    /\ PopFailed
    /\ Race(Inside("cli"))
    /\ Log
    /\ UNCHANGED <<process, main, at, ptr_client, left>>

(* Mutant: the next datagram waits for the next call of send.              *)
TransmitNoNext ==
    /\ Goto("udp", "popped", "run")
    /\ UNCHANGED <<tx_queue, queue_empty, queued, in_flight, sent, failed>>
    /\ Race(Inside("cli"))
    /\ UNCHANGED <<process, main, ptr_client, left, outputVars>>

TransmitNext ==
    /\ Goto("udp", "popped", "run")
    /\ \/ Transmit
       \/ /\ tx_queue = <<>>
          /\ UNCHANGED <<tx_queue, queue_empty, queued, in_flight, sent, failed>>
    /\ Race(Inside("cli"))
    /\ UNCHANGED <<process, main, ptr_client, left, outputVars>>

(* After a data race on the deque anything can have happened to it.        *)
Corrupted ==
    /\ Running
    /\ raced
    /\ process' = "terminated"
    /\ UNCHANGED <<main, at, udpVars, outputVars>>

-----------------------------------------------------------------------------
(* The rest of the UDP thread: run_server and fire_beacon.                 *)

ClientCreated ==
    /\ Goto("udp", "client", "server")
    /\ ptr_client' = "client"
    /\ UNCHANGED <<process, main, clientVars, left, outputVars>>

ClientFails ==
    /\ Goto("udp", "client", "ended")
    /\ Log
    /\ UNCHANGED <<process, main, udpVars>>

ServerCreated ==
    /\ Goto("udp", "server", "run")
    /\ UNCHANGED <<process, main, udpVars, outputVars>>

(* The client lives on the stack of run_server and is destroyed with it;   *)
(* ptr_client still points there.                                          *)
ServerFails ==
    /\ Goto("udp", "server", "ended")
    /\ ptr_client' = "dangling"
    /\ Destroyed
    /\ Race(Inside("cli"))
    /\ Log
    /\ UNCHANGED <<process, main, left>>

(* Datagrams that are on their way into the queue.                         *)
Due == left + IF at["cli"] \in {"send", "push"} THEN 1 ELSE 0

FireBeacon(n) ==
    /\ queued + Due + n <= MaxPackets
    /\ Goto("udp", "run", "send")
    /\ left' = n
    /\ UNCHANGED <<process, main, clientVars, ptr_client, outputVars>>

(* handle_receive has read a datagram, a download goes on or the request   *)
(* server does: each of them leaves lines in the log.                      *)
OthersLog ==
    /\ Running
    /\ \/ at["udp"] = "run"
       \/ at["cli"] \notin {"unborn", "banner", "help"}
       \/ main = "join"
    /\ Log
    /\ UNCHANGED <<process, main, at, udpVars>>

-----------------------------------------------------------------------------
(* The CLI thread.                                                         *)

PrintBanner ==
    /\ Goto("cli", "banner", "help")
    /\ PrintText
    /\ UNCHANGED <<process, main, udpVars>>

PrintHelp ==
    /\ Goto("cli", "help", "prompt")
    /\ PrintText
    /\ UNCHANGED <<process, main, udpVars>>

(* A command that answers with a text: add, download, global, help, one    *)
(* that does not exist, and revoke for a file nobody knows.                *)
CommandPrints ==
    /\ Running /\ at["cli"] = "prompt"
    /\ PrintText
    /\ UNCHANGED <<process, main, at, udpVars>>

(* Udp_Module::revoke_file does nothing while there is no client.          *)
CommandRevoke ==
    /\ ptr_client # "null"
    /\ queued + Due + 1 <= MaxPackets
    /\ Goto("cli", "prompt", "send")
    /\ UNCHANGED <<process, main, udpVars, outputVars>>

CommandRevokeEarly ==
    /\ ptr_client = "null"
    /\ Goto("cli", "prompt", "done")
    /\ UNCHANGED <<process, main, udpVars, outputVars>>

(* Whatever a destroyed client does, fatal or not.                         *)
UseDestroyed ==
    /\ Running
    /\ ptr_client = "dangling"
    /\ at["cli"] \in {"send", "push", "transmit"}
    /\ \/ at' = [at EXCEPT !["cli"] = "done"] /\ UNCHANGED process
       \/ process' = "terminated" /\ UNCHANGED at
    /\ UNCHANGED <<main, udpVars, outputVars>>

PrintDone ==
    /\ Goto("cli", "done", "prompt")
    /\ PrintText
    /\ UNCHANGED <<process, main, udpVars>>

CommandQuit ==
    /\ Running /\ at["cli"] = "prompt"
    /\ process' = "exited"
    /\ UNCHANGED <<main, at, udpVars, outputVars>>

InputEnds ==
    /\ Goto("cli", "prompt", "ended")
    /\ UNCHANGED <<process, main, udpVars, outputVars>>

Over == ~Running /\ UNCHANGED vars

-----------------------------------------------------------------------------
(* The specification.                                                      *)

MainStep ==
    OptionsGiven \/ OptionsMissing \/ StartLogger \/ StartUdp \/ StartPrinter
        \/ StartCLI \/ InitDone

SendStep(t) == BeginSend(t) \/ Push(t) \/ EndSend(t)

(* What a thread does without waiting for a user or the timer.             *)
UdpStep ==
    \/ ClientCreated \/ ClientFails \/ ServerCreated \/ ServerFails
    \/ SendStep("udp") \/ SendSucceeds \/ SendFails \/ TransmitNext

CliStep == PrintBanner \/ PrintHelp \/ SendStep("cli") \/ UseDestroyed \/ PrintDone

Next ==
    \/ MainStep \/ PrinterStep \/ LoggerStep \/ Wakeup
    \/ UdpStep \/ Corrupted \/ \E n \in 1..MaxBeacon : FireBeacon(n)
    \/ OthersLog
    \/ CliStep \/ CommandPrints \/ CommandRevoke \/ CommandRevokeEarly
    \/ CommandQuit \/ InputEnds
    \/ Over

Spec == Init /\ [][Next]_vars

(* Every thread keeps running, and sending a datagram ends one way or the  *)
(* other.  Nobody types, no timer fires and nothing wakes up by itself.    *)
LiveSpec ==
    /\ Spec
    /\ WF_vars(MainStep)
    /\ WF_vars(PrinterStep)
    /\ WF_vars(LoggerStep)
    /\ WF_vars(UdpStep)
    /\ WF_vars(CliStep)

-----------------------------------------------------------------------------
(* Properties.                                                             *)

(* Datagrams leave in the order in which they were queued, and none leaves *)
(* twice, also when some cannot be sent: as long as the CLI and the UDP    *)
(* thread do not meet in the queue, one operation at most is pending, and  *)
(* it is for the head of the queue.                                        *)
SentInOrder ==
    ~raced => /\ \A i, j \in 1..Len(sent) : i < j => sent[i] < sent[j]
              /\ Len(in_flight) <= 1
              /\ in_flight # <<>> => in_flight = <<Head(tx_queue)>>

(* A queued datagram leaves the queue: some write_handler is always on its *)
(* way that transmits the next one.  It is not when an earlier datagram    *)
(* failed with others behind it, after which nothing is ever sent again,   *)
(* or when the two threads have met.                                       *)
PacketsLeave ==
    \A p \in Packets :
        p <= queued ~> \/ \A i \in DOMAIN tx_queue : tx_queue[i] # p
                       \/ failed \/ raced \/ ~Running

(* No line stays behind: the thread of the printer (of the logger) never   *)
(* goes to sleep over lines that were pushed while it was writing others.  *)
(* Only lines older than its first wait can, until the next one comes.     *)
LinesComeOut ==
    /\ printer.lines > 0 /\ (printer.written \/ printer.worker = "awake")
        ~> printer.lines = 0 \/ ~Running
    /\ logger.lines > 0 /\ (logger.written \/ logger.worker = "awake")
        ~> logger.lines = 0 \/ ~Running
=============================================================================
