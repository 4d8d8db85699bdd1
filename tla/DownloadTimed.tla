---------------------------- MODULE DownloadTimed ----------------------------
(***************************************************************************)
(* Download with fairness and with what its liveness needs to know of the  *)
(* clock.  Bans are times in whole seconds (std::time_t), so the ban that  *)
(* a charge sets ends when the clock passes the next whole second, all     *)
(* bans at once.  The service polls every TIMEOUT_CHECK_INTERVAL = 300 ms: *)
(* three polls at least lie between two such moments.                      *)
(***************************************************************************)
EXTENDS Download

POLLS_PER_SECOND == 3

VARIABLE polls  \* intervals that ended in the current second, up to 3

timedVars == <<vars, polls>>

TimedInit == Init /\ polls \in 0..POLLS_PER_SECOND

(* The clock passes a whole second, whether or not a host is banned.       *)
SecondPasses ==
    /\ Running
    /\ polls = POLLS_PER_SECOND
    /\ polls' = 0
    /\ ban' = [h \in Hosts |-> FALSE]
    /\ UNCHANGED <<timeout_counter, host, resourceVars, workerVars, serviceVars>>

TimedIntervalOver ==
    /\ IntervalOver
    /\ polls' = IF polls < POLLS_PER_SECOND THEN polls + 1 ELSE polls

(* The other steps of the service.                                         *)
ServiceGoesOn ==
    /\ ServiceStep \/ TimeoutFires
    /\ ~IntervalOver
    /\ UNCHANGED polls

TimedServiceStep == ServiceGoesOn \/ TimedIntervalOver

TimedNext ==
    \/ TimedServiceStep
    \/ \E w \in Workers :
        (WorkerStep(w) \/ ReceiveEnds(w) \/ Wakeup(w)) /\ UNCHANGED polls
    \/ SecondPasses
    \/ Over /\ UNCHANGED polls

(* Time passes, every thread keeps running, connect returns, and a read on *)
(* a socket that was shut down returns.  Nothing makes a host answer a     *)
(* request, and nothing wakes a waiting thread by itself.                  *)
Fairness ==
    /\ WF_timedVars(TimedServiceStep)
    /\ \A w \in Workers :
        /\ WF_timedVars(WorkerStep(w) /\ UNCHANGED polls)
        /\ WF_timedVars(socket[w] = "shutdown" /\ ReceiveEnds(w) /\ UNCHANGED polls)

LiveSpec == TimedInit /\ [][TimedNext]_timedVars /\ Fairness

(* Those of its behaviours in which every host has a worker, accepts the   *)
(* connection and the requests, and then never answers, and in which three *)
(* polls take a second.                                                    *)
SilentNext ==
    /\ TimedNext
    /\ \A w \in Workers : pc'[w] \notin {"received", "failed", "throw"}
    /\ IntervalOver => polls < POLLS_PER_SECOND

SilentSpec ==
    /\ TimedInit
    /\ \A h \in Hosts : \E w \in Workers : host[w] = h
    /\ [][SilentNext]_timedVars
    /\ Fairness

-----------------------------------------------------------------------------
(* When all segments have been downloaded, set_segment has told every      *)
(* waiting worker, and join_workers returns.                               *)
CompletedJoins == svc = "join" /\ IsCompleted ~> svc = "destroyed" \/ ~IsCompleted

(* Nothing but a worker that sleeps in get_segment keeps join_workers from *)
(* returning: closing the sockets gets every other one to its end,         *)
(* wherever it is.                                                         *)
JoinedUnlessAsleep == []<>(svc # "join" \/ cv # {})

(* A download comes to an end whatever its hosts do: hosts that never      *)
(* answer are banned by check_timeout, and when all are controll_workers   *)
(* gives up.  Refuted for two hosts: each is banned only while its counter *)
(* is between the limit and the end of an Int8, and two that fell silent   *)
(* at different times take turns.                                          *)
DownloadEnds == <>(svc \in {"close", "join", "destroyed", "terminated"})

(* With one host a download does come to an end whatever the host does:    *)
(* controll_workers finds it banned before the clock passes the next       *)
(* second, also when two workers share it and charge it twice as often,    *)
(* and when an earlier download left the counter near its end.             *)
OneHostEnds ==
    (\A v, w \in Workers : host[v] = host[w]) =>
        <>(svc \in {"close", "join", "destroyed", "terminated"})
=============================================================================
