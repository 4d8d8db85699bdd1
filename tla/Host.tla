-------------------------------- MODULE Host --------------------------------
(***************************************************************************)
(* src/src/Host.cpp: what a node remembers about the hosts it downloads    *)
(* from.  A host whose check_timeout keeps firing is banned for a while    *)
(* (the code calls such a host "retarded").                                *)
(*                                                                         *)
(* Time is not modelled: ban[h] says whether ban_time lies in the future,  *)
(* and BanExpires lets the clock reach it at any moment.                   *)
(***************************************************************************)
EXTENDS Integers

CONSTANTS
    Hosts,                 \* the peers, one Host object each
    Int8Half,              \* 2^7 for the Int8 timeout_counter; scaled down for TLC
    TIMEOUT_COUNTER_LIMIT, \* 20 in GeneralTypes.h
    StartCounters          \* the timeout_counters that a download may find

ASSUME Int8Assumption  == Int8Half \in Nat \ {0}
ASSUME LimitAssumption == TIMEOUT_COUNTER_LIMIT \in 1..(Int8Half - 1)

VARIABLES
    timeout_counter,  \* timeout_counter[h]: an Int8, never reset
    ban               \* ban[h]: is ban_time later than the current time?

hostVars == <<timeout_counter, ban>>

Int8 == (-Int8Half)..(Int8Half - 1)

ASSUME StartAssumption == StartCounters \subseteq Int8

(* Mutant: the counter is a wider integer than its type says.              *)
ToInt8Wide(x) == x

(* x converted to an Int8.                                                 *)
ToInt8(x) == IF x \in Int8 THEN x ELSE x - 2 * Int8Half

HostTypeOK ==
    /\ timeout_counter \in [Hosts -> Int8]
    /\ ban \in [Hosts -> BOOLEAN]

(* The constructor starts the counter at 0 and leaves ban_time              *)
(* uninitialised: a new host may be banned.  The Host outlives the download *)
(* and nothing resets it, so a later download may find any Int8.            *)
HostInit ==
    /\ timeout_counter \in [Hosts -> StartCounters]
    /\ ban \in [Hosts -> BOOLEAN]

IsRetarded(h) == ban[h]

(* The counter wraps round like the Int8 it is, and the ban is renewed each *)
(* time the new value is at or over the limit.                              *)
IncreaseTimeoutCounter(h) ==
    LET count == ToInt8(timeout_counter[h] + 1)
    IN  /\ timeout_counter' = [timeout_counter EXCEPT ![h] = count]
        /\ ban' = [ban EXCEPT ![h] = @ \/ count >= TIMEOUT_COUNTER_LIMIT]

(* get_ban_time_point returns the current time, so a wait until it ends at *)
(* once whether or not the host is banned.                                 *)
BanWaitOver(h) == TRUE

(* The clock reaches ban_time.                                             *)
BanExpires(h) ==
    /\ ban[h]
    /\ ban' = [ban EXCEPT ![h] = FALSE]
    /\ UNCHANGED timeout_counter
=============================================================================
