----------------------------- MODULE LineQueue -----------------------------
(***************************************************************************)
(* The queue of lines of src/src/Printer.cpp and src/src/LoggingModule.cpp *)
(* and the thread that writes them out.  Both classes are the same code: a *)
(* queue under a mutex and a condition variable that is waited for without *)
(* a predicate.  A queue is a record, every operator one critical section. *)
(***************************************************************************)
EXTENDS Integers

CONSTANT MaxLines  \* bound: MaxLines stands for that many lines or more

ASSUME MaxLinesAssumption == MaxLines \in Nat \ {0}

(* worker is where the thread is: not created, created, blocked in         *)
(* queue_cond.wait, or woken up.  written: has it ever written a line?     *)
LineQueues ==
    [lines   : 0..MaxLines,
     worker  : {"unborn", "created", "waiting", "awake"},
     written : BOOLEAN]

NewQueue == [lines |-> 0, worker |-> "unborn", written |-> FALSE]

(* init(): the thread is created.                                          *)
Created(q) == [q EXCEPT !.worker = "created"]

(* Mutant: the line is queued and nobody is told.                          *)
PushedSilently(q) == [q EXCEPT !.lines = IF @ = MaxLines THEN @ ELSE @ + 1]

(* print, add_log_line: push the line and notify_one, which is lost when   *)
(* the thread does not wait yet.                                           *)
Pushed(q) ==
    [q EXCEPT !.lines = IF @ = MaxLines THEN @ ELSE @ + 1,
              !.worker = IF @ = "waiting" THEN "awake" ELSE @]

(* The thread waits before it has looked at the queue.                     *)
FirstWait(q) == [q EXCEPT !.worker = "waiting"]

(* Mutant: one line for every wakeup, whether or not there is one.         *)
OneDrained(q) == [q EXCEPT !.lines = @ - 1, !.worker = "waiting", !.written = TRUE]

(* Everything in the queue is written, then the thread waits again.  It    *)
(* has the mutex all the while.                                            *)
Drained(q) ==
    [q EXCEPT !.lines = 0, !.worker = "waiting", !.written = @ \/ q.lines > 0]

(* A condition variable may wake a waiter on its own.                      *)
WokenUp(q) == [q EXCEPT !.worker = "awake"]
=============================================================================
