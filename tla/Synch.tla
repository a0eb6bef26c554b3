------------------------------- MODULE Synch --------------------------------
(***************************************************************************)
(* threads/synch.cc: semaphores, and the fields of the lock and condition  *)
(* built on them, as action fragments over Scheduler.                      *)
(***************************************************************************)
EXTENDS Scheduler

CONSTANTS
  Sems,           \* every Semaphore object
  NoThread        \* lockHolder of a free lock

VARIABLES
  sem,            \* [value, queue] of each semaphore
  lockHolder      \* of the one lock of the module above

synchvars == <<schedvars, sem, lockHolder>>

(* Semaphore::P by the running thread: one turn of its while loop.  A       *)
(* thread that slept finds itself at the loop's test again when it runs.    *)
PTake(s) ==
  /\ sem[s].value > 0
  /\ sem' = [sem EXCEPT ![s].value = @ - 1]
  /\ UNCHANGED schedvars

PSleep(s) ==
  /\ sem[s].value = 0
  /\ sem' = [sem EXCEPT ![s].queue = Append(@, currentThread)]
  /\ Sleep("BLOCKED")

(* Mutant: V leaves the thread it wakes on the queue. *)
V_keeps_queue(s) ==
  /\ sem' = [sem EXCEPT ![s].value = @ + 1]
  /\ IF sem[s].queue = << >> THEN UNCHANGED <<status, readyList>>
     ELSE ReadyToRun(Head(sem[s].queue))
  /\ UNCHANGED <<currentThread, level, machine, timer>>

(* Semaphore::V, by the running thread or by an interrupt handler. *)
V(s) ==
  IF sem[s].queue = << >>
  THEN /\ sem' = [sem EXCEPT ![s].value = @ + 1]
       /\ UNCHANGED schedvars
  ELSE /\ sem' = [sem EXCEPT ![s].value = @ + 1, ![s].queue = Tail(@)]
       /\ ReadyToRun(Head(sem[s].queue))
       /\ UNCHANGED <<currentThread, level, machine, timer>>

-----------------------------------------------------------------------------

(* A thread is BLOCKED exactly when it is on the queue of one semaphore,     *)
(* and it is there once: nobody sleeps where no V can find it, and V never   *)
(* makes a thread ready that is running, ready or destroyed.                 *)
SleepersQueued ==
  \A t \in Threads :
    LET places == {p \in Sems \X (1 .. Cardinality(Threads)) :
                     p[2] \in DOMAIN sem[p[1]].queue /\ sem[p[1]].queue[p[2]] = t}
    IN  /\ status[t] = "BLOCKED" => Cardinality(places) = 1
        /\ status[t] # "BLOCKED" => places = {}

(* Every thread is in the one place where the kernel will find it: running,  *)
(* on the ready list or on a semaphore's queue (ReadyListOK, SleepersQueued).*)
ThreadsPlaced == ReadyListOK /\ SleepersQueued
=============================================================================
