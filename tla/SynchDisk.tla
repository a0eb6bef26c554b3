----------------------------- MODULE SynchDisk ------------------------------
(***************************************************************************)
(* filesys/synchdisk.cc over machine/disk.cc, from boot to halt: Main      *)
(* makes the file system's first disk request inside Kernel::Initialize,   *)
(* with interrupts off, enables interrupts, forks threads that make        *)
(* requests of their own, and finishes.                                    *)
(*                                                                         *)
(* ReadSector and WriteSector have the same control; the data moves inside *)
(* the request.  The points of a thread:                                   *)
(*   "acquire"  lock->Acquire(), in semaphore->P()                         *)
(*   "request"  the lock taken: lockHolder, disk->...Request, semaphore->P *)
(*   "await"    asleep in, or resumed inside, semaphore->P()               *)
(*   "release"  P() done: lock->Release()                                  *)
(*   "return"   the request is over                                        *)
(***************************************************************************)
EXTENDS Synch

CONSTANTS
  Calls,        \* bound: requests of a thread other than Main
  Lock, Done    \* the lock's semaphore; the member "semaphore"

ASSUME DiskAssumption ==
  /\ Sems = {Lock, Done} /\ Lock # Done /\ NoThread \notin Threads
  /\ Calls \in Nat

VARIABLES
  active,       \* disk->active; its interrupt is pending exactly meanwhile
  pc, todo

diskvars == <<active, pc, todo>>
vars == <<synchvars, diskvars>>

Init ==
  /\ SchedInit
  /\ sem = [s \in Sems |-> [value |-> IF s = Lock THEN 1 ELSE 0, queue |-> << >>]]
  /\ lockHolder = NoThread
  /\ active = FALSE
  /\ pc = [t \in Threads |-> "acquire"]
  /\ todo = [t \in Threads |-> IF t = Main THEN 1 ELSE Calls]

Goto(t, p) == pc' = [pc EXCEPT ![t] = p]

-----------------------------------------------------------------------------
(* Lock::Acquire: its semaphore->P(). *)
Acquire(t) ==
  /\ pc[t] = "acquire" /\ todo[t] > 0
  /\ \/ PTake(Lock) /\ Goto(t, "request")
     \/ PSleep(Lock) /\ UNCHANGED pc
  /\ UNCHANGED <<lockHolder, active, todo>>

(* semaphore->P() *)
AwaitDone(t) ==
  IF sem[Done].value > 0 THEN PTake(Done) /\ Goto(t, "release")
  ELSE PSleep(Done) /\ Goto(t, "await")

(* Mutant: the caller does not wait for the interrupt. *)
Request_no_wait(t) ==
  /\ pc[t] = "request"
  /\ lockHolder' = t
  /\ active' = TRUE
  /\ Goto(t, "release")
  /\ UNCHANGED <<schedvars, sem, todo>>

(* Disk::ReadRequest or WriteRequest: the transfer is made, its interrupt   *)
(* scheduled; then P().  Interrupts are not enabled in between.             *)
Request(t) ==
  /\ pc[t] = "request"
  /\ lockHolder' = t
  /\ active' = TRUE
  /\ AwaitDone(t)
  /\ UNCHANGED todo

Await(t) ==
  /\ pc[t] = "await"
  /\ AwaitDone(t)
  /\ UNCHANGED <<lockHolder, active, todo>>

(* lock->Release() *)
Release(t) ==
  /\ pc[t] = "release"
  /\ lockHolder' = NoThread
  /\ V(Lock)
  /\ Goto(t, "return")
  /\ UNCHANGED <<active, todo>>

Return(t) ==
  /\ pc[t] = "return"
  /\ todo' = [todo EXCEPT ![t] = @ - 1]
  /\ Goto(t, IF t = Main THEN "enable" ELSE "acquire")
  /\ UNCHANGED <<synchvars, active>>

(* The end of Kernel::Initialize. *)
EnableInterrupts(t) ==
  /\ pc[t] = "enable"
  /\ Enable
  /\ Goto(t, "fork")
  /\ UNCHANGED <<sem, lockHolder, active, todo>>

ForkAll(t) ==
  /\ pc[t] = "fork"
  /\ \E u \in Threads : Fork(u)
  /\ UNCHANGED <<sem, lockHolder, diskvars>>

(* Thread::Finish, once the thread's function has returned. *)
Finish(t) ==
  /\ \/ pc[t] = "fork" /\ \A u \in Threads : status[u] # "JUST_CREATED"
     \/ pc[t] = "acquire" /\ todo[t] = 0
  /\ Goto(t, "finished")
  /\ Sleep("FINISHED")
  /\ UNCHANGED <<sem, lockHolder, active, todo>>

(* Disk::CallBack and SynchDisk::CallBack *)
DiskInterrupt ==
  /\ active /\ Interruptible
  /\ active' = FALSE
  /\ V(Done)
  /\ UNCHANGED <<lockHolder, pc, todo>>

Step(t) ==
  /\ Running(t)
  /\ \/ Acquire(t) \/ Request(t) \/ Await(t) \/ Release(t) \/ Return(t)
     \/ EnableInterrupts(t) \/ ForkAll(t) \/ Finish(t)

Machine == (TimerInterrupt \/ WakeUp \/ Halt(active)) /\ UNCHANGED <<sem, lockHolder, diskvars>>

Next == (\E t \in Threads : Step(t)) \/ DiskInterrupt \/ Machine

(* Fairness as in SynchList; a pending disk interrupt is delivered. *)
Spec ==
  /\ Init /\ [][Next]_vars
  /\ \A t \in Threads : SF_vars(Step(t))
  /\ WF_vars(Machine) /\ WF_vars(DiskInterrupt)

-----------------------------------------------------------------------------

(* A thread in P() is there for its own request, and P() lets it go only     *)
(* after that request's interrupt: while somebody waits there is exactly one *)
(* interrupt to come or one V to consume, and neither otherwise; and the     *)
(* holder of the lock passes the ASSERT of Release.                          *)
InterruptMatched ==
  LET waiting == {t \in Threads : pc[t] = "await"}
  IN  /\ (IF active THEN 1 ELSE 0) + sem[Done].value = Cardinality(waiting)
      /\ Cardinality(waiting) <= 1
      /\ \A t \in Threads : pc[t] \in {"await", "release"} => lockHolder = t

(* Every request returns, every thread finishes, and the kernel halts then   *)
(* and not before: Halt takes "nothing pending" for the end, but nobody      *)
(* sleeps on the disk or its lock; and once PrepareToEnd has disabled the    *)
(* timer no interrupt keeps an idle machine running (kernel.cc:131-133).     *)
KernelHalts == <>(machine = "halted" /\ \A t \in Threads : pc[t] = "finished")
=============================================================================
