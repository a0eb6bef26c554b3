----------------------------- MODULE Scheduler ------------------------------
(***************************************************************************)
(* The NachOS kernel's threads, ready list, timer and idle loop            *)
(* (threads/thread.cc, scheduler.cc, alarm.cc, machine/timer.cc,           *)
(* interrupt.cc), as action fragments that the modules above compose into  *)
(* steps.                                                                  *)
(*                                                                         *)
(* The machine has one processor and kernel code is preempted only where   *)
(* interrupts go from off to on (Interrupt::SetLevel calls OneTick): at    *)
(* the end of Semaphore::P and V, Thread::Fork, Begin and Yield.  A step   *)
(* of the modules above is the code between two such points, so it holds   *)
(* at most one P, V or Fork, which is its last call.  Interrupt handlers   *)
(* are steps of their own, possible between those of a running thread when *)
(* interrupts are on, and whenever the machine idles.                      *)
(*                                                                         *)
(* A context switch ends in the next thread's CheckToBeDestroyed, which    *)
(* runs with interrupts still off: it is part of Run here.                 *)
(***************************************************************************)
EXTENDS Naturals, Sequences, FiniteSets, Functions

CONSTANTS
  Threads,        \* every Thread object, Main included
  Main            \* the thread that boots the kernel

ASSUME MainAssumption == Main \in Threads /\ IsFiniteSet(Threads)

VARIABLES
  currentThread,  \* kernel->currentThread
  status,         \* of each thread; "FINISHED": asleep for good in
                  \* Sleep(TRUE); "DELETED": destroyed by its successor
  readyList,      \* scheduler->readyList
  level,          \* the interrupt level between two steps
  machine,        \* "system", "idle" (in the loop of Thread::Sleep), "halted"
  timer           \* [pending, disable]: an interrupt is scheduled, the flag

schedvars == <<currentThread, status, readyList, level, machine, timer>>

(* Kernel::Initialize up to the devices: Main is the running thread, with   *)
(* interrupts off, and the alarm's timer has been started.                  *)
SchedInit ==
  /\ currentThread = Main
  /\ status = [t \in Threads |-> IF t = Main THEN "RUNNING" ELSE "JUST_CREATED"]
  /\ readyList = << >>
  /\ level = "IntOff"
  /\ machine = "system"
  /\ timer = [pending |-> TRUE, disable |-> FALSE]

(* t runs kernel code. *)
Running(t) == machine = "system" /\ currentThread = t

(* Scheduler::ReadyToRun *)
ReadyToRun(t) ==
  /\ status' = [status EXCEPT ![t] = "READY"]
  /\ readyList' = Append(readyList, t)

(* Scheduler::Run(next, ...), for a next that FindNextToRun took off the    *)
(* ready list, with old left in oldStatus.  A finished old is destroyed.    *)
Run(next, oldStatus) ==
  /\ currentThread' = next
  /\ status' = [status EXCEPT
                  ![currentThread] = IF oldStatus = "FINISHED" THEN "DELETED" ELSE oldStatus,
                  ![next] = "RUNNING"]
  /\ machine' = "system"

(* Thread::Fork *)
Fork(t) ==
  /\ status[t] = "JUST_CREATED"
  /\ ReadyToRun(t)
  /\ UNCHANGED <<currentThread, level, machine, timer>>

(* Thread::Yield *)
Yield ==
  IF readyList = << >>
  THEN UNCHANGED <<currentThread, status, readyList, machine>>
  ELSE /\ readyList' = Append(Tail(readyList), currentThread)
       /\ Run(Head(readyList), "READY")

(* Mutant: PrepareToEnd is not called. *)
Sleep_keeps_timer(oldStatus) ==
  /\ UNCHANGED <<level, timer>>
  /\ IF readyList # << >>
     THEN /\ readyList' = Tail(readyList)
          /\ Run(Head(readyList), oldStatus)
     ELSE /\ status' = [status EXCEPT ![currentThread] = oldStatus]
          /\ machine' = "idle"
          /\ UNCHANGED <<currentThread, readyList>>

(* Thread::Sleep, from Semaphore::P ("BLOCKED") or Thread::Finish           *)
(* ("FINISHED").  With nobody ready it calls Kernel::PrepareToEnd, which    *)
(* disables the timer, and idles.                                           *)
Sleep(oldStatus) ==
  /\ UNCHANGED level
  /\ IF readyList # << >>
     THEN /\ readyList' = Tail(readyList)
          /\ Run(Head(readyList), oldStatus)
          /\ UNCHANGED timer
     ELSE /\ status' = [status EXCEPT ![currentThread] = oldStatus]
          /\ machine' = "idle"
          /\ timer' = [timer EXCEPT !.disable = TRUE]
          /\ UNCHANGED <<currentThread, readyList>>

(* The loop of Sleep, after a handler has made some thread ready. *)
WakeUp ==
  /\ machine = "idle"
  /\ readyList # << >>
  /\ readyList' = Tail(readyList)
  /\ Run(Head(readyList), status[currentThread])
  /\ UNCHANGED <<level, timer>>

(* Interrupt::Idle with no pending interrupt of the timer or a device. *)
Halt(devicePending) ==
  /\ machine = "idle"
  /\ readyList = << >>
  /\ ~timer.pending /\ ~devicePending
  /\ machine' = "halted"
  /\ UNCHANGED <<currentThread, status, readyList, level, timer>>

(* A pending interrupt can be delivered: OneTick, or Idle. *)
Interruptible == (machine = "system" /\ level = "IntOn") \/ machine = "idle"

(* Timer::CallBack and Alarm::CallBack: time-slice unless idle, and         *)
(* schedule the next interrupt unless disabled.                             *)
TimerInterrupt ==
  /\ timer.pending /\ Interruptible
  /\ IF machine = "idle" THEN UNCHANGED <<currentThread, status, readyList, machine>>
     ELSE Yield
  /\ timer' = [timer EXCEPT !.pending = ~timer.disable]
  /\ UNCHANGED level

(* Interrupt::Enable at the end of Kernel::Initialize. *)
Enable ==
  /\ level = "IntOff"
  /\ level' = "IntOn"
  /\ UNCHANGED <<currentThread, status, readyList, machine, timer>>

-----------------------------------------------------------------------------

(* The ready list holds exactly the READY threads, each once; at most one    *)
(* thread is RUNNING, and it is currentThread.  In particular a destroyed    *)
(* thread is neither current nor on the list, though it finished while its   *)
(* own stack was still in use, and the thread idling in Sleep may itself be  *)
(* made ready by a handler.                                                  *)
ReadyListOK ==
  /\ \A i, j \in DOMAIN readyList : readyList[i] = readyList[j] => i = j
  /\ Range(readyList) = {t \in Threads : status[t] = "READY"}
  /\ {t \in Threads : status[t] = "RUNNING"} =
       IF machine = "system" THEN {currentThread} ELSE {}
  /\ machine # "system" => status[currentThread] \in {"BLOCKED", "FINISHED", "READY"}
=============================================================================
