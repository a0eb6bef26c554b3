----------------------------- MODULE SynchList ------------------------------
(***************************************************************************)
(* threads/synchlist.cc on Lock and Condition of threads/synch.cc, in use: *)
(* Main forks threads that append to and remove from one list, and         *)
(* finishes.                                                               *)
(*                                                                         *)
(* The points of a thread (the code after each is one step):               *)
(*   "acquire"    lock->Acquire(), in semaphore->P()                       *)
(*   "append"     Append, the lock taken: lockHolder, list, Signal         *)
(*   "release"    Append, after the V() of a Signal: lock->Release()       *)
(*   "remove"     RemoveFront, the lock taken: the test of its loop        *)
(*   "wait"       Condition::Wait, in waiter->P()                          *)
(*   "reacquire"  Condition::Wait, in conditionLock->Acquire()             *)
(*   "return"     the operation is over                                    *)
(***************************************************************************)
EXTENDS Synch

CONSTANTS
  Appenders, Removers,   \* disjoint; with Main they are the Threads
  Calls,                 \* bound: operations of an appender
  Lock,                  \* the lock's semaphore
  NoItem

(* A waiting thread's semaphore is named by the thread.                     *)
ASSUME ListAssumption ==
  /\ Threads = Appenders \union Removers \union {Main}
  /\ Appenders \intersect Removers = {} /\ Main \notin Appenders \union Removers
  /\ Sems = {Lock} \union Threads /\ Lock \notin Threads /\ NoThread \notin Threads
  /\ Calls \in Nat /\ NoItem \notin Threads
  /\ (Cardinality(Appenders) * Calls) % Cardinality(Removers) = 0

VARIABLES
  list,        \* the List<T>; an item is the name of the thread that made it
  waitQueue,   \* of the condition listEmpty
  pc, todo,    \* of each thread
  item         \* the argument of Append, the result of RemoveFront

listvars == <<list, waitQueue, pc, todo, item>>
vars == <<synchvars, listvars>>

RemoverCalls == (Cardinality(Appenders) * Calls) \div Cardinality(Removers)

(* The constructors, in a kernel that has been initialised with the timer   *)
(* running or (after a disk request at boot) disabled.                      *)
Init ==
  /\ currentThread = Main
  /\ status = [t \in Threads |-> IF t = Main THEN "RUNNING" ELSE "JUST_CREATED"]
  /\ readyList = << >> /\ level = "IntOn" /\ machine = "system"
  /\ timer \in {[pending |-> TRUE, disable |-> FALSE], [pending |-> FALSE, disable |-> TRUE]}
  /\ sem = [s \in Sems |-> [value |-> IF s = Lock THEN 1 ELSE 0, queue |-> << >>]]
  /\ lockHolder = NoThread
  /\ list = << >> /\ waitQueue = << >>
  /\ pc = [t \in Threads |-> IF t = Main THEN "fork" ELSE "acquire"]
  /\ todo = [t \in Threads |-> CASE t \in Appenders -> Calls
                                 [] t \in Removers -> RemoverCalls
                                 [] OTHER -> 0]
  /\ item = [t \in Threads |-> NoItem]

Goto(t, p) == pc' = [pc EXCEPT ![t] = p]

-----------------------------------------------------------------------------
ForkAll(t) ==
  /\ pc[t] = "fork"
  /\ \E u \in Threads : Fork(u)
  /\ UNCHANGED <<sem, lockHolder, listvars>>

(* Thread::Finish, once the thread's function has returned. *)
Finish(t) ==
  /\ \/ pc[t] = "fork" /\ \A u \in Threads : status[u] # "JUST_CREATED"
     \/ pc[t] = "acquire" /\ todo[t] = 0
  /\ Goto(t, "finished")
  /\ Sleep("FINISHED")
  /\ UNCHANGED <<sem, lockHolder, list, waitQueue, todo, item>>

(* Lock::Acquire: its semaphore->P(). *)
Acquire(t) ==
  /\ \/ pc[t] = "acquire" /\ todo[t] > 0
     \/ pc[t] = "reacquire"
  /\ \/ /\ PTake(Lock)
        /\ Goto(t, IF t \in Appenders THEN "append" ELSE "remove")
        /\ item' = [item EXCEPT ![t] = IF t \in Appenders THEN t ELSE NoItem]
     \/ /\ PSleep(Lock)
        /\ UNCHANGED <<pc, item>>
  /\ UNCHANGED <<lockHolder, list, waitQueue, todo>>

(* Mutant: Append signals only when the list was empty. *)
AppendItem_signal_if_empty(t) ==
  /\ pc[t] = "append"
  /\ list' = Append(list, item[t])
  /\ IF waitQueue # << >> /\ list = << >>
     THEN /\ lockHolder' = t
          /\ waitQueue' = Tail(waitQueue)
          /\ V(Head(waitQueue))
          /\ Goto(t, "release")
     ELSE /\ lockHolder' = NoThread
          /\ V(Lock)
          /\ Goto(t, "return")
          /\ UNCHANGED waitQueue
  /\ item' = [item EXCEPT ![t] = NoItem]
  /\ UNCHANGED todo

(* Mutant: the item goes to the front of the list. *)
AppendItem_prepends(t) ==
  /\ pc[t] = "append"
  /\ list' = <<item[t]>> \o list
  /\ IF waitQueue # << >>
     THEN /\ lockHolder' = t
          /\ waitQueue' = Tail(waitQueue)
          /\ V(Head(waitQueue))
          /\ Goto(t, "release")
     ELSE /\ lockHolder' = NoThread
          /\ V(Lock)
          /\ Goto(t, "return")
          /\ UNCHANGED waitQueue
  /\ item' = [item EXCEPT ![t] = NoItem]
  /\ UNCHANGED todo

(* SynchList::Append with the lock taken: lockHolder is set, the item       *)
(* appended, and a waiter, if any, signalled; without one there is no       *)
(* interruptible point before Lock::Release.                                *)
AppendItem(t) ==
  /\ pc[t] = "append"
  /\ list' = Append(list, item[t])
  /\ IF waitQueue # << >>
     THEN /\ lockHolder' = t
          /\ waitQueue' = Tail(waitQueue)
          /\ V(Head(waitQueue))
          /\ Goto(t, "release")
     ELSE /\ lockHolder' = NoThread
          /\ V(Lock)
          /\ Goto(t, "return")
          /\ UNCHANGED waitQueue
  /\ item' = [item EXCEPT ![t] = NoItem]
  /\ UNCHANGED todo

(* Lock::Release *)
Release(t) ==
  /\ pc[t] = "release"
  /\ lockHolder' = NoThread
  /\ V(Lock)
  /\ Goto(t, "return")
  /\ UNCHANGED <<list, waitQueue, todo, item>>

(* SynchList::RemoveFront with the lock taken: remove and release, or       *)
(* Condition::Wait, which queues a new semaphore and releases the lock.     *)
RemoveItem(t) ==
  /\ pc[t] = "remove"
  /\ lockHolder' = NoThread
  /\ V(Lock)
  /\ IF list # << >>
     THEN /\ item' = [item EXCEPT ![t] = Head(list)]
          /\ list' = Tail(list)
          /\ Goto(t, "return")
          /\ UNCHANGED waitQueue
     ELSE /\ waitQueue' = Append(waitQueue, t)
          /\ Goto(t, "wait")
          /\ UNCHANGED <<list, item>>
  /\ UNCHANGED todo

(* Condition::Wait: waiter->P(). *)
Wait(t) ==
  /\ pc[t] = "wait"
  /\ \/ PTake(t) /\ Goto(t, "reacquire")
     \/ PSleep(t) /\ UNCHANGED pc
  /\ UNCHANGED <<lockHolder, list, waitQueue, todo, item>>

Return(t) ==
  /\ pc[t] = "return"
  /\ Goto(t, "acquire")
  /\ todo' = [todo EXCEPT ![t] = @ - 1]
  /\ item' = [item EXCEPT ![t] = NoItem]
  /\ UNCHANGED <<synchvars, list, waitQueue>>

Step(t) ==
  /\ Running(t)
  /\ \/ ForkAll(t) \/ Finish(t) \/ Acquire(t) \/ AppendItem(t) \/ Release(t)
     \/ RemoveItem(t) \/ Wait(t) \/ Return(t)

Machine == (TimerInterrupt \/ WakeUp \/ Halt(FALSE)) /\ UNCHANGED <<sem, lockHolder, listvars>>

Next == (\E t \in Threads : Step(t)) \/ Machine

(* A thread that is dispatched again and again gets on with its code: after *)
(* a time slice it runs at least to the next point where interrupts are     *)
(* enabled.                                                                 *)
Spec ==
  /\ Init /\ [][Next]_vars
  /\ \A t \in Threads : SF_vars(Step(t))
  /\ WF_vars(Machine)

-----------------------------------------------------------------------------

(* No signal is missed: while a remover waits on listEmpty, every item of    *)
(* the list is on its way to a remover that has been signalled or has still  *)
(* to test the list (synch.cc:234-236: "there is no chance the waiter will   *)
(* miss the signal, even though the lock is released before calling P()").   *)
NoLostSignal ==
  waitQueue # << >> =>
    Len(list) <= Cardinality({t \in Removers :
                   \/ pc[t] \in {"remove", "reacquire"}
                   \/ pc[t] = "wait" /\ t \notin Range(waitQueue)})

(* Every call of Append and RemoveFront returns, every thread finishes and   *)
(* the kernel halts then, whatever the time slices: the removers ask for as  *)
(* many items as the appenders supply, nobody is asleep when the machine     *)
(* finds nothing to do, and PrepareToEnd has stopped the timer.              *)
KernelHalts == <>(machine = "halted" /\ \A t \in Threads : pc[t] = "finished")

Stage(t) ==
  CASE pc[t] = "append" -> "enqueue"
    [] pc[t] \in {"remove", "wait", "reacquire"} -> "dequeue"
    [] pc[t] \in {"release", "return"} -> "done"
    [] OTHER -> "none"

BQ == INSTANCE BoundedQueue WITH
        queue <- list, call <- [t \in Threads |-> Stage(t)], val <- item, Items <- Appenders,
        buffer_size <- Cardinality(Appenders) * Calls

(* A SynchList is a first-in first-out queue with atomic operations; its     *)
(* capacity is never met.                                                    *)
ImplementsQueue == BQ!Spec
=============================================================================
