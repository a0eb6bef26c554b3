------------------------------- MODULE TSQueue -------------------------------
(***************************************************************************)
(* pthreads/ts_queue.hpp: the blocking ring buffer of the pthreads         *)
(* pipeline, at the granularity of its pthread calls.  A thread inside an  *)
(* operation is at one of these points:                                    *)
(*                                                                         *)
(*   "lock"    before pthread_mutex_lock returns (first entry, or the      *)
(*             re-acquisition inside pthread_cond_wait after a wake-up)    *)
(*   "test"    holding the mutex, at the condition of the while loop       *)
(*   "wait"    asleep in pthread_cond_wait, the mutex released             *)
(*   "signal"  buffer, index and size updated, about to signal             *)
(*   "unlock"  about to call pthread_mutex_unlock                          *)
(*                                                                         *)
(* The three assignments between the loop and the signal are one step:     *)
(* every other access to those fields is under the mutex, except           *)
(* get_size(), which loads size alone and sees it before or after.         *)
(***************************************************************************)
EXTENDS Naturals, Sequences, FiniteSets

CONSTANTS
  Threads,       \* the threads that call the queue
  Items,         \* the values it carries
  buffer_size,   \* its capacity
  NoThread,      \* the mutex is free
  NoItem         \* an uninitialised slot, no argument, no result

ASSUME SizeAssumption == buffer_size \in Nat \ {0}
ASSUME NullAssumption == NoThread \notin Threads /\ NoItem \notin Items
ASSUME ThreadsAssumption == IsFiniteSet(Threads)

VARIABLES
  buffer, size, head, tail,   \* the fields of TSQueue
  mutex,                      \* the thread that holds mutex, or NoThread
  op,                         \* which operation each thread is in
  pc,                         \* where it is in it
  item                        \* the argument of enqueue, the local of dequeue

vars == <<buffer, size, head, tail, mutex, op, pc, item>>

Slots == 0 .. buffer_size - 1
Ops == {"none", "enqueue", "dequeue"}
Points == {"out", "lock", "test", "wait", "signal", "unlock"}

At(t, o, p) == op[t] = o /\ pc[t] = p

(* The threads asleep on cond_enqueue and on cond_dequeue. *)
cond_enqueue == {t \in Threads : At(t, "enqueue", "wait")}
cond_dequeue == {t \in Threads : At(t, "dequeue", "wait")}

(* The constructor.  new T[buffer_size] leaves the slots uninitialised. *)
Init ==
  /\ buffer = [i \in Slots |-> NoItem]
  /\ size = 0 /\ head = 0 /\ tail = 0
  /\ mutex = NoThread
  /\ op = [t \in Threads |-> "none"]
  /\ pc = [t \in Threads |-> "out"]
  /\ item = [t \in Threads |-> NoItem]

-----------------------------------------------------------------------------
(* The client: a thread outside the queue calls one of its operations.     *)

CallEnqueue(t, x) ==
  /\ At(t, "none", "out")
  /\ op' = [op EXCEPT ![t] = "enqueue"]
  /\ pc' = [pc EXCEPT ![t] = "lock"]
  /\ item' = [item EXCEPT ![t] = x]
  /\ UNCHANGED <<buffer, size, head, tail, mutex>>

CallDequeue(t) ==
  /\ At(t, "none", "out")
  /\ op' = [op EXCEPT ![t] = "dequeue"]
  /\ pc' = [pc EXCEPT ![t] = "lock"]
  /\ UNCHANGED <<buffer, size, head, tail, mutex, item>>

-----------------------------------------------------------------------------
(* The pthread primitives.                                                 *)

MutexLock(t) ==
  /\ pc[t] = "lock"
  /\ mutex = NoThread
  /\ mutex' = t
  /\ pc' = [pc EXCEPT ![t] = "test"]
  /\ UNCHANGED <<buffer, size, head, tail, op, item>>

(* pthread_cond_wait: release the mutex and sleep, in one step. *)
CondWait(t) ==
  /\ mutex' = NoThread
  /\ pc' = [pc EXCEPT ![t] = "wait"]
  /\ UNCHANGED <<buffer, size, head, tail, op, item>>

(* pthread_cond_signal: wake one of the sleepers, if there is one. *)
CondSignal(t, sleepers) ==
  \/ /\ sleepers = {}
     /\ pc' = [pc EXCEPT ![t] = "unlock"]
  \/ \E w \in sleepers : pc' = [pc EXCEPT ![t] = "unlock", ![w] = "lock"]

(* POSIX lets pthread_cond_wait return without a signal. *)
SpuriousWakeup(t) ==
  /\ pc[t] = "wait"
  /\ pc' = [pc EXCEPT ![t] = "lock"]
  /\ UNCHANGED <<buffer, size, head, tail, mutex, op, item>>

(* pthread_mutex_unlock, and the return to the caller. *)
MutexUnlock(t) ==
  /\ pc[t] = "unlock"
  /\ mutex' = NoThread
  /\ op' = [op EXCEPT ![t] = "none"]
  /\ pc' = [pc EXCEPT ![t] = "out"]
  /\ item' = [item EXCEPT ![t] = NoItem]
  /\ UNCHANGED <<buffer, size, head, tail>>

-----------------------------------------------------------------------------
(* enqueue *)

enqueue_wait(t) ==
  /\ At(t, "enqueue", "test")
  /\ size = buffer_size
  /\ CondWait(t)

(* Mutant: a full ring overwrites its oldest element instead of waiting. *)
enqueue_put_overwrites(t) ==
  /\ At(t, "enqueue", "test")
  /\ buffer' = [buffer EXCEPT ![tail] = item[t]]
  /\ tail' = (tail + 1) % buffer_size
  /\ IF size = buffer_size
     THEN size' = size /\ head' = (head + 1) % buffer_size
     ELSE size' = size + 1 /\ head' = head
  /\ pc' = [pc EXCEPT ![t] = "signal"]
  /\ item' = [item EXCEPT ![t] = NoItem]
  /\ UNCHANGED <<mutex, op>>

enqueue_put(t) ==
  /\ At(t, "enqueue", "test")
  /\ size # buffer_size
  /\ buffer' = [buffer EXCEPT ![tail] = item[t]]
  /\ tail' = (tail + 1) % buffer_size
  /\ size' = size + 1
  /\ pc' = [pc EXCEPT ![t] = "signal"]
  /\ item' = [item EXCEPT ![t] = NoItem]
  /\ UNCHANGED <<head, mutex, op>>

(* Mutant: signal only when the queue was empty before. *)
enqueue_signal_if_was_empty(t) ==
  /\ At(t, "enqueue", "signal")
  /\ IF size = 1
     THEN CondSignal(t, cond_dequeue)
     ELSE pc' = [pc EXCEPT ![t] = "unlock"]
  /\ UNCHANGED <<buffer, size, head, tail, mutex, op, item>>

enqueue_signal(t) ==
  /\ At(t, "enqueue", "signal")
  /\ IF size > 0
     THEN CondSignal(t, cond_dequeue)
     ELSE pc' = [pc EXCEPT ![t] = "unlock"]
  /\ UNCHANGED <<buffer, size, head, tail, mutex, op, item>>

(* dequeue *)

dequeue_wait(t) ==
  /\ At(t, "dequeue", "test")
  /\ size = 0
  /\ CondWait(t)

dequeue_take(t) ==
  /\ At(t, "dequeue", "test")
  /\ size # 0
  /\ item' = [item EXCEPT ![t] = buffer[head]]
  /\ head' = (head + 1) % buffer_size
  /\ size' = size - 1
  /\ pc' = [pc EXCEPT ![t] = "signal"]
  /\ UNCHANGED <<buffer, tail, mutex, op>>

dequeue_signal(t) ==
  /\ At(t, "dequeue", "signal")
  /\ IF size < buffer_size
     THEN CondSignal(t, cond_enqueue)
     ELSE pc' = [pc EXCEPT ![t] = "unlock"]
  /\ UNCHANGED <<buffer, size, head, tail, mutex, op, item>>

(* What a thread does inside the queue once it has called it. *)
Step(t) ==
  \/ MutexLock(t)
  \/ enqueue_wait(t) \/ enqueue_put(t) \/ enqueue_signal(t)
  \/ dequeue_wait(t) \/ dequeue_take(t) \/ dequeue_signal(t)
  \/ MutexUnlock(t)

Next ==
  \E t \in Threads :
    \/ \E x \in Items : CallEnqueue(t, x)
    \/ CallDequeue(t)
    \/ Step(t)
    \/ SpuriousWakeup(t)

Spec == Init /\ [][Next]_vars

-----------------------------------------------------------------------------
(* Properties *)

(* Every field stays in its range: in particular size never leaves         *)
(* 0..buffer_size and the indices stay inside the array, whatever the      *)
(* threads do.                                                             *)
TypeOK ==
  /\ buffer \in [Slots -> Items \union {NoItem}]
  /\ size \in 0 .. buffer_size
  /\ head \in Slots /\ tail \in Slots
  /\ mutex \in Threads \union {NoThread}
  /\ op \in [Threads -> Ops]
  /\ pc \in [Threads -> Points]
  /\ item \in [Threads -> Items \union {NoItem}]

(* The mutex is held by exactly the thread that is between its lock and    *)
(* its unlock or cond_wait: the body of enqueue and dequeue is a critical  *)
(* section, also for a thread that comes back from pthread_cond_wait.      *)
MutualExclusion ==
  \A t \in Threads : pc[t] \in {"test", "signal", "unlock"} <=> mutex = t

(* The ring is sound: tail is size slots ahead of head (modulo             *)
(* buffer_size), the size slots from head on hold real items, and a thread *)
(* that is about to return from dequeue holds a real item, never the       *)
(* contents of a slot no enqueue has filled.                               *)
RingOK ==
  /\ tail = (head + size) % buffer_size
  /\ \A i \in 0 .. buffer_size - 1 :
       i < size => buffer[(head + i) % buffer_size] \in Items
  /\ \A t \in Threads : At(t, "dequeue", "signal") \/ At(t, "dequeue", "unlock")
                          => item[t] \in Items

(* Threads of operation o that have still to test their loop condition, and *)
(* threads of o that have changed size and have still to signal.            *)
Arriving(o) == {t \in Threads : op[t] = o /\ pc[t] \in {"lock", "test"}}
Signalling(o) == {t \in Threads : At(t, o, "signal")}

(* No wake-up is lost.  While a thread sleeps in dequeue, every element of  *)
(* the queue is accounted for by a dequeuer that is awake and has still to  *)
(* test the size, or by an enqueuer that has still to signal; and the same  *)
(* for free slots while a thread sleeps in enqueue.  So nobody sleeps on    *)
(* forever next to an element (or a free slot) that no one will take.       *)
NoLostWakeup ==
  /\ cond_dequeue # {} =>
       size <= Cardinality(Arriving("dequeue")) + Cardinality(Signalling("enqueue"))
  /\ cond_enqueue # {} =>
       buffer_size - size <=
         Cardinality(Arriving("enqueue")) + Cardinality(Signalling("dequeue"))

(* The elements in the ring, oldest first. *)
Contents == [i \in 1 .. size |-> buffer[(head + (i - 1)) % buffer_size]]

(* How far each thread's operation has got, as its caller sees it.          *)
CallStage ==
  [t \in Threads |-> IF op[t] # "none" /\ pc[t] \in {"signal", "unlock"}
                     THEN "done" ELSE op[t]]

BQ == INSTANCE BoundedQueue WITH queue <- Contents, call <- CallStage, val <- item

(* The ring buffer implements a bounded FIFO queue with atomic operations:  *)
(* enqueue takes effect when it writes the slot, dequeue when it reads it.  *)
ImplementsBoundedQueue == BQ!Spec
=============================================================================
