---------------------------- MODULE BoundedQueue ----------------------------
(***************************************************************************)
(* What TSQueue promises its clients (the comments of                      *)
(* pthreads/ts_queue.hpp:19-26): a bounded first-in first-out queue whose  *)
(* operations take effect atomically at some moment between their call and *)
(* their return.  "enqueue" waits for room and "dequeue" for an element.   *)
(***************************************************************************)
EXTENDS Naturals, Sequences

CONSTANTS
  Threads,       \* the client threads
  Items,         \* the values the queue carries
  buffer_size,   \* its capacity
  NoItem         \* "no value"

VARIABLES
  queue,         \* the elements, oldest first
  call,          \* the stage of each thread's current operation
  val            \* its argument or its result

bqvars == <<queue, call, val>>

Stages == {"none", "enqueue", "dequeue", "done"}

Init ==
  /\ queue = << >>
  /\ call = [t \in Threads |-> "none"]
  /\ val = [t \in Threads |-> NoItem]

CallEnqueue(t, x) ==
  /\ call[t] = "none"
  /\ call' = [call EXCEPT ![t] = "enqueue"]
  /\ val' = [val EXCEPT ![t] = x]
  /\ UNCHANGED queue

CallDequeue(t) ==
  /\ call[t] = "none"
  /\ call' = [call EXCEPT ![t] = "dequeue"]
  /\ UNCHANGED <<queue, val>>

(* The moment an enqueue takes effect. *)
Enqueue(t) ==
  /\ call[t] = "enqueue"
  /\ Len(queue) < buffer_size
  /\ queue' = Append(queue, val[t])
  /\ call' = [call EXCEPT ![t] = "done"]
  /\ val' = [val EXCEPT ![t] = NoItem]

(* The moment a dequeue takes effect. *)
Dequeue(t) ==
  /\ call[t] = "dequeue"
  /\ queue # << >>
  /\ queue' = Tail(queue)
  /\ call' = [call EXCEPT ![t] = "done"]
  /\ val' = [val EXCEPT ![t] = Head(queue)]

Return(t) ==
  /\ call[t] = "done"
  /\ call' = [call EXCEPT ![t] = "none"]
  /\ val' = [val EXCEPT ![t] = NoItem]
  /\ UNCHANGED queue

Next ==
  \E t \in Threads :
    \/ \E x \in Items : CallEnqueue(t, x)
    \/ CallDequeue(t)
    \/ Enqueue(t)
    \/ Dequeue(t)
    \/ Return(t)

Spec == Init /\ [][Next]_bqvars
=============================================================================
