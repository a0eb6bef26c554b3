----------------------------- MODULE TSQueueTest -----------------------------
(***************************************************************************)
(* pthreads/ts_queue_test.cpp: num_producer threads that enqueue           *)
(* num_consumer items each, num_consumer threads that dequeue num_producer *)
(* items each, and a main thread that joins them all.  It closes TSQueue   *)
(* with a finite client, so that "everybody returns" can be asked of it.   *)
(***************************************************************************)
EXTENDS TSQueue

CONSTANTS
  Producers, Consumers,   \* disjoint, and together the Threads
  MaxSpurious             \* bound: spurious wake-ups in a run

ASSUME ClientAssumption ==
  /\ Threads = Producers \union Consumers /\ Producers \intersect Consumers = {}
  /\ Items = Producers /\ MaxSpurious \in Nat

VARIABLES
  todo,       \* calls each thread has still to make
  spurious    \* spurious wake-ups so far

testvars == <<vars, todo, spurious>>

num_producer == Cardinality(Producers)
num_consumer == Cardinality(Consumers)

(* Mutant: the two counts are swapped, and too few items are produced. *)
TestInit_swapped ==
  /\ Init
  /\ todo = [t \in Threads |-> IF t \in Producers THEN num_producer ELSE num_consumer]
  /\ spurious = 0

TestInit ==
  /\ Init
  /\ todo = [t \in Threads |-> IF t \in Producers THEN num_consumer ELSE num_producer]
  /\ spurious = 0

(* The numbers tid * num_consumer .. of a producer stand for the producer. *)
produce(t) ==
  /\ t \in Producers /\ todo[t] > 0
  /\ CallEnqueue(t, t)
  /\ todo' = [todo EXCEPT ![t] = @ - 1]
  /\ UNCHANGED spurious

consume(t) ==
  /\ t \in Consumers /\ todo[t] > 0
  /\ CallDequeue(t)
  /\ todo' = [todo EXCEPT ![t] = @ - 1]
  /\ UNCHANGED spurious

TestSpurious(t) ==
  /\ spurious < MaxSpurious
  /\ SpuriousWakeup(t)
  /\ spurious' = spurious + 1
  /\ UNCHANGED todo

Run(t) == produce(t) \/ consume(t) \/ (Step(t) /\ UNCHANGED <<todo, spurious>>)

Returned(t) == todo[t] = 0 /\ pc[t] = "out"

TestNext == \E t \in Threads : Run(t) \/ TestSpurious(t)

(* The scheduler runs every thread that can run.  Weak fairness is enough:  *)
(* the calls are finite, so no thread loses the mutex to others for ever.   *)
TestSpec ==
  /\ TestInit /\ [][TestNext]_testvars
  /\ \A t \in Threads : WF_testvars(Run(t))

(* The test program ends: every producer and consumer returns, whatever     *)
(* the interleaving and the spurious wake-ups (pthread_join at              *)
(* ts_queue_test.cpp:65-70 never hangs).                                    *)
AllReturn == <>(\A t \in Threads : Returned(t))
=============================================================================
