------------------------------ MODULE Pipeline ------------------------------
(***************************************************************************)
(* The pthreads pipeline (pthreads/main.cpp):                              *)
(*                                                                         *)
(*   Reader -> inputQueue -> Producers -> workerQueue -> Consumers         *)
(*          -> outputQueue -> Writer                                       *)
(*                                                                         *)
(* with a ConsumerController that starts and cancels consumers by the      *)
(* length of workerQueue, and main, which joins the reader and the writer, *)
(* deletes the objects and returns.  The three TSQueues are bounded        *)
(* sequences with atomic operations, which TSQueue implements (theorem     *)
(* Refinement of TSQueueProofs).  An item is its line number 1..N; that it *)
(* is transformed is told by the queue it is in.                           *)
(*                                                                         *)
(* Cancellation is deferred and a consumer reaches no cancellation point   *)
(* while it is enabled, so pthread_cancel itself never ends a thread: a    *)
(* consumer ends by seeing is_cancel.                                      *)
(***************************************************************************)
EXTENDS Naturals, Sequences, FiniteSets, Functions

CONSTANTS
  N,                              \* n, the expected lines
  Producers,                      \* p1 .. p4 of main.cpp
  Consumers,                      \* bound: consumer objects alive at a time
  READER_QUEUE_SIZE, WORKER_QUEUE_SIZE, WRITER_QUEUE_SIZE,
  low_threshold, high_threshold,
  NoItem

ASSUME PipelineAssumption ==
  /\ N \in Nat /\ NoItem \notin 1 .. N
  /\ READER_QUEUE_SIZE \in Nat \ {0} /\ WORKER_QUEUE_SIZE \in Nat \ {0}
  /\ WRITER_QUEUE_SIZE \in Nat \ {0}
  /\ low_threshold \in Nat /\ high_threshold \in Nat
  /\ IsFiniteSet(Producers) /\ IsFiniteSet(Consumers)

VARIABLES
  to_read,      \* the reader's expected_lines
  to_write,     \* the writer's expected_lines
  written,      \* the output file, a sequence of items
  inputQueue, workerQueue, outputQueue,
  producer,     \* [pc, item] of each producer
  consumer,     \* [pc, item, is_cancel] of each consumer object
  consumers,    \* the controller's vector
  cc,           \* [pc, worker_queue_size] of the controller
  main,         \* where main is
  process       \* "running", "exited", or "crashed" by a bad access

vars == <<to_read, to_write, written, inputQueue, workerQueue, outputQueue,
          producer, consumer, consumers, cc, main, process>>

Last(s) == s[Len(s)]
Front(s) == SubSeq(s, 1, Len(s) - 1)

Init ==
  /\ to_read = N /\ to_write = N /\ written = << >>
  /\ inputQueue = << >> /\ workerQueue = << >> /\ outputQueue = << >>
  /\ producer = [p \in Producers |-> [pc |-> "loop", item |-> NoItem]]
  /\ consumer = [c \in Consumers |-> [pc |-> "none", item |-> NoItem, is_cancel |-> FALSE]]
  /\ consumers = << >>
  /\ cc = [pc |-> "sleep", worker_queue_size |-> 0]
  /\ main = "join_reader"
  /\ process = "running"

(* What an access to an object does: the normal step if it is alive; if it *)
(* has been deleted, the old contents may still be there or the access may *)
(* fault.                                                                  *)
Access(deleted) ==
  /\ process = "running"
  /\ process' \in IF deleted THEN {"running", "crashed"} ELSE {"running"}

(* main has deleted p1..p4, tr and cc. *)
Deleted == main = "return"

-----------------------------------------------------------------------------
(* Reader::process and Writer::process: one turn of the loop. *)

Reader ==
  /\ Access(FALSE)
  /\ to_read > 0
  /\ Len(inputQueue) < READER_QUEUE_SIZE
  /\ inputQueue' = Append(inputQueue, N + 1 - to_read)
  /\ to_read' = to_read - 1
  /\ UNCHANGED <<to_write, written, workerQueue, outputQueue, producer, consumer,
                 consumers, cc, main>>

Writer ==
  /\ Access(FALSE)
  /\ to_write > 0
  /\ outputQueue # << >>
  /\ written' = Append(written, Head(outputQueue))
  /\ outputQueue' = Tail(outputQueue)
  /\ to_write' = to_write - 1
  /\ UNCHANGED <<to_read, inputQueue, workerQueue, producer, consumer, consumers, cc, main>>

-----------------------------------------------------------------------------
(* Producer::process.  The loop reads producer->input_queue before the call *)
(* of dequeue that may block.                                               *)

ProducerLoop(p) ==
  /\ producer[p].pc = "loop"
  /\ Access(Deleted)
  /\ producer' = [producer EXCEPT ![p].pc = "dequeue"]
  /\ UNCHANGED <<to_read, to_write, written, inputQueue, workerQueue, outputQueue,
                 consumer, consumers, cc, main>>

ProducerDequeue(p) ==
  /\ producer[p].pc = "dequeue"
  /\ inputQueue # << >>
  /\ Access(Deleted)
  /\ producer' = [producer EXCEPT ![p] = [pc |-> "enqueue", item |-> Head(inputQueue)]]
  /\ inputQueue' = Tail(inputQueue)
  /\ UNCHANGED <<to_read, to_write, written, workerQueue, outputQueue, consumer,
                 consumers, cc, main>>

ProducerEnqueue(p) ==
  /\ producer[p].pc = "enqueue"
  /\ Len(workerQueue) < WORKER_QUEUE_SIZE
  /\ Access(FALSE)
  /\ workerQueue' = Append(workerQueue, producer[p].item)
  /\ producer' = [producer EXCEPT ![p] = [pc |-> "loop", item |-> NoItem]]
  /\ UNCHANGED <<to_read, to_write, written, inputQueue, outputQueue, consumer,
                 consumers, cc, main>>

-----------------------------------------------------------------------------
(* Consumer::process. *)

ConsumerLoop(c) ==
  /\ consumer[c].pc = "loop"
  /\ Access(FALSE)
  /\ consumer' = [consumer EXCEPT ![c].pc = IF consumer[c].is_cancel THEN "delete" ELSE "size"]
  /\ UNCHANGED <<to_read, to_write, written, inputQueue, workerQueue, outputQueue,
                 producer, consumers, cc, main>>

(* Mutant: off by one, the last item stays in the queue. *)
ConsumerSize_off_by_one(c) ==
  /\ consumer[c].pc = "size"
  /\ Access(FALSE)
  /\ consumer' = [consumer EXCEPT ![c].pc = IF Len(workerQueue) > 1 THEN "dequeue" ELSE "loop"]
  /\ UNCHANGED <<to_read, to_write, written, inputQueue, workerQueue, outputQueue,
                 producer, consumers, cc, main>>

(* get_size() > 0, read without the mutex. *)
ConsumerSize(c) ==
  /\ consumer[c].pc = "size"
  /\ Access(FALSE)
  /\ consumer' = [consumer EXCEPT ![c].pc = IF Len(workerQueue) > 0 THEN "dequeue" ELSE "loop"]
  /\ UNCHANGED <<to_read, to_write, written, inputQueue, workerQueue, outputQueue,
                 producer, consumers, cc, main>>

ConsumerDequeue(c) ==
  /\ consumer[c].pc = "dequeue"
  /\ workerQueue # << >>
  /\ Access(Deleted)                           \* the transformer
  /\ consumer' = [consumer EXCEPT ![c].pc = "enqueue", ![c].item = Head(workerQueue)]
  /\ workerQueue' = Tail(workerQueue)
  /\ UNCHANGED <<to_read, to_write, written, inputQueue, outputQueue, producer,
                 consumers, cc, main>>

(* Mutant: a consumer that has been cancelled meanwhile drops its item. *)
ConsumerEnqueue_unless_cancelled(c) ==
  /\ consumer[c].pc = "enqueue"
  /\ Len(outputQueue) < WRITER_QUEUE_SIZE
  /\ Access(FALSE)
  /\ outputQueue' = IF consumer[c].is_cancel THEN outputQueue
                    ELSE Append(outputQueue, consumer[c].item)
  /\ consumer' = [consumer EXCEPT ![c].pc = "loop", ![c].item = NoItem]
  /\ UNCHANGED <<to_read, to_write, written, inputQueue, workerQueue, producer,
                 consumers, cc, main>>

ConsumerEnqueue(c) ==
  /\ consumer[c].pc = "enqueue"
  /\ Len(outputQueue) < WRITER_QUEUE_SIZE
  /\ Access(FALSE)
  /\ outputQueue' = Append(outputQueue, consumer[c].item)
  /\ consumer' = [consumer EXCEPT ![c].pc = "loop", ![c].item = NoItem]
  /\ UNCHANGED <<to_read, to_write, written, inputQueue, workerQueue, producer,
                 consumers, cc, main>>

(* delete consumer, and the thread returns. *)
ConsumerDelete(c) ==
  /\ consumer[c].pc = "delete"
  /\ Access(FALSE)
  /\ consumer' = [consumer EXCEPT ![c].pc = "none"]
  /\ UNCHANGED <<to_read, to_write, written, inputQueue, workerQueue, outputQueue,
                 producer, consumers, cc, main>>

-----------------------------------------------------------------------------
(* ConsumerController::process.                                             *)

(* An object the controller can still allocate.  The bound: with none left *)
(* the check period does not elapse while the queue is over the threshold. *)
Unused == {c \in Consumers : consumer[c].pc = "none" /\ c \notin Range(consumers)}

(* The check period has elapsed: read the length of the worker queue. *)
CheckPeriod ==
  /\ cc.pc = "sleep"
  /\ Len(workerQueue) > high_threshold => Unused # {}
  /\ Access(Deleted)
  /\ cc' = [pc |-> "decide", worker_queue_size |-> Len(workerQueue)]
  /\ UNCHANGED <<to_read, to_write, written, inputQueue, workerQueue, outputQueue,
                 producer, consumer, consumers, main>>

ScaleUp ==
  /\ cc.pc = "decide"
  /\ cc.worker_queue_size > high_threshold
  /\ Access(Deleted)
  /\ \E c \in Unused :
       /\ consumer' = [consumer EXCEPT ![c] = [pc |-> "loop", item |-> NoItem, is_cancel |-> FALSE]]
       /\ consumers' = Append(consumers, c)
  /\ cc' = [cc EXCEPT !.pc = "sleep"]
  /\ UNCHANGED <<to_read, to_write, written, inputQueue, workerQueue, outputQueue,
                 producer, main>>

(* Mutant: the last consumer is scaled down too. *)
MayScaleDown_to_zero ==
  /\ cc.worker_queue_size <= high_threshold
  /\ cc.worker_queue_size < low_threshold
  /\ Len(consumers) > 0

MayScaleDown ==
  /\ cc.worker_queue_size <= high_threshold
  /\ cc.worker_queue_size < low_threshold
  /\ Len(consumers) > 1

(* consumers.back()->cancel(): is_cancel = true ... *)
ScaleDown ==
  /\ cc.pc = "decide"
  /\ MayScaleDown
  /\ Access(Deleted)
  /\ consumer' = [consumer EXCEPT ![Last(consumers)].is_cancel = TRUE]
  /\ cc' = [cc EXCEPT !.pc = "cancel"]
  /\ UNCHANGED <<to_read, to_write, written, inputQueue, workerQueue, outputQueue,
                 producer, consumers, main>>

(* ... then pthread_cancel(t), which reads t from the object the consumer   *)
(* may have deleted by now, and pop_back().                                 *)
PthreadCancel ==
  /\ cc.pc = "cancel"
  /\ Access(Deleted \/ consumer[Last(consumers)].pc = "none")
  /\ consumers' = Front(consumers)
  /\ cc' = [cc EXCEPT !.pc = "sleep"]
  /\ UNCHANGED <<to_read, to_write, written, inputQueue, workerQueue, outputQueue,
                 producer, consumer, main>>

NoScaling ==
  /\ cc.pc = "decide"
  /\ cc.worker_queue_size <= high_threshold
  /\ ~MayScaleDown
  /\ Access(Deleted)
  /\ cc' = [cc EXCEPT !.pc = "sleep"]
  /\ UNCHANGED <<to_read, to_write, written, inputQueue, workerQueue, outputQueue,
                 producer, consumer, consumers, main>>

Controller == CheckPeriod \/ ScaleUp \/ ScaleDown \/ PthreadCancel \/ NoScaling

-----------------------------------------------------------------------------
(* main, after it has started the threads. *)

JoinReader ==
  /\ main = "join_reader" /\ to_read = 0
  /\ main' = "join_writer"

JoinWriter ==
  /\ main = "join_writer" /\ to_write = 0
  /\ main' = "delete"

(* delete rd .. delete cc, with the producers, the consumers and the        *)
(* controller still running.                                                *)
DeleteAll ==
  /\ main = "delete"
  /\ main' = "return"

Main ==
  /\ Access(FALSE)
  /\ JoinReader \/ JoinWriter \/ DeleteAll
  /\ UNCHANGED <<to_read, to_write, written, inputQueue, workerQueue, outputQueue,
                 producer, consumer, consumers, cc>>

Return ==
  /\ process = "running" /\ main = "return"
  /\ process' = "exited"
  /\ UNCHANGED <<to_read, to_write, written, inputQueue, workerQueue, outputQueue,
                 producer, consumer, consumers, cc, main>>

-----------------------------------------------------------------------------
Producer(p) == ProducerLoop(p) \/ ProducerDequeue(p) \/ ProducerEnqueue(p)

Consumer(c) ==
  \/ ConsumerLoop(c) \/ ConsumerSize(c) \/ ConsumerDequeue(c)
  \/ ConsumerEnqueue(c) \/ ConsumerDelete(c)

Next ==
  \/ Reader \/ Writer \/ Controller \/ Main \/ Return
  \/ \E p \in Producers : Producer(p)
  \/ \E c \in Consumers : Consumer(c)

(* The operating system runs every thread that can run. *)
Fairness ==
  /\ WF_vars(Reader) /\ WF_vars(Writer) /\ WF_vars(Controller) /\ WF_vars(Main \/ Return)
  /\ \A p \in Producers : WF_vars(Producer(p))
  /\ \A c \in Consumers : WF_vars(Consumer(c))

Spec == Init /\ [][Next]_vars /\ Fairness

-----------------------------------------------------------------------------
(* Properties *)

Occurrences(s, i) == Cardinality({k \in DOMAIN s : s[k] = i})

(* Where line i is: not read yet, in a queue, in a thread's hands, written. *)
Copies(i) ==
  (IF i > N - to_read THEN 1 ELSE 0)
  + Occurrences(inputQueue, i) + Cardinality({p \in Producers : producer[p].item = i})
  + Occurrences(workerQueue, i) + Cardinality({c \in Consumers : consumer[c].item = i})
  + Occurrences(outputQueue, i) + Occurrences(written, i)

(* Every line is in exactly one place at all times: scaling consumers up    *)
(* and cancelling them, at whatever moment of their loop, neither loses nor *)
(* duplicates an item, and the reader and the writer count the same lines.  *)
ExactlyOnce ==
  /\ \A i \in 1 .. N : Copies(i) = 1
  /\ Len(written) + to_write = N

(* The vector is the set of working consumers: every consumer in it except  *)
(* the one being cancelled is alive and not cancelled, and every consumer   *)
(* that is alive and not cancelled is in it, once.  So once a consumer has  *)
(* been started there is always one that goes on taking items.              *)
Cancelling(i) == cc.pc = "cancel" /\ i = Len(consumers)

VectorIsWorkforce ==
  /\ \A i \in DOMAIN consumers :
       \/ (Cancelling(i) /\ i > 1)
       \/ /\ consumer[consumers[i]].pc \notin {"none", "delete"}
          /\ ~consumer[consumers[i]].is_cancel
  /\ \A i, j \in DOMAIN consumers : consumers[i] = consumers[j] => i = j
  /\ \A c \in Consumers :
       consumer[c].pc # "none" /\ ~consumer[c].is_cancel => c \in Range(consumers)

(* "the writer thread finished after output expected lines of item"         *)
(* (writer.hpp:19-20): the writer outputs them all and main returns, or the *)
(* process has crashed.                                                     *)
WriterFinishes == <>((process = "exited" /\ Len(written) = N) \/ process = "crashed")
=============================================================================
