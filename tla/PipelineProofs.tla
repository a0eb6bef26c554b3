---------------------------- MODULE PipelineProofs ----------------------------
(***************************************************************************)
(* Proofs about Pipeline for every number of lines, producers and          *)
(* consumers, all queue sizes and thresholds: types, VectorIsWorkforce and *)
(* ExactlyOnce.                                                            *)
(***************************************************************************)
EXTENDS Pipeline, FiniteSetTheorems, SequenceTheorems, TLAPS

Lines == 1 .. N

ProducerStates == [pc : {"loop", "dequeue", "enqueue"}, item : Lines \union {NoItem}]
ConsumerStates == [pc : {"none", "loop", "size", "dequeue", "enqueue", "delete"},
                   item : Lines \union {NoItem}, is_cancel : BOOLEAN]

TypeOK ==
  /\ to_read \in 0 .. N /\ to_write \in 0 .. N
  /\ written \in Seq(Lines)
  /\ inputQueue \in Seq(Lines) /\ workerQueue \in Seq(Lines) /\ outputQueue \in Seq(Lines)
  /\ producer \in [Producers -> ProducerStates]
  /\ consumer \in [Consumers -> ConsumerStates]
  /\ consumers \in Seq(Consumers)
  /\ cc \in [pc : {"sleep", "decide", "cancel"}, worker_queue_size : Nat]
  /\ main \in {"join_reader", "join_writer", "delete", "return"}
  /\ process \in {"running", "exited", "crashed"}

(* A thread has an item in its hands exactly between its two queue calls.   *)
Holding(state) == state.pc = "enqueue" <=> state.item # NoItem

ItemInHand ==
  /\ \A p \in Producers : Holding(producer[p])
  /\ \A c \in Consumers : Holding(consumer[c])

(* Between is_cancel = true and pop_back the vector's last consumer is the   *)
(* cancelled one, and not the only one.                                      *)
LastCancelled ==
  cc.pc = "cancel" => Len(consumers) > 1 /\ consumer[Last(consumers)].is_cancel

TypeInv == TypeOK /\ ItemInHand
VectorInv == VectorIsWorkforce /\ LastCancelled

-----------------------------------------------------------------------------
(* The queues, as sequences: what enqueue and dequeue make of them. *)
LEMMA QueueTypes ==
  ASSUME NEW S, NEW s \in Seq(S)
  PROVE  /\ Len(s) \in Nat
         /\ s # << >> => Head(s) \in S /\ Tail(s) \in Seq(S)
         /\ \A x \in S : Append(s, x) \in Seq(S) /\ Len(Append(s, x)) = Len(s) + 1
  OBVIOUS

(* A step that changes one thread's record keeps the types of all. *)
LEMMA ProducerUpdate ==
  ASSUME TypeInv, NEW p \in Producers, NEW r \in ProducerStates, Holding(r),
         producer' = [producer EXCEPT ![p] = r]
  PROVE  producer' \in [Producers -> ProducerStates] /\ \A q \in Producers : Holding(producer'[q])
BY Zenon DEF TypeInv, TypeOK, ItemInHand

\* A worker's step of Consumer::process keeps the types and the rule on its item.
LEMMA ConsumerUpdate ==
  ASSUME TypeInv, NEW c \in Consumers, NEW r \in ConsumerStates, Holding(r),
         consumer' = [consumer EXCEPT ![c] = r]
  PROVE  consumer' \in [Consumers -> ConsumerStates] /\ \A d \in Consumers : Holding(consumer'[d])
BY Zenon DEF TypeInv, TypeOK, ItemInHand

(* A consumer that dequeues has a real item in hand. *)
LEMMA ConsumerTakes ==
  ASSUME NEW s \in ConsumerStates, NEW i \in Lines
  PROVE  LET r == [s EXCEPT !.pc = "enqueue", !.item = i]
         IN  r \in ConsumerStates /\ Holding(r)
<1>1. i # NoItem
  BY PipelineAssumption DEF Lines
<1>2. QED
  BY Zenon, <1>1 DEF ConsumerStates, Holding

(* Every field keeps its range, and an item in hand is a real one. *)
THEOREM TypeCorrect == Spec => []TypeInv
<1>1. Init => TypeInv
  BY PipelineAssumption
     DEF Init, TypeInv, TypeOK, ItemInHand, Holding, ProducerStates, ConsumerStates, Lines
<1>2. TypeInv /\ [Next]_vars => TypeInv'
  <2> SUFFICES ASSUME TypeInv, [Next]_vars
               PROVE  TypeInv'
    OBVIOUS
  <2> USE PipelineAssumption DEF TypeInv, TypeOK, ItemInHand, Access
  <2>1. CASE Reader
    BY <2>1 DEF Reader, Lines
  <2>2. CASE Writer
    BY <2>2 DEF Writer
  <2>3. CASE CheckPeriod \/ NoScaling
    <3>1. cc' \in [pc : {"sleep", "decide", "cancel"}, worker_queue_size : Nat]
      <4>1. CASE CheckPeriod
        <5>1. Len(workerQueue) \in Nat
          BY Zenon, QueueTypes
        <5>2. cc' = [pc |-> "decide", worker_queue_size |-> Len(workerQueue)]
          BY Zenon, <4>1 DEF CheckPeriod
        <5>3. QED
          BY Zenon, <5>1, <5>2
      <4>2. CASE NoScaling
        BY Zenon, <4>2 DEF NoScaling
      <4>3. QED
        BY Zenon, <2>3, <4>1, <4>2
    <3>2. QED
      BY Zenon, <2>3, <3>1 DEF CheckPeriod, NoScaling
  <2>4. CASE ScaleUp
    <3> DEFINE r == [pc |-> "loop", item |-> NoItem, is_cancel |-> FALSE]
    <3>1. PICK c \in Unused : consumer' = [consumer EXCEPT ![c] = r] /\ consumers' = Append(consumers, c)
      BY Zenon, <2>4 DEF ScaleUp
    <3>2. c \in Consumers /\ r \in ConsumerStates /\ Holding(r)
      BY Zenon DEF Unused, ConsumerStates, Holding
    <3>3. consumer' \in [Consumers -> ConsumerStates] /\ \A d \in Consumers : Holding(consumer'[d])
      BY Zenon, <3>1, <3>2, ConsumerUpdate
    <3>4. consumers' \in Seq(Consumers)
      BY <3>1, <3>2
    <3>5. cc' \in [pc : {"sleep", "decide", "cancel"}, worker_queue_size : Nat]
      BY Zenon, <2>4 DEF ScaleUp
    <3>6. QED
      BY Zenon, <2>4, <3>3, <3>4, <3>5 DEF ScaleUp
  <2>5. CASE ScaleDown
    <3> DEFINE c == Last(consumers)
               r == [consumer[c] EXCEPT !.is_cancel = TRUE]
    <3>1. c \in Consumers
      <4>1. consumers \in Seq(Consumers) /\ Len(consumers) > 1
        BY Zenon, <2>5 DEF ScaleDown, MayScaleDown
      <4>2. QED
        BY ONLY <4>1 DEF Last
    <3>2. r \in ConsumerStates /\ Holding(r) /\ consumer' = [consumer EXCEPT ![c] = r]
      BY ZenonT(60), <2>5, <3>1 DEF ScaleDown, ConsumerStates, Holding
    <3>3. consumer' \in [Consumers -> ConsumerStates] /\ \A d \in Consumers : Holding(consumer'[d])
      BY Zenon, <3>1, <3>2, ConsumerUpdate
    <3>4. QED
      BY Zenon, <2>5, <3>3 DEF ScaleDown
  <2>6. CASE PthreadCancel
    <3>1. consumers' \in Seq(Consumers)
      BY SMTT(60), ZenonT(60), <2>6 DEF PthreadCancel, Front
    <3>2. QED
      BY Zenon, <2>6, <3>1 DEF PthreadCancel
  <2>7. CASE Main
    BY Zenon, <2>7 DEF Main, JoinReader, JoinWriter, DeleteAll
  <2>8. CASE Return
    BY Zenon, <2>8 DEF Return
  <2>9. ASSUME NEW p \in Producers, Producer(p)
        PROVE  TypeInv'
    <3>1. producer[p] \in ProducerStates /\ Holding(producer[p])
      OBVIOUS
    <3>2. CASE ProducerLoop(p)
      <4> DEFINE r == [producer[p] EXCEPT !.pc = "dequeue"]
      <4>1. r \in ProducerStates /\ Holding(r) /\ producer' = [producer EXCEPT ![p] = r]
        BY Zenon, <3>1, <3>2 DEF ProducerLoop, ProducerStates, Holding
      <4>2. QED
        BY Zenon, <3>2, <4>1, ProducerUpdate DEF ProducerLoop
    <3>3. CASE ProducerDequeue(p)
      <4> DEFINE r == [pc |-> "enqueue", item |-> Head(inputQueue)]
      <4>1. Head(inputQueue) \in Lines /\ Tail(inputQueue) \in Seq(Lines)
        BY Zenon, <3>3, QueueTypes DEF ProducerDequeue
      <4>2. r \in ProducerStates /\ Holding(r)
        BY Zenon, <4>1 DEF ProducerStates, Holding, Lines
      <4>3. producer' \in [Producers -> ProducerStates] /\ \A q \in Producers : Holding(producer'[q])
        BY Zenon, <3>3, <4>2, ProducerUpdate DEF ProducerDequeue
      <4>4. QED
        BY Zenon, <3>3, <4>1, <4>3 DEF ProducerDequeue
    <3>4. CASE ProducerEnqueue(p)
      <4> DEFINE r == [pc |-> "loop", item |-> NoItem]
      <4>1. producer[p].item \in Lines
        BY Zenon, <3>1, <3>4 DEF ProducerEnqueue, ProducerStates, Holding
      <4>2. r \in ProducerStates /\ Holding(r)
        BY Zenon DEF ProducerStates, Holding
      <4>3. producer' \in [Producers -> ProducerStates] /\ \A q \in Producers : Holding(producer'[q])
        BY Zenon, <3>4, <4>2, ProducerUpdate DEF ProducerEnqueue
      <4>4. QED
        BY Zenon, <3>4, <4>1, <4>3, QueueTypes DEF ProducerEnqueue
    <3>5. QED
      BY ZenonT(60), <2>9, <3>2, <3>3, <3>4 DEF Producer
  <2>10. ASSUME NEW c \in Consumers, Consumer(c)
         PROVE  TypeInv'
    <3>1. consumer[c] \in ConsumerStates /\ Holding(consumer[c])
      OBVIOUS
    <3>2. CASE ConsumerLoop(c) \/ ConsumerSize(c) \/ ConsumerDelete(c)
      <4>1. PICK q \in {"delete", "size", "dequeue", "loop", "none"} :
              consumer' = [consumer EXCEPT ![c].pc = q]
        BY Zenon, <3>2 DEF ConsumerLoop, ConsumerSize, ConsumerDelete
      <4> DEFINE r == [consumer[c] EXCEPT !.pc = q]
      <4>2. consumer[c].pc # "enqueue"
        BY Zenon, <3>2 DEF ConsumerLoop, ConsumerSize, ConsumerDelete
      <4>3. r \in ConsumerStates /\ Holding(r) /\ consumer' = [consumer EXCEPT ![c] = r]
        BY Zenon, <3>1, <4>1, <4>2 DEF ConsumerStates, Holding
      <4>4. consumer' \in [Consumers -> ConsumerStates] /\ \A d \in Consumers : Holding(consumer'[d])
        BY Zenon, <4>3, ConsumerUpdate
      <4>5. QED
        BY Zenon, <3>2, <4>4 DEF ConsumerLoop, ConsumerSize, ConsumerDelete
    <3>3. CASE ConsumerDequeue(c)
      <4> DEFINE r == [consumer[c] EXCEPT !.pc = "enqueue", !.item = Head(workerQueue)]
      <4>1. Head(workerQueue) \in Lines /\ Tail(workerQueue) \in Seq(Lines)
        BY Zenon, <3>3, QueueTypes DEF ConsumerDequeue
      <4>2. r \in ConsumerStates /\ Holding(r) /\ consumer' = [consumer EXCEPT ![c] = r]
        <5>1. r \in ConsumerStates /\ Holding(r)
          BY Zenon, <3>1, <4>1, ConsumerTakes
        <5>2. QED
          BY Zenon, <3>3, <5>1 DEF ConsumerDequeue
      <4>3. consumer' \in [Consumers -> ConsumerStates] /\ \A d \in Consumers : Holding(consumer'[d])
        BY Zenon, <4>2, ConsumerUpdate
      <4>4. QED
        BY Zenon, <3>3, <4>1, <4>3 DEF ConsumerDequeue
    <3>4. CASE ConsumerEnqueue(c)
      <4> DEFINE r == [consumer[c] EXCEPT !.pc = "loop", !.item = NoItem]
      <4>1. consumer[c].item \in Lines
        BY Zenon, <3>1, <3>4 DEF ConsumerEnqueue, ConsumerStates, Holding
      <4>2. r \in ConsumerStates /\ Holding(r) /\ consumer' = [consumer EXCEPT ![c] = r]
        BY Zenon, <3>1, <3>4 DEF ConsumerEnqueue, ConsumerStates, Holding
      <4>3. consumer' \in [Consumers -> ConsumerStates] /\ \A d \in Consumers : Holding(consumer'[d])
        BY Zenon, <4>2, ConsumerUpdate
      <4>4. QED
        BY Zenon, <3>4, <4>1, <4>3, QueueTypes DEF ConsumerEnqueue
    <3>5. QED
      BY ZenonT(60), <2>10, <3>2, <3>3, <3>4 DEF Consumer
  <2>11. CASE UNCHANGED vars
    BY Zenon, <2>11 DEF vars
  <2>12. QED
    BY ZenonT(60), <2>1, <2>2, <2>3, <2>4, <2>5, <2>6, <2>7, <2>8, <2>9, <2>10, <2>11 DEF Next, Controller
<1>3. QED
  BY <1>1, <1>2, PTL DEF Spec

-----------------------------------------------------------------------------
(* The vector and the consumers' flags, after a step that changes neither   *)
(* the vector nor where the controller is, nor kills a consumer that is not *)
(* cancelled.                                                               *)
LEMMA ConsumerKeepsVector ==
  ASSUME TypeInv, VectorInv, UNCHANGED <<consumers, cc>>, NEW c \in Consumers,
         \A d \in Consumers : consumer'[d].is_cancel = consumer[d].is_cancel,
         \A d \in Consumers \ {c} : consumer'[d].pc = consumer[d].pc,
         consumer[c].pc # "none",
         consumer'[c].pc \in {"none", "delete"} => consumer[c].pc = "delete" \/ consumer[c].is_cancel
  PROVE  VectorInv'
<1>1. \A i \in DOMAIN consumers : consumers[i] \in Consumers
  BY DEF TypeInv, TypeOK
<1>2. LastCancelled'
  <2>1. cc.pc = "cancel" => Len(consumers) \in DOMAIN consumers
    BY DEF TypeInv, TypeOK, VectorInv, LastCancelled
  <2>2. QED
    BY Zenon, <1>1, <2>1 DEF VectorInv, LastCancelled, Last
<1>3. VectorIsWorkforce'
  BY <1>1 DEF VectorInv, VectorIsWorkforce, Cancelling, Range
<1>4. QED
  BY Zenon, <1>2, <1>3 DEF VectorInv

(* The controller's vector is the set of working consumers, whatever the    *)
(* consumers do between is_cancel = true and pop_back().                    *)
THEOREM VectorCorrect == Spec => []VectorIsWorkforce
<1>1. Init => VectorInv
  BY DEF Init, VectorInv, VectorIsWorkforce, LastCancelled, Cancelling
<1>2. TypeInv /\ VectorInv /\ [Next]_vars => VectorInv'
  <2> SUFFICES ASSUME TypeInv, VectorInv, [Next]_vars
               PROVE  VectorInv'
    OBVIOUS
  <2>a. /\ consumers \in Seq(Consumers) /\ Len(consumers) \in Nat
        /\ DOMAIN consumers = 1 .. Len(consumers)
        /\ \A i \in DOMAIN consumers : consumers[i] \in Consumers
        /\ consumer \in [Consumers -> ConsumerStates]
    BY DEF TypeInv, TypeOK
  <2>1. CASE UNCHANGED <<consumer, consumers, cc>>
    BY Zenon, <2>1 DEF VectorInv, VectorIsWorkforce, LastCancelled, Cancelling
  <2>2. CASE CheckPeriod \/ NoScaling
    BY <2>2 DEF CheckPeriod, NoScaling, VectorInv, VectorIsWorkforce, LastCancelled, Cancelling, TypeInv, TypeOK
  <2>3. CASE ScaleUp
    <3>1. PICK c \in Unused :
            /\ consumer' = [consumer EXCEPT ![c] = [pc |-> "loop", item |-> NoItem, is_cancel |-> FALSE]]
            /\ consumers' = Append(consumers, c)
      BY Zenon, <2>3 DEF ScaleUp
    <3>2. c \in Consumers /\ c \notin Range(consumers) /\ cc.pc = "decide" /\ cc'.pc = "sleep"
      BY Zenon, <2>3 DEF Unused, ScaleUp, TypeInv, TypeOK
    <3>3. /\ DOMAIN consumers' = 1 .. Len(consumers) + 1
          /\ \A i \in 1 .. Len(consumers) : consumers'[i] = consumers[i]
          /\ consumers'[Len(consumers) + 1] = c
      BY <3>1, <3>2, <2>a
    <3>4. \A i \in 1 .. Len(consumers) : consumers[i] # c /\ consumers[i] \in Consumers
      BY Zenon, <3>2, <2>a DEF Range
    <3>5. /\ \A d \in Consumers \ {c} : consumer'[d] = consumer[d]
          /\ consumer'[c] = [pc |-> "loop", item |-> NoItem, is_cancel |-> FALSE]
      BY Zenon, <3>1, <3>2, <2>a
    <3>6. \A i \in 1 .. Len(consumers) : consumer[consumers[i]].pc \notin {"none", "delete"} /\ ~consumer[consumers[i]].is_cancel
      BY Zenon, <3>2, <2>a DEF VectorInv, VectorIsWorkforce, Cancelling
    <3>7. \A i \in DOMAIN consumers' : consumer'[consumers'[i]].pc \notin {"none", "delete"} /\ ~consumer'[consumers'[i]].is_cancel
      BY <3>3, <3>4, <3>5, <3>6, <2>a
    <3>8. \A i, j \in DOMAIN consumers' : consumers'[i] = consumers'[j] => i = j
      BY <3>3, <3>4, <2>a DEF VectorInv, VectorIsWorkforce
    <3>9. \A d \in Consumers : consumer'[d].pc # "none" /\ ~consumer'[d].is_cancel => d \in Range(consumers')
      <4>1. \A d \in Range(consumers) \union {c} : d \in Range(consumers')
        BY <3>3, <2>a DEF Range
      <4>2. QED
        BY Zenon, <4>1, <3>5 DEF VectorInv, VectorIsWorkforce
    <3>10. QED
      BY Zenon, <3>2, <3>7, <3>8, <3>9 DEF VectorInv, VectorIsWorkforce, LastCancelled
  <2>4. CASE ScaleDown
    <3> DEFINE l == Len(consumers)
    <3>1. /\ l > 1 /\ l \in DOMAIN consumers /\ consumers[l] \in Consumers
          /\ consumers' = consumers /\ cc.pc = "decide" /\ cc'.pc = "cancel"
          /\ consumer' = [consumer EXCEPT ![consumers[l]].is_cancel = TRUE]
      BY <2>4, <2>a DEF ScaleDown, MayScaleDown, Last, TypeInv, TypeOK
    <3>2. /\ consumer'[consumers[l]].is_cancel
          /\ \A d \in Consumers : consumer'[d].pc = consumer[d].pc
          /\ \A d \in Consumers \ {consumers[l]} : consumer'[d] = consumer[d]
      BY Zenon, <3>1, <2>a DEF ConsumerStates
    <3>3. LastCancelled'
      BY Zenon, <3>1, <3>2 DEF LastCancelled, Last
    <3>4. \A i \in DOMAIN consumers : i # l => consumers[i] # consumers[l]
      BY Zenon, <3>1 DEF VectorInv, VectorIsWorkforce
    <3>5. \A i \in DOMAIN consumers : consumer[consumers[i]].pc \notin {"none", "delete"} /\ ~consumer[consumers[i]].is_cancel
      BY Zenon, <3>1 DEF VectorInv, VectorIsWorkforce, Cancelling
    <3>6. VectorIsWorkforce'
      BY Zenon, <3>1, <3>2, <3>4, <3>5, <2>a DEF VectorInv, VectorIsWorkforce, Cancelling
    <3>7. QED
      BY Zenon, <3>3, <3>6 DEF VectorInv
  <2>5. CASE PthreadCancel
    <3> DEFINE l == Len(consumers)
    <3>1. /\ consumers' = SubSeq(consumers, 1, l - 1) /\ consumer' = consumer
          /\ cc.pc = "cancel" /\ cc'.pc = "sleep" /\ l > 1 /\ consumer[consumers[l]].is_cancel
      BY Zenon, <2>5 DEF PthreadCancel, Front, VectorInv, LastCancelled, Last, TypeInv, TypeOK
    <3>2. DOMAIN consumers' = 1 .. l - 1 /\ \A i \in 1 .. l - 1 : consumers'[i] = consumers[i]
      BY <3>1, <2>a
    <3>3. \A i \in DOMAIN consumers' : consumer'[consumers'[i]].pc \notin {"none", "delete"} /\ ~consumer'[consumers'[i]].is_cancel
      BY <3>1, <3>2, <2>a DEF VectorInv, VectorIsWorkforce, Cancelling
    <3>4. \A i, j \in DOMAIN consumers' : consumers'[i] = consumers'[j] => i = j
      BY <3>2, <2>a DEF VectorInv, VectorIsWorkforce
    <3>5. ASSUME NEW c \in Consumers, consumer'[c].pc # "none", ~consumer'[c].is_cancel
          PROVE  c \in Range(consumers')
      <4>1. PICK i \in DOMAIN consumers : consumers[i] = c
        BY Zenon, <3>1, <3>5 DEF VectorInv, VectorIsWorkforce, Range
      <4>2. i \in 1 .. l - 1
        BY <4>1, <3>1, <3>5, <2>a
      <4>3. QED
        BY Zenon, <4>1, <4>2, <3>2 DEF Range
    <3>6. QED
      BY Zenon, <3>1, <3>3, <3>4, <3>5 DEF VectorInv, VectorIsWorkforce, LastCancelled
  <2>6. ASSUME NEW c \in Consumers, Consumer(c)
        PROVE  VectorInv'
    <3>1. UNCHANGED <<consumers, cc>>
      BY Zenon, <2>6 DEF Consumer, ConsumerLoop, ConsumerSize, ConsumerDequeue, ConsumerEnqueue, ConsumerDelete
    <3>2. \A d \in Consumers \ {c} : consumer'[d] = consumer[d]
      BY Zenon, <2>6, <2>a DEF Consumer, ConsumerLoop, ConsumerSize, ConsumerDequeue, ConsumerEnqueue, ConsumerDelete
    <3>3. CASE ConsumerLoop(c) \/ ConsumerSize(c) \/ ConsumerDelete(c)
      <4>1. PICK q \in {"delete", "size", "dequeue", "loop", "none"} :
              /\ consumer' = [consumer EXCEPT ![c].pc = q]
              /\ q \in {"none", "delete"} => consumer[c].pc = "delete" \/ consumer[c].is_cancel
        BY Zenon, <3>3 DEF ConsumerLoop, ConsumerSize, ConsumerDelete
      <4>2. consumer'[c].is_cancel = consumer[c].is_cancel /\ consumer'[c].pc = q
        BY Zenon, <4>1, <2>a DEF ConsumerStates
      <4>3. consumer[c].pc # "none"
        BY Zenon, <3>3 DEF ConsumerLoop, ConsumerSize, ConsumerDelete
      <4>4. QED
        BY Zenon, <3>1, <3>2, <4>1, <4>2, <4>3, ConsumerKeepsVector
    <3>4. CASE ConsumerDequeue(c) \/ ConsumerEnqueue(c)
      <4>1. PICK q \in {"enqueue", "loop"}, x \in {Head(workerQueue), NoItem} :
              consumer' = [consumer EXCEPT ![c].pc = q, ![c].item = x]
        BY Zenon, <3>4 DEF ConsumerDequeue, ConsumerEnqueue
      <4> DEFINE r == [consumer[c] EXCEPT !.pc = q, !.item = x]
      <4>2. consumer' = [consumer EXCEPT ![c] = r] /\ r.pc = q /\ r.is_cancel = consumer[c].is_cancel
        BY Zenon, <4>1, <2>a DEF ConsumerStates
      <4>3. consumer'[c].is_cancel = consumer[c].is_cancel /\ consumer'[c].pc = q
        BY Zenon, <4>2, <2>a
      <4>4. consumer[c].pc # "none"
        BY Zenon, <3>4 DEF ConsumerDequeue, ConsumerEnqueue
      <4>5. QED
        BY Zenon, <3>1, <3>2, <4>1, <4>3, <4>4, ConsumerKeepsVector
    <3>5. QED
      BY Zenon, <2>6, <3>3, <3>4 DEF Consumer
  <2>7. QED
    BY Zenon, <2>1, <2>2, <2>3, <2>4, <2>5, <2>6
       DEF Next, Controller, Reader, Writer, Main, Return, Producer, ProducerLoop, ProducerDequeue,
           ProducerEnqueue, vars
<1>3. VectorInv => VectorIsWorkforce
  BY Zenon DEF VectorInv
<1>4. QED
  BY <1>1, <1>2, <1>3, TypeCorrect, PTL DEF Spec

-----------------------------------------------------------------------------
(* How an operation on a queue changes the number of copies of a line in it. *)
Same(x, i) == IF x = i THEN 1 ELSE 0

\* The places of an item in a queue can be counted.
LEMMA OccurrencesType ==
  ASSUME NEW s \in Seq(Lines), NEW i
  PROVE  Occurrences(s, i) \in Nat /\ IsFiniteSet({k \in DOMAIN s : s[k] = i})
<1>1. DOMAIN s = 1 .. Len(s) /\ Len(s) \in Nat
  OBVIOUS
<1>2. IsFiniteSet(DOMAIN s)
  BY <1>1, FS_Interval
<1>3. {k \in DOMAIN s : s[k] = i} \in SUBSET (DOMAIN s)
  OBVIOUS
<1>4. IsFiniteSet({k \in DOMAIN s : s[k] = i})
  BY Zenon, <1>2, <1>3, FS_Subset
<1>5. QED
  BY Zenon, <1>4, FS_CardinalityType DEF Occurrences

\* TSQueue::enqueue adds one occurrence, of the item it appends.
LEMMA OccurrencesAppend ==
  ASSUME NEW s \in Seq(Lines), NEW x \in Lines, NEW i
  PROVE  Occurrences(Append(s, x), i) = Occurrences(s, i) + Same(x, i)
<1> DEFINE n == Len(s) + 1
           A == {k \in DOMAIN s : s[k] = i}
           B == {k \in DOMAIN Append(s, x) : Append(s, x)[k] = i}
<1>1. /\ DOMAIN s = 1 .. Len(s) /\ DOMAIN Append(s, x) = 1 .. n /\ Len(s) \in Nat
      /\ \A k \in 1 .. Len(s) : Append(s, x)[k] = s[k]
      /\ Append(s, x)[n] = x
  OBVIOUS
<1>2. IsFiniteSet(A) /\ Cardinality(A) \in Nat
  BY Zenon, OccurrencesType DEF Occurrences
<1>3. n \notin A
  BY <1>1
<1>4. CASE x = i
  <2>1. B = A \union {n}
    BY <1>1, <1>4
  <2>2. Cardinality(B) = Cardinality(A) + 1
    BY Zenon, <1>2, <1>3, <2>1, FS_AddElement
  <2>3. QED
    BY Zenon, <1>4, <2>2 DEF Occurrences, Same
<1>5. CASE x # i
  <2>1. B = A
    BY <1>1, <1>5
  <2>2. Occurrences(Append(s, x), i) = Occurrences(s, i)
    BY Zenon, <2>1 DEF Occurrences
  <2>3. Occurrences(s, i) \in Nat
    BY Zenon, OccurrencesType
  <2>4. QED
    BY <1>5, <2>2, <2>3 DEF Same
<1>6. QED
  BY Zenon, <1>4, <1>5

\* TSQueue::dequeue takes one occurrence away, of the item it returns.
LEMMA OccurrencesTail ==
  ASSUME NEW s \in Seq(Lines), s # << >>, NEW i
  PROVE  Occurrences(s, i) = Occurrences(Tail(s), i) + Same(Head(s), i)
<1> DEFINE A == {k \in DOMAIN s : s[k] = i}
           T == {k \in DOMAIN Tail(s) : Tail(s)[k] = i}
           f == [k \in T |-> k + 1]
<1>1. /\ DOMAIN s = 1 .. Len(s) /\ DOMAIN Tail(s) = 1 .. Len(s) - 1 /\ Len(s) \in Nat \ {0}
      /\ \A k \in 1 .. Len(s) - 1 : Tail(s)[k] = s[k + 1]
      /\ Head(s) = s[1] /\ Tail(s) \in Seq(Lines)
  OBVIOUS
<1>2. /\ IsFiniteSet(A) /\ IsFiniteSet(T)
      /\ Cardinality(A) \in Nat /\ Cardinality(T) \in Nat
  BY Zenon, <1>1, OccurrencesType DEF Occurrences
<1>3. f \in Bijection(T, A \ {1})
  <2>1. f \in [T -> A \ {1}]
    BY <1>1
  <2>2. \A a, b \in T : f[a] = f[b] => a = b
    BY <1>1
  <2>3. \A k \in A \ {1} : \E a \in T : f[a] = k
    <3> TAKE k \in A \ {1}
    <3>1. k - 1 \in T /\ f[k - 1] = k
      BY <1>1
    <3>2. QED
      BY Zenon, <3>1
  <2>4. QED
    BY Zenon, <2>1, <2>2, <2>3 DEF Bijection, Injection, Surjection, IsInjective
<1>4. Cardinality(A \ {1}) = Cardinality(T)
  BY ZenonT(30), <1>2, <1>3, FS_Bijection DEF ExistsBijection
<1>5. Cardinality(A \ {1}) = IF 1 \in A THEN Cardinality(A) - 1 ELSE Cardinality(A)
  BY Zenon, <1>2, FS_RemoveElement
<1>6. 1 \in A <=> Head(s) = i
  BY <1>1
<1>7. Cardinality(A) = Occurrences(s, i) /\ Cardinality(T) = Occurrences(Tail(s), i)
  BY Zenon DEF Occurrences
<1> HIDE DEF A, T
<1>8. QED
  BY <1>2, <1>4, <1>5, <1>6, <1>7 DEF Same

(* The same for the hands of a set of threads, when thread t takes a line   *)
(* into them: from old to new, or back when it puts one down.               *)
Hands(S, state, i) == {u \in S : state[u].item = i}

\* The threads that hold an item can be counted.
LEMMA HandsType ==
  ASSUME NEW S, IsFiniteSet(S), NEW state, NEW i
  PROVE  IsFiniteSet(Hands(S, state, i)) /\ Cardinality(Hands(S, state, i)) \in Nat
<1>1. Hands(S, state, i) \in SUBSET S
  BY Zenon DEF Hands
<1>2. QED
  BY Zenon, <1>1, FS_Subset, FS_CardinalityType

\* One thread with empty hands takes an item up: one more copy in hands.
LEMMA HandsTake ==
  ASSUME NEW S, IsFiniteSet(S), NEW old, NEW new, NEW t \in S, NEW i \in Lines,
         old[t].item = NoItem,
         \A u \in S \ {t} : new[u].item = old[u].item
  PROVE  Cardinality(Hands(S, new, i)) = Cardinality(Hands(S, old, i)) + Same(new[t].item, i)
<1>1. NoItem # i
  BY Zenon, PipelineAssumption DEF Lines
<1>2. IsFiniteSet(Hands(S, old, i)) /\ Cardinality(Hands(S, old, i)) \in Nat
  BY Zenon, HandsType
<1>3. CASE new[t].item = i
  <2>1. Hands(S, new, i) = Hands(S, old, i) \union {t} /\ t \notin Hands(S, old, i)
    BY Zenon, <1>1, <1>3 DEF Hands
  <2>2. Cardinality(Hands(S, new, i)) = Cardinality(Hands(S, old, i)) + 1
    BY Zenon, <1>2, <2>1, FS_AddElement
  <2>3. QED
    BY Zenon, <1>3, <2>2 DEF Same
<1>4. CASE new[t].item # i
  <2>1. Hands(S, new, i) = Hands(S, old, i)
    BY Zenon, <1>1, <1>4 DEF Hands
  <2>2. QED
    BY <1>2, <1>4, <2>1 DEF Same
<1>5. QED
  BY Zenon, <1>3, <1>4

(* Every line is in exactly one place. *)
Unread(i) == IF i > N - to_read THEN 1 ELSE 0

\* The copies of a line, counted place by place along the pipeline.
LEMMA CopiesAre ==
  \A i : Copies(i) = Unread(i) + Occurrences(inputQueue, i) + Cardinality(Hands(Producers, producer, i))
                     + Occurrences(workerQueue, i) + Cardinality(Hands(Consumers, consumer, i))
                     + Occurrences(outputQueue, i) + Occurrences(written, i)
BY Zenon DEF Copies, Unread, Hands

(* No line is lost or doubled, whenever consumers are started and cancelled, *)
(* and written and to_write always add up.                                   *)
THEOREM ExactlyOnceCorrect == Spec => []ExactlyOnce
<1>1. Init => ExactlyOnce
  <2> SUFFICES ASSUME Init PROVE ExactlyOnce
    OBVIOUS
  <2>1. \A i : Occurrences(<< >>, i) = 0
    BY FS_EmptySet DEF Occurrences
  <2>2. ASSUME NEW i \in Lines
        PROVE  Cardinality(Hands(Producers, producer, i)) = 0 /\ Cardinality(Hands(Consumers, consumer, i)) = 0
    <3>1. Hands(Producers, producer, i) = {} /\ Hands(Consumers, consumer, i) = {}
      BY Zenon, PipelineAssumption DEF Init, Hands, Lines
    <3>2. QED
      BY Zenon, <3>1, FS_EmptySet
  <2>3. \A i \in Lines : Unread(i) = 1
    BY PipelineAssumption DEF Init, Unread, Lines
  <2>4. \A i \in Lines : /\ Occurrences(inputQueue, i) = 0 /\ Occurrences(workerQueue, i) = 0
                         /\ Occurrences(outputQueue, i) = 0 /\ Occurrences(written, i) = 0
    BY Zenon, <2>1 DEF Init
  <2>5. \A i \in Lines : Copies(i) = 1
    BY <2>2, <2>3, <2>4, CopiesAre
  <2>6. QED
    BY <2>5, PipelineAssumption DEF Init, ExactlyOnce, Lines
<1>2. TypeInv /\ TypeInv' /\ ExactlyOnce /\ [Next]_vars => ExactlyOnce'
  <2> SUFFICES ASSUME TypeInv, TypeInv', ExactlyOnce, [Next]_vars
               PROVE  ExactlyOnce'
    OBVIOUS
  <2> DEFINE a(i) == Occurrences(inputQueue, i)
             b(i) == Cardinality(Hands(Producers, producer, i))
             c(i) == Occurrences(workerQueue, i)
             d(i) == Cardinality(Hands(Consumers, consumer, i))
             e(i) == Occurrences(outputQueue, i)
             w(i) == Occurrences(written, i)
  <2>a. \A i \in Lines : /\ a(i) \in Nat /\ b(i) \in Nat /\ c(i) \in Nat /\ d(i) \in Nat
                         /\ e(i) \in Nat /\ w(i) \in Nat /\ Unread(i) \in Nat
    BY Zenon, OccurrencesType, HandsType, PipelineAssumption DEF TypeInv, TypeOK, Unread
  <2>b. \A i \in Lines : /\ a(i)' \in Nat /\ b(i)' \in Nat /\ c(i)' \in Nat /\ d(i)' \in Nat
                         /\ e(i)' \in Nat /\ w(i)' \in Nat /\ Unread(i)' \in Nat
    BY Zenon, OccurrencesType, HandsType, PipelineAssumption DEF TypeInv, TypeOK, Unread
  <2>c. \A i \in Lines : Unread(i) + a(i) + b(i) + c(i) + d(i) + e(i) + w(i) = 1
    BY Zenon, CopiesAre DEF ExactlyOnce, Lines
  <2>d. Len(written) + to_write = N
    BY Zenon DEF ExactlyOnce
  <2> DEFINE Goal(i) == Unread(i)' + a(i)' + b(i)' + c(i)' + d(i)' + e(i)' + w(i)' = 1
  <2>e. SUFFICES (\A i \in Lines : Goal(i)) /\ Len(written') + to_write' = N
    BY Zenon DEF ExactlyOnce, Copies, Unread, Hands, Lines
  <2>f. Len(written) \in Nat /\ to_write \in Nat /\ to_read \in 0 .. N /\ N \in Nat
    BY PipelineAssumption DEF TypeInv, TypeOK
  <2>g. IsFiniteSet(Producers) /\ IsFiniteSet(Consumers)
    BY Zenon, PipelineAssumption
  <2>1. CASE Reader
    <3> DEFINE x == N + 1 - to_read
    <3>1. x \in Lines
      BY <2>1, <2>f DEF Reader, Lines
    <3>2. ASSUME NEW i \in Lines PROVE Goal(i)
      <4>1. a(i)' = a(i) + Same(x, i)
        BY <2>1, <3>1, OccurrencesAppend DEF Reader, TypeInv, TypeOK
      <4>2. Unread(i) = Unread(i)' + Same(x, i)
        BY <2>1, <2>f DEF Reader, Unread, Same, Lines
      <4>3. b(i)' = b(i) /\ c(i)' = c(i) /\ d(i)' = d(i) /\ e(i)' = e(i) /\ w(i)' = w(i)
        BY Zenon, <2>1 DEF Reader
      <4>4. Same(x, i) \in Nat
        BY Zenon DEF Same
      <4> HIDE DEF a, b, c, d, e, w, x
      <4>5. QED
        BY <4>1, <4>2, <4>3, <4>4, <2>a, <2>b, <2>c
    <3>3. QED
      BY Zenon, <2>1, <2>d, <3>2 DEF Reader
  <2>2. CASE Writer
    <3> DEFINE x == Head(outputQueue)
    <3>1. x \in Lines /\ outputQueue # << >>
      BY <2>2 DEF Writer, TypeInv, TypeOK
    <3>2. ASSUME NEW i \in Lines PROVE Goal(i)
      <4>1. w(i)' = w(i) + Same(x, i)
        BY <2>2, <3>1, OccurrencesAppend DEF Writer, TypeInv, TypeOK
      <4>2. e(i) = e(i)' + Same(x, i)
        BY Zenon, <2>2, <3>1, OccurrencesTail DEF Writer, TypeInv, TypeOK
      <4>3. a(i)' = a(i) /\ b(i)' = b(i) /\ c(i)' = c(i) /\ d(i)' = d(i) /\ Unread(i)' = Unread(i)
        BY Zenon, <2>2 DEF Writer, Unread
      <4>4. Same(x, i) \in Nat
        BY Zenon DEF Same
      <4> HIDE DEF a, b, c, d, e, w, x
      <4>5. QED
        BY <4>1, <4>2, <4>3, <4>4, <2>a, <2>b, <2>c
    <3>3. Len(written') = Len(written) + 1
      BY Zenon, <2>2, <3>1, QueueTypes DEF Writer, TypeInv, TypeOK
    <3>4. to_write' = to_write - 1
      BY Zenon, <2>2 DEF Writer
    <3>5. Len(written') + to_write' = N
      BY ONLY <2>d, <2>f, <3>3, <3>4
    <3>6. QED
      BY Zenon, <3>2, <3>5
  <2>3. CASE /\ UNCHANGED <<to_read, inputQueue, workerQueue, outputQueue, written, to_write>>
             /\ \A u \in Producers : producer'[u].item = producer[u].item
             /\ \A u \in Consumers : consumer'[u].item = consumer[u].item
    <3>1. ASSUME NEW i \in Lines PROVE Goal(i)
      <4>1. /\ Hands(Producers, producer', i) = Hands(Producers, producer, i)
            /\ Hands(Consumers, consumer', i) = Hands(Consumers, consumer, i)
        BY Zenon, <2>3 DEF Hands
      <4>2. /\ a(i)' = a(i) /\ b(i)' = b(i) /\ c(i)' = c(i) /\ d(i)' = d(i) /\ e(i)' = e(i)
            /\ w(i)' = w(i) /\ Unread(i)' = Unread(i)
        BY Zenon, <2>3, <4>1 DEF Unread
      <4> HIDE DEF a, b, c, d, e, w
      <4>3. QED
        BY Zenon, <4>2, <2>c
    <3>2. QED
      BY Zenon, <2>3, <2>d, <3>1
  <2>4. ASSUME NEW p \in Producers, ProducerDequeue(p)
        PROVE  (\A i \in Lines : Goal(i)) /\ Len(written') + to_write' = N
    <3> DEFINE x == Head(inputQueue)
    <3>1. x \in Lines /\ inputQueue # << >>
      BY <2>4 DEF ProducerDequeue, TypeInv, TypeOK
    <3>2. /\ producer[p].item = NoItem /\ producer'[p].item = x
          /\ \A u \in Producers \ {p} : producer'[u].item = producer[u].item
      BY Zenon, <2>4 DEF ProducerDequeue, TypeInv, TypeOK, ItemInHand, Holding
    <3>3. ASSUME NEW i \in Lines PROVE Goal(i)
      <4>1. a(i) = a(i)' + Same(x, i)
        BY Zenon, <2>4, <3>1, OccurrencesTail DEF ProducerDequeue, TypeInv, TypeOK
      <4>2. b(i)' = b(i) + Same(x, i)
        <5>1. Cardinality(Hands(Producers, producer', i))
                = Cardinality(Hands(Producers, producer, i)) + Same(producer'[p].item, i)
          BY SMTT(60), <3>2, HandsTake, <2>g
        <5>2. QED
          BY Zenon, <3>2, <5>1
      <4>3. c(i)' = c(i) /\ d(i)' = d(i) /\ e(i)' = e(i) /\ w(i)' = w(i) /\ Unread(i)' = Unread(i)
        BY Zenon, <2>4 DEF ProducerDequeue, Unread
      <4>4. Same(x, i) \in Nat
        BY Zenon DEF Same
      <4> HIDE DEF a, b, c, d, e, w, x
      <4>5. QED
        BY <4>1, <4>2, <4>3, <4>4, <2>a, <2>b, <2>c
    <3>4. QED
      BY Zenon, <2>4, <2>d, <3>3 DEF ProducerDequeue
  <2>5. ASSUME NEW p \in Producers, ProducerEnqueue(p)
        PROVE  (\A i \in Lines : Goal(i)) /\ Len(written') + to_write' = N
    <3> DEFINE x == producer[p].item
    <3>1. x \in Lines
      BY Zenon, <2>5 DEF ProducerEnqueue, TypeInv, TypeOK, ItemInHand, Holding, ProducerStates
    <3>2. /\ producer'[p].item = NoItem
          /\ \A u \in Producers \ {p} : producer[u].item = producer'[u].item
      BY Zenon, <2>5 DEF ProducerEnqueue, TypeInv, TypeOK
    <3>3. ASSUME NEW i \in Lines PROVE Goal(i)
      <4>1. c(i)' = c(i) + Same(x, i)
        BY <2>5, <3>1, OccurrencesAppend DEF ProducerEnqueue, TypeInv, TypeOK
      <4>2. b(i) = b(i)' + Same(x, i)
        <5>1. Cardinality(Hands(Producers, producer, i))
                = Cardinality(Hands(Producers, producer', i)) + Same(producer[p].item, i)
          BY SMTT(60), <3>2, HandsTake, <2>g
        <5>2. QED
          BY Zenon, <5>1
      <4>3. a(i)' = a(i) /\ d(i)' = d(i) /\ e(i)' = e(i) /\ w(i)' = w(i) /\ Unread(i)' = Unread(i)
        BY Zenon, <2>5 DEF ProducerEnqueue, Unread
      <4>4. Same(x, i) \in Nat
        BY Zenon DEF Same
      <4> HIDE DEF a, b, c, d, e, w, x
      <4>5. QED
        BY <4>1, <4>2, <4>3, <4>4, <2>a, <2>b, <2>c
    <3>4. QED
      BY Zenon, <2>5, <2>d, <3>3 DEF ProducerEnqueue
  <2>6. ASSUME NEW k \in Consumers, ConsumerDequeue(k)
        PROVE  (\A i \in Lines : Goal(i)) /\ Len(written') + to_write' = N
    <3> DEFINE x == Head(workerQueue)
    <3>1. x \in Lines /\ workerQueue # << >>
      BY <2>6 DEF ConsumerDequeue, TypeInv, TypeOK
    <3>2. consumer[k].item = NoItem
      BY Zenon, <2>6 DEF ConsumerDequeue, TypeInv, TypeOK, ItemInHand, Holding
    <3>3. /\ consumer'[k].item = x
          /\ \A u \in Consumers \ {k} : consumer'[u].item = consumer[u].item
      BY Zenon, <2>6 DEF ConsumerDequeue, TypeInv, TypeOK, ConsumerStates
    <3>4. ASSUME NEW i \in Lines PROVE Goal(i)
      <4>1. c(i) = c(i)' + Same(x, i)
        BY Zenon, <2>6, <3>1, OccurrencesTail DEF ConsumerDequeue, TypeInv, TypeOK
      <4>2. d(i)' = d(i) + Same(x, i)
        BY <3>2, <3>3, HandsTake, <2>g
      <4>3. a(i)' = a(i) /\ b(i)' = b(i) /\ e(i)' = e(i) /\ w(i)' = w(i) /\ Unread(i)' = Unread(i)
        BY Zenon, <2>6 DEF ConsumerDequeue, Unread
      <4>4. Same(x, i) \in Nat
        BY Zenon DEF Same
      <4> HIDE DEF a, b, c, d, e, w, x
      <4>5. QED
        BY <4>1, <4>2, <4>3, <4>4, <2>a, <2>b, <2>c
    <3>5. QED
      BY Zenon, <2>6, <2>d, <3>4 DEF ConsumerDequeue
  <2>7. ASSUME NEW k \in Consumers, ConsumerEnqueue(k)
        PROVE  (\A i \in Lines : Goal(i)) /\ Len(written') + to_write' = N
    <3> DEFINE x == consumer[k].item
    <3>1. x \in Lines
      BY Zenon, <2>7 DEF ConsumerEnqueue, TypeInv, TypeOK, ItemInHand, Holding, ConsumerStates
    <3>2. /\ consumer'[k].item = NoItem
          /\ \A u \in Consumers \ {k} : consumer[u].item = consumer'[u].item
      BY Zenon, <2>7 DEF ConsumerEnqueue, TypeInv, TypeOK, ConsumerStates
    <3>3. ASSUME NEW i \in Lines PROVE Goal(i)
      <4>1. e(i)' = e(i) + Same(x, i)
        BY <2>7, <3>1, OccurrencesAppend DEF ConsumerEnqueue, TypeInv, TypeOK
      <4>2. d(i) = d(i)' + Same(x, i)
        BY SMTT(60), <3>2, HandsTake, <2>g
      <4>3. a(i)' = a(i) /\ b(i)' = b(i) /\ c(i)' = c(i) /\ w(i)' = w(i) /\ Unread(i)' = Unread(i)
        BY Zenon, <2>7 DEF ConsumerEnqueue, Unread
      <4>4. Same(x, i) \in Nat
        BY Zenon DEF Same
      <4> HIDE DEF a, b, c, d, e, w, x
      <4>5. QED
        BY <4>1, <4>2, <4>3, <4>4, <2>a, <2>b, <2>c
    <3>4. QED
      BY Zenon, <2>7, <2>d, <3>3 DEF ConsumerEnqueue
  <2>8. ASSUME NEW p \in Producers, ProducerLoop(p)
        PROVE  (\A i \in Lines : Goal(i)) /\ Len(written') + to_write' = N
    <3>1. \A u \in Producers : producer'[u].item = producer[u].item
      BY Zenon, <2>8 DEF ProducerLoop, TypeInv, TypeOK, ProducerStates
    <3>2. QED
      BY Zenon, <2>3, <2>8, <3>1 DEF ProducerLoop
  <2>9. ASSUME NEW k \in Consumers, ConsumerLoop(k) \/ ConsumerSize(k) \/ ConsumerDelete(k)
        PROVE  (\A i \in Lines : Goal(i)) /\ Len(written') + to_write' = N
    <3>1. PICK q \in {"delete", "size", "dequeue", "loop", "none"} : consumer' = [consumer EXCEPT ![k].pc = q]
      BY Zenon, <2>9 DEF ConsumerLoop, ConsumerSize, ConsumerDelete
    <3>2. \A u \in Consumers : consumer'[u].item = consumer[u].item
      BY Zenon, <3>1 DEF TypeInv, TypeOK, ConsumerStates
    <3>3. QED
      BY Zenon, <2>3, <2>9, <3>2 DEF ConsumerLoop, ConsumerSize, ConsumerDelete
  <2>10. CASE ScaleUp
    <3>1. PICK k \in Unused :
            consumer' = [consumer EXCEPT ![k] = [pc |-> "loop", item |-> NoItem, is_cancel |-> FALSE]]
      BY Zenon, <2>10 DEF ScaleUp
    <3>2. k \in Consumers /\ consumer[k].item = NoItem
      BY Zenon DEF Unused, TypeInv, ItemInHand, Holding
    <3>3. \A u \in Consumers : consumer'[u].item = consumer[u].item
      BY Zenon, <3>1, <3>2 DEF TypeInv, TypeOK
    <3>4. QED
      BY Zenon, <2>3, <2>10, <3>3 DEF ScaleUp
  <2>11. CASE ScaleDown
    <3>1. \A u \in Consumers : consumer'[u].item = consumer[u].item
      BY <2>11 DEF ScaleDown, TypeInv, TypeOK, ConsumerStates
    <3>2. QED
      BY Zenon, <2>3, <2>11, <3>1 DEF ScaleDown
  <2>12. CASE CheckPeriod \/ PthreadCancel \/ NoScaling \/ Main \/ Return \/ UNCHANGED vars
    BY Zenon, <2>3, <2>12 DEF CheckPeriod, PthreadCancel, NoScaling, Main, Return, vars
  <2>13. QED
    BY ZenonT(60), <2>1, <2>2, <2>4, <2>5, <2>6, <2>7, <2>8, <2>9, <2>10, <2>11, <2>12
       DEF Next, Controller, Producer, Consumer
<1>3. QED
  BY <1>1, <1>2, TypeCorrect, PTL DEF Spec
===============================================================================
