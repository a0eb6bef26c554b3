---------------------------- MODULE TSQueueProofs ----------------------------
(***************************************************************************)
(* Proofs about TSQueue for every number of threads, every set of items    *)
(* and every capacity: type correctness, mutual exclusion, soundness of    *)
(* the ring, no lost wake-up, and that it implements BoundedQueue.         *)
(***************************************************************************)
EXTENDS TSQueue, FiniteSetTheorems, SequenceTheorems, TLAPS

(* Arithmetic modulo the capacity, in the only two cases the ring meets.   *)
LEMMA ModSmall ==
  ASSUME NEW n \in Nat \ {0}, NEW x \in 0 .. n - 1
  PROVE  x % n = x
OBVIOUS

LEMMA ModWrap ==
  ASSUME NEW n \in Nat \ {0}, NEW x \in n .. 2*n - 1
  PROVE  x % n = x - n
OBVIOUS

(* The slot k places after slot h. *)
LEMMA SlotAfter ==
  ASSUME NEW h \in Slots, NEW k \in 0 .. buffer_size
  PROVE  /\ (h + k) % buffer_size \in Slots
         /\ (h + k) % buffer_size = IF h + k < buffer_size THEN h + k
                                    ELSE (h + k) - buffer_size
<1>1. CASE h + k < buffer_size
  <2>1. h + k \in 0 .. buffer_size - 1
    BY <1>1, SizeAssumption DEF Slots
  <2>2. (h + k) % buffer_size = h + k
    BY Zenon, <2>1, ModSmall, SizeAssumption
  <2>3. QED
    BY Zenon, <1>1, <2>1, <2>2 DEF Slots
<1>2. CASE ~(h + k < buffer_size)
  <2>1. h + k \in buffer_size .. 2 * buffer_size - 1
    BY <1>2, SizeAssumption DEF Slots
  <2>2. (h + k) % buffer_size = (h + k) - buffer_size
    BY Zenon, <2>1, ModWrap, SizeAssumption
  <2>3. (h + k) - buffer_size \in Slots
    BY <2>1, SizeAssumption DEF Slots
  <2>4. QED
    BY Zenon, <1>2, <2>2, <2>3
<1>3. QED
  BY Zenon, <1>1, <1>2

-----------------------------------------------------------------------------
(* Type correctness: every field of the queue keeps its range. *)
THEOREM TypeCorrect == Spec => []TypeOK
<1>1. Init => TypeOK
  BY SizeAssumption DEF Init, TypeOK, Slots, Ops, Points
<1>2. TypeOK /\ [Next]_vars => TypeOK'
  <2> SUFFICES ASSUME TypeOK, [Next]_vars
               PROVE  TypeOK'
    OBVIOUS
  <2> USE DEF TypeOK, Ops, Points
  <2>1. ASSUME NEW t \in Threads, NEW x \in Items, CallEnqueue(t, x)
        PROVE  TypeOK'
    BY Zenon, <2>1 DEF CallEnqueue
  <2>2. ASSUME NEW t \in Threads, CallDequeue(t)
        PROVE  TypeOK'
    BY Zenon, <2>2 DEF CallDequeue
  <2>3. ASSUME NEW t \in Threads, MutexLock(t)
        PROVE  TypeOK'
    BY Zenon, <2>3 DEF MutexLock
  <2>4. ASSUME NEW t \in Threads, enqueue_wait(t) \/ dequeue_wait(t)
        PROVE  TypeOK'
    BY Zenon, <2>4 DEF enqueue_wait, dequeue_wait, CondWait
  <2>5. ASSUME NEW t \in Threads, enqueue_put(t)
        PROVE  TypeOK'
    <3>1. tail' \in Slots
      BY <2>5, SlotAfter, SizeAssumption DEF enqueue_put
    <3>2. size' \in 0 .. buffer_size
      BY <2>5, SizeAssumption DEF enqueue_put
    <3>3. QED
      BY Zenon, <2>5, <3>1, <3>2 DEF enqueue_put
  <2>6. ASSUME NEW t \in Threads, dequeue_take(t)
        PROVE  TypeOK'
    <3>1. head' \in Slots
      BY <2>6, SlotAfter, SizeAssumption DEF dequeue_take
    <3>2. size' \in 0 .. buffer_size
      BY <2>6, SizeAssumption DEF dequeue_take
    <3>3. QED
      BY Zenon, <2>6, <3>1, <3>2 DEF dequeue_take
  <2>7. ASSUME NEW t \in Threads, enqueue_signal(t) \/ dequeue_signal(t)
        PROVE  TypeOK'
    BY Zenon, <2>7 DEF enqueue_signal, dequeue_signal, CondSignal, cond_enqueue, cond_dequeue
  <2>8. ASSUME NEW t \in Threads, MutexUnlock(t)
        PROVE  TypeOK'
    BY Zenon, <2>8 DEF MutexUnlock
  <2>9. ASSUME NEW t \in Threads, SpuriousWakeup(t)
        PROVE  TypeOK'
    BY Zenon, <2>9 DEF SpuriousWakeup
  <2>10. CASE UNCHANGED vars
    BY Zenon, <2>10 DEF vars
  <2>11. QED
    BY Zenon, <2>1, <2>2, <2>3, <2>4, <2>5, <2>6, <2>7, <2>8, <2>9, <2>10 DEF Next, Step
<1>3. QED
  BY <1>1, <1>2, PTL DEF Spec

-----------------------------------------------------------------------------
(* Mutual exclusion: the mutex is held exactly by the thread in the body of *)
(* enqueue or dequeue.                                                      *)
THEOREM MutexCorrect == Spec => []MutualExclusion
<1>1. Init => MutualExclusion
  BY Zenon, NullAssumption DEF Init, MutualExclusion
<1>2. TypeOK /\ MutualExclusion /\ [Next]_vars => MutualExclusion'
  <2> SUFFICES ASSUME TypeOK, MutualExclusion, [Next]_vars
               PROVE  MutualExclusion'
    OBVIOUS
  <2> USE NullAssumption DEF TypeOK, MutualExclusion
  <2>1. ASSUME NEW t \in Threads, NEW x \in Items, CallEnqueue(t, x)
        PROVE  MutualExclusion'
    BY Zenon, <2>1 DEF CallEnqueue, At
  <2>2. ASSUME NEW t \in Threads, CallDequeue(t)
        PROVE  MutualExclusion'
    BY Zenon, <2>2 DEF CallDequeue, At
  <2>3. ASSUME NEW t \in Threads, MutexLock(t)
        PROVE  MutualExclusion'
    BY Zenon, <2>3 DEF MutexLock
  <2>4. ASSUME NEW t \in Threads, enqueue_wait(t) \/ dequeue_wait(t)
        PROVE  MutualExclusion'
    BY Zenon, <2>4 DEF enqueue_wait, dequeue_wait, CondWait, At
  <2>5. ASSUME NEW t \in Threads, enqueue_put(t) \/ dequeue_take(t)
        PROVE  MutualExclusion'
    BY Zenon, <2>5 DEF enqueue_put, dequeue_take, At
  <2>6. ASSUME NEW t \in Threads, enqueue_signal(t) \/ dequeue_signal(t)
        PROVE  MutualExclusion'
    BY Zenon, <2>6 DEF enqueue_signal, dequeue_signal, CondSignal, cond_enqueue, cond_dequeue, At
  <2>7. ASSUME NEW t \in Threads, MutexUnlock(t)
        PROVE  MutualExclusion'
    BY Zenon, <2>7 DEF MutexUnlock
  <2>8. ASSUME NEW t \in Threads, SpuriousWakeup(t)
        PROVE  MutualExclusion'
    BY Zenon, <2>8 DEF SpuriousWakeup
  <2>9. CASE UNCHANGED vars
    BY Zenon, <2>9 DEF vars
  <2>10. QED
    BY Zenon, <2>1, <2>2, <2>3, <2>4, <2>5, <2>6, <2>7, <2>8, <2>9 DEF Next, Step
<1>3. QED
  BY <1>1, <1>2, TypeCorrect, PTL DEF Spec

-----------------------------------------------------------------------------
(* Writing the slot at tail extends the occupied window by one item. *)
LEMMA PutKeepsRing ==
  ASSUME TypeOK, RingOK, NEW t \in Threads, enqueue_put(t), item[t] \in Items
  PROVE  RingOK'
<1>1. /\ size \in 0 .. buffer_size - 1 /\ size \in 0 .. buffer_size /\ size' = size + 1
      /\ head' = head /\ head \in Slots
  BY SizeAssumption DEF enqueue_put, TypeOK
<1>2. tail \in Slots /\ tail = (head + size) % buffer_size
  BY Zenon DEF TypeOK, RingOK
<1>3. tail = IF head + size < buffer_size THEN head + size ELSE (head + size) - buffer_size
  BY Zenon, <1>1, <1>2, SlotAfter
<1>4. tail' = IF tail + 1 < buffer_size THEN tail + 1 ELSE (tail + 1) - buffer_size
  BY <1>2, SlotAfter, SizeAssumption DEF enqueue_put
<1>5. size + 1 \in 0 .. buffer_size
  BY <1>1, SizeAssumption
<1>6. (head + (size + 1)) % buffer_size
        = IF head + (size + 1) < buffer_size THEN head + (size + 1)
          ELSE (head + (size + 1)) - buffer_size
  BY Zenon, <1>1, <1>5, SlotAfter
<1>7. tail' = (head' + size') % buffer_size
  <2>1. tail' = IF head + (size + 1) < buffer_size THEN head + (size + 1)
                ELSE (head + (size + 1)) - buffer_size
    BY <1>1, <1>3, <1>4, SizeAssumption DEF Slots
  <2>2. QED
    BY Zenon, <2>1, <1>1, <1>6
<1>8. ASSUME NEW i \in 0 .. buffer_size - 1, i < size'
      PROVE  buffer'[(head' + i) % buffer_size] \in Items
  <2>1. (head + i) % buffer_size \in Slots
         /\ (head + i) % buffer_size = IF head + i < buffer_size THEN head + i
                                        ELSE (head + i) - buffer_size
    BY <1>1, SlotAfter, SizeAssumption
  <2>2. buffer' = [buffer EXCEPT ![tail] = item[t]] /\ buffer \in [Slots -> Items \union {NoItem}]
    BY Zenon DEF enqueue_put, TypeOK
  <2>3. CASE i = size
    BY Zenon, <2>2, <2>3, <1>1, <1>2
  <2>4. CASE i < size
    <3>1. buffer[(head + i) % buffer_size] \in Items
      BY Zenon, <2>4 DEF RingOK
    <3>2. (head + i) % buffer_size # tail
      BY <2>1, <2>4, <1>1, <1>3, SizeAssumption DEF Slots
    <3>3. QED
      BY Zenon, <2>1, <2>2, <3>1, <3>2, <1>1
  <2>5. i = size \/ i < size
    BY <1>1, <1>8
  <2>6. QED
    BY Zenon, <2>3, <2>4, <2>5
<1>9. ASSUME NEW u \in Threads, At(u, "dequeue", "signal")' \/ At(u, "dequeue", "unlock")'
      PROVE  item'[u] \in Items
  BY Zenon, <1>9 DEF enqueue_put, RingOK, TypeOK, At
<1>10. QED
  BY Zenon, <1>7, <1>8, <1>9 DEF RingOK

(* Reading the slot at head shrinks the window by its first item. *)
LEMMA TakeKeepsRing ==
  ASSUME TypeOK, RingOK, NEW t \in Threads, dequeue_take(t)
  PROVE  RingOK'
<1>1. size \in 1 .. buffer_size /\ size' = size - 1 /\ head \in Slots /\ tail' = tail /\ buffer' = buffer
  BY SizeAssumption DEF dequeue_take, TypeOK
<1>2. head' = IF head + 1 < buffer_size THEN head + 1 ELSE (head + 1) - buffer_size
  BY <1>1, SlotAfter, SizeAssumption DEF dequeue_take
<1>3. head' \in Slots
  BY <1>1, SlotAfter, SizeAssumption DEF dequeue_take
<1>4. ASSUME NEW k \in 0 .. buffer_size - 1
      PROVE  (head' + k) % buffer_size = (head + (k + 1)) % buffer_size
  <2>1. k \in 0 .. buffer_size /\ k + 1 \in 0 .. buffer_size
    BY SizeAssumption
  <2>2. (head' + k) % buffer_size = IF head' + k < buffer_size THEN head' + k
                                    ELSE (head' + k) - buffer_size
    BY Zenon, <1>3, <2>1, SlotAfter
  <2>3. (head + (k + 1)) % buffer_size
          = IF head + (k + 1) < buffer_size THEN head + (k + 1)
            ELSE (head + (k + 1)) - buffer_size
    BY Zenon, <1>1, <2>1, SlotAfter
  <2>4. (IF head' + k < buffer_size THEN head' + k ELSE (head' + k) - buffer_size)
          = IF head + (k + 1) < buffer_size THEN head + (k + 1)
            ELSE (head + (k + 1)) - buffer_size
    BY <1>1, <1>2, <2>1, SizeAssumption DEF Slots
  <2>5. QED
    BY <2>2, <2>3, <2>4
<1>5. tail' = (head' + size') % buffer_size
  <2>1. size' \in 0 .. buffer_size - 1 /\ size' + 1 = size
    BY <1>1, SizeAssumption
  <2>2. (head' + size') % buffer_size = (head + (size' + 1)) % buffer_size
    BY Zenon, <2>1, <1>4
  <2>3. QED
    BY Zenon, <1>1, <2>1, <2>2 DEF RingOK
<1>6. ASSUME NEW i \in 0 .. buffer_size - 1, i < size'
      PROVE  buffer'[(head' + i) % buffer_size] \in Items
  <2>1. i + 1 \in 0 .. buffer_size - 1 /\ i + 1 < size
    BY <1>1, <1>6, SizeAssumption
  <2>2. buffer[(head + (i + 1)) % buffer_size] \in Items
    BY Zenon, <2>1 DEF RingOK
  <2>3. QED
    BY Zenon, <2>2, <1>1, <1>4
<1>7. ASSUME NEW u \in Threads, At(u, "dequeue", "signal")' \/ At(u, "dequeue", "unlock")'
      PROVE  item'[u] \in Items
  <2>1. buffer[head] \in Items
    <3>1. 0 \in 0 .. buffer_size - 1 /\ 0 < size
      BY <1>1, SizeAssumption
    <3>2. buffer[(head + 0) % buffer_size] \in Items
      BY Zenon, <3>1 DEF RingOK
    <3>3. (head + 0) % buffer_size = head
      <4>1. head + 0 = head
        BY <1>1 DEF Slots
      <4>2. head % buffer_size = head
        BY Zenon, <1>1, ModSmall, SizeAssumption DEF Slots
      <4>3. QED
        BY Zenon, <4>1, <4>2
    <3>4. QED
      BY Zenon, <3>2, <3>3
  <2>2. QED
    BY Zenon, <1>7, <2>1 DEF dequeue_take, RingOK, TypeOK, At
<1>8. QED
  BY Zenon, <1>5, <1>6, <1>7 DEF RingOK

(* RingOK is not inductive as it stands: the item an enqueuer will write has *)
(* to be known to be real from its call on.                                  *)
RingInv ==
  /\ RingOK
  /\ \A t \in Threads : op[t] = "enqueue" /\ pc[t] \in {"lock", "test", "wait"}
                          => item[t] \in Items

(* Every run of TSQueue keeps the ring intact and the items in flight real. *)
LEMMA RingInvCorrect == Spec => []RingInv
<1>1. Init => RingInv
  <2> SUFFICES ASSUME Init PROVE RingInv
    OBVIOUS
  <2>1. 0 % buffer_size = 0
    BY ModSmall, SizeAssumption
  <2>2. QED
    BY <2>1 DEF Init, RingInv, RingOK, At
<1>2. TypeOK /\ RingInv /\ [Next]_vars => RingInv'
  <2> SUFFICES ASSUME TypeOK, RingInv, [Next]_vars
               PROVE  RingInv'
    OBVIOUS
  <2>1. ASSUME NEW t \in Threads, NEW x \in Items, CallEnqueue(t, x)
        PROVE  RingInv'
    BY Zenon, <2>1 DEF CallEnqueue, RingInv, RingOK, At, TypeOK
  <2>2. ASSUME NEW t \in Threads, CallDequeue(t)
        PROVE  RingInv'
    BY Zenon, <2>2 DEF CallDequeue, RingInv, RingOK, At, TypeOK
  <2>3. ASSUME NEW t \in Threads, MutexLock(t)
        PROVE  RingInv'
    BY Zenon, <2>3 DEF MutexLock, RingInv, RingOK, At, TypeOK
  <2>4. ASSUME NEW t \in Threads, enqueue_wait(t) \/ dequeue_wait(t)
        PROVE  RingInv'
    BY Zenon, <2>4 DEF enqueue_wait, dequeue_wait, CondWait, RingInv, RingOK, At, TypeOK
  <2>5. ASSUME NEW t \in Threads, enqueue_put(t)
        PROVE  RingInv'
    <3>1. item[t] \in Items
      BY Zenon, <2>5 DEF enqueue_put, At, RingInv
    <3>2. RingOK'
      BY Zenon, <2>5, <3>1, PutKeepsRing DEF RingInv
    <3>3. QED
      BY Zenon, <2>5, <3>2 DEF enqueue_put, RingInv, At, TypeOK
  <2>6. ASSUME NEW t \in Threads, dequeue_take(t)
        PROVE  RingInv'
    <3>1. RingOK'
      BY Zenon, <2>6, TakeKeepsRing DEF RingInv
    <3>2. QED
      BY Zenon, <2>6, <3>1 DEF dequeue_take, RingInv, At, TypeOK
  <2>7. ASSUME NEW t \in Threads, enqueue_signal(t) \/ dequeue_signal(t)
        PROVE  RingInv'
    BY Zenon, <2>7 DEF enqueue_signal, dequeue_signal, CondSignal, cond_enqueue, cond_dequeue,
                RingInv, RingOK, At, TypeOK
  <2>8. ASSUME NEW t \in Threads, MutexUnlock(t)
        PROVE  RingInv'
    BY Zenon, <2>8 DEF MutexUnlock, RingInv, RingOK, At, TypeOK
  <2>9. ASSUME NEW t \in Threads, SpuriousWakeup(t)
        PROVE  RingInv'
    BY Zenon, <2>9 DEF SpuriousWakeup, RingInv, RingOK, At, TypeOK
  <2>10. CASE UNCHANGED vars
    BY Zenon, <2>10 DEF vars, RingInv, RingOK, At
  <2>11. QED
    BY Zenon, <2>1, <2>2, <2>3, <2>4, <2>5, <2>6, <2>7, <2>8, <2>9, <2>10 DEF Next, Step
<1>3. QED
  BY <1>1, <1>2, TypeCorrect, PTL DEF Spec

(* Soundness of the ring: tail, size and head agree, and dequeue never      *)
(* returns a slot that no enqueue has filled.                               *)
THEOREM RingCorrect == Spec => []RingOK
<1>1. RingInv => RingOK
  BY Zenon DEF RingInv
<1>2. QED
  BY <1>1, RingInvCorrect, PTL

-----------------------------------------------------------------------------
(* Counting sets of threads. *)
LEMMA ThreadSets ==
  ASSUME NEW S \in SUBSET Threads
  PROVE  /\ IsFiniteSet(S) /\ Cardinality(S) \in Nat
         /\ \A t \in Threads : t \notin S => Cardinality(S \union {t}) = Cardinality(S) + 1
         /\ \A t \in S : Cardinality(S \ {t}) = Cardinality(S) - 1
         /\ \A t \in S : Cardinality(S) >= 1
<1>1. IsFiniteSet(S)
  BY Zenon, FS_Subset, ThreadsAssumption
<1>2. Cardinality(S) \in Nat
  BY Zenon, <1>1, FS_CardinalityType
<1>3. \A t \in Threads : t \notin S => Cardinality(S \union {t}) = Cardinality(S) + 1
  BY Zenon, <1>1, FS_AddElement
<1>4. \A t \in S : Cardinality(S \ {t}) = Cardinality(S) - 1
  BY Zenon, <1>1, FS_RemoveElement
<1>5. \A t \in S : Cardinality(S) >= 1
  BY <1>1, <1>2, FS_EmptySet
<1>6. QED
  BY Zenon, <1>1, <1>2, <1>3, <1>4, <1>5

(* The two sets of threads that NoLostWakeup counts are sets of threads. *)
LEMMA PartsAreThreadSets ==
  \A o : Arriving(o) \in SUBSET Threads /\ Signalling(o) \in SUBSET Threads
BY Zenon DEF Arriving, Signalling

(* No wake-up is lost: NoLostWakeup is inductive together with TypeOK. *)
THEOREM WakeupCorrect == Spec => []NoLostWakeup
<1> DEFINE AE == Arriving("enqueue")
           AD == Arriving("dequeue")
           SE == Signalling("enqueue")
           SD == Signalling("dequeue")
<1>1. Init => NoLostWakeup
  BY Zenon DEF Init, NoLostWakeup, cond_enqueue, cond_dequeue, At
<1>2. TypeOK /\ NoLostWakeup /\ [Next]_vars => NoLostWakeup'
  <2> SUFFICES ASSUME TypeOK, NoLostWakeup, [Next]_vars
               PROVE  NoLostWakeup'
    OBVIOUS
  <2>a. /\ size \in 0 .. buffer_size /\ buffer_size \in Nat
        /\ Cardinality(AE) \in Nat /\ Cardinality(AD) \in Nat
        /\ Cardinality(SE) \in Nat /\ Cardinality(SD) \in Nat
    BY Zenon, ThreadSets, PartsAreThreadSets, SizeAssumption DEF TypeOK
  <2>b. /\ Cardinality(AE') \in Nat /\ Cardinality(AD') \in Nat
        /\ Cardinality(SE') \in Nat /\ Cardinality(SD') \in Nat
    <3>1. /\ AE' \in SUBSET Threads /\ AD' \in SUBSET Threads
          /\ SE' \in SUBSET Threads /\ SD' \in SUBSET Threads
      BY Zenon DEF Arriving, Signalling
    <3>2. QED
      BY Zenon, <3>1, ThreadSets
  <2>c. /\ cond_dequeue # {} => size <= Cardinality(AD) + Cardinality(SE)
        /\ cond_enqueue # {} => buffer_size - size <= Cardinality(AE) + Cardinality(SD)
    BY Zenon DEF NoLostWakeup
  <2>d. SUFFICES
          /\ cond_dequeue' # {} => size' <= Cardinality(AD') + Cardinality(SE')
          /\ cond_enqueue' # {} => buffer_size - size' <= Cardinality(AE') + Cardinality(SD')
    BY Zenon DEF NoLostWakeup
  <2> DEFINE Goal ==
        /\ cond_dequeue' # {} => size' <= Cardinality(AD') + Cardinality(SE')
        /\ cond_enqueue' # {} => buffer_size - size' <= Cardinality(AE') + Cardinality(SD')
  <2>1. ASSUME NEW t \in Threads, NEW x \in Items, CallEnqueue(t, x)
        PROVE  Goal
    <3>1. /\ AE' = AE \union {t} /\ t \notin AE /\ AD' = AD /\ SE' = SE /\ SD' = SD
          /\ cond_enqueue' = cond_enqueue /\ cond_dequeue' = cond_dequeue /\ size' = size
      BY Zenon, <2>1 DEF CallEnqueue, At, Arriving, Signalling, cond_enqueue, cond_dequeue, TypeOK
    <3>2. Cardinality(AE') = Cardinality(AE) + 1
      BY Zenon, <3>1, ThreadSets, PartsAreThreadSets
    <3> HIDE DEF AE, AD, SE, SD
    <3>3. QED
      BY <3>1, <3>2, <2>a, <2>c
  <2>2. ASSUME NEW t \in Threads, CallDequeue(t)
        PROVE  Goal
    <3>1. /\ AD' = AD \union {t} /\ t \notin AD /\ AE' = AE /\ SE' = SE /\ SD' = SD
          /\ cond_enqueue' = cond_enqueue /\ cond_dequeue' = cond_dequeue /\ size' = size
      BY Zenon, <2>2 DEF CallDequeue, At, Arriving, Signalling, cond_enqueue, cond_dequeue, TypeOK
    <3>2. Cardinality(AD') = Cardinality(AD) + 1
      BY Zenon, <3>1, ThreadSets, PartsAreThreadSets
    <3> HIDE DEF AE, AD, SE, SD
    <3>3. QED
      BY <3>1, <3>2, <2>a, <2>c
  <2>3. ASSUME NEW t \in Threads, MutexLock(t) \/ MutexUnlock(t)
        PROVE  Goal
    <3>1. /\ AD' = AD /\ AE' = AE /\ SE' = SE /\ SD' = SD
          /\ cond_enqueue' = cond_enqueue /\ cond_dequeue' = cond_dequeue /\ size' = size
      BY Zenon, <2>3 DEF MutexLock, MutexUnlock, At, Arriving, Signalling, cond_enqueue, cond_dequeue, TypeOK
    <3> HIDE DEF AE, AD, SE, SD
    <3>2. QED
      BY Zenon, <3>1, <2>c
  <2>4. ASSUME NEW t \in Threads, enqueue_wait(t)
        PROVE  Goal
    <3>1. /\ AD' = AD /\ SE' = SE /\ cond_dequeue' = cond_dequeue
          /\ size' = size /\ size = buffer_size
      BY Zenon, <2>4 DEF enqueue_wait, CondWait, At, Arriving, Signalling, cond_dequeue, TypeOK
    <3> HIDE DEF AE, AD, SE, SD
    <3>2. QED
      BY <3>1, <2>a, <2>b, <2>c
  <2>5. ASSUME NEW t \in Threads, dequeue_wait(t)
        PROVE  Goal
    <3>1. /\ AE' = AE /\ SD' = SD /\ cond_enqueue' = cond_enqueue
          /\ size' = size /\ size = 0
      BY Zenon, <2>5 DEF dequeue_wait, CondWait, At, Arriving, Signalling, cond_enqueue, TypeOK
    <3> HIDE DEF AE, AD, SE, SD
    <3>2. QED
      BY <3>1, <2>a, <2>b, <2>c
  <2>6. ASSUME NEW t \in Threads, enqueue_put(t)
        PROVE  Goal
    <3>1. /\ AE' = AE \ {t} /\ t \in AE /\ SE' = SE \union {t} /\ t \notin SE
          /\ AD' = AD /\ SD' = SD
          /\ cond_enqueue' = cond_enqueue /\ cond_dequeue' = cond_dequeue /\ size' = size + 1
      BY Zenon, <2>6 DEF enqueue_put, At, Arriving, Signalling, cond_enqueue, cond_dequeue, TypeOK
    <3>2. Cardinality(AE') = Cardinality(AE) - 1 /\ Cardinality(SE') = Cardinality(SE) + 1
      BY Zenon, <3>1, ThreadSets, PartsAreThreadSets
    <3> HIDE DEF AE, AD, SE, SD
    <3>3. QED
      BY <3>1, <3>2, <2>a, <2>c
  <2>7. ASSUME NEW t \in Threads, dequeue_take(t)
        PROVE  Goal
    <3>1. /\ AD' = AD \ {t} /\ t \in AD /\ SD' = SD \union {t} /\ t \notin SD
          /\ AE' = AE /\ SE' = SE
          /\ cond_enqueue' = cond_enqueue /\ cond_dequeue' = cond_dequeue /\ size' = size - 1
      BY Zenon, <2>7 DEF dequeue_take, At, Arriving, Signalling, cond_enqueue, cond_dequeue, TypeOK
    <3>2. Cardinality(AD') = Cardinality(AD) - 1 /\ Cardinality(SD') = Cardinality(SD) + 1
      BY Zenon, <3>1, ThreadSets, PartsAreThreadSets
    <3> HIDE DEF AE, AD, SE, SD
    <3>3. QED
      BY <3>1, <3>2, <2>a, <2>c
  <2>8. ASSUME NEW t \in Threads, enqueue_signal(t)
        PROVE  Goal
    <3>1. CASE ~(size > 0) \/ cond_dequeue = {}
      <4>1. /\ AE' = AE /\ SD' = SD /\ cond_enqueue' = cond_enqueue
            /\ cond_dequeue' = cond_dequeue /\ size' = size
        BY Zenon, <2>8, <3>1 DEF enqueue_signal, CondSignal, At, Arriving, Signalling,
                          cond_enqueue, cond_dequeue, TypeOK
      <4> HIDE DEF AE, AD, SE, SD
      <4>2. QED
        BY <3>1, <4>1, <2>a, <2>b, <2>c
    <3>2. CASE size > 0 /\ cond_dequeue # {}
      <4>1. PICK w \in cond_dequeue : pc' = [pc EXCEPT ![t] = "unlock", ![w] = "lock"]
        BY Zenon, <2>8, <3>2 DEF enqueue_signal, CondSignal
      <4>2. /\ AE' = AE /\ SD' = SD /\ cond_enqueue' = cond_enqueue /\ size' = size
            /\ AD' = AD \union {w} /\ w \notin AD /\ SE' = SE \ {t} /\ t \in SE /\ w \in Threads
        BY Zenon, <2>8, <4>1 DEF enqueue_signal, At, Arriving, Signalling,
                          cond_enqueue, cond_dequeue, TypeOK
      <4>3. Cardinality(AD') = Cardinality(AD) + 1 /\ Cardinality(SE') = Cardinality(SE) - 1
        BY Zenon, <4>2, ThreadSets, PartsAreThreadSets
      <4> HIDE DEF AE, AD, SE, SD
      <4>4. QED
        BY <3>2, <4>2, <4>3, <2>a, <2>c
    <3>3. QED
      BY Zenon, <3>1, <3>2
  <2>9. ASSUME NEW t \in Threads, dequeue_signal(t)
        PROVE  Goal
    <3>1. CASE ~(size < buffer_size) \/ cond_enqueue = {}
      <4>1. /\ AD' = AD /\ SE' = SE /\ cond_enqueue' = cond_enqueue
            /\ cond_dequeue' = cond_dequeue /\ size' = size
        BY Zenon, <2>9, <3>1 DEF dequeue_signal, CondSignal, At, Arriving, Signalling,
                          cond_enqueue, cond_dequeue, TypeOK
      <4> HIDE DEF AE, AD, SE, SD
      <4>2. QED
        BY <3>1, <4>1, <2>a, <2>b, <2>c
    <3>2. CASE size < buffer_size /\ cond_enqueue # {}
      <4>1. PICK w \in cond_enqueue : pc' = [pc EXCEPT ![t] = "unlock", ![w] = "lock"]
        BY Zenon, <2>9, <3>2 DEF dequeue_signal, CondSignal
      <4>2. /\ AD' = AD /\ SE' = SE /\ cond_dequeue' = cond_dequeue /\ size' = size
            /\ AE' = AE \union {w} /\ w \notin AE /\ SD' = SD \ {t} /\ t \in SD /\ w \in Threads
        BY Zenon, <2>9, <4>1 DEF dequeue_signal, At, Arriving, Signalling,
                          cond_enqueue, cond_dequeue, TypeOK
      <4>3. Cardinality(AE') = Cardinality(AE) + 1 /\ Cardinality(SD') = Cardinality(SD) - 1
        BY Zenon, <4>2, ThreadSets, PartsAreThreadSets
      <4> HIDE DEF AE, AD, SE, SD
      <4>4. QED
        BY <3>2, <4>2, <4>3, <2>a, <2>c
    <3>3. QED
      BY Zenon, <3>1, <3>2
  <2>10. ASSUME NEW t \in Threads, SpuriousWakeup(t)
         PROVE  Goal
    <3>1. /\ SE' = SE /\ SD' = SD /\ size' = size
          /\ cond_enqueue' \subseteq cond_enqueue /\ cond_dequeue' \subseteq cond_dequeue
          /\ AE' = AE \/ (AE' = AE \union {t} /\ t \notin AE)
          /\ AD' = AD \/ (AD' = AD \union {t} /\ t \notin AD)
      BY Zenon, <2>10 DEF SpuriousWakeup, At, Arriving, Signalling, cond_enqueue, cond_dequeue, TypeOK
    <3>2. /\ Cardinality(AE') \in {Cardinality(AE), Cardinality(AE) + 1}
          /\ Cardinality(AD') \in {Cardinality(AD), Cardinality(AD) + 1}
      BY Zenon, <3>1, ThreadSets, PartsAreThreadSets
    <3> HIDE DEF AE, AD, SE, SD
    <3>3. QED
      BY <3>1, <3>2, <2>a, <2>c
  <2>11. CASE UNCHANGED vars
    <3>1. /\ AD' = AD /\ AE' = AE /\ SE' = SE /\ SD' = SD
          /\ cond_enqueue' = cond_enqueue /\ cond_dequeue' = cond_dequeue /\ size' = size
      BY Zenon, <2>11 DEF vars, At, Arriving, Signalling, cond_enqueue, cond_dequeue
    <3> HIDE DEF AE, AD, SE, SD
    <3>2. QED
      BY Zenon, <3>1, <2>c
  <2>12. QED
    BY Zenon, <2>1, <2>2, <2>3, <2>4, <2>5, <2>6, <2>7, <2>8, <2>9, <2>10, <2>11 DEF Next, Step
<1>3. QED
  BY <1>1, <1>2, TypeCorrect, PTL DEF Spec

-----------------------------------------------------------------------------
(* A thread is outside the queue exactly when it is in no operation. *)
InCall == \A t \in Threads : op[t] = "none" <=> pc[t] = "out"

(* enqueue() and dequeue() are left the way they were entered: op and pc agree. *)
LEMMA InCallCorrect == Spec => []InCall
<1>1. Init => InCall
  BY Zenon DEF Init, InCall
<1>2. TypeOK /\ InCall /\ [Next]_vars => InCall'
  BY DEF TypeOK, InCall, Next, Step, vars, CallEnqueue, CallDequeue, MutexLock, MutexUnlock,
         SpuriousWakeup, enqueue_wait, enqueue_put, enqueue_signal, dequeue_wait, dequeue_take,
         dequeue_signal, CondWait, CondSignal, cond_enqueue, cond_dequeue, At
<1>3. QED
  BY <1>1, <1>2, TypeCorrect, PTL DEF Spec

(* A function on 1..n is a sequence of length n. *)
LEMMA FunctionIsSequence ==
  ASSUME NEW S, NEW n \in Nat, NEW f \in [1 .. n -> S]
  PROVE  f \in Seq(S) /\ Len(f) = n
OBVIOUS

(* The contents of the ring are a sequence of size elements. *)
LEMMA ContentsIsSequence ==
  ASSUME TypeOK
  PROVE  /\ Contents \in Seq(Items \union {NoItem}) /\ Len(Contents) = size
         /\ \A i \in 1 .. size : Contents[i] = buffer[(head + (i - 1)) % buffer_size]
<1>1. size \in Nat /\ head \in Slots /\ buffer \in [Slots -> Items \union {NoItem}]
  BY SizeAssumption DEF TypeOK
<1>2. ASSUME NEW i \in 1 .. size
      PROVE  buffer[(head + (i - 1)) % buffer_size] \in Items \union {NoItem}
  <2>1. i - 1 \in 0 .. buffer_size
    BY SizeAssumption DEF TypeOK
  <2>2. (head + (i - 1)) % buffer_size \in Slots
    BY Zenon, <1>1, <2>1, SlotAfter
  <2>3. QED
    BY Zenon, <1>1, <2>2
<1>3. Contents \in [1 .. size -> Items \union {NoItem}]
  BY Zenon, <1>2 DEF Contents
<1>4. QED
  BY Zenon, <1>1, <1>3, FunctionIsSequence DEF Contents

(* enqueue appends its item to the contents. *)
LEMMA PutAppends ==
  ASSUME TypeOK, TypeOK', RingInv, NEW t \in Threads, enqueue_put(t)
  PROVE  Contents' = Append(Contents, item[t])
<1> DEFINE V == Items \union {NoItem}
<1>1. /\ size \in 0 .. buffer_size - 1 /\ size \in 0 .. buffer_size /\ size' = size + 1
      /\ head' = head /\ head \in Slots /\ item[t] \in V
      /\ buffer' = [buffer EXCEPT ![tail] = item[t]] /\ buffer \in [Slots -> V]
  BY SizeAssumption DEF enqueue_put, TypeOK
<1>2. tail \in Slots /\ tail = (head + size) % buffer_size
  BY Zenon DEF TypeOK, RingInv, RingOK
<1>3. tail = IF head + size < buffer_size THEN head + size ELSE (head + size) - buffer_size
  BY Zenon, <1>1, <1>2, SlotAfter
<1>4. /\ Contents \in Seq(V) /\ Len(Contents) = size
      /\ \A i \in 1 .. size : Contents[i] = buffer[(head + (i - 1)) % buffer_size]
  BY Zenon, ContentsIsSequence
<1>5. /\ Contents' \in Seq(V) /\ Len(Contents') = size'
      /\ \A i \in 1 .. size' : Contents'[i] = buffer'[(head' + (i - 1)) % buffer_size]
  <2>1. size' \in Nat /\ head' \in Slots /\ buffer' \in [Slots -> V]
    BY SizeAssumption DEF TypeOK
  <2>2. ASSUME NEW i \in 1 .. size'
        PROVE  buffer'[(head' + (i - 1)) % buffer_size] \in V
    <3>1. i - 1 \in 0 .. buffer_size
      BY <1>1, SizeAssumption
    <3>2. (head' + (i - 1)) % buffer_size \in Slots
      BY Zenon, <2>1, <3>1, SlotAfter
    <3>3. QED
      BY Zenon, <2>1, <3>2
  <2>3. Contents' \in [1 .. size' -> V]
    BY Zenon, <2>2 DEF Contents
  <2>4. QED
    BY Zenon, <2>1, <2>3, FunctionIsSequence DEF Contents
<1>6. ASSUME NEW i \in 1 .. size'
      PROVE  Contents'[i] = Append(Contents, item[t])[i]
  <2>1. CASE i = size + 1
    <3>1. i - 1 = size
      BY <2>1, <1>1
    <3>2. Contents'[i] = item[t]
      BY Zenon, <3>1, <1>1, <1>2, <1>5
    <3>3. Append(Contents, item[t])[size + 1] = item[t]
      BY <1>1, <1>4, AppendProperties
    <3>4. QED
      BY Zenon, <2>1, <3>2, <3>3
  <2>2. CASE i \in 1 .. size
    <3>1. i - 1 \in 0 .. buffer_size /\ i - 1 < size
      BY <1>1, <2>2, SizeAssumption
    <3>2. /\ (head + (i - 1)) % buffer_size \in Slots
          /\ (head + (i - 1)) % buffer_size
               = IF head + (i - 1) < buffer_size THEN head + (i - 1)
                 ELSE (head + (i - 1)) - buffer_size
      BY Zenon, <1>1, <3>1, SlotAfter
    <3>3. (head + (i - 1)) % buffer_size # tail
      BY <1>1, <1>3, <3>1, <3>2, SizeAssumption DEF Slots
    <3>4. Contents'[i] = Contents[i]
      BY Zenon, <1>1, <1>4, <1>5, <2>2, <3>2, <3>3
    <3>5. Append(Contents, item[t])[i] = Contents[i]
      BY <1>1, <1>4, <2>2, AppendProperties
    <3>6. QED
      BY Zenon, <3>4, <3>5
  <2>3. i = size + 1 \/ i \in 1 .. size
    BY <1>1
  <2>4. QED
    BY Zenon, <2>1, <2>2, <2>3
<1>7. Append(Contents, item[t]) \in Seq(V) /\ Len(Append(Contents, item[t])) = size'
  BY Zenon, <1>1, <1>4, AppendProperties
<1> HIDE DEF V
<1>8. QED
  BY Zenon, <1>5, <1>6, <1>7, SeqEqual

(* dequeue removes the first element and returns it. *)
LEMMA TakeRemovesHead ==
  ASSUME TypeOK, TypeOK', NEW t \in Threads, dequeue_take(t)
  PROVE  /\ Contents # << >> /\ Contents' = Tail(Contents)
         /\ buffer[head] = Head(Contents)
<1> DEFINE V == Items \union {NoItem}
<1>1. /\ size \in 1 .. buffer_size /\ size' = size - 1 /\ head \in Slots
      /\ buffer' = buffer /\ buffer \in [Slots -> V]
  BY SizeAssumption DEF dequeue_take, TypeOK
<1>2. head' = IF head + 1 < buffer_size THEN head + 1 ELSE (head + 1) - buffer_size
  BY <1>1, SlotAfter, SizeAssumption DEF dequeue_take
<1>3. /\ Contents \in Seq(V) /\ Len(Contents) = size
      /\ \A i \in 1 .. size : Contents[i] = buffer[(head + (i - 1)) % buffer_size]
  BY Zenon, ContentsIsSequence
<1>4. /\ Contents' \in Seq(V) /\ Len(Contents') = size'
      /\ \A i \in 1 .. size' : Contents'[i] = buffer'[(head' + (i - 1)) % buffer_size]
  <2>1. size' \in Nat /\ head' \in Slots /\ buffer' \in [Slots -> V]
    BY SizeAssumption DEF TypeOK
  <2>2. ASSUME NEW i \in 1 .. size'
        PROVE  buffer'[(head' + (i - 1)) % buffer_size] \in V
    <3>1. i - 1 \in 0 .. buffer_size
      BY <1>1, SizeAssumption
    <3>2. (head' + (i - 1)) % buffer_size \in Slots
      BY Zenon, <2>1, <3>1, SlotAfter
    <3>3. QED
      BY Zenon, <2>1, <3>2
  <2>3. Contents' \in [1 .. size' -> V]
    BY Zenon, <2>2 DEF Contents
  <2>4. QED
    BY Zenon, <2>1, <2>3, FunctionIsSequence DEF Contents
<1>5. Contents # << >>
  BY <1>1, <1>3, EmptySeq
<1>6. /\ Tail(Contents) \in Seq(V) /\ Len(Tail(Contents)) = size - 1
      /\ \A i \in 1 .. size - 1 : Tail(Contents)[i] = Contents[i + 1]
  BY Zenon, <1>1, <1>3, <1>5, HeadTailProperties
<1>7. ASSUME NEW i \in 1 .. size'
      PROVE  Contents'[i] = Tail(Contents)[i]
  <2>1. i - 1 \in 0 .. buffer_size /\ i \in 0 .. buffer_size /\ i + 1 \in 1 .. size
    BY <1>1, SizeAssumption
  <2>2. (head' + (i - 1)) % buffer_size
          = IF head' + (i - 1) < buffer_size THEN head' + (i - 1)
            ELSE (head' + (i - 1)) - buffer_size
    BY Zenon, <2>1, SlotAfter DEF TypeOK
  <2>3. (head + i) % buffer_size
          = IF head + i < buffer_size THEN head + i ELSE (head + i) - buffer_size
    BY Zenon, <1>1, <2>1, SlotAfter
  <2>4. (head' + (i - 1)) % buffer_size = (head + i) % buffer_size
    BY <1>1, <1>2, <2>1, <2>2, <2>3, SizeAssumption DEF Slots
  <2>5. Contents[i + 1] = buffer[(head + ((i + 1) - 1)) % buffer_size] /\ (i + 1) - 1 = i
    BY <1>3, <2>1
  <2>6. QED
    BY Zenon, <1>1, <1>4, <1>6, <2>1, <2>4, <2>5
<1>8. buffer[head] = Head(Contents)
  <2>1. head + 0 = head /\ head % buffer_size = head
    BY <1>1, ModSmall, SizeAssumption DEF Slots
  <2>2. Contents[1] = buffer[(head + (1 - 1)) % buffer_size]
    BY <1>1, <1>3
  <2>3. Contents[1] = buffer[head]
    BY <2>1, <2>2
  <2>4. QED
    BY <1>3, <1>5, <2>3
<1> HIDE DEF V
<1>9. QED
  BY Zenon, <1>1, <1>4, <1>5, <1>6, <1>7, <1>8, SeqEqual

(* Refinement: TSQueue implements the bounded FIFO queue with atomic        *)
(* operations, for every number of threads and every capacity.              *)
THEOREM Refinement == Spec => ImplementsBoundedQueue
<1>1. Init => BQ!Init
  <2> SUFFICES ASSUME Init PROVE BQ!Init
    OBVIOUS
  <2>1. Contents = << >>
    BY DEF Init, Contents
  <2>2. CallStage = [t \in Threads |-> "none"]
    BY Zenon DEF Init, CallStage
  <2>3. QED
    BY Zenon, <2>1, <2>2 DEF Init, BQ!Init
<1>2. TypeOK /\ TypeOK' /\ RingInv /\ InCall /\ [Next]_vars => [BQ!Next]_(BQ!bqvars)
  <2> SUFFICES ASSUME TypeOK, TypeOK', RingInv, InCall, [Next]_vars
               PROVE  BQ!Next \/ UNCHANGED BQ!bqvars
    OBVIOUS
  <2>a. CallStage \in [Threads -> {"none", "enqueue", "dequeue", "done"}]
    BY Zenon DEF CallStage, TypeOK, Ops
  <2>1. ASSUME NEW t \in Threads, NEW x \in Items, CallEnqueue(t, x)
        PROVE  BQ!CallEnqueue(t, x)
    <3>1. CallStage[t] = "none" /\ CallStage' = [CallStage EXCEPT ![t] = "enqueue"]
      BY Zenon, <2>1 DEF CallEnqueue, At, CallStage, TypeOK
    <3>2. Contents' = Contents
      BY Zenon, <2>1 DEF CallEnqueue, Contents
    <3>3. QED
      BY Zenon, <2>1, <3>1, <3>2 DEF CallEnqueue, BQ!CallEnqueue
  <2>2. ASSUME NEW t \in Threads, CallDequeue(t)
        PROVE  BQ!CallDequeue(t)
    <3>1. CallStage[t] = "none" /\ CallStage' = [CallStage EXCEPT ![t] = "dequeue"]
      BY Zenon, <2>2 DEF CallDequeue, At, CallStage, TypeOK
    <3>2. Contents' = Contents
      BY Zenon, <2>2 DEF CallDequeue, Contents
    <3>3. QED
      BY Zenon, <2>2, <3>1, <3>2 DEF CallDequeue, BQ!CallDequeue
  <2>3. ASSUME NEW t \in Threads,
               MutexLock(t) \/ enqueue_wait(t) \/ dequeue_wait(t) \/ SpuriousWakeup(t)
        PROVE  UNCHANGED BQ!bqvars
    <3>1. CallStage' = CallStage
      BY Zenon, <2>3 DEF MutexLock, enqueue_wait, dequeue_wait, SpuriousWakeup, CondWait, At,
                  CallStage, TypeOK
    <3>2. Contents' = Contents
      BY Zenon, <2>3 DEF MutexLock, enqueue_wait, dequeue_wait, SpuriousWakeup, CondWait, Contents
    <3>3. item' = item
      BY Zenon, <2>3 DEF MutexLock, enqueue_wait, dequeue_wait, SpuriousWakeup, CondWait
    <3>4. QED
      BY Zenon, <3>1, <3>2, <3>3 DEF BQ!bqvars
  <2>4. ASSUME NEW t \in Threads, enqueue_signal(t) \/ dequeue_signal(t)
        PROVE  UNCHANGED BQ!bqvars
    <3>1. CallStage' = CallStage
      BY Zenon, <2>4 DEF enqueue_signal, dequeue_signal, CondSignal, cond_enqueue, cond_dequeue, At,
                  CallStage, TypeOK
    <3>2. Contents' = Contents
      BY Zenon, <2>4 DEF enqueue_signal, dequeue_signal, Contents
    <3>3. item' = item
      BY Zenon, <2>4 DEF enqueue_signal, dequeue_signal
    <3>4. QED
      BY Zenon, <3>1, <3>2, <3>3 DEF BQ!bqvars
  <2>5. ASSUME NEW t \in Threads, enqueue_put(t)
        PROVE  BQ!Enqueue(t)
    <3>1. CallStage[t] = "enqueue" /\ CallStage' = [CallStage EXCEPT ![t] = "done"]
      BY Zenon, <2>5 DEF enqueue_put, At, CallStage, TypeOK
    <3>2. Contents' = Append(Contents, item[t])
      BY Zenon, <2>5, PutAppends
    <3>3. Len(Contents) < buffer_size
      BY <2>5, ContentsIsSequence, SizeAssumption DEF enqueue_put, TypeOK
    <3>4. QED
      BY Zenon, <2>5, <3>1, <3>2, <3>3 DEF enqueue_put, BQ!Enqueue
  <2>6. ASSUME NEW t \in Threads, dequeue_take(t)
        PROVE  BQ!Dequeue(t)
    <3>1. CallStage[t] = "dequeue" /\ CallStage' = [CallStage EXCEPT ![t] = "done"]
      BY Zenon, <2>6 DEF dequeue_take, At, CallStage, TypeOK
    <3>2. /\ Contents # << >> /\ Contents' = Tail(Contents)
          /\ buffer[head] = Head(Contents)
      BY Zenon, <2>6, TakeRemovesHead
    <3>3. item' = [item EXCEPT ![t] = buffer[head]]
      BY Zenon, <2>6 DEF dequeue_take
    <3>4. QED
      BY Zenon, <3>1, <3>2, <3>3 DEF BQ!Dequeue
  <2>7. ASSUME NEW t \in Threads, MutexUnlock(t)
        PROVE  BQ!Return(t)
    <3>1. CallStage[t] = "done" /\ CallStage' = [CallStage EXCEPT ![t] = "none"]
      BY Zenon, <2>7 DEF MutexUnlock, CallStage, TypeOK, InCall
    <3>2. Contents' = Contents
      BY Zenon, <2>7 DEF MutexUnlock, Contents
    <3>3. QED
      BY Zenon, <2>7, <3>1, <3>2 DEF MutexUnlock, BQ!Return
  <2>8. CASE UNCHANGED vars
    BY Zenon, <2>8 DEF vars, BQ!bqvars, Contents, CallStage
  <2>9. QED
    BY Zenon, <2>1, <2>2, <2>3, <2>4, <2>5, <2>6, <2>7, <2>8 DEF Next, Step, BQ!Next
<1>3. QED
  BY <1>1, <1>2, TypeCorrect, RingInvCorrect, InCallCorrect, PTL
     DEF Spec, ImplementsBoundedQueue, BQ!Spec
=============================================================================
