--------------------------- MODULE SynchListProofs ----------------------------
(***************************************************************************)
(* Theorems about SynchList, for every number of appenders and removers    *)
(* and of calls.                                                           *)
(***************************************************************************)
EXTENDS SynchList, SynchProofs

Points ==
  {"fork", "acquire", "append", "release", "remove", "wait", "reacquire", "return", "finished"}

ListType ==
  /\ list \in Seq(Appenders)
  /\ waitQueue \in Seq(Removers)
  /\ pc \in [Threads -> Points]
  /\ todo \in [Threads -> Nat]
  /\ item \in [Threads -> Appenders \union {NoItem}]

(* Where each kind of thread can be, and what it holds there. *)
PointsInv ==
  /\ \A t \in Threads : pc[t] \in {"append", "release"} => t \in Appenders
  /\ \A t \in Threads : pc[t] \in {"remove", "wait", "reacquire"} => t \in Removers
  /\ pc[Main] \in {"fork", "finished"} /\ todo[Main] = 0
  /\ \A t \in Threads : t # Main => pc[t] # "fork"
  /\ \A t \in Threads : pc[t] \notin {"fork", "acquire", "finished"} => todo[t] > 0
  /\ \A t \in Threads : pc[t] = "append" => item[t] = t
  /\ \A t \in Threads : pc[t] \notin {"append", "return"} => item[t] = NoItem

Holding(t) == pc[t] \in {"append", "release", "remove"}

(* The lock excludes and its semaphore says whether it is held; a waiter is  *)
(* queued once, and its own semaphore holds the V of a signal exactly while  *)
(* it has been signalled and has not taken it.                               *)
LockInv ==
  /\ \A t, u \in Threads : Holding(t) /\ Holding(u) => t = u
  /\ sem[Lock].value = IF \E t \in Threads : Holding(t) THEN 0 ELSE 1
  /\ Distinct(waitQueue)
  /\ \A t \in Range(waitQueue) : pc[t] = "wait"
  /\ \A t \in Threads :
       sem[t].value = IF pc[t] = "wait" /\ t \notin Range(waitQueue) THEN 1 ELSE 0

(* The removers that have still to test the list, one per item at least      *)
(* while somebody waits.                                                     *)
Signalled ==
  {t \in Removers : \/ pc[t] \in {"remove", "reacquire"}
                    \/ pc[t] = "wait" /\ t \notin Range(waitQueue)}

SignalInv == waitQueue # << >> => Len(list) <= Cardinality(Signalled)

(* The calls that have taken effect, as pairs of a thread and the number of  *)
(* calls it had left: what went in is on the list or came out.               *)
Appended ==
  {p \in Appenders \X (1 .. Calls) :
     \/ p[2] > todo[p[1]]
     \/ p[2] = todo[p[1]] /\ pc[p[1]] \in {"release", "return"}}

Removed ==
  {p \in Removers \X (1 .. RemoverCalls) :
     \/ p[2] > todo[p[1]]
     \/ p[2] = todo[p[1]] /\ pc[p[1]] = "return"}

CallsInv ==
  /\ \A t \in Appenders : todo[t] <= Calls
  /\ \A t \in Removers : todo[t] <= RemoverCalls
  /\ Cardinality(Appended) = Len(list) + Cardinality(Removed)

(* t is, or will be when it runs next, at the test of P() of s. *)
At(t, s) ==
  IF s = Lock THEN (pc[t] = "acquire" /\ todo[t] > 0) \/ pc[t] = "reacquire"
  ELSE pc[t] = "wait" /\ t = s

(* The sleepers are in the P() of the semaphore they sleep on; where there   *)
(* is something to take and somebody sleeps, somebody awake is about to take *)
(* it; and the states of the threads agree with their points.                *)
WakeInv ==
  /\ \A s \in Sems : \A t \in Sleepers(s) : At(t, s)
  /\ \A s \in Sems : sem[s].value > 0 /\ Sleepers(s) # {} => \E t \in Awake : At(t, s)
  /\ \A t \in Created : pc[t] = "acquire"
  /\ \A t \in Ended : pc[t] = "finished"
  /\ \A t \in Threads : pc[t] = "finished" => todo[t] = 0
  /\ pc[Main] = "finished" => Created = {}
  /\ machine = "halted" => readyList = << >>

IInv == PlacedInv /\ ListType /\ PointsInv /\ LockInv /\ SignalInv /\ CallsInv /\ WakeInv

(* The kernel halts only when every call of Append and RemoveFront has       *)
(* returned and every thread has finished: no remover is left waiting while  *)
(* the appenders have supplied what it asks for.                             *)
HaltsDone == machine = "halted" => \A t \in Threads : pc[t] = "finished"

-----------------------------------------------------------------------------
\* The size of a finite set is a natural number.
LEMMA CountNat ==
  ASSUME CountingFacts, NEW S, IsFiniteSet(S)
  PROVE  Cardinality(S) \in Nat
BY Zenon DEF CountingFacts

\* The empty set is the one of size 0.
LEMMA CountEmpty ==
  ASSUME CountingFacts
  PROVE  /\ IsFiniteSet({}) /\ Cardinality({}) = 0
         /\ \A S : IsFiniteSet(S) /\ Cardinality(S) = 0 => S = {}
BY Zenon DEF CountingFacts

\* The size of an interval of numbers.
LEMMA CountInterval ==
  ASSUME CountingFacts, NEW n \in Nat
  PROVE  IsFiniteSet(1 .. n) /\ Cardinality(1 .. n) = n
BY Zenon DEF CountingFacts

\* A part of a finite set is not larger than the set, and of its size only when it is all of it.
LEMMA CountSubset ==
  ASSUME CountingFacts, NEW S, IsFiniteSet(S), NEW T, T \subseteq S
  PROVE  /\ IsFiniteSet(T) /\ Cardinality(T) <= Cardinality(S)
         /\ Cardinality(T) = Cardinality(S) => T = S
BY Zenon DEF CountingFacts

\* A new element adds one.
LEMMA CountAdd ==
  ASSUME CountingFacts, NEW S, IsFiniteSet(S), NEW x, x \notin S
  PROVE  Cardinality(S \union {x}) = Cardinality(S) + 1
BY Zenon DEF CountingFacts

\* Taking an element out subtracts one.
LEMMA CountRemove ==
  ASSUME CountingFacts, NEW S, IsFiniteSet(S), NEW x, x \in S
  PROVE  Cardinality(S \ {x}) = Cardinality(S) - 1
BY Zenon DEF CountingFacts

\* The size of a product.
LEMMA CountProduct ==
  ASSUME CountingFacts, NEW S, IsFiniteSet(S), NEW T, IsFiniteSet(T)
  PROVE  IsFiniteSet(S \X T) /\ Cardinality(S \X T) = Cardinality(S) * Cardinality(T)
BY ZenonT(60) DEF CountingFacts

(* The constants, and the number of calls of each kind. *)
LEMMA Constants ==
  /\ Main \in Threads /\ Appenders \subseteq Threads /\ Removers \subseteq Threads
  /\ Threads = Appenders \union Removers \union {Main}
  /\ Appenders \intersect Removers = {} /\ Main \notin Appenders /\ Main \notin Removers
  /\ Sems = {Lock} \union Threads /\ Lock \notin Threads
  /\ Calls \in Nat /\ NoItem \notin Threads /\ NoItem \notin Appenders
BY Zenon, MainAssumption, ListAssumption

\* There are finitely many callers of Append and of RemoveFront.
LEMMA FiniteThreads ==
  ASSUME CountingFacts
  PROVE  /\ IsFiniteSet(Appenders) /\ Cardinality(Appenders) \in Nat
         /\ IsFiniteSet(Removers) /\ Cardinality(Removers) \in Nat
         /\ Removers # {} => Cardinality(Removers) > 0
<1>1. IsFiniteSet(Appenders) /\ IsFiniteSet(Removers)
  BY Constants, MainAssumption, CountSubset
<1>2. Cardinality(Appenders) \in Nat /\ Cardinality(Removers) \in Nat
  BY <1>1, CountNat
<1>3. Removers # {} => Cardinality(Removers) # 0
  BY <1>1, CountEmpty
<1>4. QED
  BY <1>1, <1>2, <1>3

(* The removers ask for as many items as the appenders supply. *)
LEMMA Supply ==
  ASSUME CountingFacts, Removers # {}
  PROVE  /\ RemoverCalls \in Nat
         /\ Cardinality(Appenders) * Calls = Cardinality(Removers) * RemoverCalls
<1> DEFINE a == Cardinality(Appenders)
           r == Cardinality(Removers)
<1>1. a \in Nat /\ r \in Nat \ {0} /\ Calls \in Nat
  BY FiniteThreads, Constants
<1>2. (a * Calls) % r = 0
  BY Zenon, ListAssumption
<1>3. a * Calls \in Nat
  BY <1>1
<1> HIDE DEF a, r
<1>4. ASSUME NEW x \in Nat, NEW n \in Nat \ {0}, x % n = 0
      PROVE  (x \div n) \in Nat /\ x = n * (x \div n)
  BY <1>4
<1>5. QED
  BY ZenonT(30), <1>1, <1>2, <1>3, <1>4 DEF RemoverCalls, a, r

(* The pairs that stand for the calls are finitely many. *)
LEMMA PairsFinite ==
  ASSUME CountingFacts
  PROVE  /\ IsFiniteSet(Appended) /\ Cardinality(Appended) \in Nat
         /\ Cardinality(Appended) <= Cardinality(Appenders) * Calls
         /\ IsFiniteSet(Appenders \X (1 .. Calls))
         /\ Cardinality(Appenders \X (1 .. Calls)) = Cardinality(Appenders) * Calls
<1>1. IsFiniteSet(1 .. Calls) /\ Cardinality(1 .. Calls) = Calls
  BY CountInterval, Constants
<1>2. /\ IsFiniteSet(Appenders \X (1 .. Calls))
      /\ Cardinality(Appenders \X (1 .. Calls)) = Cardinality(Appenders) * Calls
  BY ZenonT(30), <1>1, FiniteThreads, CountProduct
<1>3. Appended \subseteq Appenders \X (1 .. Calls)
  BY Zenon DEF Appended
<1>4. /\ IsFiniteSet(Appended)
      /\ Cardinality(Appended) <= Cardinality(Appenders \X (1 .. Calls))
  BY <1>2, <1>3, CountSubset
<1>5. QED
  BY <1>2, <1>4, CountNat

\* The finished calls of RemoveFront can be counted.
LEMMA RemovedFinite ==
  ASSUME CountingFacts
  PROVE  IsFiniteSet(Removed) /\ Cardinality(Removed) \in Nat
<1>1. CASE Removers = {}
  <2>1. Removed = {}
    BY Zenon, <1>1 DEF Removed
  <2>2. QED
    BY <2>1, CountEmpty
<1>2. CASE Removers # {}
  <2>1. IsFiniteSet(1 .. RemoverCalls)
    BY <1>2, Supply, CountInterval
  <2>2. IsFiniteSet(Removers \X (1 .. RemoverCalls))
    BY ZenonT(30), <2>1, FiniteThreads, CountProduct
  <2>3. Removed \subseteq Removers \X (1 .. RemoverCalls)
    BY Zenon DEF Removed
  <2>4. QED
    BY <2>2, <2>3, CountSubset, CountNat
<1>3. QED
  BY Zenon, <1>1, <1>2

\* The appenders that have signalled can be counted.
LEMMA SignalledFinite ==
  ASSUME CountingFacts
  PROVE  IsFiniteSet(Signalled) /\ Cardinality(Signalled) \in Nat
BY FiniteThreads, CountSubset, CountNat DEF Signalled

-----------------------------------------------------------------------------
(* The constructors, and Main about to fork. *)
LEMMA InitHolds ==
  ASSUME CountingFacts, Init
  PROVE  IInv
<1>2. SchedInv /\ Blocked = {} /\ Created = Threads \ {Main} /\ Ended = {}
  <2>1. SchedType
    <3>1. Main \in Threads
      BY Zenon, Constants
    <3>2. /\ currentThread = Main /\ readyList = << >> /\ level = "IntOn" /\ machine = "system"
          /\ status = [t \in Threads |-> IF t = Main THEN "RUNNING" ELSE "JUST_CREATED"]
      BY Zenon DEF Init
    <3>3. timer \in [pending : BOOLEAN, disable : BOOLEAN]
      <4>1. \/ timer = [pending |-> TRUE, disable |-> FALSE]
            \/ timer = [pending |-> FALSE, disable |-> TRUE]
        BY Zenon DEF Init
      <4>2. CASE timer = [pending |-> TRUE, disable |-> FALSE]
        BY Zenon, <4>2
      <4>3. CASE timer = [pending |-> FALSE, disable |-> TRUE]
        BY Zenon, <4>3
      <4>4. QED
        BY Zenon, <4>1, <4>2, <4>3
    <3>4. QED
      BY <3>1, <3>2, <3>3 DEF SchedType, Statuses
  <2>2. Range(readyList) = {} /\ DOMAIN readyList = {}
    BY DEF Init, Range
  <2>3. ReadyListOK
    BY Zenon, <2>2, Constants DEF Init, ReadyListOK
  <2>4. QED
    BY Zenon, <2>1, <2>3, Constants DEF SchedInv, Blocked, Created, Ended, Init
<1>3. /\ SemType /\ sem[Lock].value = 1 /\ \A t \in Threads : sem[t].value = 0
      /\ \A s \in Sems : sem[s].queue = << >> /\ Sleepers(s) = {}
  <2>1. sem = [s \in Sems |-> [value |-> IF s = Lock THEN 1 ELSE 0, queue |-> << >>]]
    BY Zenon DEF Init
  <2>2. Lock \in Sems /\ \A t \in Threads : t \in Sems /\ t # Lock
    BY Zenon, Constants
  <2>3. SemType
    BY <2>1 DEF SemType
  <2>4. \A s \in Sems : sem[s].queue = << >> /\ Sleepers(s) = {}
    BY <2>1 DEF Sleepers, Range
  <2>5. QED
    BY Zenon, <2>1, <2>2, <2>3, <2>4
<1>4. Queued
  BY <1>2, <1>3 DEF Queued, Queue
<1>5. /\ pc = [t \in Threads |-> IF t = Main THEN "fork" ELSE "acquire"]
      /\ list = << >> /\ waitQueue = << >> /\ item = [t \in Threads |-> NoItem]
      /\ \A t \in Appenders : todo[t] = Calls
      /\ \A t \in Removers : todo[t] = RemoverCalls
      /\ todo[Main] = 0
      /\ todo \in [Threads -> Nat]
  <2>1. \A t \in Removers : RemoverCalls \in Nat
    BY Zenon, Supply
  <2>2. /\ \A t \in Appenders : todo[t] = Calls
        /\ \A t \in Removers : todo[t] = RemoverCalls
        /\ todo[Main] = 0
    <3> DEFINE f == [t \in Threads |-> CASE t \in Appenders -> Calls
                                        [] t \in Removers -> RemoverCalls
                                        [] OTHER -> 0]
    <3>1. todo = f
      BY Zenon DEF Init
    <3>2. ASSUME NEW t \in Appenders PROVE f[t] = Calls
      BY Zenon, Constants
    <3>3. ASSUME NEW t \in Removers PROVE f[t] = RemoverCalls
      BY Zenon, Constants
    <3>4. f[Main] = 0
      BY Zenon, Constants
    <3> HIDE DEF f
    <3>5. QED
      BY Zenon, <3>1, <3>2, <3>3, <3>4
  <2>3. todo \in [Threads -> Nat]
    <3>1. DOMAIN todo = Threads /\ todo = [t \in Threads |-> todo[t]]
      BY DEF Init
    <3>2. ASSUME NEW t \in Threads PROVE todo[t] \in Nat
      BY <2>1, <2>2, Constants
    <3>3. QED
      BY Zenon, <3>1, <3>2
  <2>4. QED
    BY Zenon, <2>2, <2>3 DEF Init
<1>6. ListType
  <2>1. list \in Seq(Appenders) /\ waitQueue \in Seq(Removers)
    BY <1>5
  <2>2. pc \in [Threads -> Points] /\ item \in [Threads -> Appenders \union {NoItem}]
    BY Zenon, <1>5 DEF Points
  <2>3. QED
    BY Zenon, <1>5, <2>1, <2>2 DEF ListType
<1>7. PointsInv
  BY Zenon, <1>5, Constants DEF PointsInv
<1>8. LockInv
  BY <1>3, <1>5 DEF LockInv, Holding, Distinct, Range
<1>9. SignalInv
  BY Zenon, <1>5 DEF SignalInv
<1>10. CallsInv
  <2>1. Appended = {} /\ Removed = {}
    <3>1. ASSUME NEW p \in Appended PROVE FALSE
      BY <1>5, Constants DEF Appended
    <3>2. ASSUME NEW p \in Removed PROVE FALSE
      <4>1. RemoverCalls \in Nat
        BY Zenon, Supply DEF Removed
      <4>2. QED
        BY <1>5, <4>1, Constants DEF Removed
    <3>3. QED
      BY Zenon, <3>1, <3>2
  <2>2. \A t \in Removers : RemoverCalls \in Nat
    BY Zenon, Supply
  <2>3. QED
    BY <1>5, <2>1, <2>2, CountEmpty, Constants DEF CallsInv
<1>11. WakeInv
  BY ZenonT(30), <1>2, <1>3, <1>5, Constants DEF Init, WakeInv
<1>12. QED
  BY Zenon, <1>2, <1>3, <1>4, <1>6, <1>7, <1>8, <1>9, <1>10, <1>11 DEF IInv, PlacedInv

-----------------------------------------------------------------------------
(* What holds in every state for the thread that runs. *)
LEMMA RunningThread ==
  ASSUME IInv, NEW t \in Threads, Running(t)
  PROVE  /\ machine = "system" /\ currentThread = t
         /\ Lock \in Sems /\ t \in Sems /\ t # Lock
         /\ t \in Awake /\ t \notin Created /\ t \notin Ended
         /\ \A s \in Sems : t \notin Sleepers(s)
BY WhereThreadsAre, Constants DEF IInv, Running

(* The calls that have taken effect stay the same when a thread moves        *)
(* between points on the same side of its effect, and when it returns.       *)
LEMMA SameCalls ==
  ASSUME CountingFacts, IInv, NEW t \in Threads, NEW q \in Points,
         pc' = [pc EXCEPT ![t] = q], UNCHANGED <<todo, list>>,
         t \in Appenders => (pc[t] \in {"release", "return"} <=> q \in {"release", "return"}),
         t \in Removers => (pc[t] = "return" <=> q = "return")
  PROVE  CallsInv'
<1>1. Appended' = Appended
  BY Zenon, Constants DEF Appended, IInv, ListType
<1>2. Removed' = Removed
  <2>1. ASSUME NEW u \in Removers PROVE pc'[u] = "return" <=> pc[u] = "return"
    BY Zenon, Constants DEF IInv, ListType
  <2>2. QED
    BY Zenon, <2>1 DEF Removed
<1>3. QED
  BY Zenon, <1>1, <1>2 DEF IInv, CallsInv

(* A step that signals nobody and takes no item. *)
LEMMA SameSignals ==
  ASSUME CountingFacts, IInv, Signalled \subseteq Signalled', UNCHANGED <<list, waitQueue>>
  PROVE  SignalInv'
<1>1. Signalled' \subseteq Removers
  BY Zenon DEF Signalled
<1>2. IsFiniteSet(Signalled')
  BY <1>1, FiniteThreads, CountSubset
<1>3. Cardinality(Signalled) <= Cardinality(Signalled')
  BY <1>2, CountSubset
<1>4. Cardinality(Signalled) \in Nat /\ Cardinality(Signalled') \in Nat /\ Len(list) \in Nat
  BY <1>2, SignalledFinite, CountNat DEF IInv, ListType
<1>5. QED
  BY <1>3, <1>4 DEF SignalInv, IInv

(* Lock::Acquire, from SynchList or again from Condition::Wait. *)
LEMMA AcquireKeeps ==
  ASSUME CountingFacts, IInv, NEW t \in Threads, Running(t), Acquire(t)
  PROVE  IInv'
<1>1. /\ machine = "system" /\ currentThread = t
      /\ Lock \in Sems /\ t \in Sems /\ t # Lock
      /\ t \in Awake /\ t \notin Created /\ t \notin Ended
      /\ \A s \in Sems : t \notin Sleepers(s)
  BY Zenon, RunningThread
<1>2. /\ (pc[t] = "acquire" /\ todo[t] > 0) \/ pc[t] = "reacquire"
      /\ UNCHANGED <<lockHolder, list, waitQueue, todo>>
  BY Zenon DEF Acquire
<1>3. t \in Appenders \/ t \in Removers
  BY Zenon, <1>2, Constants DEF IInv, PointsInv
<1>4. ASSUME PTake(Lock), Goto(t, IF t \in Appenders THEN "append" ELSE "remove"),
             item' = [item EXCEPT ![t] = IF t \in Appenders THEN t ELSE NoItem]
      PROVE  IInv'
  <2> DEFINE q == IF t \in Appenders THEN "append" ELSE "remove"
  <2>1. /\ PlacedInv' /\ SameStates
        /\ sem[Lock].value > 0 /\ sem'[Lock].value = sem[Lock].value - 1
        /\ \A r \in Sems \ {Lock} : sem'[r].value = sem[r].value
        /\ \A r \in Sems : Sleepers(r)' = Sleepers(r)
        /\ UNCHANGED schedvars
    BY ZenonT(30), <1>1, <1>4, PTakeStep DEF IInv, PTake
  <2>2. pc' = [pc EXCEPT ![t] = q] /\ q \in Points
    BY Zenon, <1>4 DEF Goto, Points
  <2>3. ListType'
    BY Zenon, <1>2, <1>4, <2>2 DEF IInv, ListType
  <2>4. PointsInv'
    BY Zenon, <1>2, <1>3, <1>4, <2>2, Constants DEF IInv, ListType, PointsInv
  <2>5. LockInv'
    <3>1. \A u \in Threads : ~Holding(u)
      BY <2>1 DEF IInv, LockInv
    <3>2. sem[Lock].value = 1
      BY Zenon, <3>1 DEF IInv, LockInv
    <3>3. \A u \in Threads : Holding(u)' <=> u = t
      BY Zenon, <2>2, <3>1 DEF Holding, IInv, ListType
    <3>4. t \notin Range(waitQueue)
      BY Zenon, <1>2 DEF IInv, LockInv
    <3>5. \A u \in Threads : sem'[u].value = sem[u].value
      BY Zenon, <2>1, Constants
    <3>6. \A u \in Range(waitQueue) : u \in Threads
      BY Constants DEF IInv, ListType, Range
    <3>7. QED
      BY <1>2, <2>1, <2>2, <3>2, <3>3, <3>4, <3>5, <3>6 DEF IInv, ListType, LockInv
  <2>6. SignalInv'
    <3>1. Signalled \subseteq Signalled'
      BY Zenon, <1>2, <1>3, <2>2, Constants DEF Signalled, IInv, ListType
    <3>2. QED
      BY Zenon, <1>2, <3>1, SameSignals
  <2>7. CallsInv'
    BY ZenonT(30), <1>2, <2>2, SameCalls, Constants
  <2>8. WakeInv'
    <3>1. sem'[Lock].value = 0
      BY <2>1 DEF IInv, LockInv
    <3>2. ASSUME NEW s \in Sems, NEW u \in Sleepers(s)' PROVE At(u, s)'
      <4>1. u \in Sleepers(s) /\ At(u, s) /\ u # t
        BY Zenon, <1>1, <2>1 DEF IInv, WakeInv
      <4>2. QED
        BY <1>2, <2>2, <4>1 DEF At, IInv, ListType
    <3>3. ASSUME NEW s \in Sems, sem'[s].value > 0, Sleepers(s)' # {}
          PROVE  \E u \in Awake' : At(u, s)'
      <4>1. s # Lock
        BY <3>1, <3>3
      <4>2. PICK u \in Awake : At(u, s)
        BY Zenon, <2>1, <3>3, <4>1 DEF IInv, WakeInv
      <4>3. u # t
        BY Zenon, <1>2, <4>1, <4>2 DEF At
      <4>4. At(u, s)' /\ u \in Awake'
        BY <1>2, <2>1, <2>2, <4>2, <4>3 DEF At, IInv, ListType, SameStates
      <4>5. QED
        BY Zenon, <4>4
    <3>4. QED
      BY ZenonT(30), <1>1, <1>2, <2>1, <2>2, <3>2, <3>3, Constants
         DEF IInv, ListType, WakeInv, SameStates, schedvars, PointsInv, Created, Ended
  <2>9. QED
    BY Zenon, <2>1, <2>3, <2>4, <2>5, <2>6, <2>7, <2>8 DEF IInv
<1>5. ASSUME PSleep(Lock), UNCHANGED <<pc, item>>
      PROVE  IInv'
  <2>1. /\ PlacedInv'
        /\ Created' = Created /\ Awake' = Awake \ {t} /\ Ended' = Ended
        /\ sem[Lock].value = 0 /\ \A r \in Sems : sem'[r].value = sem[r].value
        /\ Sleepers(Lock)' = Sleepers(Lock) \union {t}
        /\ \A r \in Sems \ {Lock} : Sleepers(r)' = Sleepers(r)
    BY Zenon, <1>1, <1>5, PSleepStep DEF IInv
  <2>2. ListType' /\ PointsInv'
    BY Zenon, <1>2, <1>5 DEF IInv, ListType, PointsInv
  <2>3. LockInv'
    <3>1. \A u \in Threads : sem'[u].value = sem[u].value
      BY Zenon, <2>1, Constants
    <3>2. QED
      BY Zenon, <1>1, <1>2, <1>5, <2>1, <3>1 DEF IInv, LockInv, Holding
  <2>4. SignalInv' /\ CallsInv'
    BY Zenon, <1>2, <1>5 DEF IInv, SignalInv, Signalled, CallsInv, Appended, Removed
  <2>5. machine' # "halted"
    BY Zenon, <1>5 DEF PSleep, Sleep, Run
  <2>6. WakeInv'
    <3>1. ASSUME NEW s \in Sems, NEW u \in Sleepers(s)' PROVE At(u, s)'
      BY <1>2, <1>5, <2>1 DEF IInv, WakeInv, At
    <3>2. ASSUME NEW s \in Sems, sem'[s].value > 0, Sleepers(s)' # {}
          PROVE  \E u \in Awake' : At(u, s)'
      <4>1. s # Lock
        BY <2>1, <3>2
      <4>2. PICK u \in Awake : At(u, s)
        BY Zenon, <2>1, <3>2, <4>1 DEF IInv, WakeInv
      <4>3. u # t
        BY Zenon, <1>2, <4>1, <4>2 DEF At
      <4>4. QED
        BY Zenon, <1>2, <1>5, <2>1, <4>2, <4>3 DEF At
    <3>3. QED
      BY ZenonT(60), <1>2, <1>5, <2>1, <2>5, <3>1, <3>2 DEF IInv, WakeInv
  <2>7. QED
    BY Zenon, <2>1, <2>2, <2>3, <2>4, <2>6 DEF IInv
<1>6. QED
  BY Zenon, <1>4, <1>5 DEF Acquire

(* A step of the lock's holder that ends in a V(): the first thread asleep   *)
(* on that semaphore is awake and about to take it.                          *)
LEMMA HolderV ==
  ASSUME CountingFacts, IInv, NEW t \in Threads, Running(t), Holding(t),
         NEW s \in Sems, V(s), NEW q \in {"release", "return", "wait"},
         pc' = [pc EXCEPT ![t] = q], UNCHANGED todo
  PROVE  /\ PlacedInv' /\ WakeInv'
         /\ sem'[s].value = sem[s].value + 1
         /\ \A r \in Sems \ {s} : sem'[r].value = sem[r].value
<1>1. /\ machine = "system" /\ currentThread = t
      /\ t \in Awake /\ t \notin Created /\ t \notin Ended
      /\ \A r \in Sems : t \notin Sleepers(r)
  BY Zenon, RunningThread
<1>2. /\ PlacedInv' /\ Created' = Created /\ Ended' = Ended /\ Awake \subseteq Awake'
      /\ Sleepers(s) # {} => \E h \in Sleepers(s) : h \in Awake'
      /\ sem'[s].value = sem[s].value + 1
      /\ \A r \in Sems \ {s} : sem'[r].value = sem[r].value
      /\ \A r \in Sems : Sleepers(r)' \subseteq Sleepers(r)
  BY Zenon, VStep DEF IInv
<1>3. machine' = "system"
  BY Zenon, <1>1 DEF V, schedvars
<1>4. \A u \in Threads \ {t} : pc'[u] = pc[u] /\ todo'[u] = todo[u]
  BY Zenon DEF IInv, ListType
<1>5. \A r \in Sems : Sleepers(r) \subseteq Threads /\ Awake \subseteq Threads
  BY WhereThreadsAre DEF IInv, Blocked, Awake
<1>6. ASSUME NEW r \in Sems, NEW u \in Sleepers(r) PROVE At(u, r)'
  <2>1. At(u, r) /\ u # t /\ u \in Threads
    BY Zenon, <1>1, <1>5 DEF IInv, WakeInv
  <2>2. QED
    BY Zenon, <1>4, <2>1 DEF At
<1>7. ASSUME NEW r \in Sems, sem'[r].value > 0, Sleepers(r)' # {}
      PROVE  \E u \in Awake' : At(u, r)'
  <2>1. CASE r = s
    BY Zenon, <1>2, <1>6, <1>7, <2>1
  <2>2. CASE r # s
    <3>1. PICK u \in Awake : At(u, r)
      BY Zenon, <1>2, <1>7, <2>2 DEF IInv, WakeInv
    <3>2. u # t /\ u \in Threads
      BY Zenon, <1>5, <3>1 DEF At, Holding
    <3>3. At(u, r)' /\ u \in Awake'
      BY Zenon, <1>2, <1>4, <3>1, <3>2 DEF At
    <3>4. QED
      BY Zenon, <3>3
  <2>3. QED
    BY Zenon, <2>1, <2>2
<1>8. t # Main
  BY Zenon DEF IInv, PointsInv, Holding
<1>9. \A u \in Created \union Ended : u \in Threads \ {t}
  BY Zenon, <1>1 DEF Created, Ended
<1>10. WakeInv'
  <2>1. \A r \in Sems : \A u \in Sleepers(r)' : At(u, r)'
    BY ZenonT(60), <1>2, <1>6
  <2>2. \A u \in Threads : pc'[u] = "finished" => todo'[u] = 0
    BY Zenon, <1>4 DEF IInv, ListType, WakeInv
  <2>3. QED
    BY Zenon, <1>2, <1>3, <1>4, <1>7, <1>8, <1>9, <2>1, <2>2, Constants DEF IInv, WakeInv
<1>11. QED
  BY Zenon, <1>2, <1>10

(* SynchList::Append with the lock taken. *)
LEMMA AppendItemKeeps ==
  ASSUME CountingFacts, IInv, NEW t \in Threads, Running(t), AppendItem(t)
  PROVE  IInv'
<1>1. /\ pc[t] = "append" /\ Holding(t) /\ t \in Appenders /\ item[t] = t
      /\ todo[t] \in Nat \ {0} /\ todo[t] <= Calls
      /\ UNCHANGED todo
      /\ \A u \in Threads \ {t} : ~Holding(u)
      /\ t \notin Range(waitQueue)
  <2>1. pc[t] = "append" /\ Holding(t) /\ UNCHANGED todo
    BY Zenon DEF AppendItem, Holding
  <2>2. t \in Appenders /\ item[t] = t /\ todo[t] > 0
    BY Zenon, <2>1 DEF IInv, PointsInv
  <2>3. todo[t] \in Nat /\ todo[t] <= Calls
    BY Zenon, <2>2 DEF IInv, ListType, CallsInv
  <2>4. \A u \in Threads \ {t} : ~Holding(u)
    BY Zenon, <2>1 DEF IInv, LockInv
  <2>5. t \notin Range(waitQueue)
    BY Zenon, <2>1 DEF IInv, LockInv
  <2>6. QED
    BY <2>1, <2>2, <2>3, <2>4, <2>5
<1>2. list' = Append(list, t) /\ item' = [item EXCEPT ![t] = NoItem]
  BY Zenon, <1>1 DEF AppendItem
<1>3. PICK q \in {"release", "return"} :
        /\ pc' = [pc EXCEPT ![t] = q]
        /\ waitQueue # << >> => /\ q = "release" /\ waitQueue' = Tail(waitQueue)
                                /\ V(Head(waitQueue))
        /\ waitQueue = << >> => q = "return" /\ waitQueue' = << >> /\ V(Lock)
  BY Zenon DEF AppendItem, Goto
<1>4. /\ \A u \in Threads \ {t} : pc'[u] = pc[u] /\ todo'[u] = todo[u]
      /\ pc'[t] = q /\ todo'[t] = todo[t]
  BY Zenon, <1>1, <1>3 DEF IInv, ListType
<1>5. waitQueue' \in Seq(Removers) /\ list \in Seq(Appenders) /\ waitQueue \in Seq(Removers)
  <2>1. list \in Seq(Appenders) /\ waitQueue \in Seq(Removers)
    BY Zenon DEF IInv, ListType
  <2>2. CASE waitQueue = << >>
    BY Zenon, <1>3, <2>1, <2>2
  <2>3. CASE waitQueue # << >>
    BY <1>3, <2>1, <2>3
  <2>4. QED
    BY Zenon, <2>1, <2>2, <2>3
<1>6. ListType'
  BY <1>1, <1>2, <1>3, <1>5 DEF IInv, ListType, Points
<1>7. PointsInv'
  BY Zenon, <1>1, <1>2, <1>3, Constants DEF IInv, ListType, PointsInv
<1>8. CallsInv'
  <2> DEFINE p == <<t, todo[t]>>
  <2>1. p \notin Appended /\ p \in Appenders \X (1 .. Calls)
    BY <1>1, Constants DEF Appended
  <2>2. Appended' = Appended \union {p}
    <3>1. ASSUME NEW x \in Appenders \X (1 .. Calls)
          PROVE  x \in Appended' <=> x \in Appended \/ x = p
      <4>1. x = <<x[1], x[2]>> /\ x[1] \in Threads /\ x[2] \in Nat
        BY Constants
      <4>2. CASE x[1] = t
        <5>1. x = p <=> x[2] = todo[t]
          BY <4>1, <4>2
        <5>2. x \in Appended' <=> x[2] > todo[t] \/ x[2] = todo[t]
          BY Zenon, <1>1, <1>3, <1>4, <4>2 DEF Appended
        <5>3. x \in Appended <=> x[2] > todo[t]
          BY Zenon, <1>1, <4>2 DEF Appended
        <5>4. QED
          BY Zenon, <5>1, <5>2, <5>3
      <4>3. CASE x[1] # t
        BY <1>1, <1>4, <4>1, <4>3 DEF Appended
      <4>4. QED
        BY Zenon, <4>2, <4>3
    <3>2. QED
      BY Zenon, <2>1, <3>1 DEF Appended
  <2>3. Removed' = Removed
    <3>1. ASSUME NEW x \in Removers \X (1 .. RemoverCalls)
          PROVE  x[1] \in Threads \ {t}
      BY Zenon, <1>1, Constants
    <3>2. QED
      BY Zenon, <1>1, <1>4, <3>1 DEF Removed
  <2>4. Cardinality(Appended') = Cardinality(Appended) + 1
    BY ZenonT(30), <2>1, <2>2, PairsFinite, CountAdd
  <2>5. Len(list') = Len(list) + 1 /\ Len(list) \in Nat
    BY <1>2, <1>5
  <2>6. QED
    BY <1>1, <2>3, <2>4, <2>5, PairsFinite, RemovedFinite DEF IInv, CallsInv
<1>9. CASE waitQueue # << >>
  <2> DEFINE h == Head(waitQueue)
  <2>1. /\ h \in Range(waitQueue) /\ Range(waitQueue') = Range(waitQueue) \ {h}
        /\ Distinct(waitQueue')
    BY ZenonT(30), <1>3, <1>5, <1>9, TailDistinct DEF IInv, LockInv
  <2>2. /\ h \in Removers /\ h \in Threads /\ h \in Sems /\ h # Lock /\ h # t
        /\ pc[h] = "wait" /\ sem[h].value = 0
    BY <1>1, <1>5, <1>9, <2>1, Constants DEF IInv, LockInv
  <2>3. /\ PlacedInv' /\ WakeInv'
        /\ sem'[h].value = sem[h].value + 1
        /\ \A r \in Sems \ {h} : sem'[r].value = sem[r].value
    BY ZenonT(30), <1>1, <1>3, <1>9, <2>2, HolderV
  <2>4. LockInv'
    <3>1. \A u \in Threads : Holding(u)' <=> u = t
      BY Zenon, <1>1, <1>3, <1>4, <1>9 DEF Holding
    <3>2. sem'[Lock].value = 0
      BY ZenonT(60), <1>1, <2>2, <2>3, Constants DEF IInv, LockInv
    <3>3. ASSUME NEW u \in Threads
          PROVE  sem'[u].value = IF pc'[u] = "wait" /\ u \notin Range(waitQueue') THEN 1 ELSE 0
      <4>1. CASE u = h
        BY <1>4, <2>1, <2>2, <2>3, <4>1
      <4>2. CASE u # h
        <5>1. sem'[u].value = sem[u].value
          BY Zenon, <2>3, <4>2, Constants
        <5>2. u \in Range(waitQueue') <=> u \in Range(waitQueue)
          BY Zenon, <2>1, <4>2
        <5>3. pc'[u] = "wait" <=> pc[u] = "wait"
          BY Zenon, <1>1, <1>3, <1>4
        <5>4. QED
          BY ZenonT(60), <5>1, <5>2, <5>3 DEF IInv, LockInv
      <4>3. QED
        BY Zenon, <4>1, <4>2
    <3>4. \A u \in Range(waitQueue') : pc'[u] = "wait"
      <4>1. \A u \in Range(waitQueue) : u \in Threads
        BY <1>5, Constants DEF Range
      <4>2. QED
        BY Zenon, <1>1, <1>4, <2>1, <4>1 DEF IInv, LockInv
    <3>5. QED
      BY Zenon, <2>1, <3>1, <3>2, <3>3, <3>4 DEF LockInv
  <2>5. SignalInv'
    <3>1. Signalled' = Signalled \union {h} /\ h \notin Signalled
      BY ZenonT(60), <1>1, <1>4, <2>1, <2>2, Constants DEF Signalled
    <3>2. Cardinality(Signalled') = Cardinality(Signalled) + 1
      BY ZenonT(30), <3>1, SignalledFinite, CountAdd
    <3>3. Len(list') = Len(list) + 1 /\ Len(list) \in Nat
      BY <1>2, <1>5
    <3>4. QED
      BY <1>9, <3>2, <3>3, SignalledFinite DEF IInv, SignalInv
  <2>6. QED
    BY Zenon, <1>6, <1>7, <1>8, <2>3, <2>4, <2>5 DEF IInv
<1>10. CASE waitQueue = << >>
  <2>1. /\ PlacedInv' /\ WakeInv'
        /\ sem'[Lock].value = sem[Lock].value + 1
        /\ \A r \in Sems \ {Lock} : sem'[r].value = sem[r].value
    <3>1. Lock \in Sems /\ V(Lock) /\ pc' = [pc EXCEPT ![t] = "return"]
      BY Zenon, <1>3, <1>10, Constants
    <3>2. QED
      BY ZenonT(30), <1>1, <3>1, HolderV
  <2>2. LockInv'
    <3>1. \A u \in Threads : ~Holding(u)'
      BY Zenon, <1>1, <1>3, <1>4, <1>10 DEF Holding
    <3>2. sem'[Lock].value = 1
      BY <1>1, <2>1 DEF IInv, LockInv
    <3>3. \A u \in Threads : sem'[u].value = sem[u].value
      BY Zenon, <2>1, Constants
    <3>4. \A u \in Threads : pc'[u] = "wait" <=> pc[u] = "wait"
      BY Zenon, <1>1, <1>3, <1>4
    <3>5. waitQueue' = waitQueue /\ Range(waitQueue) = {}
      BY <1>3, <1>10 DEF Range
    <3>6. QED
      BY Zenon, <3>1, <3>2, <3>3, <3>4, <3>5 DEF IInv, LockInv
  <2>3. SignalInv'
    BY Zenon, <1>3, <1>10 DEF SignalInv
  <2>4. QED
    BY Zenon, <1>6, <1>7, <1>8, <2>1, <2>2, <2>3 DEF IInv
<1>11. QED
  BY Zenon, <1>9, <1>10

(* Lock::Release after a Signal. *)
LEMMA ReleaseKeeps ==
  ASSUME CountingFacts, IInv, NEW t \in Threads, Running(t), Release(t)
  PROVE  IInv'
<1>1. /\ pc[t] = "release" /\ Holding(t) /\ V(Lock) /\ Lock \in Sems
      /\ pc' = [pc EXCEPT ![t] = "return"] /\ UNCHANGED <<list, waitQueue, todo, item>>
  BY Zenon, Constants DEF Release, Goto, Holding
<1>2. /\ \A u \in Threads \ {t} : pc'[u] = pc[u] /\ ~Holding(u)
      /\ pc'[t] = "return" /\ t \in Appenders
  BY ZenonT(60), <1>1 DEF IInv, ListType, PointsInv, LockInv
<1>3. ListType'
  BY Zenon, <1>1 DEF IInv, ListType, Points
<1>4. PointsInv'
  BY Zenon, <1>1, <1>2, Constants DEF IInv, ListType, PointsInv
<1>5. /\ PlacedInv' /\ WakeInv'
      /\ sem'[Lock].value = sem[Lock].value + 1
      /\ \A r \in Sems \ {Lock} : sem'[r].value = sem[r].value
  BY ZenonT(30), <1>1, HolderV
<1>6. LockInv'
  <2>1. \A u \in Threads : ~Holding(u)'
    BY Zenon, <1>2 DEF Holding
  <2>2. sem'[Lock].value = 1
    BY <1>1, <1>5 DEF IInv, LockInv
  <2>3. \A u \in Threads : sem'[u].value = sem[u].value
    BY Zenon, <1>5, Constants
  <2>4. \A u \in Threads : pc'[u] = "wait" <=> pc[u] = "wait"
    BY Zenon, <1>1, <1>2
  <2>5. \A u \in Range(waitQueue) : u \in Threads
    BY Constants DEF IInv, ListType, Range
  <2>6. QED
    BY ZenonT(60), <1>1, <2>1, <2>2, <2>3, <2>4, <2>5 DEF IInv, LockInv
<1>7. SignalInv'
  <2>1. Signalled \subseteq Signalled'
    BY Zenon, <1>1, <1>2, Constants DEF Signalled
  <2>2. QED
    BY Zenon, <1>1, <2>1, SameSignals
<1>8. CallsInv'
  <2>1. "return" \in Points /\ t \notin Removers
    BY Zenon, <1>2, Constants DEF Points
  <2>2. QED
    BY ZenonT(30), <1>1, <2>1, SameCalls
<1>9. QED
  BY Zenon, <1>3, <1>4, <1>5, <1>6, <1>7, <1>8 DEF IInv

(* SynchList::RemoveFront with the lock taken. *)
LEMMA RemoveItemKeeps ==
  ASSUME CountingFacts, IInv, NEW t \in Threads, Running(t), RemoveItem(t)
  PROVE  IInv'
<1>1. /\ pc[t] = "remove" /\ Holding(t) /\ V(Lock) /\ Lock \in Sems /\ UNCHANGED todo
  BY Zenon, Constants DEF RemoveItem, Holding
<1>2. /\ t \in Removers /\ t \notin Appenders /\ item[t] = NoItem
      /\ todo[t] \in Nat \ {0} /\ todo[t] <= RemoverCalls
  <2>1. t \in Removers /\ item[t] = NoItem /\ todo[t] > 0
    BY Zenon, <1>1 DEF IInv, PointsInv
  <2>2. QED
    BY <2>1, Constants DEF IInv, ListType, CallsInv
<1>3. \A u \in Threads \ {t} : ~Holding(u)
  BY Zenon, <1>1 DEF IInv, LockInv
<1>4. t \notin Range(waitQueue) /\ sem[t].value = 0
  BY Zenon, <1>1 DEF IInv, LockInv
<1>5. \A u \in Range(waitQueue) : u \in Threads
  BY Constants DEF IInv, ListType, Range
<1>6. list \in Seq(Appenders) /\ Len(list) \in Nat /\ waitQueue \in Seq(Removers)
  BY DEF IInv, ListType
<1>7. ASSUME NEW q \in {"return", "wait"}, pc' = [pc EXCEPT ![t] = q]
      PROVE  /\ PlacedInv' /\ WakeInv'
             /\ sem'[Lock].value = 1 /\ \A u \in Threads : sem'[u].value = sem[u].value
             /\ \A u \in Threads : ~Holding(u)'
             /\ \A u \in Threads \ {t} : pc'[u] = pc[u]
             /\ pc'[t] = q
  <2>1. /\ PlacedInv' /\ WakeInv'
        /\ sem'[Lock].value = sem[Lock].value + 1
        /\ \A r \in Sems \ {Lock} : sem'[r].value = sem[r].value
    BY ZenonT(30), <1>1, <1>7, HolderV
  <2>2. sem[Lock].value = 0
    BY Zenon, <1>1 DEF IInv, LockInv
  <2>3. \A u \in Threads : sem'[u].value = sem[u].value
    BY Zenon, <2>1, Constants
  <2>4. \A u \in Threads \ {t} : pc'[u] = pc[u]
    BY Zenon, <1>7 DEF IInv, ListType
  <2>5. pc'[t] = q
    BY Zenon, <1>7 DEF IInv, ListType
  <2>6. \A u \in Threads : ~Holding(u)'
    BY Zenon, <1>3, <1>7, <2>4, <2>5 DEF Holding
  <2>7. QED
    BY <2>1, <2>2, <2>3, <2>4, <2>5, <2>6
<1>8. CASE list # << >>
  <2>1. /\ item' = [item EXCEPT ![t] = Head(list)] /\ list' = Tail(list)
        /\ pc' = [pc EXCEPT ![t] = "return"] /\ UNCHANGED waitQueue
    BY Zenon, <1>8 DEF RemoveItem, Goto
  <2>2. /\ PlacedInv' /\ WakeInv'
        /\ sem'[Lock].value = 1 /\ \A u \in Threads : sem'[u].value = sem[u].value
        /\ \A u \in Threads : ~Holding(u)'
        /\ \A u \in Threads \ {t} : pc'[u] = pc[u]
        /\ pc'[t] = "return"
    BY Zenon, <1>7, <2>1
  <2>3. Head(list) \in Appenders /\ Tail(list) \in Seq(Appenders) /\ Len(list') = Len(list) - 1
    BY <1>6, <1>8, <2>1
  <2>4. ListType'
    BY Zenon, <1>1, <2>1, <2>3 DEF IInv, ListType, Points
  <2>5. PointsInv'
    BY Zenon, <1>1, <1>2, <2>1, <2>2, Constants DEF IInv, ListType, PointsInv
  <2>6. LockInv'
    <3>1. \A u \in Threads : pc'[u] = "wait" <=> pc[u] = "wait"
      BY ZenonT(60), <1>1, <2>2
    <3>2. QED
      BY <1>5, <2>1, <2>2, <3>1 DEF IInv, LockInv
  <2>7. SignalInv'
    <3>1. Signalled' = Signalled \ {t} /\ t \in Signalled
      BY Zenon, <1>1, <1>2, <2>1, <2>2, Constants DEF Signalled
    <3>2. Cardinality(Signalled') = Cardinality(Signalled) - 1
      BY <3>1, SignalledFinite, CountRemove
    <3>3. QED
      BY <1>6, <2>1, <2>3, <3>2, SignalledFinite DEF IInv, SignalInv
  <2>8. CallsInv'
    <3> DEFINE p == <<t, todo[t]>>
    <3>1. RemoverCalls \in Nat
      BY Zenon, <1>2, Supply
    <3>2. p \notin Removed /\ p \in Removers \X (1 .. RemoverCalls)
      BY <1>1, <1>2, <3>1 DEF Removed
    <3>3. Removed' = Removed \union {p}
      <4>1. ASSUME NEW x \in Removers \X (1 .. RemoverCalls)
            PROVE  x \in Removed' <=> x \in Removed \/ x = p
        <5>1. x = <<x[1], x[2]>> /\ x[1] \in Threads /\ x[2] \in Nat
          BY <3>1, Constants
        <5>2. CASE x[1] = t
          <6>1. x = p <=> x[2] = todo[t]
            BY <5>1, <5>2
          <6>2. x \in Removed' <=> x[2] > todo[t] \/ x[2] = todo[t]
            BY Zenon, <1>1, <2>2, <5>2 DEF Removed
          <6>3. x \in Removed <=> x[2] > todo[t]
            BY Zenon, <1>1, <5>2 DEF Removed
          <6>4. QED
            BY Zenon, <6>1, <6>2, <6>3
        <5>3. CASE x[1] # t
          BY <1>1, <2>2, <5>1, <5>3 DEF Removed
        <5>4. QED
          BY Zenon, <5>2, <5>3
      <4>2. QED
        BY Zenon, <3>2, <4>1 DEF Removed
    <3>4. Appended' = Appended
      <4>1. ASSUME NEW x \in Appenders \X (1 .. Calls)
            PROVE  x[1] \in Threads \ {t}
        BY Zenon, <1>2, Constants
      <4>2. QED
        BY Zenon, <1>1, <2>2, <4>1 DEF Appended
    <3>5. Cardinality(Removed') = Cardinality(Removed) + 1
      BY ZenonT(30), <3>2, <3>3, RemovedFinite, CountAdd
    <3>6. QED
      BY <1>1, <1>6, <2>3, <3>4, <3>5, RemovedFinite DEF IInv, CallsInv
  <2>9. QED
    BY Zenon, <2>2, <2>4, <2>5, <2>6, <2>7, <2>8 DEF IInv
<1>9. CASE list = << >>
  <2>1. /\ waitQueue' = Append(waitQueue, t) /\ pc' = [pc EXCEPT ![t] = "wait"]
        /\ UNCHANGED <<list, item>>
    BY Zenon, <1>9 DEF RemoveItem, Goto
  <2>2. /\ PlacedInv' /\ WakeInv'
        /\ sem'[Lock].value = 1 /\ \A u \in Threads : sem'[u].value = sem[u].value
        /\ \A u \in Threads : ~Holding(u)'
        /\ \A u \in Threads \ {t} : pc'[u] = pc[u]
        /\ pc'[t] = "wait"
    BY ZenonT(60), <1>7, <2>1
  <2>3. ListType'
    BY <1>1, <1>2, <2>1 DEF IInv, ListType, Points
  <2>4. PointsInv'
    BY <1>1, <1>2, <2>1, <2>2, Constants DEF IInv, ListType, PointsInv
  <2>5. Range(waitQueue') = Range(waitQueue) \union {t} /\ Distinct(waitQueue')
    BY <1>2, <1>4, <1>6, <2>1, AppendDistinct DEF IInv, LockInv
  <2>6. LockInv'
    BY ZenonT(30), <1>4, <1>5, <2>2, <2>5 DEF IInv, LockInv
  <2>7. SignalInv'
    <3>1. Signalled' \subseteq Removers
      BY Zenon DEF Signalled
    <3>2. Cardinality(Signalled') \in Nat
      BY <3>1, FiniteThreads, CountSubset, CountNat
    <3>3. Len(list') = 0
      BY Zenon, <1>9, <2>1
    <3>4. QED
      BY <3>2, <3>3 DEF SignalInv
  <2>8. CallsInv'
    <3>1. "wait" \in Points
      BY Zenon DEF Points
    <3>2. QED
      BY ZenonT(30), <1>1, <1>2, <2>1, <3>1, SameCalls
  <2>9. QED
    BY Zenon, <2>2, <2>3, <2>4, <2>6, <2>7, <2>8 DEF IInv
<1>10. QED
  BY Zenon, <1>8, <1>9

(* Condition::Wait in waiter->P(). *)
LEMMA WaitKeeps ==
  ASSUME CountingFacts, IInv, NEW t \in Threads, Running(t), Wait(t)
  PROVE  IInv'
<1>1. /\ machine = "system" /\ currentThread = t
      /\ Lock \in Sems /\ t \in Sems /\ t # Lock
      /\ t \in Awake /\ t \notin Created /\ t \notin Ended
      /\ \A s \in Sems : t \notin Sleepers(s)
  BY Zenon, RunningThread
<1>2. /\ pc[t] = "wait" /\ t \in Removers /\ t # Main
      /\ UNCHANGED <<lockHolder, list, waitQueue, todo, item>>
  BY ZenonT(60), Constants DEF Wait, IInv, PointsInv
<1>3. \A u \in Range(waitQueue) : u \in Threads
  BY Constants DEF IInv, ListType, Range
<1>4. \A r \in Sems : Sleepers(r) \subseteq Threads /\ Awake \subseteq Threads
  BY WhereThreadsAre DEF IInv, Blocked, Awake
<1>5. CASE PTake(t) /\ Goto(t, "reacquire")
  <2>1. /\ PlacedInv' /\ SameStates
        /\ sem[t].value > 0 /\ sem'[t].value = sem[t].value - 1
        /\ \A r \in Sems \ {t} : sem'[r].value = sem[r].value
        /\ \A r \in Sems : Sleepers(r)' = Sleepers(r)
        /\ UNCHANGED schedvars
    BY ZenonT(30), <1>1, <1>5, PTakeStep DEF IInv, PTake
  <2>2. pc' = [pc EXCEPT ![t] = "reacquire"]
    BY Zenon, <1>5 DEF Goto
  <2>3. /\ \A u \in Threads \ {t} : pc'[u] = pc[u]
        /\ pc'[t] = "reacquire"
    BY Zenon, <2>2 DEF IInv, ListType
  <2>4. t \notin Range(waitQueue) /\ sem'[t].value = 0
    BY <2>1 DEF IInv, LockInv
  <2>5. ListType'
    BY Zenon, <1>2, <2>2 DEF IInv, ListType, Points
  <2>6. PointsInv'
    BY <1>2, <2>3, Constants DEF IInv, PointsInv
  <2>7. LockInv'
    <3>1. \A u \in Threads : Holding(u)' <=> Holding(u)
      BY ZenonT(60), <1>2, <2>3 DEF Holding
    <3>2. sem'[Lock].value = sem[Lock].value
      BY Zenon, <1>1, <2>1
    <3>3. \A u \in Threads \ {t} : sem'[u].value = sem[u].value
      BY Zenon, <2>1, Constants
    <3>4. QED
      BY Zenon, <1>2, <1>3, <2>3, <2>4, <3>1, <3>2, <3>3 DEF IInv, LockInv
  <2>8. SignalInv'
    <3>1. Signalled \subseteq Signalled'
      BY Zenon, <1>2, <2>3, Constants DEF Signalled
    <3>2. QED
      BY Zenon, <1>2, <3>1, SameSignals
  <2>9. CallsInv'
    <3>1. "reacquire" \in Points
      BY ZenonT(60) DEF Points
    <3>2. QED
      BY ZenonT(30), <1>2, <2>2, <3>1, SameCalls
  <2>10. WakeInv'
    <3>1. ASSUME NEW s \in Sems, NEW u \in Sleepers(s)' PROVE At(u, s)'
      <4>1. u \in Sleepers(s) /\ At(u, s) /\ u # t /\ u \in Threads
        BY ZenonT(30), <1>1, <1>4, <2>1 DEF IInv, WakeInv
      <4>2. QED
        BY Zenon, <1>2, <2>3, <4>1 DEF At
    <3>2. ASSUME NEW s \in Sems, sem'[s].value > 0, Sleepers(s)' # {}
          PROVE  \E u \in Awake' : At(u, s)'
      <4>1. s # t
        BY <2>4, <3>2
      <4>2. PICK u \in Awake : At(u, s)
        BY ZenonT(30), <2>1, <3>2, <4>1 DEF IInv, WakeInv
      <4>3. u # t /\ u \in Threads
        BY Zenon, <1>2, <1>4, <4>1, <4>2 DEF At
      <4>4. At(u, s)' /\ u \in Awake'
        BY Zenon, <1>2, <2>1, <2>3, <4>2, <4>3 DEF At, SameStates
      <4>5. QED
        BY Zenon, <4>4
    <3>3. QED
      BY <1>1, <1>2, <2>1, <2>3, <3>1, <3>2, Constants
         DEF IInv, WakeInv, SameStates, schedvars, Created, Ended
  <2>11. QED
    BY Zenon, <2>1, <2>5, <2>6, <2>7, <2>8, <2>9, <2>10 DEF IInv
<1>6. CASE PSleep(t) /\ UNCHANGED pc
  <2>1. /\ PlacedInv'
        /\ Created' = Created /\ Awake' = Awake \ {t} /\ Ended' = Ended
        /\ sem[t].value = 0 /\ \A r \in Sems : sem'[r].value = sem[r].value
        /\ Sleepers(t)' = Sleepers(t) \union {t}
        /\ \A r \in Sems \ {t} : Sleepers(r)' = Sleepers(r)
    BY ZenonT(60), <1>1, <1>6, PSleepStep DEF IInv
  <2>2. ListType' /\ PointsInv'
    BY Zenon, <1>2, <1>6 DEF IInv, ListType, PointsInv
  <2>3. LockInv'
    <3>1. \A u \in Threads : sem'[u].value = sem[u].value
      BY Zenon, <2>1, Constants
    <3>2. QED
      BY Zenon, <1>1, <1>2, <1>6, <2>1, <3>1 DEF IInv, LockInv, Holding
  <2>4. SignalInv' /\ CallsInv'
    BY ZenonT(60), <1>2, <1>6 DEF IInv, SignalInv, Signalled, CallsInv, Appended, Removed
  <2>5. machine' # "halted"
    BY Zenon, <1>6 DEF PSleep, Sleep, Run
  <2>6. WakeInv'
    <3>1. ASSUME NEW s \in Sems, NEW u \in Sleepers(s)' PROVE At(u, s)'
      BY <1>1, <1>2, <1>6, <2>1 DEF IInv, WakeInv, At
    <3>2. ASSUME NEW s \in Sems, sem'[s].value > 0, Sleepers(s)' # {}
          PROVE  \E u \in Awake' : At(u, s)'
      <4>1. s # t
        BY <2>1, <3>2
      <4>2. PICK u \in Awake : At(u, s)
        BY ZenonT(60), <2>1, <3>2, <4>1 DEF IInv, WakeInv
      <4>3. u # t
        BY Zenon, <1>2, <4>1, <4>2 DEF At
      <4>4. QED
        BY ZenonT(60), <1>2, <1>6, <2>1, <4>2, <4>3 DEF At
    <3>3. QED
      BY ZenonT(60), <1>2, <1>6, <2>1, <2>5, <3>1, <3>2 DEF IInv, WakeInv
  <2>7. QED
    BY Zenon, <2>1, <2>2, <2>3, <2>4, <2>6 DEF IInv
<1>7. QED
  BY Zenon, <1>5, <1>6 DEF Wait

(* The points of a thread outside its call. *)
LEMMA ReturnKeeps ==
  ASSUME CountingFacts, IInv, NEW t \in Threads, Running(t), Return(t)
  PROVE  IInv'
<1>1. /\ machine = "system" /\ currentThread = t
      /\ t \in Awake /\ t \notin Created /\ t \notin Ended
      /\ \A s \in Sems : t \notin Sleepers(s)
  BY Zenon, RunningThread
<1>2. /\ pc[t] = "return" /\ pc' = [pc EXCEPT ![t] = "acquire"]
      /\ todo' = [todo EXCEPT ![t] = todo[t] - 1]
      /\ item' = [item EXCEPT ![t] = NoItem]
      /\ UNCHANGED <<synchvars, list, waitQueue>>
  BY Zenon DEF Return, Goto
<1>3. /\ todo[t] \in Nat \ {0} /\ t # Main
      /\ \A u \in Threads \ {t} : pc'[u] = pc[u] /\ todo'[u] = todo[u] /\ item'[u] = item[u]
      /\ pc'[t] = "acquire" /\ todo'[t] = todo[t] - 1 /\ item'[t] = NoItem
  <2>1. todo[t] \in Nat /\ todo[t] > 0 /\ t # Main
    BY ZenonT(30), <1>2 DEF IInv, ListType, PointsInv
  <2>2. /\ \A u \in Threads \ {t} : pc'[u] = pc[u] /\ todo'[u] = todo[u] /\ item'[u] = item[u]
        /\ pc'[t] = "acquire" /\ todo'[t] = todo[t] - 1 /\ item'[t] = NoItem
    BY Zenon, <1>2 DEF IInv, ListType
  <2>3. QED
    BY <2>1, <2>2
<1>4. PlacedInv' /\ SameStates /\ SameSems
  BY Zenon, <1>2, SchedKeeps DEF IInv, synchvars, SameSems, Sleepers
<1>5. ListType'
  <2>1. pc' \in [Threads -> Points]
    BY Zenon, <1>2 DEF IInv, ListType, Points
  <2>2. todo' \in [Threads -> Nat]
    BY <1>2, <1>3 DEF IInv, ListType
  <2>3. item' \in [Threads -> Appenders \union {NoItem}]
    BY Zenon, <1>2 DEF IInv, ListType
  <2>4. QED
    BY ZenonT(60), <1>2, <2>1, <2>2, <2>3 DEF IInv, ListType
<1>6. PointsInv'
  BY <1>2, <1>3, Constants DEF IInv, PointsInv
<1>7. LockInv'
  <2>1. \A u \in Threads : Holding(u)' <=> Holding(u)
    BY Zenon, <1>2, <1>3 DEF Holding
  <2>2. \A u \in Threads : pc'[u] = "wait" <=> pc[u] = "wait"
    BY Zenon, <1>2, <1>3
  <2>3. \A u \in Range(waitQueue) : u \in Threads
    BY Constants DEF IInv, ListType, Range
  <2>4. QED
    BY ZenonT(60), <1>2, <2>1, <2>2, <2>3 DEF IInv, LockInv, synchvars
<1>8. SignalInv'
  <2>1. Signalled \subseteq Signalled'
    BY ZenonT(60), <1>2, <1>3, Constants DEF Signalled
  <2>2. QED
    BY Zenon, <1>2, <2>1, SameSignals
<1>9. CallsInv'
  <2>1. Appended' = Appended
    <3>1. ASSUME NEW p \in Appenders \X (1 .. Calls)
          PROVE  p \in Appended' <=> p \in Appended
      <4>1. p[1] \in Threads /\ p[2] \in Nat /\ todo[p[1]] \in Nat
        BY Constants DEF IInv, ListType
      <4>2. QED
        BY <1>2, <1>3, <4>1 DEF Appended
    <3>2. QED
      BY Zenon, <3>1 DEF Appended
  <2>2. Removed' = Removed
    <3>1. ASSUME NEW p \in Removers \X (1 .. RemoverCalls)
          PROVE  p \in Removed' <=> p \in Removed
      <4>1. p[1] \in Threads /\ p[2] \in Nat /\ todo[p[1]] \in Nat
        BY Supply, Constants DEF IInv, ListType
      <4>2. QED
        BY <1>2, <1>3, <4>1 DEF Removed
    <3>2. QED
      BY Zenon, <3>1 DEF Removed
  <2>3. /\ \A u \in Appenders : todo'[u] <= Calls
        /\ \A u \in Removers : todo'[u] <= RemoverCalls
    <3>1. \A u \in Removers : RemoverCalls \in Nat
      BY Zenon, Supply
    <3>2. \A u \in Threads : todo[u] \in Nat /\ todo'[u] \in Nat /\ todo'[u] <= todo[u]
      BY <1>3 DEF IInv, ListType
    <3>3. \A u \in Appenders : todo[u] <= Calls
      BY Zenon DEF IInv, CallsInv
    <3>4. \A u \in Removers : todo[u] <= RemoverCalls
      BY Zenon DEF IInv, CallsInv
    <3>5. Calls \in Nat /\ Appenders \subseteq Threads /\ Removers \subseteq Threads
      BY Zenon, Constants
    <3>6. ASSUME NEW u \in Appenders PROVE todo'[u] <= Calls
      BY <3>2, <3>3, <3>5
    <3>7. ASSUME NEW u \in Removers PROVE todo'[u] <= RemoverCalls
      BY <3>1, <3>2, <3>4, <3>5
    <3>8. QED
      BY Zenon, <3>6, <3>7
  <2>4. QED
    BY Zenon, <1>2, <2>1, <2>2, <2>3 DEF IInv, CallsInv
<1>10. WakeInv'
  <2>1. \A r \in Sems : Sleepers(r) \subseteq Threads \ {t} /\ Awake \subseteq Threads
    BY <1>1, WhereThreadsAre DEF IInv, Blocked, Awake
  <2>2. ASSUME NEW s \in Sems, NEW u \in Sleepers(s)' PROVE At(u, s)'
    <3>1. u \in Sleepers(s) /\ At(u, s) /\ u \in Threads \ {t}
      BY ZenonT(60), <1>4, <2>1 DEF IInv, WakeInv, SameSems
    <3>2. QED
      BY ZenonT(60), <1>3, <3>1 DEF At
  <2>3. ASSUME NEW s \in Sems, sem'[s].value > 0, Sleepers(s)' # {}
        PROVE  \E u \in Awake' : At(u, s)'
    <3>1. PICK u \in Awake : At(u, s)
      BY Zenon, <1>4, <2>3 DEF IInv, WakeInv, SameSems
    <3>2. u \in Threads \ {t}
      BY Zenon, <1>2, <2>1, <3>1 DEF At
    <3>3. At(u, s)' /\ u \in Awake'
      BY Zenon, <1>3, <1>4, <3>1, <3>2 DEF At, SameStates
    <3>4. QED
      BY Zenon, <3>3
  <2>4. /\ Created' = Created /\ Ended' = Ended /\ UNCHANGED <<machine, readyList>>
        /\ Created \subseteq Threads \ {t} /\ Ended \subseteq Threads \ {t} /\ Main \in Threads \ {t}
    BY Zenon, <1>1, <1>2, <1>3, <1>4, Constants DEF SameStates, synchvars, schedvars, Created, Ended
  <2>5. /\ \A u \in Created' : pc'[u] = "acquire"
        /\ \A u \in Ended' : pc'[u] = "finished"
    BY ZenonT(30), <1>3, <2>4 DEF IInv, WakeInv
  <2>6. \A u \in Threads : pc'[u] = "finished" => todo'[u] = 0
    BY ZenonT(30), <1>3 DEF IInv, WakeInv
  <2>7. /\ pc'[Main] = "finished" => Created' = {}
        /\ machine' = "halted" => readyList' = << >>
    BY ZenonT(60), <1>3, <2>4 DEF IInv, WakeInv
  <2>8. QED
    BY <2>2, <2>3, <2>5, <2>6, <2>7, Zenon DEF WakeInv
<1>11. QED
  BY Zenon, <1>4, <1>5, <1>6, <1>7, <1>8, <1>9, <1>10 DEF IInv

\* The inductive invariant when main forks a caller of the list.
LEMMA ForkAllKeeps ==
  ASSUME CountingFacts, IInv, NEW t \in Threads, Running(t), ForkAll(t)
  PROVE  IInv'
<1>1. PICK u \in Threads : Fork(u)
  BY Zenon DEF ForkAll
<1>2. /\ UNCHANGED <<sem, lockHolder, list, waitQueue, pc, todo, item>>
      /\ machine' = machine /\ machine = "system"
  BY Zenon, <1>1 DEF ForkAll, listvars, Fork, Running
<1>3. /\ PlacedInv' /\ SameSems
      /\ Created' = Created \ {u} /\ Awake' = Awake \union {u} /\ Ended' = Ended
  BY Zenon, <1>1, <1>2, ForkKeeps DEF IInv, SameSems, Sleepers
<1>4. ListType' /\ PointsInv' /\ LockInv'
  BY Zenon, <1>2 DEF IInv, ListType, PointsInv, LockInv, Holding
<1>5. SignalInv' /\ CallsInv'
  BY ZenonT(30), <1>2 DEF IInv, SignalInv, Signalled, CallsInv, Appended, Removed
<1>6. WakeInv'
  <2>1. \A s, v : At(v, s)' <=> At(v, s)
    BY Zenon, <1>2 DEF At
  <2>2. \A s \in Sems : \A v \in Sleepers(s)' : At(v, s)'
    BY ZenonT(60), <1>3, <2>1 DEF IInv, WakeInv, SameSems
  <2>3. ASSUME NEW s \in Sems, sem'[s].value > 0, Sleepers(s)' # {}
        PROVE  \E v \in Awake' : At(v, s)'
    <3>1. PICK v \in Awake : At(v, s)
      BY ZenonT(60), <1>3, <2>3 DEF IInv, WakeInv, SameSems
    <3>2. QED
      BY Zenon, <1>3, <2>1, <3>1
  <2>4. /\ \A v \in Created' : pc'[v] = "acquire"
        /\ \A v \in Ended' : pc'[v] = "finished"
        /\ \A v \in Threads : pc'[v] = "finished" => todo'[v] = 0
        /\ pc'[Main] = "finished" => Created' = {}
        /\ machine' # "halted"
    BY ZenonT(60), <1>2, <1>3 DEF IInv, WakeInv
  <2>5. QED
    BY <2>2, <2>3, <2>4, Zenon DEF WakeInv
<1>7. QED
  BY Zenon, <1>3, <1>4, <1>5, <1>6 DEF IInv

\* The inductive invariant at Thread::Finish, which holds no lock any more.
LEMMA FinishesKeeps ==
  ASSUME CountingFacts, IInv, NEW t \in Threads, Running(t), Finish(t)
  PROVE  IInv'
<1>1. /\ machine = "system" /\ currentThread = t
      /\ t \in Awake /\ t \notin Created /\ t \notin Ended
      /\ \A s \in Sems : t \notin Sleepers(s)
  BY Zenon, RunningThread
<1>2. /\ pc' = [pc EXCEPT ![t] = "finished"] /\ Sleep("FINISHED")
      /\ UNCHANGED <<sem, lockHolder, list, waitQueue, todo, item>>
      /\ pc[t] \in {"fork", "acquire"} /\ (pc[t] = "acquire" => todo[t] = 0)
  BY Zenon DEF Finish, Goto
<1>3. /\ \A u \in Threads \ {t} : pc'[u] = pc[u]
      /\ pc'[t] = "finished"
  BY Zenon, <1>2 DEF IInv, ListType
<1>4. t = Main => todo[t] = 0 /\ Created = {}
  BY ZenonT(60), <1>2 DEF Finish, IInv, WakeInv, PointsInv, Created
<1>5. t # Main => todo[t] = 0
  BY ZenonT(60), <1>2 DEF IInv, PointsInv
<1>6. /\ PlacedInv' /\ SameSems
      /\ Created' = Created /\ Awake' = Awake \ {t} /\ Ended' = Ended \union {t}
  BY Zenon, <1>1, <1>2, FinishKeeps DEF IInv, SameSems, Sleepers
<1>7. ListType'
  BY Zenon, <1>2 DEF IInv, ListType, Points
<1>8. PointsInv'
  BY <1>2, <1>3, Constants DEF IInv, PointsInv
<1>9. LockInv'
  <2>1. \A u \in Threads : Holding(u)' <=> Holding(u)
    BY Zenon, <1>2, <1>3 DEF Holding
  <2>2. \A u \in Threads : pc'[u] = "wait" <=> pc[u] = "wait"
    BY Zenon, <1>2, <1>3
  <2>3. \A u \in Range(waitQueue) : u \in Threads
    BY Constants DEF IInv, ListType, Range
  <2>4. QED
    BY ZenonT(30), <1>2, <2>1, <2>2, <2>3 DEF IInv, LockInv
<1>10. SignalInv'
  <2>1. Signalled \subseteq Signalled'
    BY Zenon, <1>2, <1>3, Constants DEF Signalled
  <2>2. QED
    BY Zenon, <1>2, <2>1, SameSignals
<1>11. CallsInv'
  <2>1. "finished" \in Points
    BY Zenon DEF Points
  <2>2. QED
    BY ZenonT(30), <1>2, <2>1, SameCalls
<1>12. machine' # "halted"
  BY Zenon, <1>2 DEF Sleep, Run
<1>13. WakeInv'
  <2>1. \A r \in Sems : Sleepers(r) \subseteq Threads \ {t} /\ Awake \subseteq Threads
    BY <1>1, WhereThreadsAre DEF IInv, Blocked, Awake
  <2>2. ASSUME NEW s \in Sems, NEW u \in Sleepers(s)' PROVE At(u, s)'
    <3>1. u \in Sleepers(s) /\ At(u, s) /\ u \in Threads \ {t}
      BY ZenonT(60), <1>6, <2>1 DEF IInv, WakeInv, SameSems
    <3>2. QED
      BY Zenon, <1>2, <1>3, <3>1 DEF At
  <2>3. ASSUME NEW s \in Sems, sem'[s].value > 0, Sleepers(s)' # {}
        PROVE  \E u \in Awake' : At(u, s)'
    <3>1. PICK u \in Awake : At(u, s)
      BY ZenonT(60), <1>6, <2>3 DEF IInv, WakeInv, SameSems
    <3>2. u \in Threads \ {t}
      BY <1>2, <2>1, <3>1 DEF At
    <3>3. At(u, s)' /\ u \in Awake'
      BY Zenon, <1>2, <1>3, <1>6, <3>1, <3>2 DEF At
    <3>4. QED
      BY Zenon, <3>3
  <2>4. /\ Created \subseteq Threads \ {t} /\ Ended \subseteq Threads \ {t} /\ Main \in Threads
    BY Zenon, <1>1, Constants DEF Created, Ended
  <2>5. /\ \A u \in Created' : pc'[u] = "acquire"
        /\ \A u \in Ended' : pc'[u] = "finished"
    BY ZenonT(60), <1>3, <1>6, <2>4 DEF IInv, WakeInv
  <2>6. \A u \in Threads : pc'[u] = "finished" => todo'[u] = 0
    BY Zenon, <1>2, <1>3, <1>4, <1>5 DEF IInv, WakeInv
  <2>7. /\ pc'[Main] = "finished" => Created' = {}
        /\ machine' = "halted" => readyList' = << >>
    BY ZenonT(60), <1>3, <1>4, <1>6, <1>12, <2>4 DEF IInv, WakeInv
  <2>8. QED
    BY <2>2, <2>3, <2>5, <2>6, <2>7, Zenon DEF WakeInv
<1>14. QED
  BY Zenon, <1>6, <1>7, <1>8, <1>9, <1>10, <1>11, <1>13 DEF IInv

(* Time slices, the idle loop and Halt; and steps that change nothing. *)
LEMMA MachineKeeps ==
  ASSUME CountingFacts, IInv, Machine \/ UNCHANGED vars
  PROVE  IInv'
<1>1. /\ UNCHANGED <<sem, lockHolder, list, waitQueue, pc, todo, item>>
      /\ TimerInterrupt \/ WakeUp \/ Halt(FALSE) \/ UNCHANGED schedvars
  BY ZenonT(30) DEF Machine, listvars, vars, synchvars
<1>2. PlacedInv' /\ SameStates
  BY ZenonT(30), <1>1, SchedKeeps DEF IInv
<1>3. SameSems
  BY Zenon, <1>1 DEF SameSems, Sleepers
<1>4. ListType' /\ PointsInv' /\ LockInv'
  BY ZenonT(30), <1>1 DEF IInv, ListType, PointsInv, LockInv, Holding
<1>5. SignalInv' /\ CallsInv'
  BY ZenonT(30), <1>1 DEF IInv, SignalInv, Signalled, CallsInv, Appended, Removed
<1>6. machine' = "halted" => readyList' = << >>
  <2>1. CASE TimerInterrupt
    BY Zenon, <2>1 DEF TimerInterrupt, Interruptible, Yield, Run
  <2>2. CASE WakeUp
    BY Zenon, <2>2 DEF WakeUp, Run
  <2>3. CASE Halt(FALSE)
    BY Zenon, <2>3 DEF Halt
  <2>4. CASE UNCHANGED schedvars
    BY Zenon, <2>4 DEF schedvars, IInv, WakeInv
  <2>5. QED
    BY ZenonT(30), <1>1, <2>1, <2>2, <2>3, <2>4
<1>7. WakeInv'
  BY <1>1, <1>2, <1>3, <1>6 DEF IInv, WakeInv, At, SameStates, SameSems
<1>8. QED
  BY Zenon, <1>2, <1>4, <1>5, <1>7 DEF IInv

\* Every step of SynchList's callers and of the kernel keeps the invariant.
LEMMA NextKeeps ==
  ASSUME CountingFacts, IInv, [Next]_vars
  PROVE  IInv'
<1>1. ASSUME NEW t \in Threads, Step(t) PROVE IInv'
  BY Zenon, <1>1, ForkAllKeeps, FinishesKeeps, AcquireKeeps, AppendItemKeeps, ReleaseKeeps,
     RemoveItemKeeps, WaitKeeps, ReturnKeeps DEF Step
<1>2. CASE Machine \/ UNCHANGED vars
  BY Zenon, <1>2, MachineKeeps
<1>3. QED
  BY Zenon, <1>1, <1>2 DEF Next

-----------------------------------------------------------------------------
(* The invariant excludes a machine that halts with a caller left waiting:   *)
(* the appenders have supplied everything, so the waiter would have an item  *)
(* coming that nobody else could take.                                       *)
LEMMA HaltsAllDone ==
  ASSUME CountingFacts, IInv, machine = "halted"
  PROVE  \A t \in Threads : pc[t] = "finished"
<1>1. Awake = {}
  BY Zenon, WhereThreadsAre DEF IInv, WakeInv
<1>2. /\ Threads = Created \union Blocked \union Ended
      /\ Blocked = UNION {Sleepers(s) : s \in Sems}
  BY Zenon, <1>1, WhereThreadsAre DEF IInv
<1>3. \A s \in Sems : sem[s].value > 0 => Sleepers(s) = {}
  BY Zenon, <1>1 DEF IInv, WakeInv
<1>4. ASSUME NEW u \in Blocked
      PROVE  pc[u] \in {"acquire", "reacquire", "wait"} /\ todo[u] > 0
  <2>1. PICK s \in Sems : u \in Sleepers(s)
    BY Zenon, <1>2
  <2>2. At(u, s) /\ u \in Threads
    BY ZenonT(60), <2>1 DEF IInv, WakeInv, Blocked
  <2>3. QED
    BY Zenon, <2>2 DEF At, IInv, PointsInv
<1>5. \A u \in Threads : ~Holding(u)
  <2>1. \A u \in Created \union Ended : pc[u] \in {"acquire", "finished"}
    BY Zenon DEF IInv, WakeInv
  <2>2. QED
    BY Zenon, <1>2, <1>4, <2>1 DEF Holding
<1>6. Sleepers(Lock) = {}
  BY <1>3, <1>5, Constants DEF IInv, LockInv
<1>7. ASSUME NEW u \in Blocked PROVE pc[u] = "wait" /\ u \in Range(waitQueue) /\ u \in Removers
  <2>1. PICK s \in Sems : u \in Sleepers(s)
    BY Zenon, <1>2
  <2>2. s # Lock /\ u \in Threads
    BY Zenon, <1>6, <2>1 DEF Blocked
  <2>3. pc[u] = "wait" /\ u = s
    BY Zenon, <2>1, <2>2 DEF IInv, WakeInv, At
  <2>4. sem[u].value # 1
    BY <1>3, <2>1, <2>3
  <2>5. QED
    BY ZenonT(60), <2>2, <2>3, <2>4 DEF IInv, LockInv, PointsInv
<1>8. Created = {}
  <2>1. Main \in Threads /\ pc[Main] \in {"fork", "finished"}
    BY Zenon, Constants DEF IInv, PointsInv
  <2>2. Main \notin Created /\ Main \notin Blocked
    BY ZenonT(60), <1>7, <2>1 DEF IInv, WakeInv
  <2>3. pc[Main] = "finished"
    BY Zenon, <1>2, <2>1, <2>2 DEF IInv, WakeInv
  <2>4. QED
    BY Zenon, <2>3 DEF IInv, WakeInv
<1>9. \A u \in Threads \ Blocked : pc[u] = "finished" /\ todo[u] = 0
  BY Zenon, <1>2, <1>8 DEF IInv, WakeInv
<1>10. ASSUME NEW u \in Blocked PROVE FALSE
  <2>1. Cardinality(Appended) = Cardinality(Appenders) * Calls
    <3>1. \A a \in Appenders : todo[a] = 0
      BY Zenon, <1>7, <1>9, Constants
    <3>2. Appended = Appenders \X (1 .. Calls)
      BY <3>1, Constants DEF Appended
    <3>3. QED
      BY Zenon, <3>2, PairsFinite
  <2>2. Len(list) = 0
    <3>1. Signalled = {}
      BY Zenon, <1>7, <1>9, Constants DEF Signalled
    <3>2. waitQueue # << >>
      BY <1>7, <1>10 DEF Range
    <3>3. Cardinality(Signalled) = 0
      BY <3>1, CountEmpty
    <3>4. Len(list) \in Nat /\ Len(list) <= 0
      BY <3>2, <3>3 DEF IInv, ListType, SignalInv
    <3>5. QED
      BY <3>4
  <2> DEFINE P == Removers \X (1 .. RemoverCalls)
  <2>3. u \in Removers /\ RemoverCalls \in Nat
        /\ Cardinality(Appenders) * Calls = Cardinality(Removers) * RemoverCalls
    BY Zenon, <1>7, <1>10, Supply
  <2>4. IsFiniteSet(P) /\ Cardinality(P) = Cardinality(Removers) * RemoverCalls
    <3>1. IsFiniteSet(1 .. RemoverCalls) /\ Cardinality(1 .. RemoverCalls) = RemoverCalls
      BY <2>3, CountInterval
    <3>2. QED
      BY ZenonT(30), <3>1, FiniteThreads, CountProduct
  <2>5. Cardinality(Removed) = Cardinality(P)
    BY <2>1, <2>2, <2>3, <2>4, RemovedFinite DEF IInv, CallsInv
  <2>6. Removed = P
    <3>1. Removed \subseteq P
      BY Zenon DEF Removed
    <3>2. QED
      BY <2>4, <2>5, <3>1, CountSubset
  <2>7. todo[u] \in 1 .. RemoverCalls /\ pc[u] = "wait"
    <3>1. todo[u] \in Nat /\ todo[u] <= RemoverCalls
      BY Zenon, <2>3, Constants DEF IInv, ListType, CallsInv
    <3>2. QED
      BY <1>4, <1>7, <1>10, <2>3, <3>1
  <2>8. <<u, todo[u]>> \in P /\ <<u, todo[u]>> \notin Removed
    BY <2>3, <2>7 DEF Removed
  <2>9. QED
    BY Zenon, <2>6, <2>8
<1>11. QED
  BY Zenon, <1>9, <1>10

(* The stage of a call, as a function of the point alone. *)
LEMMA StageOfPoint ==
  ASSUME NEW t \in Threads
  PROVE  /\ pc[t] = "append" => Stage(t) = "enqueue"
         /\ pc[t] \in {"remove", "wait", "reacquire"} => Stage(t) = "dequeue"
         /\ pc[t] \in {"release", "return"} => Stage(t) = "done"
         /\ pc[t] \in {"fork", "acquire", "finished"} => Stage(t) = "none"
<1>1. pc[t] = "append" => Stage(t) = "enqueue"
  BY ZenonT(30) DEF Stage
<1>2. pc[t] \in {"remove", "wait", "reacquire"} => Stage(t) = "dequeue"
  BY ZenonT(30) DEF Stage
<1>3. pc[t] \in {"release", "return"} => Stage(t) = "done"
  BY ZenonT(30) DEF Stage
<1>4. pc[t] \in {"fork", "acquire", "finished"} => Stage(t) = "none"
  BY ZenonT(30) DEF Stage
<1>5. QED
  BY Zenon, <1>1, <1>2, <1>3, <1>4

(* One thread moves: the stages of the others stay. *)
LEMMA StageStep ==
  ASSUME ListType, NEW t \in Threads, NEW q, pc' = [pc EXCEPT ![t] = q]
  PROVE  /\ [u \in Threads |-> Stage(u)]' =
              [[u \in Threads |-> Stage(u)] EXCEPT ![t] = Stage(t)']
         /\ q = "append" => Stage(t)' = "enqueue"
         /\ q \in {"remove", "wait", "reacquire"} => Stage(t)' = "dequeue"
         /\ q \in {"release", "return"} => Stage(t)' = "done"
         /\ q \in {"fork", "acquire", "finished"} => Stage(t)' = "none"
<1>1. pc'[t] = q /\ \A u \in Threads \ {t} : pc'[u] = pc[u]
  BY Zenon DEF ListType
<1>2. ASSUME NEW u \in Threads \ {t} PROVE Stage(u)' = Stage(u)
  BY <1>1, Zenon DEF Stage
<1>3. [u \in Threads |-> Stage(u)]' = [[u \in Threads |-> Stage(u)] EXCEPT ![t] = Stage(t)']
  BY ZenonT(30), <1>2
<1>4. q = "append" => Stage(t)' = "enqueue"
  BY <1>1, Zenon DEF Stage
<1>5. q \in {"remove", "wait", "reacquire"} => Stage(t)' = "dequeue"
  BY <1>1, Zenon DEF Stage
<1>6. q \in {"release", "return"} => Stage(t)' = "done"
  BY <1>1, Zenon DEF Stage
<1>7. q \in {"fork", "acquire", "finished"} => Stage(t)' = "none"
  BY <1>1, Zenon DEF Stage
<1>8. QED
  BY Zenon, <1>3, <1>4, <1>5, <1>6, <1>7

(* SynchList starts as the empty queue. *)
LEMMA InitRefines ==
  ASSUME Init
  PROVE  BQ!Init
<1>1. /\ list = << >> /\ item = [t \in Threads |-> NoItem]
      /\ \A t \in Threads : pc[t] \in {"fork", "acquire"}
  BY Zenon DEF Init
<1>2. [t \in Threads |-> Stage(t)] = [t \in Threads |-> "none"]
  BY Zenon, <1>1, StageOfPoint
<1>3. QED
  BY Zenon, <1>1, <1>2 DEF BQ!Init

(* Every step of SynchList is one of the queue, or none. *)
LEMMA StepRefines ==
  ASSUME CountingFacts, IInv, [Next]_vars
  PROVE  BQ!Next \/ UNCHANGED BQ!bqvars
<1> DEFINE C == [t \in Threads |-> Stage(t)]
<1>1. ListType
  BY Zenon DEF IInv
<1>2. ASSUME NEW t \in Threads, Acquire(t) PROVE BQ!Next \/ UNCHANGED BQ!bqvars
  <2>1. t \in Appenders \/ t \in Removers
    BY Zenon, <1>2, Constants DEF Acquire, IInv, PointsInv
  <2>2. UNCHANGED list /\ item[t] = NoItem
    BY ZenonT(60), <1>2 DEF Acquire, IInv, PointsInv
  <2>3. CASE UNCHANGED <<pc, item>>
    BY Zenon, <2>2, <2>3 DEF BQ!bqvars, Stage
  <2>4. CASE /\ Goto(t, IF t \in Appenders THEN "append" ELSE "remove")
             /\ item' = [item EXCEPT ![t] = IF t \in Appenders THEN t ELSE NoItem]
    <3>1. CASE t \in Appenders
      <4>1. pc' = [pc EXCEPT ![t] = "append"] /\ item' = [item EXCEPT ![t] = t]
        BY Zenon, <2>4, <3>1 DEF Goto
      <4>2. C[t] = "none"
        <5>1. pc[t] = "acquire"
          BY ZenonT(60), <1>2, <3>1, Constants DEF Acquire, IInv, PointsInv
        <5>2. QED
          BY Zenon, <5>1, StageOfPoint
      <4>3. C' = [C EXCEPT ![t] = "enqueue"]
        BY ZenonT(30), <1>1, <4>1, StageStep
      <4>4. BQ!CallEnqueue(t, t)
        BY Zenon, <2>2, <4>1, <4>2, <4>3 DEF BQ!CallEnqueue
      <4>5. QED
        BY Zenon, <3>1, <4>4 DEF BQ!Next
    <3>2. CASE t \notin Appenders
      <4>1. pc' = [pc EXCEPT ![t] = "remove"] /\ UNCHANGED item
        BY Zenon, <1>1, <2>2, <2>4, <3>2 DEF Goto, ListType
      <4>2. C' = [C EXCEPT ![t] = "dequeue"]
        BY ZenonT(30), <1>1, <4>1, StageStep
      <4>3. CASE pc[t] = "acquire"
        <5>1. C[t] = "none"
          BY Zenon, <4>3, StageOfPoint
        <5>2. BQ!CallDequeue(t)
          BY Zenon, <2>2, <4>1, <4>2, <5>1 DEF BQ!CallDequeue
        <5>3. QED
          BY Zenon, <5>2 DEF BQ!Next
      <4>4. CASE pc[t] = "reacquire"
        <5>1. C[t] = "dequeue"
          BY Zenon, <4>4, StageOfPoint
        <5>2. C' = C
          BY ZenonT(30), <4>2, <5>1
        <5>3. QED
          BY Zenon, <2>2, <4>1, <5>2 DEF BQ!bqvars
      <4>5. QED
        BY ZenonT(60), <1>2, <4>3, <4>4 DEF Acquire
    <3>3. QED
      BY Zenon, <3>1, <3>2
  <2>5. QED
    BY Zenon, <1>2, <2>3, <2>4 DEF Acquire
<1>3. ASSUME NEW t \in Threads, AppendItem(t) PROVE BQ!Enqueue(t)
  <2>1. /\ pc[t] = "append" /\ list' = Append(list, item[t])
        /\ item' = [item EXCEPT ![t] = NoItem] /\ t \in Appenders
        /\ todo[t] > 0
    BY ZenonT(60), <1>3 DEF AppendItem, IInv, PointsInv
  <2>2. PICK q \in {"release", "return"} : pc' = [pc EXCEPT ![t] = q]
    BY Zenon, <1>3 DEF AppendItem, Goto
  <2>3. C[t] = "enqueue" /\ C' = [C EXCEPT ![t] = "done"]
    BY ZenonT(30), <1>1, <2>1, <2>2, StageOfPoint, StageStep
  <2>4. Len(list) < Cardinality(Appenders) * Calls
    <3> DEFINE p == <<t, todo[t]>>
    <3>1. todo[t] \in 1 .. Calls
      BY <2>1, Constants DEF IInv, ListType, CallsInv
    <3>2. p \in Appenders \X (1 .. Calls) /\ p \notin Appended
      BY <2>1, <3>1 DEF Appended
    <3>3. Cardinality(Appended) # Cardinality(Appenders \X (1 .. Calls))
      <4>1. Appended \subseteq Appenders \X (1 .. Calls)
        BY Zenon DEF Appended
      <4>2. QED
        BY <3>2, <4>1, PairsFinite, CountSubset
    <3>4. Cardinality(Appended) \in Nat /\ Cardinality(Removed) \in Nat /\ Len(list) \in Nat
      BY <1>1, PairsFinite, RemovedFinite DEF ListType
    <3>5. Cardinality(Appenders) * Calls \in Nat
      BY FiniteThreads, Constants
    <3>6. QED
      BY <3>3, <3>4, <3>5, PairsFinite DEF IInv, CallsInv
  <2>5. QED
    BY Zenon, <2>1, <2>3, <2>4 DEF BQ!Enqueue
<1>4. ASSUME NEW t \in Threads, RemoveItem(t) PROVE BQ!Next \/ UNCHANGED BQ!bqvars
  <2>1. C[t] = "dequeue"
    BY ZenonT(60), <1>4, StageOfPoint DEF RemoveItem
  <2>2. CASE list # << >>
    <3>1. /\ item' = [item EXCEPT ![t] = Head(list)] /\ list' = Tail(list)
          /\ pc' = [pc EXCEPT ![t] = "return"]
      BY Zenon, <1>4, <2>2 DEF RemoveItem, Goto
    <3>2. C' = [C EXCEPT ![t] = "done"]
      BY ZenonT(30), <1>1, <3>1, StageStep
    <3>3. BQ!Dequeue(t)
      BY Zenon, <2>1, <2>2, <3>1, <3>2 DEF BQ!Dequeue
    <3>4. QED
      BY Zenon, <3>3 DEF BQ!Next
  <2>3. CASE list = << >>
    <3>1. pc' = [pc EXCEPT ![t] = "wait"] /\ UNCHANGED <<list, item>>
      BY Zenon, <1>4, <2>3 DEF RemoveItem, Goto
    <3>2. C' = [C EXCEPT ![t] = "dequeue"]
      BY ZenonT(30), <1>1, <3>1, StageStep
    <3>3. C' = C
      BY ZenonT(30), <2>1, <3>2
    <3>4. QED
      BY Zenon, <3>1, <3>3 DEF BQ!bqvars
  <2>4. QED
    BY Zenon, <2>2, <2>3
<1>5. ASSUME NEW t \in Threads, Return(t) PROVE BQ!Return(t)
  <2>1. /\ pc[t] = "return" /\ pc' = [pc EXCEPT ![t] = "acquire"]
        /\ item' = [item EXCEPT ![t] = NoItem] /\ UNCHANGED list
    BY Zenon, <1>5 DEF Return, Goto
  <2>2. C[t] = "done" /\ C' = [C EXCEPT ![t] = "none"]
    BY ZenonT(30), <1>1, <2>1, StageOfPoint, StageStep
  <2>3. QED
    BY Zenon, <2>1, <2>2 DEF BQ!Return
<1>6. ASSUME NEW t \in Threads, Release(t) \/ Wait(t) \/ Finish(t)
      PROVE  UNCHANGED BQ!bqvars
  <2>1. UNCHANGED <<list, item>>
    BY Zenon, <1>6 DEF Release, Wait, Finish
  <2>2. C' = C
    <3>1. CASE Release(t)
      <4>1. pc[t] = "release" /\ pc' = [pc EXCEPT ![t] = "return"]
        BY Zenon, <3>1 DEF Release, Goto
      <4>2. C[t] = "done" /\ C' = [C EXCEPT ![t] = "done"]
        BY ZenonT(30), <1>1, <4>1, StageOfPoint, StageStep
      <4>3. QED
        BY ZenonT(30), <4>2
    <3>2. CASE Wait(t)
      <4>1. pc[t] = "wait" /\ (UNCHANGED pc \/ pc' = [pc EXCEPT ![t] = "reacquire"])
        BY Zenon, <3>2 DEF Wait, Goto
      <4>2. CASE UNCHANGED pc
        BY Zenon, <4>2 DEF Stage
      <4>3. CASE pc' = [pc EXCEPT ![t] = "reacquire"]
        <5>1. C[t] = "dequeue" /\ C' = [C EXCEPT ![t] = "dequeue"]
          BY ZenonT(30), <1>1, <4>1, <4>3, StageOfPoint, StageStep
        <5>2. QED
          BY ZenonT(30), <5>1
      <4>4. QED
        BY Zenon, <4>1, <4>2, <4>3
    <3>3. CASE Finish(t)
      <4>1. pc[t] \in {"fork", "acquire"} /\ pc' = [pc EXCEPT ![t] = "finished"]
        BY Zenon, <3>3 DEF Finish, Goto
      <4>2. C[t] = "none" /\ C' = [C EXCEPT ![t] = "none"]
        BY ZenonT(30), <1>1, <4>1, StageOfPoint, StageStep
      <4>3. QED
        BY ZenonT(30), <4>2
    <3>4. QED
      BY Zenon, <1>6, <3>1, <3>2, <3>3
  <2>3. QED
    BY Zenon, <2>1, <2>2 DEF BQ!bqvars
<1>7. ASSUME Machine \/ UNCHANGED vars \/ \E t \in Threads : ForkAll(t)
      PROVE  UNCHANGED BQ!bqvars
  <2>1. UNCHANGED <<list, item, pc>>
    BY ZenonT(30), <1>7 DEF Machine, vars, listvars, ForkAll
  <2>2. QED
    BY Zenon, <2>1 DEF BQ!bqvars, Stage
<1>8. QED
  <2>1. CASE \E t \in Threads : Step(t)
    <3>1. PICK t \in Threads : Step(t)
      BY Zenon, <2>1
    <3>2. CASE AppendItem(t) \/ Return(t)
      BY Zenon, <1>3, <1>5, <3>2 DEF BQ!Next
    <3>3. QED
      BY Zenon, <1>2, <1>4, <1>6, <1>7, <3>1, <3>2 DEF Step
  <2>2. QED
    BY Zenon, <1>7, <2>1 DEF Next

-----------------------------------------------------------------------------
INSTANCE FiniteSetTheorems

(* The facts about finite sets that the lemmas above assume. *)
LEMMA Counting == CountingFacts
<1>1. \A S : IsFiniteSet(S) => Cardinality(S) \in Nat
  BY Zenon, FS_CardinalityType
<1>2. IsFiniteSet({}) /\ Cardinality({}) = 0
  BY Zenon, FS_EmptySet
<1>3. \A S : IsFiniteSet(S) /\ Cardinality(S) = 0 => S = {}
  BY Zenon, FS_EmptySet
<1>4. \A x : Cardinality({x}) = 1
  BY Zenon, FS_Singleton
<1>5. \A n \in Nat : IsFiniteSet(1 .. n) /\ Cardinality(1 .. n) = n
  BY FS_Interval
<1>6. \A S, T : IsFiniteSet(S) /\ T \subseteq S =>
        /\ IsFiniteSet(T) /\ Cardinality(T) <= Cardinality(S)
        /\ Cardinality(T) = Cardinality(S) => T = S
  BY Zenon, FS_Subset
<1>7. \A S, x : IsFiniteSet(S) /\ x \notin S => Cardinality(S \union {x}) = Cardinality(S) + 1
  BY Zenon, FS_AddElement
<1>8. \A S, x : IsFiniteSet(S) /\ x \in S => Cardinality(S \ {x}) = Cardinality(S) - 1
  BY Zenon, FS_RemoveElement
<1>9. \A S, T : IsFiniteSet(S) /\ IsFiniteSet(T) =>
       IsFiniteSet(S \X T) /\ Cardinality(S \X T) = Cardinality(S) * Cardinality(T)
  BY Zenon, FS_Product
<1>10. ASSUME NEW S, NEW q, NEW n \in Nat, IsFiniteSet(S), q \in [1 .. n -> S],
              \A i, j \in 1 .. n : q[i] = q[j] => i = j
       PROVE  n <= Cardinality(S)
  <2>1. q \in Injection(1 .. n, S)
    BY Zenon, <1>10 DEF Injection, IsInjective
  <2>2. Cardinality(1 .. n) <= Cardinality(S)
    BY Zenon, <1>10, <2>1, FS_Injection DEF ExistsInjection
  <2>3. QED
    BY Zenon, <1>5, <2>2
<1>11. QED
  BY <1>1, <1>2, <1>3, <1>4, <1>5, <1>6, <1>7, <1>8, <1>9, <1>10, Zenon DEF CountingFacts

\* The invariant holds in every reachable state of SynchList.
LEMMA Invariant == Spec => []IInv
<1>1. Init => IInv
  BY Zenon, InitHolds, Counting
<1>2. IInv /\ [Next]_vars => IInv'
  BY Zenon, NextKeeps, Counting
<1>3. QED
  BY <1>1, <1>2, PTL DEF Spec

(* A remover that releases the lock before it sleeps cannot miss the signal  *)
(* of an appender (NoLostSignal, synch.cc:234-236).                          *)
THEOREM NoLostSignalCorrect == Spec => []NoLostSignal
<1>1. IInv => NoLostSignal
  BY Zenon DEF IInv, SignalInv, Signalled, NoLostSignal
<1>2. QED
  BY <1>1, Invariant, PTL

(* Every thread is in the one place where the kernel will find it, here too. *)
THEOREM ThreadsPlacedCorrect == Spec => []ThreadsPlaced
<1>1. IInv => ThreadsPlaced
  BY Zenon, PlacedIsPlaced, Counting DEF IInv
<1>2. QED
  BY <1>1, Invariant, PTL

(* Nobody is left behind when the machine finds nothing to do (HaltsDone).   *)
THEOREM HaltsDoneCorrect == Spec => []HaltsDone
<1>1. IInv => HaltsDone
  BY Zenon, HaltsAllDone, Counting DEF HaltsDone
<1>2. QED
  BY <1>1, Invariant, PTL

(* SynchList is a first-in first-out queue whose operations take effect at   *)
(* one moment between their call and their return (ImplementsQueue).         *)
THEOREM Refinement == Spec => ImplementsQueue
<1>1. Init => BQ!Init
  BY Zenon, InitRefines
<1>2. IInv /\ [Next]_vars => BQ!Next \/ UNCHANGED BQ!bqvars
  BY Zenon, StepRefines, Counting
<1>3. QED
  BY <1>1, <1>2, Invariant, PTL DEF Spec, ImplementsQueue, BQ!Spec
===============================================================================
