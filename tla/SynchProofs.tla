----------------------------- MODULE SynchProofs ------------------------------
(***************************************************************************)
(* What each fragment of Scheduler and Synch does to the places of the     *)
(* threads, for every set of threads and of semaphores: the lemmas from    *)
(* which SynchDiskProofs and SynchListProofs show ThreadsPlaced.           *)
(***************************************************************************)
EXTENDS Synch, TLAPS

(* What the arguments use of finite sets and their cardinalities. The lemmas *)
(* that count have it as a hypothesis; SynchDiskProofs and SynchListProofs   *)
(* prove it from the library's theorems, each at the one place where it      *)
(* needs them, since a fact in scope costs time in every proof.              *)
CountingFacts ==
  /\ \A S : IsFiniteSet(S) => Cardinality(S) \in Nat
  /\ IsFiniteSet({}) /\ Cardinality({}) = 0
  /\ \A S : IsFiniteSet(S) /\ Cardinality(S) = 0 => S = {}
  /\ \A x : Cardinality({x}) = 1
  /\ \A n \in Nat : IsFiniteSet(1 .. n) /\ Cardinality(1 .. n) = n
  /\ \A S, T : IsFiniteSet(S) /\ T \subseteq S =>
       /\ IsFiniteSet(T) /\ Cardinality(T) <= Cardinality(S)
       /\ Cardinality(T) = Cardinality(S) => T = S
  /\ \A S, x : IsFiniteSet(S) /\ x \notin S => Cardinality(S \union {x}) = Cardinality(S) + 1
  /\ \A S, x : IsFiniteSet(S) /\ x \in S => Cardinality(S \ {x}) = Cardinality(S) - 1
  /\ \A S, T : IsFiniteSet(S) /\ IsFiniteSet(T) =>
       IsFiniteSet(S \X T) /\ Cardinality(S \X T) = Cardinality(S) * Cardinality(T)
  /\ \A S, q : \A n \in Nat :
       /\ IsFiniteSet(S) /\ q \in [1 .. n -> S]
       /\ \A i, j \in 1 .. n : q[i] = q[j] => i = j
       => n <= Cardinality(S)

-----------------------------------------------------------------------------
Statuses == {"JUST_CREATED", "RUNNING", "READY", "BLOCKED", "FINISHED", "DELETED"}

SchedType ==
  /\ currentThread \in Threads
  /\ status \in [Threads -> Statuses]
  /\ readyList \in Seq(Threads)
  /\ level \in {"IntOff", "IntOn"}
  /\ machine \in {"system", "idle", "halted"}
  /\ timer \in [pending : BOOLEAN, disable : BOOLEAN]

SemType == sem \in [Sems -> [value : Nat, queue : Seq(Threads)]]

(* The threads by what the scheduler may do with them. *)
Created == {t \in Threads : status[t] = "JUST_CREATED"}
Awake == {t \in Threads : status[t] \in {"READY", "RUNNING"}}
Blocked == {t \in Threads : status[t] = "BLOCKED"}
Ended == {t \in Threads : status[t] \in {"FINISHED", "DELETED"}}

SameStates == UNCHANGED <<Created, Awake, Blocked, Ended>>

-----------------------------------------------------------------------------
(* Sequences that hold each of their elements once. *)
Distinct(s) == \A i, j \in DOMAIN s : s[i] = s[j] => i = j

\* List::Append of a new element: no element is in the list twice.
LEMMA AppendDistinct ==
  ASSUME NEW S, NEW s \in Seq(S), NEW x \in S
  PROVE  /\ Range(Append(s, x)) = Range(s) \union {x}
         /\ Distinct(s) /\ x \notin Range(s) => Distinct(Append(s, x))
<1>1. /\ DOMAIN s = 1 .. Len(s) /\ DOMAIN Append(s, x) = 1 .. Len(s) + 1 /\ Len(s) \in Nat
      /\ \A k \in 1 .. Len(s) : Append(s, x)[k] = s[k]
      /\ Append(s, x)[Len(s) + 1] = x
  OBVIOUS
<1>2. Range(Append(s, x)) = Range(s) \union {x}
  <2>1. ASSUME NEW y \in Range(Append(s, x)) PROVE y \in Range(s) \union {x}
    BY <1>1 DEF Range
  <2>2. ASSUME NEW y \in Range(s) \union {x} PROVE y \in Range(Append(s, x))
    BY <1>1 DEF Range
  <2>3. QED
    BY Zenon, <2>1, <2>2
<1>3. ASSUME Distinct(s), x \notin Range(s) PROVE Distinct(Append(s, x))
  BY <1>1, <1>3 DEF Distinct, Range
<1>4. QED
  BY Zenon, <1>2, <1>3

\* List::RemoveFront: the first element leaves and no other.
LEMMA TailDistinct ==
  ASSUME NEW S, NEW s \in Seq(S), s # << >>, Distinct(s)
  PROVE  /\ Head(s) \in Range(s) /\ Range(Tail(s)) = Range(s) \ {Head(s)}
         /\ Distinct(Tail(s))
<1>1. /\ DOMAIN s = 1 .. Len(s) /\ DOMAIN Tail(s) = 1 .. Len(s) - 1 /\ Len(s) \in Nat \ {0}
      /\ \A k \in 1 .. Len(s) - 1 : Tail(s)[k] = s[k + 1]
      /\ Head(s) = s[1]
  OBVIOUS
<1>2. Head(s) \in Range(s)
  BY <1>1 DEF Range
<1>3. ASSUME NEW y \in Range(Tail(s)) PROVE y \in Range(s) \ {Head(s)}
  <2>1. PICK k \in 1 .. Len(s) - 1 : y = s[k + 1]
    BY Zenon, <1>1 DEF Range
  <2>2. QED
    BY <1>1, <2>1 DEF Range, Distinct
<1>4. ASSUME NEW y \in Range(s) \ {Head(s)} PROVE y \in Range(Tail(s))
  <2>1. PICK k \in 1 .. Len(s) : y = s[k] /\ k # 1
    BY Zenon, <1>1 DEF Range
  <2>2. k - 1 \in 1 .. Len(s) - 1 /\ Tail(s)[k - 1] = y
    BY <1>1, <2>1
  <2>3. QED
    BY Zenon, <1>1, <2>2 DEF Range
<1>5. Distinct(Tail(s))
  BY <1>1 DEF Distinct
<1>6. QED
  BY Zenon, <1>2, <1>3, <1>4, <1>5

-----------------------------------------------------------------------------
(* The ready list.  Each fragment of Scheduler keeps its invariant, and     *)
(* what it does to the set of blocked threads.                              *)
SchedInv == SchedType /\ ReadyListOK

(* Scheduler::ReadyToRun of a thread that was created or blocked. *)
LEMMA ReadyToRunKeeps ==
  ASSUME SchedInv, NEW t \in Threads, status[t] \in {"JUST_CREATED", "BLOCKED"},
         ReadyToRun(t), UNCHANGED <<currentThread, level, machine, timer>>
  PROVE  /\ SchedInv'
         /\ Created' = Created \ {t} /\ Awake' = Awake \union {t}
         /\ Blocked' = Blocked \ {t} /\ Ended' = Ended
<1> USE DEF SchedInv
<1>1. status' = [status EXCEPT ![t] = "READY"] /\ readyList' = Append(readyList, t)
  BY Zenon DEF ReadyToRun
<1>2. SchedType'
  BY <1>1 DEF SchedType, Statuses
<1>3. t \notin Range(readyList)
  BY Zenon DEF ReadyListOK
<1>4. Range(readyList') = Range(readyList) \union {t} /\ Distinct(readyList')
  BY <1>1, <1>3, AppendDistinct DEF SchedType, ReadyListOK, Distinct
<1>5. ReadyListOK'
  BY <1>1, <1>4 DEF ReadyListOK, SchedType, Distinct
<1>6. /\ Created' = Created \ {t} /\ Awake' = Awake \union {t}
      /\ Blocked' = Blocked \ {t} /\ Ended' = Ended
  BY Zenon, <1>1 DEF Created, Awake, Blocked, Ended, SchedType
<1>7. QED
  BY Zenon, <1>2, <1>5, <1>6

(* Thread::Sleep of the running thread. *)
LEMMA SleepKeeps ==
  ASSUME SchedInv, NEW old \in {"BLOCKED", "FINISHED"}, machine = "system", Sleep(old)
  PROVE  /\ SchedInv'
         /\ Created' = Created /\ Awake' = Awake \ {currentThread}
         /\ Blocked' = IF old = "BLOCKED" THEN Blocked \union {currentThread} ELSE Blocked
         /\ Ended' = IF old = "FINISHED" THEN Ended \union {currentThread} ELSE Ended
         /\ currentThread \in Awake /\ currentThread \notin Blocked
<1> USE DEF SchedInv
<1>1. status[currentThread] = "RUNNING"
  BY Zenon DEF ReadyListOK, SchedType
<1>2. CASE readyList # << >>
  <2> DEFINE n == Head(readyList)
             kept == IF old = "FINISHED" THEN "DELETED" ELSE old
  <2>1. /\ n \in Threads /\ status[n] = "READY" /\ n # currentThread
        /\ Range(Tail(readyList)) = Range(readyList) \ {n} /\ Distinct(Tail(readyList))
    BY Zenon, <1>1, <1>2, TailDistinct DEF SchedType, ReadyListOK, Distinct
  <2>2. /\ status' = [status EXCEPT ![currentThread] = kept, ![n] = "RUNNING"]
        /\ currentThread' = n /\ machine' = "system" /\ readyList' = Tail(readyList)
        /\ UNCHANGED <<level, timer>>
    BY Zenon, <1>2 DEF Sleep, Run
  <2>3. SchedType'
    BY <1>2, <2>1, <2>2 DEF SchedType, Statuses
  <2>4. ReadyListOK'
    BY <1>1, <2>1, <2>2 DEF ReadyListOK, SchedType, Distinct
  <2>5. QED
    BY <1>1, <2>1, <2>2, <2>3, <2>4 DEF Created, Awake, Blocked, Ended, SchedType
<1>3. CASE readyList = << >>
  <2>1. /\ status' = [status EXCEPT ![currentThread] = old] /\ machine' = "idle"
        /\ timer' = [timer EXCEPT !.disable = TRUE]
        /\ UNCHANGED <<currentThread, readyList, level>>
    BY Zenon, <1>3 DEF Sleep
  <2>2. SchedType'
    BY Zenon, <2>1 DEF SchedType, Statuses
  <2>3. ReadyListOK'
    BY Zenon, <1>1, <2>1 DEF ReadyListOK, SchedType
  <2>4. QED
    BY <1>1, <2>1, <2>2, <2>3 DEF Created, Awake, Blocked, Ended, SchedType
<1>4. QED
  BY Zenon, <1>2, <1>3

-----------------------------------------------------------------------------
(* The semaphores' queues, in the form the fragments preserve: together     *)
(* they hold the blocked threads, each in one position of one queue.        *)
Queue(s) == sem[s].queue

Queued ==
  /\ \A s \in Sems : \A i \in DOMAIN Queue(s) : Queue(s)[i] \in Blocked
  /\ \A t \in Blocked : \E s \in Sems : \E i \in DOMAIN Queue(s) : Queue(s)[i] = t
  /\ \A r, s \in Sems : \A i \in DOMAIN Queue(r), j \in DOMAIN Queue(s) :
       Queue(r)[i] = Queue(s)[j] => r = s /\ i = j

PlacedInv == SchedInv /\ SemType /\ Queued

(* A step that leaves the queues and the set of blocked threads alone. *)
LEMMA SameQueues ==
  ASSUME Queued, Blocked' = Blocked, \A s \in Sems : sem'[s].queue = sem[s].queue
  PROVE  Queued'
BY DEF Queued, Queue

(* SleepersQueued follows: the one position of a blocked thread is among    *)
(* those that the property counts.                                          *)
LEMMA PlacedIsPlaced ==
  ASSUME CountingFacts, PlacedInv
  PROVE  ThreadsPlaced
<1>0. ASSUME NEW s \in Sems PROVE Len(sem[s].queue) <= Cardinality(Threads)
  <2> DEFINE q == sem[s].queue
  <2>1. q \in Seq(Threads) /\ Len(q) \in Nat /\ DOMAIN q = 1 .. Len(q)
    BY DEF PlacedInv, SemType
  <2>2. q \in [1 .. Len(q) -> Threads] /\ \A i, j \in 1 .. Len(q) : q[i] = q[j] => i = j
    BY <2>1 DEF PlacedInv, Queued, Queue
  <2>3. IsFiniteSet(Threads)
    BY Zenon, MainAssumption
  <2> HIDE DEF q
  <2>4. Len(q) <= Cardinality(Threads)
    BY <2>1, <2>2, <2>3, Zenon DEF CountingFacts
  <2>5. QED
    BY Zenon, <2>4 DEF q
<1>1. SUFFICES ASSUME NEW t \in Threads,
                      NEW P, P = {p \in Sems \X (1 .. Cardinality(Threads)) :
                                    p[2] \in DOMAIN sem[p[1]].queue /\ sem[p[1]].queue[p[2]] = t}
               PROVE  /\ status[t] = "BLOCKED" => Cardinality(P) = 1
                      /\ status[t] # "BLOCKED" => P = {}
  BY Zenon DEF ThreadsPlaced, SleepersQueued, PlacedInv, SchedInv
<1>2. ASSUME status[t] = "BLOCKED" PROVE Cardinality(P) = 1
  <2>1. PICK s \in Sems : \E i \in DOMAIN sem[s].queue : sem[s].queue[i] = t
    BY Zenon, <1>2 DEF PlacedInv, Queued, Queue, Blocked
  <2>2. PICK i \in DOMAIN sem[s].queue : sem[s].queue[i] = t
    BY Zenon, <2>1
  <2>3. DOMAIN sem[s].queue = 1 .. Len(sem[s].queue) /\ Len(sem[s].queue) \in Nat
    BY DEF PlacedInv, SemType
  <2>4. i \in 1 .. Cardinality(Threads)
    BY <1>0, <2>3, MainAssumption DEF CountingFacts
  <2>5. <<s, i>> \in P
    BY Zenon, <1>1, <2>2, <2>4
  <2>6. ASSUME NEW p \in P PROVE p = <<s, i>>
    <3>1. p = <<p[1], p[2]>> /\ p[1] \in Sems /\ p[2] \in DOMAIN sem[p[1]].queue
          /\ sem[p[1]].queue[p[2]] = t
      BY <1>1
    <3>2. p[1] = s /\ p[2] = i
      BY <2>2, <3>1 DEF PlacedInv, Queued, Queue
    <3>3. QED
      BY Zenon, <3>1, <3>2
  <2>7. P = {<<s, i>>}
    BY Zenon, <2>5, <2>6
  <2>8. QED
    BY Zenon, <2>7 DEF CountingFacts
<1>3. ASSUME status[t] # "BLOCKED" PROVE P = {}
  BY <1>1, <1>3 DEF PlacedInv, Queued, Queue, Blocked
<1>4. QED
  BY Zenon, <1>2, <1>3

(* What P and V do to the semaphores, field by field. *)
LEMMA SemUpdate ==
  ASSUME SemType, NEW s \in Sems, NEW r \in [value : Nat, queue : Seq(Threads)],
         sem' = [sem EXCEPT ![s] = r]
  PROVE  /\ SemType'
         /\ sem'[s] = r
         /\ \A u \in Sems \ {s} : sem'[u] = sem[u]
BY Zenon DEF SemType

(* Thread::Finish, Thread::Fork, and the fragments of Scheduler that touch   *)
(* no semaphore and make no thread ready or asleep.                         *)
LEMMA FinishKeeps ==
  ASSUME PlacedInv, UNCHANGED sem, machine = "system", Sleep("FINISHED")
  PROVE  /\ PlacedInv'
         /\ Created' = Created /\ Awake' = Awake \ {currentThread}
         /\ Blocked' = Blocked /\ Ended' = Ended \union {currentThread}
<1>1. /\ SchedInv'
      /\ Created' = Created /\ Awake' = Awake \ {currentThread}
      /\ Blocked' = Blocked /\ Ended' = Ended \union {currentThread}
  BY Zenon, SleepKeeps DEF PlacedInv
<1>2. QED
  BY Zenon, <1>1, SameQueues DEF PlacedInv, SemType

\* Thread::Fork makes a created thread ready.
LEMMA ForkKeeps ==
  ASSUME PlacedInv, UNCHANGED sem, NEW t \in Threads, Fork(t)
  PROVE  /\ PlacedInv' /\ t \in Created
         /\ Created' = Created \ {t} /\ Awake' = Awake \union {t}
         /\ Blocked' = Blocked /\ Ended' = Ended
<1>1. status[t] = "JUST_CREATED" /\ t \notin Blocked /\ t \in Created
  BY Zenon DEF Fork, Blocked, Created
<1>2. /\ SchedInv' /\ Blocked' = Blocked
      /\ Created' = Created \ {t} /\ Awake' = Awake \union {t} /\ Ended' = Ended
  BY <1>1, ReadyToRunKeeps DEF Fork, PlacedInv
<1>3. QED
  BY Zenon, <1>1, <1>2, SameQueues DEF PlacedInv, SemType

\* The scheduler's own steps move no thread to or from a semaphore.
LEMMA SchedKeeps ==
  ASSUME PlacedInv, UNCHANGED sem,
         \/ Enable \/ TimerInterrupt \/ WakeUp
         \/ \E b \in BOOLEAN : Halt(b)
         \/ UNCHANGED schedvars
  PROVE  PlacedInv' /\ SameStates
<1>1. ASSUME Enable PROVE SchedInv' /\ SameStates
  BY Zenon, <1>1 DEF PlacedInv, SchedInv, SchedType, ReadyListOK, Enable,
              SameStates, Created, Awake, Blocked, Ended
<1>2. ASSUME NEW b \in BOOLEAN, Halt(b) PROVE SchedInv' /\ SameStates
  BY Zenon, <1>2 DEF PlacedInv, SchedInv, SchedType, ReadyListOK, Halt,
              SameStates, Created, Awake, Blocked, Ended
<1>3. ASSUME UNCHANGED schedvars PROVE SchedInv' /\ SameStates
  BY Zenon, <1>3 DEF PlacedInv, SchedInv, SchedType, ReadyListOK, schedvars,
              SameStates, Created, Awake, Blocked, Ended
<1>4. ASSUME TimerInterrupt PROVE SchedInv' /\ SameStates
  <2> USE DEF PlacedInv, SchedInv
  <2>1. timer' \in [pending : BOOLEAN, disable : BOOLEAN] /\ UNCHANGED level
    BY Zenon, <1>4 DEF TimerInterrupt, SchedType
  <2>2. CASE machine = "idle" \/ readyList = << >>
    <3>1. UNCHANGED <<currentThread, status, readyList, machine>>
      BY Zenon, <1>4, <2>2 DEF TimerInterrupt, Yield
    <3>2. QED
      BY Zenon, <1>4, <2>1, <3>1 DEF SchedType, ReadyListOK, SameStates, Created, Awake, Blocked, Ended
  <2>3. CASE machine # "idle" /\ readyList # << >>
    <3> DEFINE n == Head(readyList)
    <3>1. /\ machine = "system" /\ status[currentThread] = "RUNNING"
          /\ n \in Threads /\ status[n] = "READY" /\ n # currentThread
          /\ Range(Tail(readyList)) = Range(readyList) \ {n} /\ Distinct(Tail(readyList))
          /\ Tail(readyList) \in Seq(Threads)
      BY <1>4, <2>3, TailDistinct DEF SchedType, ReadyListOK, Distinct, TimerInterrupt, Interruptible
    <3>2. /\ status' = [status EXCEPT ![currentThread] = "READY", ![n] = "RUNNING"]
          /\ currentThread' = n /\ machine' = "system"
          /\ readyList' = Append(Tail(readyList), currentThread)
      BY Zenon, <1>4, <2>3 DEF TimerInterrupt, Yield, Run
    <3>3. SchedType'
      BY <1>4, <2>1, <3>1, <3>2 DEF SchedType, Statuses
    <3>4. currentThread \notin Range(Tail(readyList)) /\ currentThread \in Threads
      BY Zenon, <1>4, <3>1 DEF ReadyListOK, SchedType
    <3>5. Range(readyList') = Range(Tail(readyList)) \union {currentThread} /\ Distinct(readyList')
      <4> DEFINE rest == Tail(readyList)
      <4>1. rest \in Seq(Threads) /\ Distinct(rest) /\ currentThread \notin Range(rest)
        BY Zenon, <3>1, <3>4
      <4> HIDE DEF rest
      <4>2. /\ Range(Append(rest, currentThread)) = Range(rest) \union {currentThread}
            /\ Distinct(Append(rest, currentThread))
        BY <4>1, <3>4, AppendDistinct
      <4>3. QED
        BY Zenon, <3>2, <4>2 DEF rest
    <3>6. ReadyListOK'
      <4>1. \A i, j \in DOMAIN readyList' : readyList'[i] = readyList'[j] => i = j
        BY Zenon, <3>5 DEF Distinct
      <4>2. Range(readyList') = {t \in Threads : status'[t] = "READY"}
        BY Zenon, <1>4, <3>1, <3>2, <3>4, <3>5 DEF ReadyListOK, SchedType
      <4>3. {t \in Threads : status'[t] = "RUNNING"} = {n}
        BY <1>4, <3>1, <3>2, <3>4 DEF ReadyListOK, SchedType
      <4>4. QED
        BY Zenon, <1>4, <3>2, <4>1, <4>2, <4>3 DEF ReadyListOK
    <3>7. QED
      BY Zenon, <1>4, <3>1, <3>2, <3>3, <3>6 DEF SameStates, Created, Awake, Blocked, Ended, SchedType
  <2>4. QED
    BY Zenon, <2>2, <2>3
<1>5. ASSUME WakeUp PROVE SchedInv' /\ SameStates
  <2> USE DEF PlacedInv, SchedInv
  <2> DEFINE n == Head(readyList)
             old == status[currentThread]
             kept == IF old = "FINISHED" THEN "DELETED" ELSE old
  <2>1. /\ n \in Threads /\ status[n] = "READY" /\ old \in {"BLOCKED", "FINISHED", "READY"}
        /\ Range(Tail(readyList)) = Range(readyList) \ {n} /\ Distinct(Tail(readyList))
    BY Zenon, <1>5, TailDistinct DEF WakeUp, SchedType, ReadyListOK, Distinct
  <2>2. /\ status' = [status EXCEPT ![currentThread] = kept, ![n] = "RUNNING"]
        /\ currentThread' = n /\ machine' = "system" /\ readyList' = Tail(readyList)
        /\ UNCHANGED <<level, timer>> /\ machine = "idle"
    BY Zenon, <1>5 DEF WakeUp, Run
  <2>3. SchedType'
    BY <1>5, <2>1, <2>2 DEF SchedType, Statuses, WakeUp
  <2>4. ReadyListOK'
    BY <1>5, <2>1, <2>2 DEF ReadyListOK, SchedType, Distinct
  <2>5. QED
    BY Zenon, <1>5, <2>1, <2>2, <2>3, <2>4 DEF SameStates, Created, Awake, Blocked, Ended, SchedType
<1>6. SchedInv' /\ SameStates
  BY Zenon, <1>1, <1>2, <1>3, <1>4, <1>5 DEF PlacedInv
<1>7. QED
  BY Zenon, <1>6, SameQueues DEF PlacedInv, SemType, SameStates

-----------------------------------------------------------------------------
(* The same fragments as the modules above use them: what they do to the     *)
(* values of the semaphores and to the set of the threads asleep on each.    *)
Sleepers(s) == Range(sem[s].queue)

SameSems == \A s \in Sems : sem'[s].value = sem[s].value /\ Sleepers(s)' = Sleepers(s)

(* A thread is blocked exactly when it sleeps on a semaphore; a running      *)
(* thread is awake; and every thread is created, awake, blocked or ended.    *)
LEMMA WhereThreadsAre ==
  ASSUME PlacedInv
  PROVE  /\ Blocked = UNION {Sleepers(s) : s \in Sems}
         /\ machine = "system" => currentThread \in Awake
         /\ machine # "system" /\ readyList = << >> => Awake = {}
         /\ Threads = Created \union Awake \union Blocked \union Ended
         /\ Awake \intersect (Created \union Blocked \union Ended) = {}
<1>1. ASSUME NEW t \in Blocked PROVE \E s \in Sems : t \in Sleepers(s)
  <2>1. PICK s \in Sems : \E i \in DOMAIN sem[s].queue : sem[s].queue[i] = t
    BY Zenon DEF PlacedInv, Queued, Queue
  <2>2. QED
    BY Zenon, <2>1 DEF Sleepers, Range
<1>2. ASSUME NEW s \in Sems, NEW t \in Sleepers(s) PROVE t \in Blocked
  BY DEF PlacedInv, Queued, Queue, Sleepers, Range
<1>3. Blocked = UNION {Sleepers(s) : s \in Sems}
  BY Zenon, <1>1, <1>2
<1>4. machine = "system" => currentThread \in Awake
  BY Zenon DEF PlacedInv, SchedInv, SchedType, ReadyListOK, Awake
<1>5. ASSUME machine # "system", readyList = << >> PROVE Awake = {}
  <2>1. Range(readyList) = {}
    BY <1>5 DEF Range
  <2>2. QED
    BY Zenon, <1>5, <2>1 DEF PlacedInv, SchedInv, ReadyListOK, Awake
<1>6. /\ Threads = Created \union Awake \union Blocked \union Ended
      /\ Awake \intersect (Created \union Blocked \union Ended) = {}
  BY Zenon DEF PlacedInv, SchedInv, SchedType, Statuses, Created, Awake, Blocked, Ended
<1>7. QED
  BY Zenon, <1>3, <1>4, <1>5, <1>6

\* P that does not sleep, as the clients of the kernel see it.
LEMMA PTakeStep ==
  ASSUME PlacedInv, NEW s \in Sems, PTake(s)
  PROVE  /\ PlacedInv' /\ SameStates
         /\ sem[s].value > 0 /\ sem'[s].value = sem[s].value - 1
         /\ \A r \in Sems \ {s} : sem'[r].value = sem[r].value
         /\ \A r \in Sems : Sleepers(r)' = Sleepers(r)
<1>1. /\ SemType' /\ UNCHANGED schedvars
      /\ sem[s].value > 0 /\ sem'[s].value = sem[s].value - 1
      /\ sem'[s].queue = sem[s].queue
      /\ \A u \in Sems \ {s} : sem'[u] = sem[u]
  <2> DEFINE r == [sem[s] EXCEPT !.value = sem[s].value - 1]
  <2>1. sem[s] \in [value : Nat, queue : Seq(Threads)]
    BY Zenon DEF PlacedInv, SemType
  <2>2. /\ sem[s].value \in Nat \ {0} /\ sem[s].queue \in Seq(Threads)
        /\ sem[s].value - 1 \in Nat
    BY <2>1 DEF PTake
  <2>3. /\ r \in [value : Nat, queue : Seq(Threads)]
        /\ r.value = sem[s].value - 1 /\ r.queue = sem[s].queue
    BY Zenon, <2>1, <2>2
  <2>4. sem' = [sem EXCEPT ![s] = r] /\ UNCHANGED schedvars /\ sem[s].value > 0
    BY Zenon DEF PTake
  <2> HIDE DEF r
  <2>5. QED
    BY Zenon, <2>2, <2>3, <2>4, SemUpdate DEF PlacedInv
<1>2. \A r \in Sems : sem'[r].queue = sem[r].queue
  BY Zenon, <1>1
<1>3. SchedInv' /\ SameStates
  BY Zenon, <1>1 DEF PlacedInv, SchedInv, SchedType, ReadyListOK, schedvars,
              SameStates, Created, Awake, Blocked, Ended
<1>4. QED
  BY Zenon, <1>1, <1>2, <1>3, SameQueues DEF PlacedInv, SameStates, Sleepers

\* P that sleeps, as the clients of the kernel see it.
LEMMA PSleepStep ==
  ASSUME PlacedInv, machine = "system", NEW s \in Sems, PSleep(s)
  PROVE  /\ PlacedInv'
         /\ Created' = Created /\ Awake' = Awake \ {currentThread} /\ Ended' = Ended
         /\ sem[s].value = 0
         /\ \A r \in Sems : sem'[r].value = sem[r].value
         /\ Sleepers(s)' = Sleepers(s) \union {currentThread}
         /\ \A r \in Sems \ {s} : Sleepers(r)' = Sleepers(r)
<1>1. /\ SemType' /\ Sleep("BLOCKED")
      /\ sem[s].value = 0 /\ sem'[s].value = 0
      /\ sem'[s].queue = Append(sem[s].queue, currentThread)
      /\ \A u \in Sems \ {s} : sem'[u] = sem[u]
  <2> DEFINE r == [sem[s] EXCEPT !.queue = Append(sem[s].queue, currentThread)]
  <2>1. sem[s] \in [value : Nat, queue : Seq(Threads)]
    BY Zenon DEF PlacedInv, SemType
  <2>2. /\ sem[s].value = 0 /\ sem[s].queue \in Seq(Threads)
        /\ Append(sem[s].queue, currentThread) \in Seq(Threads)
    BY <2>1 DEF PSleep, PlacedInv, SchedInv, SchedType
  <2>3. /\ r \in [value : Nat, queue : Seq(Threads)]
        /\ r.value = 0 /\ r.queue = Append(sem[s].queue, currentThread)
    BY Zenon, <2>1, <2>2
  <2>4. sem' = [sem EXCEPT ![s] = r] /\ Sleep("BLOCKED")
    BY Zenon DEF PSleep
  <2> HIDE DEF r
  <2>5. QED
    BY Zenon, <2>2, <2>3, <2>4, SemUpdate DEF PlacedInv
<1>2. /\ PlacedInv'
      /\ Created' = Created /\ Awake' = Awake \ {currentThread} /\ Ended' = Ended
  <2> DEFINE c == currentThread
             q == Queue(s)
  <2>1. /\ SchedInv'
        /\ Created' = Created /\ Awake' = Awake \ {c} /\ Ended' = Ended
        /\ Blocked' = Blocked \union {c} /\ c \notin Blocked /\ c \in Awake
    BY Zenon, SleepKeeps DEF PlacedInv, PSleep
  <2>2. c \in Threads /\ q \in Seq(Threads)
    BY Zenon DEF PlacedInv, SchedInv, SchedType, SemType, Queue
  <2>3. SemType'
    BY Zenon, <1>1
  <2>4. /\ Queue(s)' = Append(q, c)
        /\ \A r \in Sems \ {s} : Queue(r)' = Queue(r)
    BY Zenon, <1>1 DEF Queue
  <2>5. /\ DOMAIN Append(q, c) = 1 .. Len(q) + 1 /\ DOMAIN q = 1 .. Len(q) /\ Len(q) \in Nat
        /\ Append(q, c)[Len(q) + 1] = c
        /\ \A k \in DOMAIN q : Append(q, c)[k] = q[k]
    BY <2>2
  <2>6. Queued'
    <3>1. ASSUME NEW r \in Sems, NEW i \in DOMAIN Queue(r)' PROVE Queue(r)'[i] \in Blocked'
      BY <2>1, <2>4, <2>5 DEF PlacedInv, Queued
    <3>2. ASSUME NEW t \in Blocked'
          PROVE  \E r \in Sems : \E i \in DOMAIN Queue(r)' : Queue(r)'[i] = t
      BY <2>1, <2>4, <2>5 DEF PlacedInv, Queued
    <3>3. ASSUME NEW r \in Sems, NEW u \in Sems,
                 NEW i \in DOMAIN Queue(r)', NEW j \in DOMAIN Queue(u)',
                 Queue(r)'[i] = Queue(u)'[j]
          PROVE  r = u /\ i = j
      <4>1. \A x, y \in Sems : \A k \in DOMAIN Queue(x), l \in DOMAIN Queue(y) :
              Queue(x)[k] = Queue(y)[l] => x = y /\ k = l
        BY Zenon DEF PlacedInv, Queued
      <4>2. \A x \in Sems : \A k \in DOMAIN Queue(x)' :
              \/ k \in DOMAIN Queue(x) /\ Queue(x)'[k] = Queue(x)[k]
              \/ x = s /\ k = Len(q) + 1 /\ Queue(x)'[k] = c
        BY <2>4, <2>5
      <4>3. \A x \in Sems : \A k \in DOMAIN Queue(x) : Queue(x)[k] # c
        BY <2>1 DEF PlacedInv, Queued
      <4>4. QED
        BY <3>3, <4>1, <4>2, <4>3
    <3>4. QED
      BY Zenon, <3>1, <3>2, <3>3 DEF Queued
  <2>7. QED
    BY Zenon, <2>1, <2>3, <2>6 DEF PlacedInv
<1>3. sem[s].queue \in Seq(Threads) /\ currentThread \in Threads
  BY Zenon DEF PlacedInv, SemType, SchedInv, SchedType
<1>4. Range(Append(sem[s].queue, currentThread)) = Range(sem[s].queue) \union {currentThread}
  BY <1>3, AppendDistinct
<1>5. QED
  BY Zenon, <1>1, <1>2, <1>4 DEF Sleepers

\* V, as the clients of the kernel see it: it may wake a sleeper.
LEMMA VStep ==
  ASSUME PlacedInv, NEW s \in Sems, V(s)
  PROVE  /\ PlacedInv'
         /\ Created' = Created /\ Ended' = Ended
         /\ Awake \subseteq Awake'
         /\ Sleepers(s) # {} => \E h \in Sleepers(s) : h \in Awake'
         /\ sem'[s].value = sem[s].value + 1 /\ sem[s].value \in Nat
         /\ \A r \in Sems \ {s} : sem'[r].value = sem[r].value
         /\ \A r \in Sems : Sleepers(r)' \subseteq Sleepers(r)
<1>1. /\ SemType'
      /\ sem'[s].value = sem[s].value + 1
      /\ sem'[s].queue = IF sem[s].queue = << >> THEN << >> ELSE Tail(sem[s].queue)
      /\ \A u \in Sems \ {s} : sem'[u] = sem[u]
  <2> DEFINE q == IF sem[s].queue = << >> THEN << >> ELSE Tail(sem[s].queue)
             r == [sem[s] EXCEPT !.value = sem[s].value + 1, !.queue = q]
  <2>1. sem[s] \in [value : Nat, queue : Seq(Threads)]
    BY Zenon DEF PlacedInv, SemType
  <2>2. /\ sem[s].value \in Nat /\ sem[s].queue \in Seq(Threads) /\ q \in Seq(Threads)
        /\ sem[s].value + 1 \in Nat
    BY <2>1
  <2>3. /\ r \in [value : Nat, queue : Seq(Threads)]
        /\ r.value = sem[s].value + 1 /\ r.queue = q
    BY Zenon, <2>1, <2>2
  <2>4. sem' = [sem EXCEPT ![s] = r]
    <3>1. CASE sem[s].queue = << >>
      <4>1. r = [sem[s] EXCEPT !.value = sem[s].value + 1]
        BY Zenon, <2>1, <2>2, <3>1
      <4>2. QED
        BY Zenon, <3>1, <4>1 DEF V
    <3>2. CASE sem[s].queue # << >>
      BY Zenon, <3>2 DEF V
    <3>3. QED
      BY Zenon, <3>1, <3>2
  <2> HIDE DEF r
  <2>5. QED
    BY Zenon, <2>2, <2>3, <2>4, SemUpdate DEF PlacedInv
<1>2. /\ PlacedInv'
      /\ Created' = Created /\ Ended' = Ended
      /\ Awake' = Awake \union (IF Queue(s) = << >> THEN {} ELSE {Head(Queue(s))})
  <2> DEFINE q == Queue(s)
  <2>1. CASE q = << >>
    <3>1. UNCHANGED schedvars
      BY Zenon, <2>1 DEF V, Queue
    <3>2. SemType' /\ \A r \in Sems : sem'[r].queue = sem[r].queue
      BY Zenon, <1>1, <2>1 DEF Queue
    <3>3. SchedInv' /\ SameStates
      BY Zenon, <3>1 DEF PlacedInv, SchedInv, SchedType, ReadyListOK, schedvars,
                  SameStates, Created, Awake, Blocked, Ended
    <3>4. QED
      BY Zenon, <2>1, <3>2, <3>3, SameQueues DEF PlacedInv, SameStates
  <2>2. CASE q # << >>
    <3> DEFINE h == Head(q)
    <3>1. q \in Seq(Threads) /\ Len(q) \in Nat \ {0} /\ h = q[1] /\ 1 \in DOMAIN q
      BY <2>2 DEF PlacedInv, SemType, Queue
    <3>2. h \in Blocked /\ h \in Threads /\ status[h] = "BLOCKED"
      BY <3>1 DEF PlacedInv, Queued, Blocked
    <3>3. /\ SchedInv' /\ Blocked' = Blocked \ {h}
          /\ Created' = Created \ {h} /\ Awake' = Awake \union {h} /\ Ended' = Ended
      BY Zenon, <2>2, <3>2, ReadyToRunKeeps DEF V, PlacedInv, Queue
    <3>c. h \notin Created
      BY Zenon, <3>2 DEF Created
    <3>4. SemType'
      BY Zenon, <1>1
    <3>5. /\ Queue(s)' = Tail(q)
          /\ \A r \in Sems \ {s} : Queue(r)' = Queue(r)
      BY Zenon, <1>1, <2>2 DEF Queue
    <3>6. /\ DOMAIN Tail(q) = 1 .. Len(q) - 1 /\ DOMAIN q = 1 .. Len(q)
          /\ \A k \in DOMAIN Tail(q) : Tail(q)[k] = q[k + 1] /\ k + 1 \in DOMAIN q
          /\ \A k \in DOMAIN q : k # 1 => k - 1 \in DOMAIN Tail(q) /\ Tail(q)[k - 1] = q[k]
      BY <3>1
    <3>7. Queued'
      <4>1. ASSUME NEW r \in Sems, NEW i \in DOMAIN Queue(r)' PROVE Queue(r)'[i] \in Blocked'
        BY <3>1, <3>3, <3>5, <3>6 DEF PlacedInv, Queued
      <4>2. ASSUME NEW t \in Blocked'
            PROVE  \E r \in Sems : \E i \in DOMAIN Queue(r)' : Queue(r)'[i] = t
        <5>1. t \in Blocked /\ t # h
          BY Zenon, <3>3
        <5>2. PICK r \in Sems : \E i \in DOMAIN Queue(r) : Queue(r)[i] = t
          BY Zenon, <5>1 DEF PlacedInv, Queued
        <5>3. PICK i \in DOMAIN Queue(r) : Queue(r)[i] = t
          BY Zenon, <5>2
        <5>4. CASE r = s
          <6>1. i - 1 \in DOMAIN Tail(q) /\ Tail(q)[i - 1] = t
            BY Zenon, <3>1, <3>6, <5>1, <5>3, <5>4
          <6>2. QED
            BY Zenon, <3>5, <6>1
        <5>5. CASE r # s
          BY Zenon, <3>5, <5>3, <5>5
        <5>6. QED
          BY Zenon, <5>4, <5>5
      <4>3. ASSUME NEW r \in Sems, NEW u \in Sems,
                   NEW i \in DOMAIN Queue(r)', NEW j \in DOMAIN Queue(u)',
                   Queue(r)'[i] = Queue(u)'[j]
            PROVE  r = u /\ i = j
        <5>1. \A x, y \in Sems : \A k \in DOMAIN Queue(x), l \in DOMAIN Queue(y) :
                Queue(x)[k] = Queue(y)[l] => x = y /\ k = l
          BY Zenon DEF PlacedInv, Queued
        <5>2. /\ r = s => i \in Nat /\ i + 1 \in DOMAIN q /\ q[i + 1] = Queue(r)'[i]
              /\ u = s => j \in Nat /\ j + 1 \in DOMAIN q /\ q[j + 1] = Queue(u)'[j]
          <6>1. \A k \in DOMAIN Tail(q) : k \in Nat
            BY <3>6
          <6>2. QED
            BY Zenon, <3>5, <3>6, <6>1
        <5>3. /\ r # s => i \in DOMAIN Queue(r) /\ Queue(r)[i] = Queue(r)'[i]
              /\ u # s => j \in DOMAIN Queue(u) /\ Queue(u)[j] = Queue(u)'[j]
          BY Zenon, <3>5
        <5>4. CASE r = s /\ u = s
          <6>1. i + 1 = j + 1
            BY <4>3, <5>1, <5>2, <5>4
          <6>2. QED
            BY <5>2, <5>4, <6>1
        <5>5. CASE r = s /\ u # s
          BY <4>3, <5>1, <5>2, <5>3, <5>5
        <5>6. CASE r # s /\ u = s
          BY <4>3, <5>1, <5>2, <5>3, <5>6
        <5>7. CASE r # s /\ u # s
          BY <4>3, <5>1, <5>3, <5>7
        <5>8. QED
          BY Zenon, <5>4, <5>5, <5>6, <5>7
      <4>4. QED
        BY Zenon, <4>1, <4>2, <4>3 DEF Queued
    <3>8. QED
      BY Zenon, <2>2, <3>3, <3>c, <3>4, <3>7 DEF PlacedInv
  <2>3. QED
    BY Zenon, <2>1, <2>2
<1>3. sem[s].queue \in Seq(Threads) /\ sem[s].value \in Nat
  BY Zenon DEF PlacedInv, SemType
<1>4. CASE sem[s].queue = << >>
  <2>1. Sleepers(s) = {} /\ Sleepers(s)' = {}
    BY <1>1, <1>4 DEF Sleepers, Range
  <2>2. QED
    BY Zenon, <1>1, <1>2, <1>3, <2>1 DEF Sleepers
<1>5. CASE sem[s].queue # << >>
  <2>1. Distinct(sem[s].queue)
    BY Zenon DEF PlacedInv, Queued, Queue, Distinct
  <2>2. /\ Head(sem[s].queue) \in Range(sem[s].queue)
        /\ Range(Tail(sem[s].queue)) \subseteq Range(sem[s].queue)
    BY Zenon, <1>3, <1>5, <2>1, TailDistinct
  <2>3. Head(sem[s].queue) \in Awake' /\ Awake \subseteq Awake'
    BY Zenon, <1>2, <1>5 DEF Queue
  <2>4. QED
    BY Zenon, <1>1, <1>2, <1>3, <1>5, <2>2, <2>3 DEF Sleepers
<1>6. QED
  BY Zenon, <1>4, <1>5
===============================================================================
