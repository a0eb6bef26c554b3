--------------------------- MODULE SynchDiskProofs ----------------------------
(***************************************************************************)
(* Theorems about SynchDisk, for every number of threads and of requests.  *)
(***************************************************************************)
EXTENDS SynchDisk, SynchProofs

Points == {"acquire", "request", "await", "release", "return", "enable", "fork", "finished"}

DiskType ==
  /\ active \in BOOLEAN
  /\ pc \in [Threads -> Points]
  /\ todo \in [Threads -> Nat]
  /\ \A t \in Threads : pc[t] \in {"request", "await", "release", "return"} => todo[t] > 0

Holding(t) == pc[t] \in {"request", "await", "release"}

(* The lock excludes, its semaphore says whether it is held, and the V of    *)
(* the disk's interrupt is due or unconsumed exactly while somebody awaits   *)
(* it.                                                                       *)
LockInv ==
  /\ \A t, u \in Threads : Holding(t) /\ Holding(u) => t = u
  /\ sem[Lock].value = IF \E t \in Threads : Holding(t) THEN 0 ELSE 1
  /\ (IF active THEN 1 ELSE 0) + sem[Done].value =
       IF \E t \in Threads : pc[t] = "await" THEN 1 ELSE 0
  /\ \A t \in Threads : pc[t] \in {"await", "release"} => lockHolder = t

(* t is, or will be when it runs next, at the test of P() of s. *)
At(t, s) == IF s = Lock THEN pc[t] = "acquire" /\ todo[t] > 0 ELSE pc[t] = "await"

(* The sleepers are in the P() of the semaphore they sleep on; where there   *)
(* is something to take and somebody sleeps, somebody awake is about to take *)
(* it; and the states of the threads agree with their points.                *)
WakeInv ==
  /\ \A s \in Sems : \A t \in Sleepers(s) : At(t, s)
  /\ \A s \in Sems : sem[s].value > 0 /\ Sleepers(s) # {} => \E t \in Awake : At(t, s)
  /\ \A t \in Created : pc[t] = "acquire" /\ t # Main
  /\ \A t \in Ended : pc[t] = "finished"
  /\ pc[Main] = "acquire" => todo[Main] > 0
  /\ pc[Main] = "finished" => Created = {}
  /\ machine = "halted" => readyList = << >> /\ ~active

IInv == PlacedInv /\ DiskType /\ LockInv /\ WakeInv

(* The kernel halts only when every thread has returned from every request   *)
(* and finished: Interrupt::Idle takes "nothing pending" for the end, and    *)
(* nobody is then asleep on the disk or its lock.                            *)
HaltsDone == machine = "halted" => \A t \in Threads : pc[t] = "finished"

-----------------------------------------------------------------------------
(* The state in which Kernel::Initialize makes the first request. *)
LEMMA InitHolds == Init => IInv
<1>1. SUFFICES ASSUME Init PROVE IInv
  OBVIOUS
<1>2. /\ Main \in Threads /\ Sems = {Lock, Done} /\ Lock # Done /\ Calls \in Nat
  BY Zenon, MainAssumption, DiskAssumption
<1>3. SchedInv /\ Blocked = {} /\ Created = Threads \ {Main} /\ Ended = {}
  <2>1. SchedType
    BY <1>1, <1>2 DEF Init, SchedInit, SchedType, Statuses
  <2>2. Range(readyList) = {} /\ DOMAIN readyList = {}
    BY <1>1 DEF Init, SchedInit, Range
  <2>3. ReadyListOK
    BY Zenon, <1>1, <1>2, <2>2 DEF Init, SchedInit, ReadyListOK
  <2>4. QED
    BY Zenon, <1>1, <1>2, <2>1, <2>3 DEF SchedInv, Blocked, Created, Ended, Init, SchedInit
<1>4. /\ SemType /\ sem[Lock].value = 1 /\ sem[Done].value = 0
      /\ \A s \in Sems : sem[s].queue = << >> /\ Sleepers(s) = {}
  BY <1>1, <1>2 DEF Init, SemType, Sleepers, Range
<1>5. Queued
  BY <1>3, <1>4 DEF Queued, Queue
<1>6. DiskType
  BY Zenon, <1>1, <1>2 DEF Init, DiskType, Points
<1>7. LockInv
  BY <1>1, <1>4 DEF Init, LockInv, Holding
<1>8. WakeInv
  BY <1>1, <1>2, <1>3, <1>4 DEF Init, SchedInit, WakeInv
<1>9. QED
  BY Zenon, <1>3, <1>4, <1>5, <1>6, <1>7, <1>8 DEF IInv, PlacedInv

(* What holds in every state for the thread that runs. *)
LEMMA RunningThread ==
  ASSUME IInv, NEW t \in Threads, Running(t)
  PROVE  /\ machine = "system" /\ currentThread = t
         /\ Lock \in Sems /\ Done \in Sems /\ Lock # Done /\ Sems = {Lock, Done}
         /\ t \in Awake /\ t \notin Created /\ t \notin Ended
         /\ \A s \in Sems : t \notin Sleepers(s)
BY Zenon, WhereThreadsAre, DiskAssumption DEF IInv, Running

(* One lemma for each action: Lock::Acquire. *)
LEMMA AcquireKeeps ==
  ASSUME IInv, NEW t \in Threads, Running(t), Acquire(t)
  PROVE  IInv'
<1>1. /\ machine = "system" /\ currentThread = t
      /\ Lock \in Sems /\ Done \in Sems /\ Lock # Done /\ Sems = {Lock, Done}
      /\ t \in Awake /\ t \notin Created /\ t \notin Ended
      /\ \A s \in Sems : t \notin Sleepers(s)
  BY Zenon, RunningThread
<1>2. pc[t] = "acquire" /\ todo[t] > 0 /\ UNCHANGED <<lockHolder, active, todo>>
  BY Zenon DEF Acquire
<1>3. CASE PTake(Lock) /\ Goto(t, "request")
  <2>1. /\ PlacedInv' /\ SameStates
        /\ sem[Lock].value > 0 /\ sem'[Lock].value = sem[Lock].value - 1
        /\ sem'[Done].value = sem[Done].value
        /\ \A r \in Sems : Sleepers(r)' = Sleepers(r)
        /\ UNCHANGED schedvars
    BY Zenon, <1>1, <1>3, PTakeStep DEF IInv, PTake
  <2>2. pc' = [pc EXCEPT ![t] = "request"]
    BY Zenon, <1>3 DEF Goto
  <2>3. DiskType'
    BY Zenon, <1>2, <2>2 DEF IInv, DiskType, Points
  <2>4. LockInv'
    BY <1>2, <2>1, <2>2 DEF IInv, DiskType, LockInv, Holding
  <2>5. WakeInv'
    BY <1>1, <1>2, <2>1, <2>2, <2>4
       DEF IInv, DiskType, LockInv, Holding, WakeInv, At, SameStates, schedvars
  <2>6. QED
    BY Zenon, <2>1, <2>3, <2>4, <2>5 DEF IInv
<1>4. CASE PSleep(Lock) /\ UNCHANGED pc
  <2>1. /\ PlacedInv'
        /\ Created' = Created /\ Awake' = Awake \ {t} /\ Ended' = Ended
        /\ sem[Lock].value = 0 /\ \A r \in Sems : sem'[r].value = sem[r].value
        /\ Sleepers(Lock)' = Sleepers(Lock) \union {t} /\ Sleepers(Done)' = Sleepers(Done)
    BY Zenon, <1>1, <1>4, PSleepStep DEF IInv
  <2>2. DiskType'
    BY Zenon, <1>2, <1>4 DEF IInv, DiskType
  <2>3. LockInv'
    BY Zenon, <1>1, <1>2, <1>4, <2>1 DEF IInv, LockInv, Holding
  <2>4. machine' # "halted"
    BY Zenon, <1>4 DEF PSleep, Sleep, Run
  <2>5. WakeInv'
    BY <1>1, <1>2, <1>4, <2>1, <2>4 DEF IInv, WakeInv, At
  <2>6. QED
    BY Zenon, <2>1, <2>2, <2>3, <2>5 DEF IInv
<1>5. QED
  BY Zenon, <1>3, <1>4 DEF Acquire

(* A disk request with the lock held: no V is left over from an earlier      *)
(* request, so the caller sleeps.                                            *)
LEMMA RequestKeeps ==
  ASSUME IInv, NEW t \in Threads, Running(t), Request(t)
  PROVE  IInv'
<1>1. /\ machine = "system" /\ currentThread = t
      /\ Lock \in Sems /\ Done \in Sems /\ Lock # Done /\ Sems = {Lock, Done}
      /\ t \in Awake /\ t \notin Created /\ t \notin Ended
      /\ \A s \in Sems : t \notin Sleepers(s)
  BY Zenon, RunningThread
<1>2. /\ pc[t] = "request" /\ lockHolder' = t /\ active' = TRUE /\ UNCHANGED todo
  BY Zenon DEF Request
<1>3. /\ sem[Done].value = 0 /\ active = FALSE
      /\ \A u \in Threads \ {t} : ~Holding(u)
  <2>1. \A u \in Threads \ {t} : ~Holding(u)
    BY Zenon, <1>2 DEF IInv, LockInv, Holding
  <2>2. (IF active THEN 1 ELSE 0) + sem[Done].value = 0
    BY Zenon, <1>2, <2>1 DEF IInv, LockInv, Holding
  <2>3. sem[Done].value \in Nat /\ active \in BOOLEAN
    BY Zenon, <1>1 DEF IInv, PlacedInv, SemType, DiskType
  <2>4. QED
    BY <2>1, <2>2, <2>3
<1>4. PSleep(Done) /\ pc' = [pc EXCEPT ![t] = "await"]
  BY <1>3 DEF Request, AwaitDone, Goto
<1>5. /\ PlacedInv'
      /\ Created' = Created /\ Awake' = Awake \ {t} /\ Ended' = Ended
      /\ \A r \in Sems : sem'[r].value = sem[r].value
      /\ Sleepers(Done)' = Sleepers(Done) \union {t} /\ Sleepers(Lock)' = Sleepers(Lock)
  BY Zenon, <1>1, <1>4, PSleepStep DEF IInv
<1>6. DiskType'
  BY Zenon, <1>2, <1>4 DEF IInv, DiskType, Points
<1>7. LockInv'
  BY <1>1, <1>2, <1>3, <1>4, <1>5 DEF IInv, DiskType, LockInv, Holding
<1>8. machine' # "halted"
  BY Zenon, <1>4 DEF PSleep, Sleep, Run
<1>9. WakeInv'
  BY <1>1, <1>2, <1>3, <1>4, <1>5, <1>8 DEF IInv, DiskType, WakeInv, At
<1>10. QED
  BY Zenon, <1>5, <1>6, <1>7, <1>9 DEF IInv

(* The loop of P() after the sleep. *)
LEMMA AwaitKeeps ==
  ASSUME IInv, NEW t \in Threads, Running(t), Await(t)
  PROVE  IInv'
<1>1. /\ machine = "system" /\ currentThread = t
      /\ Lock \in Sems /\ Done \in Sems /\ Lock # Done /\ Sems = {Lock, Done}
      /\ t \in Awake /\ t \notin Created /\ t \notin Ended
      /\ \A s \in Sems : t \notin Sleepers(s)
  BY Zenon, RunningThread
<1>2. /\ pc[t] = "await" /\ lockHolder = t /\ UNCHANGED <<lockHolder, active, todo>>
      /\ \A u \in Threads \ {t} : ~Holding(u)
  BY Zenon DEF Await, IInv, LockInv, Holding
<1>3. CASE sem[Done].value > 0
  <2>1. PTake(Done) /\ pc' = [pc EXCEPT ![t] = "release"]
    BY Zenon, <1>3 DEF Await, AwaitDone, Goto
  <2>2. /\ PlacedInv' /\ SameStates
        /\ sem'[Done].value = sem[Done].value - 1
        /\ sem'[Lock].value = sem[Lock].value
        /\ \A r \in Sems : Sleepers(r)' = Sleepers(r)
        /\ UNCHANGED schedvars
    BY Zenon, <1>1, <2>1, PTakeStep DEF IInv, PTake
  <2>3. DiskType'
    BY Zenon, <1>2, <2>1 DEF IInv, DiskType, Points
  <2>4. sem[Done].value = 1 /\ ~active
    <3>1. (IF active THEN 1 ELSE 0) + sem[Done].value = 1
      BY Zenon, <1>2 DEF IInv, LockInv
    <3>2. sem[Done].value \in Nat
      BY Zenon, <1>1 DEF IInv, PlacedInv, SemType
    <3>3. QED
      BY <1>3, <3>1, <3>2
  <2>5. LockInv'
    BY <1>2, <2>1, <2>2, <2>4 DEF IInv, DiskType, LockInv, Holding
  <2>6. \A u \in Threads \ {t} : pc[u] # "await"
    BY Zenon, <1>2 DEF Holding
  <2>7. WakeInv'
    BY <1>1, <1>2, <2>1, <2>2, <2>4, <2>6
       DEF IInv, DiskType, WakeInv, At, SameStates, schedvars
  <2>8. QED
    BY Zenon, <2>2, <2>3, <2>5, <2>7 DEF IInv
<1>4. CASE ~(sem[Done].value > 0)
  <2>1. PSleep(Done) /\ pc' = [pc EXCEPT ![t] = "await"]
    BY Zenon, <1>4 DEF Await, AwaitDone, Goto
  <2>2. /\ PlacedInv'
        /\ Created' = Created /\ Awake' = Awake \ {t} /\ Ended' = Ended
        /\ sem[Done].value = 0 /\ \A r \in Sems : sem'[r].value = sem[r].value
        /\ Sleepers(Done)' = Sleepers(Done) \union {t} /\ Sleepers(Lock)' = Sleepers(Lock)
    BY Zenon, <1>1, <2>1, PSleepStep DEF IInv
  <2>3. UNCHANGED pc
    BY Zenon, <1>2, <2>1 DEF IInv, DiskType
  <2>4. DiskType'
    BY Zenon, <1>2, <2>3 DEF IInv, DiskType
  <2>5. LockInv'
    BY Zenon, <1>1, <1>2, <2>2, <2>3 DEF IInv, LockInv, Holding
  <2>6. machine' # "halted"
    BY Zenon, <2>1 DEF PSleep, Sleep, Run
  <2>7. WakeInv'
    BY <1>1, <1>2, <2>2, <2>3, <2>6 DEF IInv, WakeInv, At
  <2>8. QED
    BY Zenon, <2>2, <2>4, <2>5, <2>7 DEF IInv
<1>5. QED
  BY Zenon, <1>3, <1>4

(* Lock::Release: whoever slept on the lock's semaphore, the first is awake. *)
LEMMA ReleaseKeeps ==
  ASSUME IInv, NEW t \in Threads, Running(t), Release(t)
  PROVE  IInv'
<1>1. /\ machine = "system" /\ currentThread = t
      /\ Lock \in Sems /\ Done \in Sems /\ Lock # Done /\ Sems = {Lock, Done}
      /\ t \in Awake /\ t \notin Created /\ t \notin Ended
      /\ \A s \in Sems : t \notin Sleepers(s)
  BY Zenon, RunningThread
<1>2. /\ pc[t] = "release" /\ lockHolder' = NoThread /\ UNCHANGED <<active, todo>>
      /\ pc' = [pc EXCEPT ![t] = "return"] /\ V(Lock)
      /\ \A u \in Threads \ {t} : ~Holding(u)
  BY Zenon DEF Release, Goto, IInv, LockInv, Holding
<1>3. /\ PlacedInv' /\ Created' = Created /\ Ended' = Ended /\ Awake \subseteq Awake'
      /\ Sleepers(Lock) # {} => \E h \in Sleepers(Lock) : h \in Awake'
      /\ sem'[Lock].value = sem[Lock].value + 1
      /\ sem'[Done].value = sem[Done].value
      /\ \A r \in Sems : Sleepers(r)' \subseteq Sleepers(r)
  BY Zenon, <1>1, <1>2, VStep DEF IInv
<1>4. DiskType'
  BY Zenon, <1>2 DEF IInv, DiskType, Points
<1>5. LockInv'
  BY <1>2, <1>3 DEF IInv, DiskType, LockInv, Holding
<1>6. machine' = "system"
  BY Zenon, <1>1, <1>2 DEF V, schedvars
<1>7. WakeInv'
  <2>1. ASSUME NEW s \in Sems, NEW u \in Sleepers(s)' PROVE At(u, s)'
    BY <1>1, <1>2, <1>3 DEF IInv, DiskType, WakeInv, At
  <2>2. ASSUME NEW s \in Sems, sem'[s].value > 0, Sleepers(s)' # {}
        PROVE  \E u \in Awake' : At(u, s)'
    <3>1. CASE s = Lock
      <4>1. PICK h \in Sleepers(Lock) : h \in Awake'
        BY Zenon, <1>3, <2>2, <3>1
      <4>2. pc[h] = "acquire" /\ todo[h] > 0 /\ h # t
        BY Zenon, <1>1 DEF IInv, WakeInv, At
      <4>3. At(h, s)'
        BY <1>2, <3>1, <4>2 DEF At, IInv, DiskType
      <4>4. QED
        BY Zenon, <4>1, <4>3
    <3>2. CASE s = Done
      BY <1>1, <1>2, <1>3, <2>2, <3>2 DEF IInv, DiskType, WakeInv, At
    <3>3. QED
      BY Zenon, <1>1, <3>1, <3>2
  <2>3. QED
    BY <1>1, <1>2, <1>3, <1>6, <2>1, <2>2 DEF IInv, DiskType, WakeInv
<1>8. QED
  BY Zenon, <1>3, <1>4, <1>5, <1>7 DEF IInv

(* The points of a thread outside its request. *)
LEMMA ReturnKeeps ==
  ASSUME IInv, NEW t \in Threads, Running(t), Return(t)
  PROVE  IInv'
<1>1. /\ machine = "system" /\ currentThread = t
      /\ t \in Awake /\ t \notin Created /\ t \notin Ended
      /\ \A s \in Sems : t \notin Sleepers(s)
  BY Zenon, RunningThread
<1>2. /\ pc[t] = "return" /\ todo' = [todo EXCEPT ![t] = todo[t] - 1]
      /\ UNCHANGED <<synchvars, active>>
      /\ todo[t] \in Nat \ {0}
  BY DEF Return, IInv, DiskType
<1>3. PICK p \in {"enable", "acquire"} :
        pc' = [pc EXCEPT ![t] = p] /\ (t = Main => p = "enable")
  BY Zenon DEF Return, Goto
<1>4. PlacedInv' /\ SameStates /\ SameSems
  BY Zenon, <1>2, SchedKeeps DEF IInv, synchvars, SameSems, Sleepers
<1>5. DiskType'
  BY <1>2, <1>3 DEF IInv, DiskType, Points
<1>6. LockInv'
  BY <1>2, <1>3 DEF IInv, DiskType, LockInv, Holding, synchvars
<1>7. WakeInv'
  BY <1>1, <1>2, <1>3, <1>4 DEF IInv, DiskType, WakeInv, At, SameStates, SameSems, synchvars, schedvars
<1>8. QED
  BY Zenon, <1>4, <1>5, <1>6, <1>7 DEF IInv

\* The inductive invariant at the end of P and V, where interrupts come back on.
LEMMA EnableInterruptsKeeps ==
  ASSUME IInv, NEW t \in Threads, Running(t), EnableInterrupts(t)
  PROVE  IInv'
<1>1. /\ machine = "system" /\ currentThread = t
      /\ t \in Awake /\ t \notin Created /\ t \notin Ended
      /\ \A s \in Sems : t \notin Sleepers(s)
  BY Zenon, RunningThread
<1>2. /\ pc[t] = "enable" /\ pc' = [pc EXCEPT ![t] = "fork"] /\ Enable
      /\ UNCHANGED <<sem, lockHolder, active, todo>>
  BY Zenon DEF EnableInterrupts, Goto
<1>3. PlacedInv' /\ SameStates /\ SameSems
  BY Zenon, <1>2, SchedKeeps DEF IInv, SameSems, Sleepers
<1>4. DiskType'
  BY Zenon, <1>2 DEF IInv, DiskType, Points
<1>5. LockInv'
  BY Zenon, <1>2 DEF IInv, DiskType, LockInv, Holding
<1>6. WakeInv'
  <2>1. \A u \in Threads : u # t => pc'[u] = pc[u]
    BY Zenon, <1>2 DEF IInv, DiskType
  <2>2. pc'[t] = "fork"
    BY Zenon, <1>2 DEF IInv, DiskType
  <2>3. \A u \in Threads, s \in Sems : At(u, s)' <=> At(u, s)
    BY Zenon, <1>2, <2>1, <2>2 DEF At
  <2>4. Created \subseteq Threads /\ Awake \subseteq Threads /\ Ended \subseteq Threads
        /\ Main \in Threads /\ \A s \in Sems : Sleepers(s) \subseteq Threads
    <3>1. Blocked \subseteq Threads /\ \A s \in Sems : Sleepers(s) \subseteq Blocked
      BY Zenon, WhereThreadsAre DEF IInv, Blocked
    <3>2. QED
      BY Zenon, <3>1, MainAssumption DEF Created, Awake, Ended
  <2>5. /\ \A s \in Sems : \A u \in Sleepers(s)' : At(u, s)'
        /\ \A s \in Sems : sem'[s].value > 0 /\ Sleepers(s)' # {} => \E u \in Awake' : At(u, s)'
    BY Zenon, <1>3, <2>3, <2>4 DEF IInv, WakeInv, SameStates, SameSems
  <2>6. /\ \A u \in Created' : pc'[u] = "acquire" /\ u # Main
        /\ \A u \in Ended' : pc'[u] = "finished"
    BY Zenon, <1>1, <1>3, <2>1, <2>4 DEF IInv, WakeInv, SameStates
  <2>7. /\ pc'[Main] = "acquire" => todo'[Main] > 0
        /\ pc'[Main] = "finished" => Created' = {}
    BY Zenon, <1>2, <1>3, <2>1, <2>2, <2>4 DEF IInv, WakeInv, SameStates
  <2>8. machine' = "halted" => readyList' = << >> /\ ~active'
    BY Zenon, <1>2 DEF IInv, WakeInv, Enable
  <2>9. QED
    BY Zenon, <2>5, <2>6, <2>7, <2>8 DEF WakeInv
<1>7. QED
  BY Zenon, <1>3, <1>4, <1>5, <1>6 DEF IInv

\* The inductive invariant when main forks a user of the disk.
LEMMA ForkAllKeeps ==
  ASSUME IInv, NEW t \in Threads, Running(t), ForkAll(t)
  PROVE  IInv'
<1>1. PICK u \in Threads : Fork(u)
  BY Zenon DEF ForkAll
<1>2. UNCHANGED <<sem, lockHolder, active, pc, todo>> /\ machine' = machine /\ machine = "system"
  BY Zenon, <1>1 DEF ForkAll, diskvars, Fork, Running
<1>3. /\ PlacedInv' /\ SameSems
      /\ Created' = Created \ {u} /\ Awake' = Awake \union {u} /\ Ended' = Ended
  BY Zenon, <1>1, <1>2, ForkKeeps DEF IInv, SameSems, Sleepers
<1>4. DiskType' /\ LockInv'
  BY Zenon, <1>2 DEF IInv, DiskType, LockInv, Holding
<1>5. WakeInv'
  BY Zenon, <1>2, <1>3 DEF IInv, WakeInv, At, SameSems
<1>6. QED
  BY Zenon, <1>3, <1>4, <1>5 DEF IInv

\* The inductive invariant at Thread::Finish, which holds no lock any more.
LEMMA FinishesKeeps ==
  ASSUME IInv, NEW t \in Threads, Running(t), Finish(t)
  PROVE  IInv'
<1>1. /\ machine = "system" /\ currentThread = t
      /\ t \in Awake /\ t \notin Created /\ t \notin Ended
      /\ \A s \in Sems : t \notin Sleepers(s)
  BY Zenon, RunningThread
<1>2. /\ pc' = [pc EXCEPT ![t] = "finished"] /\ Sleep("FINISHED")
      /\ UNCHANGED <<sem, lockHolder, active, todo>>
      /\ pc[t] \in {"fork", "acquire"} /\ (pc[t] = "acquire" => todo[t] = 0)
  BY Zenon DEF Finish, Goto
<1>3. /\ PlacedInv' /\ SameSems
      /\ Created' = Created /\ Awake' = Awake \ {t} /\ Ended' = Ended \union {t}
  BY Zenon, <1>1, <1>2, FinishKeeps DEF IInv, SameSems, Sleepers
<1>4. DiskType'
  BY Zenon, <1>2 DEF IInv, DiskType, Points
<1>5. LockInv'
  BY Zenon, <1>2 DEF IInv, DiskType, LockInv, Holding
<1>6. machine' # "halted"
  BY Zenon, <1>2 DEF Sleep, Run
<1>7. t = Main => Created = {}
  BY <1>2 DEF Finish, IInv, WakeInv, Created
<1>8. WakeInv'
  <2>1. ASSUME NEW s \in Sems, NEW u \in Sleepers(s)' PROVE At(u, s)'
    BY <1>1, <1>2, <1>3 DEF IInv, DiskType, WakeInv, At, SameSems
  <2>2. ASSUME NEW s \in Sems, sem'[s].value > 0, Sleepers(s)' # {}
        PROVE  \E u \in Awake' : At(u, s)'
    <3>1. PICK u \in Awake : At(u, s)
      BY Zenon, <1>3, <2>2 DEF IInv, WakeInv, SameSems
    <3>2. u # t
      BY <1>2, <3>1 DEF At
    <3>3. At(u, s)' /\ u \in Awake'
      BY Zenon, <1>2, <1>3, <3>1, <3>2 DEF At, IInv, DiskType, Awake
    <3>4. QED
      BY Zenon, <3>3
  <2>3. QED
    BY <1>1, <1>2, <1>3, <1>6, <1>7, <2>1, <2>2 DEF IInv, DiskType, WakeInv
<1>9. QED
  BY Zenon, <1>3, <1>4, <1>5, <1>8 DEF IInv

(* The disk's interrupt: the one V that the waiting thread needs. *)
LEMMA DiskInterruptKeeps ==
  ASSUME IInv, DiskInterrupt
  PROVE  IInv'
<1>1. Lock \in Sems /\ Done \in Sems /\ Lock # Done /\ Sems = {Lock, Done}
  BY Zenon, DiskAssumption
<1>2. /\ active /\ active' = FALSE /\ V(Done) /\ UNCHANGED <<lockHolder, pc, todo>>
      /\ machine' = machine /\ machine # "halted"
  BY Zenon DEF DiskInterrupt, Interruptible, V, schedvars
<1>3. /\ PlacedInv' /\ Created' = Created /\ Ended' = Ended /\ Awake \subseteq Awake'
      /\ Sleepers(Done) # {} => \E h \in Sleepers(Done) : h \in Awake'
      /\ sem'[Done].value = sem[Done].value + 1 /\ sem[Done].value \in Nat
      /\ sem'[Lock].value = sem[Lock].value
      /\ \A r \in Sems : Sleepers(r)' \subseteq Sleepers(r)
  BY Zenon, <1>1, <1>2, VStep DEF IInv
<1>4. DiskType'
  BY Zenon, <1>2 DEF IInv, DiskType
<1>5. LockInv'
  BY <1>2, <1>3 DEF IInv, LockInv, Holding
<1>6. WakeInv'
  <2>1. ASSUME NEW s \in Sems, NEW u \in Sleepers(s)' PROVE At(u, s)'
    BY Zenon, <1>2, <1>3 DEF IInv, WakeInv, At
  <2>2. ASSUME NEW s \in Sems, sem'[s].value > 0, Sleepers(s)' # {}
        PROVE  \E u \in Awake' : At(u, s)'
    <3>1. CASE s = Done
      <4>1. PICK h \in Sleepers(Done) : h \in Awake'
        BY Zenon, <1>3, <2>2, <3>1
      <4>2. At(h, s)'
        BY Zenon, <1>1, <1>2, <3>1, <4>1 DEF IInv, WakeInv, At
      <4>3. QED
        BY Zenon, <4>1, <4>2
    <3>2. CASE s = Lock
      BY ZenonT(60), <1>1, <1>2, <1>3, <2>2, <3>2 DEF IInv, WakeInv, At
    <3>3. QED
      BY Zenon, <1>1, <3>1, <3>2
  <2>3. QED
    BY ZenonT(60), <1>2, <1>3, <2>1, <2>2 DEF IInv, WakeInv
<1>7. QED
  BY Zenon, <1>3, <1>4, <1>5, <1>6 DEF IInv

(* Time slices, the idle loop and Halt. *)
LEMMA MachineKeeps ==
  ASSUME IInv, Machine
  PROVE  IInv'
<1>1. UNCHANGED <<sem, lockHolder, active, pc, todo>> /\ active \in BOOLEAN
  BY Zenon DEF Machine, diskvars, IInv, DiskType
<1>2. PlacedInv' /\ SameStates
  BY Zenon, <1>1, SchedKeeps DEF IInv, Machine
<1>3. SameSems
  BY Zenon, <1>1 DEF SameSems, Sleepers
<1>4. DiskType' /\ LockInv'
  BY Zenon, <1>1 DEF IInv, DiskType, LockInv, Holding
<1>5. machine' = "halted" => readyList' = << >> /\ ~active'
  <2>1. CASE TimerInterrupt
    BY Zenon, <2>1 DEF TimerInterrupt, Interruptible, Yield, Run
  <2>2. CASE WakeUp
    BY Zenon, <2>2 DEF WakeUp, Run
  <2>3. CASE Halt(active)
    BY Zenon, <1>1, <2>3 DEF Halt
  <2>4. QED
    BY Zenon, <2>1, <2>2, <2>3 DEF Machine
<1>6. WakeInv'
  BY Zenon, <1>1, <1>2, <1>3, <1>5 DEF IInv, WakeInv, At, SameStates, SameSems
<1>7. QED
  BY Zenon, <1>2, <1>4, <1>6 DEF IInv

\* Every step of SynchDisk's threads, device and kernel keeps the invariant.
LEMMA NextKeeps == IInv /\ [Next]_vars => IInv'
<1>1. SUFFICES ASSUME IInv, [Next]_vars PROVE IInv'
  OBVIOUS
<1>2. ASSUME NEW t \in Threads, Step(t) PROVE IInv'
  BY Zenon, <1>1, <1>2, AcquireKeeps, RequestKeeps, AwaitKeeps, ReleaseKeeps, ReturnKeeps,
     EnableInterruptsKeeps, ForkAllKeeps, FinishesKeeps DEF Step
<1>3. CASE DiskInterrupt
  BY Zenon, <1>1, <1>3, DiskInterruptKeeps
<1>4. CASE Machine
  BY Zenon, <1>1, <1>4, MachineKeeps
<1>5. CASE UNCHANGED vars
  <2>1. UNCHANGED schedvars /\ UNCHANGED <<sem, lockHolder, active, pc, todo>>
    BY Zenon, <1>5 DEF vars, synchvars, diskvars
  <2>2. PlacedInv' /\ SameStates
    BY Zenon, <1>1, <2>1, SchedKeeps DEF IInv
  <2>3. SameSems
    BY Zenon, <2>1 DEF SameSems, Sleepers
  <2>4. DiskType' /\ LockInv'
    BY Zenon, <1>1, <2>1 DEF IInv, DiskType, LockInv, Holding
  <2>5. WakeInv'
    BY Zenon, <1>1, <2>1, <2>2, <2>3 DEF IInv, WakeInv, At, SameStates, SameSems, schedvars
  <2>6. QED
    BY Zenon, <2>2, <2>4, <2>5 DEF IInv
<1>6. QED
  BY Zenon, <1>1, <1>2, <1>3, <1>4, <1>5 DEF Next

\* The invariant holds in every reachable state of SynchDisk.
LEMMA Invariant == Spec => []IInv
<1>1. QED
  BY InitHolds, NextKeeps, PTL DEF Spec

-----------------------------------------------------------------------------
(* Nobody is left behind: with nothing ready and no interrupt of the disk to *)
(* come, no thread sleeps on a semaphore, so the halt is the end of all      *)
(* threads (HaltsDone).                                                      *)
THEOREM HaltsDoneCorrect == Spec => []HaltsDone
<1>1. ASSUME IInv, machine = "halted" PROVE \A t \in Threads : pc[t] = "finished"
  <2>1. Awake = {} /\ ~active
    BY Zenon, <1>1, WhereThreadsAre DEF IInv, WakeInv
  <2>2. /\ Threads = Created \union Blocked \union Ended
        /\ Blocked = Sleepers(Lock) \union Sleepers(Done)
        /\ Lock # Done /\ Lock \in Sems /\ Done \in Sems
    BY <1>1, <2>1, WhereThreadsAre, DiskAssumption DEF IInv
  <2>3. \A s \in Sems : sem[s].value > 0 => Sleepers(s) = {}
    BY Zenon, <1>1, <2>1 DEF IInv, WakeInv
  <2>4. Sleepers(Done) = {}
    <3>1. ASSUME NEW t \in Sleepers(Done) PROVE FALSE
      <4>1. t \in Threads /\ pc[t] = "await"
        BY Zenon, <1>1, <2>2 DEF IInv, WakeInv, At
      <4>2. sem[Done].value = 1
        BY <1>1, <2>1, <2>2, <4>1 DEF IInv, LockInv, PlacedInv, SemType
      <4>3. QED
        BY <2>2, <2>3, <3>1, <4>2
    <3>2. QED
      BY Zenon, <3>1
  <2>5. \A t \in Threads : ~Holding(t)
    BY Zenon, <1>1, <2>2, <2>4 DEF IInv, WakeInv, At, Holding
  <2>6. Sleepers(Lock) = {}
    BY <1>1, <2>2, <2>3, <2>5 DEF IInv, LockInv
  <2>7. Main \in Ended /\ pc[Main] = "finished"
    BY Zenon, <1>1, <2>2, <2>4, <2>6, MainAssumption DEF IInv, WakeInv
  <2>8. Threads = Ended
    BY Zenon, <1>1, <2>2, <2>4, <2>6, <2>7 DEF IInv, WakeInv
  <2>9. QED
    BY Zenon, <1>1, <2>8 DEF IInv, WakeInv
<1>2. IInv => HaltsDone
  BY Zenon, <1>1 DEF HaltsDone
<1>3. QED
  BY <1>2, Invariant, PTL

-----------------------------------------------------------------------------
INSTANCE FiniteSetTheorems

(* The facts about finite sets that the lemmas above assume. *)
LEMMA Counting == CountingFacts
<1>1. \A S : IsFiniteSet(S) => Cardinality(S) \in Nat
  BY Zenon, FS_CardinalityType
<1>2. IsFiniteSet({}) /\ Cardinality({}) = 0
  BY Zenon, FS_EmptySet
<1>3. \A S : IsFiniteSet(S) /\ Cardinality(S) = 0 => S = {}
  BY Zenon, FS_EmptySet
<1>4. \A x : Cardinality({x}) = 1
  BY Zenon, FS_Singleton
<1>5. \A n \in Nat : IsFiniteSet(1 .. n) /\ Cardinality(1 .. n) = n
  BY FS_Interval
<1>6. \A S, T : IsFiniteSet(S) /\ T \subseteq S =>
        /\ IsFiniteSet(T) /\ Cardinality(T) <= Cardinality(S)
        /\ Cardinality(T) = Cardinality(S) => T = S
  BY Zenon, FS_Subset
<1>7. \A S, x : IsFiniteSet(S) /\ x \notin S => Cardinality(S \union {x}) = Cardinality(S) + 1
  BY Zenon, FS_AddElement
<1>8. \A S, x : IsFiniteSet(S) /\ x \in S => Cardinality(S \ {x}) = Cardinality(S) - 1
  BY Zenon, FS_RemoveElement
<1>9. \A S, T : IsFiniteSet(S) /\ IsFiniteSet(T) =>
       IsFiniteSet(S \X T) /\ Cardinality(S \X T) = Cardinality(S) * Cardinality(T)
  BY Zenon, FS_Product
<1>10. ASSUME NEW S, NEW q, NEW n \in Nat, IsFiniteSet(S), q \in [1 .. n -> S],
              \A i, j \in 1 .. n : q[i] = q[j] => i = j
       PROVE  n <= Cardinality(S)
  <2>1. q \in Injection(1 .. n, S)
    BY Zenon, <1>10 DEF Injection, IsInjective
  <2>2. Cardinality(1 .. n) <= Cardinality(S)
    BY Zenon, <1>10, <2>1, FS_Injection DEF ExistsInjection
  <2>3. QED
    BY Zenon, <1>5, <2>2
<1>11. QED
  BY <1>1, <1>2, <1>3, <1>4, <1>5, <1>6, <1>7, <1>8, <1>9, <1>10, Zenon DEF CountingFacts

(* Whatever the time slices and the moments of the disk's interrupts, every  *)
(* thread is in the one place where the kernel will find it (ThreadsPlaced). *)
THEOREM ThreadsPlacedCorrect == Spec => []ThreadsPlaced
<1>1. IInv => ThreadsPlaced
  BY Zenon, PlacedIsPlaced, Counting DEF IInv
<1>2. QED
  BY <1>1, Invariant, PTL

(* SynchDisk's semaphore and the disk's interrupts are matched one to one,   *)
(* and the ASSERT of Lock::Release holds (InterruptMatched).                 *)
THEOREM InterruptMatchedCorrect == Spec => []InterruptMatched
<1>1. ASSUME IInv PROVE InterruptMatched
  <2> DEFINE W == {t \in Threads : pc[t] = "await"}
  <2>1. Cardinality(W) = IF \E t \in Threads : pc[t] = "await" THEN 1 ELSE 0
    <3>1. CASE \E t \in Threads : pc[t] = "await"
      <4>1. PICK t \in Threads : pc[t] = "await"
        BY Zenon, <3>1
      <4>2. W = {t}
        BY Zenon, <1>1, <4>1 DEF IInv, LockInv, Holding
      <4>3. QED
        BY Zenon, <3>1, <4>2, FS_Singleton
    <3>2. CASE ~\E t \in Threads : pc[t] = "await"
      <4>1. W = {}
        BY Zenon, <3>2
      <4>2. QED
        BY Zenon, <3>2, <4>1, FS_EmptySet
    <3>3. QED
      BY Zenon, <3>1, <3>2
  <2>2. (IF active THEN 1 ELSE 0) + sem[Done].value = Cardinality(W) /\ Cardinality(W) <= 1
    BY <1>1, <2>1 DEF IInv, LockInv
  <2>3. QED
    BY Zenon, <1>1, <2>2 DEF InterruptMatched, IInv, LockInv
<1>2. QED
  BY <1>1, Invariant, PTL
===============================================================================
