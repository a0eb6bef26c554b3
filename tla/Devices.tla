------------------------------- MODULE Devices ------------------------------
(***************************************************************************)
(* The simulated hardware under the kernel, with its clock: the sorted     *)
(* list of pending interrupts (machine/interrupt.cc), the timer, the       *)
(* console and the disk that schedule them, and the kernel routines that   *)
(* wait for them (userprog/synchconsole.cc, filesys/synchdisk.cc,          *)
(* Kernel::ConsoleTest).  Time passes when interrupts are re-enabled       *)
(* (OneTick) and when nothing can run (Idle); handlers run then, all those *)
(* that are due, with interrupts off.                                      *)
(*                                                                         *)
(* Semaphores are counters here, a P being a step that needs a positive    *)
(* count: Synch shows that the code's queues implement that.  Any ready    *)
(* thread may be the next to run when the running one sleeps or yields.    *)
(***************************************************************************)
EXTENDS List, Integers

CONSTANTS Workloads,        \* what the threads do: functions from threads to operations
          Keyboards,        \* [chars, ended]: what will be typed, and whether it ends in ^D
          SystemTick, UserTick, ConsoleTime, TimerTicks, RotationTime, SeekTime, SectorsPerTrack,
          Delays            \* the timer's delays: TimerTicks, or random ones with the -rs flag

VARIABLES m,         \* the machine: clock, pending interrupts, devices, semaphores
          work,      \* work[t]: the operations thread t has still to do
          stage,     \* stage[t]: where in the first of them it is
          current    \* Kernel::currentThread

vars == <<m, work, stage, current>>

EOF == "EOF"

ASSUME TimesAssumption ==
  \A x \in {SystemTick, UserTick, ConsoleTime, TimerTicks, RotationTime, SeekTime, SectorsPerTrack} :
    x \in Nat \ {0}

ASSUME DelaysAssumption == Delays # {} /\ Delays \subseteq 1 .. 2 * TimerTicks

-----------------------------------------------------------------------------
(***************************************************************************)
(* The pending interrupts.  seq numbers them in the order of scheduling.   *)
(***************************************************************************)
PendingCompare_newest_first(x, y) == IF x.when <= y.when THEN -1 ELSE 1
PendingCompare(x, y) == x.when - y.when

Schedule(k, dev, fromNow) ==
  LET new == [dev |-> dev, when |-> k.totalTicks + fromNow, seq |-> k.seq]
      bigger == {p \in Range(Items(k.pending)) : PendingCompare(new, p) < 0}
  IN [k EXCEPT !.pending = Insert(@, new, bigger), !.seq = @ + 1]

V(k, s) == [k EXCEPT !.sem[s] = @ + 1]

\* Timer::CallBack (the Alarm's, then SetInterrupt), ConsoleInput::CallBack,
\* ConsoleOutput::CallBack and Disk::CallBack, each with its kernel handler.
\* env is what the outside decides: a random delay, and whether a key was hit.
TimerCallBack(k, env) ==
  LET a == [k EXCEPT !.yieldOnReturn = @ \/ k.status # "IdleMode"]
  IN IF k.timerDisable THEN a ELSE Schedule(a, "timer", env.delay)

KeyboardCallBack(k, env) ==
  IF k.disabled THEN k
  ELSE IF ~env.hit \/ (k.typed = <<>> /\ ~k.ended) THEN Schedule(k, "keyboard", ConsoleTime)
  ELSE IF k.typed = <<>> THEN V(k, "in")
  ELSE V([k EXCEPT !.incoming = Head(k.typed), !.typed = Tail(@)], "in")

CallBack(k, dev, env) ==
  CASE dev = "timer"    -> TimerCallBack(k, env)
    [] dev = "keyboard" -> KeyboardCallBack(k, env)
    [] dev = "display"  -> V([k EXCEPT !.putBusy = FALSE], "out")
    [] dev = "disk"     -> V([k EXCEPT !.active = FALSE], "disk")

\* The loop of Interrupt::CheckIfDue: handlers run until none is due.
More(k) == ~IsEmpty(k.pending) /\ Front(k.pending).when <= k.totalTicks

RECURSIVE Fire(_, _)
Fire(k, env) ==
  LET next == Front(k.pending)
      inOrder == \/ next.when > k.last.when
                 \/ next.when = k.last.when /\ next.seq > k.last.seq
      after == CallBack([k EXCEPT !.pending = RemoveFront(@), !.last = next,
                                  !.ordered = @ /\ inOrder], next.dev, env)
  IN IF More(after) THEN Fire(after, env) ELSE after

\* CheckIfDue: nothing pending or nothing due; or the clock is moved on, when the
\* machine idles, and what is due is fired.
CheckIfDue(k, advanceClock, env) ==
  IF IsEmpty(k.pending) \/ (Front(k.pending).when > k.totalTicks /\ ~advanceClock) THEN k
  ELSE LET when == Front(k.pending).when
       IN Fire([k EXCEPT !.totalTicks = IF when > @ THEN when ELSE @], env)

\* OneTick, from SetLevel when it turns interrupts on (SystemTick) and after a user
\* instruction (UserTick).
OneTick(k, ticks, env) ==
  IF k.level = "IntOff" THEN k
  ELSE CheckIfDue([k EXCEPT !.totalTicks = @ + ticks], FALSE, env)

-----------------------------------------------------------------------------
(***************************************************************************)
(* The disk's timing: the head moves a track in SeekTime and passes a      *)
(* sector in RotationTime, and a track buffer fills as the sectors pass.   *)
(***************************************************************************)
Distance(a, b) == IF a > b THEN a - b ELSE b - a
Seek(k, s) == SeekTime * Distance(s \div SectorsPerTrack, k.lastSector \div SectorsPerTrack)
RoundUp(n) == (RotationTime - (n % RotationTime)) % RotationTime
TimeToSeek(k, s) == LET seek == Seek(k, s) IN <<seek, RoundUp(k.totalTicks + seek)>>

ModuloDiff(to, from) ==
  (((to % SectorsPerTrack) - (from % SectorsPerTrack)) + SectorsPerTrack) % SectorsPerTrack

Buffered_early(k, s, writing, seek, timeAfter) ==
  /\ ~writing /\ seek = 0
  /\ (timeAfter - k.bufferInit) \div RotationTime >= ModuloDiff(s, k.bufferInit \div RotationTime)
Buffered(k, s, writing, seek, timeAfter) ==
  /\ ~writing /\ seek = 0
  /\ (timeAfter - k.bufferInit) \div RotationTime > ModuloDiff(s, k.bufferInit \div RotationTime)

ComputeLatency(k, s, writing) ==
  LET seek == TimeToSeek(k, s)[1]
      rotation == TimeToSeek(k, s)[2]
      timeAfter == k.totalTicks + seek + rotation
  IN IF Buffered(k, s, writing, seek, timeAfter) THEN RotationTime
     ELSE seek + rotation + ModuloDiff(s, timeAfter \div RotationTime) * RotationTime
            + RotationTime

UpdateLast(k, s) ==
  LET seek == TimeToSeek(k, s)[1]
  IN [k EXCEPT !.bufferInit = IF seek # 0 THEN k.totalTicks + seek + TimeToSeek(k, s)[2] ELSE @,
               !.lastSector = s]

\* Disk::ReadRequest and WriteRequest, and ConsoleOutput::PutChar.
DiskRequest(k, s, writing) ==
  Schedule(UpdateLast([k EXCEPT !.active = TRUE], s), "disk", ComputeLatency(k, s, writing))
PutChar(k) == Schedule([k EXCEPT !.putBusy = TRUE], "display", ConsoleTime)

\* ConsoleInput::GetChar: the poll for the next character starts when this one is taken.
GetChar(k) ==
  LET next == IF k.incoming # EOF THEN Schedule(k, "keyboard", ConsoleTime) ELSE k
  IN [next EXCEPT !.incoming = EOF]

-----------------------------------------------------------------------------
(***************************************************************************)
(* The threads.  An operation takes its device's lock, starts the device,  *)
(* waits for the handler's V and releases the lock; GetChar starts nothing *)
(* and takes the character once it was signalled.  Each P and V ends with  *)
(* OneTick.                                                                *)
(***************************************************************************)
Threads == DOMAIN work
Op(t) == Head(work[t])
Signal(op) == CASE op.kind = "echo" -> "in" [] op.kind = "put" -> "out" [] OTHER -> "disk"
LockOf(op) == CASE op.kind = "echo" -> "inLock" [] op.kind = "put" -> "outLock"
                [] OTHER -> "diskLock"

Ready(t) ==
  /\ work[t] # <<>>
  /\ stage[t] = "acquire" /\ Op(t).kind \notin {"enable", "run"} => m.sem[LockOf(Op(t))] > 0
  /\ stage[t] = "wait" => m.sem[Signal(Op(t))] > 0

\* The running thread goes on until it sleeps; after the time slice, another
\* ready thread has its turn.
Runs(t) ==
  /\ m.status # "halted" /\ Ready(t)
  /\ IF m.yieldOnReturn THEN t # current \/ \A u \in Threads \ {t} : ~Ready(u)
                        ELSE t = current \/ ~Ready(current)
  /\ current' = t

Envs == [delay : Delays, hit : BOOLEAN]
Slice == [m EXCEPT !.yieldOnReturn = FALSE]
Ticks(k) == \E env \in Envs : m' = OneTick(k, SystemTick, env)

\* Lock::Acquire of the device's lock.
Acquire(t) ==
  /\ stage[t] = "acquire" /\ Op(t).kind \notin {"enable", "run"}
  /\ Ticks([Slice EXCEPT !.sem[LockOf(Op(t))] = @ - 1])
  /\ stage' = [stage EXCEPT ![t] = IF Op(t).kind = "echo" THEN "wait" ELSE "request"]
  /\ UNCHANGED work

\* The end of Kernel::Initialize: interrupts go on.
Enable(t) ==
  /\ stage[t] = "acquire" /\ Op(t).kind = "enable"
  /\ Ticks([Slice EXCEPT !.level = "IntOn"])
  /\ work' = [work EXCEPT ![t] = Tail(@)]
  /\ UNCHANGED stage

\* One turn of Machine::Run's loop, in a thread that runs a user program.
Compute(t) ==
  /\ stage[t] = "acquire" /\ Op(t).kind = "run"
  /\ \E env \in Envs : m' = OneTick(Slice, UserTick, env)
  /\ work' = [work EXCEPT ![t] = Tail(@)]
  /\ UNCHANGED stage

Request(t) ==
  /\ stage[t] = "request"
  /\ m' = IF Op(t).kind = "put" THEN PutChar(Slice)
          ELSE DiskRequest(Slice, Op(t).sector, Op(t).kind = "write")
  /\ stage' = [stage EXCEPT ![t] = "wait"]
  /\ UNCHANGED work

Wait(t) ==
  /\ stage[t] = "wait"
  /\ Ticks([Slice EXCEPT !.sem[Signal(Op(t))] = @ - 1])
  /\ stage' = [stage EXCEPT ![t] = "release"]
  /\ UNCHANGED work

\* ConsoleTest goes on to echo a character and to read the next, until EOF.
Release(t) ==
  /\ stage[t] = "release"
  /\ stage' = [stage EXCEPT ![t] = "acquire"]
  /\ IF Op(t).kind = "echo"
       THEN /\ Ticks(V(GetChar(Slice), "inLock"))
            /\ work' = [work EXCEPT ![t] = IF m.incoming = EOF THEN Tail(@)
                                           ELSE <<[kind |-> "put", ch |-> m.incoming]>> \o @]
       ELSE Ticks(V(Slice, LockOf(Op(t)))) /\ work' = [work EXCEPT ![t] = Tail(@)]

Step(t) == Runs(t) /\ (Acquire(t) \/ Enable(t) \/ Compute(t) \/ Request(t) \/ Wait(t) \/ Release(t))

\* Thread::Sleep with no thread ready: PrepareToEnd disables the timer and the
\* console, and Idle moves the clock to the next interrupt, or halts.
PrepareToEnd_drops_pending(k) ==
  [k EXCEPT !.timerDisable = TRUE, !.disabled = TRUE, !.pending = NewList]
PrepareToEnd(k) == [k EXCEPT !.timerDisable = TRUE, !.disabled = TRUE]

Idle ==
  /\ m.status # "halted" /\ \A t \in Threads : ~Ready(t)
  /\ LET k == [PrepareToEnd(m) EXCEPT !.status = "IdleMode"]
     IN IF IsEmpty(k.pending) THEN m' = [k EXCEPT !.status = "halted"]
        ELSE \E env \in Envs : m' = [CheckIfDue(k, TRUE, env) EXCEPT !.status = "SystemMode"]
  /\ UNCHANGED <<work, stage, current>>

\* The constructors, in Kernel::Initialize's order, at time 0: the timer and the
\* keyboard have scheduled their first interrupt.  A workload that boots the file
\* system starts with interrupts off and enables them after its disk requests.
Init ==
  /\ work \in Workloads
  /\ stage = [t \in DOMAIN work |-> "acquire"]
  /\ current \in DOMAIN work
  /\ \E keys \in Keyboards, env \in Envs :
       m = Schedule(Schedule(
             [totalTicks |-> 0, pending |-> NewList, seq |-> 0, status |-> "SystemMode",
              last |-> [dev |-> "none", when |-> -1, seq |-> -1], ordered |-> TRUE,
              level |-> IF \E t \in DOMAIN work : [kind |-> "enable"] \in Range(work[t])
                          THEN "IntOff" ELSE "IntOn",
              yieldOnReturn |-> FALSE, timerDisable |-> FALSE,
              incoming |-> EOF, disabled |-> FALSE, typed |-> keys.chars, ended |-> keys.ended,
              putBusy |-> FALSE, active |-> FALSE, lastSector |-> 0,
              bufferInit |-> 0,
              sem |-> [s \in {"in", "out", "disk", "inLock", "outLock", "diskLock"} |->
                         IF s \in {"in", "out", "disk"} THEN 0 ELSE 1]],
             "timer", env.delay), "keyboard", ConsoleTime)

Next == (\E t \in Threads : Step(t)) \/ Idle

Spec == Init /\ [][Next]_vars

-----------------------------------------------------------------------------
Pending == {Items(m.pending)[n] : n \in DOMAIN Items(m.pending)}

\* Interrupts fire in the order of their times, and of scheduling among equal
\* times, never before their time (SortedList::Insert is stable and CheckIfDue takes
\* the front), and the pointers of the pending list stay sound.  Nor do they fire
\* late: with interrupts on, what is pending after a step lies in the future, since
\* a check fires all that is due and devices schedule later than now.
FiredInOrder ==
  /\ SanityCheck(m.pending) /\ m.ordered /\ m.last.when <= m.totalTicks
  /\ \A p \in Pending : p.when >= m.last.when /\ (m.level = "IntOn" => p.when > m.totalTicks)

\* What Disable leaves undone: when the machine halts, the only threads that have
\* not finished wait for a key.  PrepareToEnd, called whenever every thread is
\* asleep, never strands a thread that waits for the display or the disk.
HaltStrandsOnlyReaders ==
  m.status = "halted" => \A t \in Threads : work[t] # <<>> => Op(t).kind = "echo"

\* A request ends when the head has passed the whole sector after the seek, at a
\* sector boundary, the first time it does; or after one transfer, when the
\* sector passed the head completely since the track buffer was started.
LatencyExact ==
  [][\A t \in Threads : stage[t] = "request" /\ stage'[t] = "wait" /\ Op(t).kind # "put" =>
       LET s == Op(t).sector
           at == m.totalTicks
           Passes(b) == b % RotationTime = 0 /\ (b \div RotationTime - s) % SectorsPerTrack = 0
           start == CHOOSE b \in at + Seek(m, s) .. at + Seek(m, s) + SectorsPerTrack * RotationTime :
                      Passes(b) /\ \A c \in at + Seek(m, s) .. b - 1 : ~Passes(c)
           inBuffer == /\ Op(t).kind = "read" /\ Seek(m, s) = 0
                       /\ \E b \in m.bufferInit .. at : Passes(b)
                            /\ b + RotationTime <= at + RoundUp(at)
           done == CHOOSE p \in {Items(m'.pending)[n] : n \in DOMAIN Items(m'.pending)} :
                     p.dev = "disk"
       IN done.when = (IF inBuffer THEN at ELSE start) + RotationTime]_vars
=============================================================================
