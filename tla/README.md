# A TLA+ verification of the NachOS repository

The repository holds two programs. `pthreads/` is a pipeline of POSIX threads
around a blocking ring buffer. `file system/code/` is a NachOS kernel (built with
`-DRDATA -DSIM_FIX`, without `FILESYS_STUB`) whose file system has been rewritten:
index headers of up to four levels, directories, recursive removal.
This directory models both: specifications for TLC, and theorems for TLAPS.

Source paths below are relative to `src/`, and NachOS paths to
`src/file system/code/`.

## 1. The parts of the system

| part | state | operations | what makes it hard |
|---|---|---|---|
| `TSQueue` (`pthreads/ts_queue.hpp`) | ring `buffer`, `size`, `head`, `tail`; a mutex; two condition variables | `enqueue`, `dequeue`, `get_size` | spurious and stolen wake-ups, one signal per operation, wrap-around |
| pipeline (`main.cpp`, `reader`, `writer`, `producer`, `consumer`, `consumer_controller`) | three queues, the controller's vector, one flag per consumer | one thread function each; start, cancel, join, delete | unlocked `get_size`, cancellation against a consumer's own `delete`, objects deleted under running threads |
| scheduler (`threads/thread.cc`, `scheduler.cc`, `alarm.cc`, `machine/timer.cc`, `interrupt.cc`) | current thread, ready list, interrupt level, pending interrupts | `Fork`, `Yield`, `Sleep`, `Finish`, `Run`, timer, `Idle`, `Halt` | preemption where interrupts are enabled, idling on a sleeper's or a dead thread's stack, "nothing pending" taken for the end |
| synchronisation (`threads/synch.cc`, `synchlist.cc`) | semaphore values and queues, lock holder, wait queue | `P`, `V`, `Acquire`, `Release`, `Wait`, `Signal`, `Append`, `RemoveFront` | the gap between `V` and the woken thread's run; `Wait` releases before it sleeps |
| disk (`machine/disk.cc`, `filesys/synchdisk.cc`) | `active`, lock, semaphore | `ReadSector`, `WriteSector`, the interrupt | the interrupt must match the request; boot runs with interrupts off |
| file headers (`filesys/filehdr.cc`, `lib/bitmap.cc`, `pbitmap.cc`) | index trees on disk, bitmap | `Allocate`, `Deallocate`, `ByteToSector` | level boundaries, a full disk half-way through an index |
| directories, file system (`filesys/directory.cc`, `filesys.cc`) | tables, bitmap and headers on disk; one global `opfile` | `Create`, `CreateDir`, `Remove`, `OpenAFile`, `ReadFile`, `WriteFile`, `CloseAFile`, listing | copies of the bitmap written back late, three path walks that must agree, a stop between two writes |
| open files (`filesys/openfile.cc`) | seek position | `ReadAt`, `WriteAt`, `Read`, `Write` | partial first and last sectors |
| interrupts and devices (`machine/interrupt.cc`, `timer.cc`, `console.cc`, `disk.cc`, `userprog/synchconsole.cc`) | the clock, the sorted list of pending interrupts, one typed character, `putBusy`, the head's position | `Schedule`, `OneTick`, `CheckIfDue`, `Idle`, callbacks, `GetChar`, `PutChar`, `ComputeLatency` | interrupts due at once, polling devices that `PrepareToEnd` disables, rounding to sectors |
| network, post office (`machine/network.cc`, `network/post.cc`, sockets of `lib/sysdep.cc`) | one buffered packet, mailboxes, a lock, two semaphores | `Send`, `Receive`, `PostalDelivery`, callbacks | lost packets, a host that is not up, two senders and one device |
| user programs (`userprog/exception.cc`, `ksyscall.h`, `addrspace.cc`, `threads/kernel.cc`, `main.cc`) | registers, page tables, memory, the global `opfile` | system calls, `Load`, `Copy`, `Print`, the flags | several programs share one `opfile`, one memory and an unlocked file system |
| MIPS simulator (`machine/mipssim.cc`, `translate.cc`, `machine.cc`) | registers, memory, page table or TLB | `OneInstruction`, `ReadMem`, `WriteMem`, `Translate` | delayed loads and branches, exceptions half-way, overflow, unaligned halves |
| library (`lib/bitmap.cc`, `list.cc`, `hash.cc`, `libtest.cc`) | words, elements and pointers, buckets | insertion, removal, rehash, iterators, self-tests | first, last and only element; growth |
| statistics, debugging, other host calls | counters | | – |

Interactions: the pipeline's threads meet only in its three queues. In the
kernel every blocking operation ends in `Semaphore::P`, hence in `Thread::Sleep`;
every wake-up comes from a `V`, often by an interrupt handler. The file system
reaches the disk only through `SynchDisk`. A user program enters the kernel by a
trap of the simulated machine, and every disk access of its call may switch to
another program. Mail leaves a kernel through a datagram socket of the host.

## 2. Modules

| module | models | extends |
|---|---|---|
| `BoundedQueue` | the promise of a blocking FIFO: call, take effect atomically, return | |
| `TSQueue` | `ts_queue.hpp`, one step per pthread call | |
| `TSQueueTest` | `ts_queue_test.cpp`, a finite client of `TSQueue` | `TSQueue` |
| `Pipeline` | the whole pthreads program over atomic queues | |
| `Scheduler` | threads, ready list, timer, idle loop, as action fragments | |
| `Synch` | semaphores, as action fragments | `Scheduler` |
| `SynchList` | locks, conditions and the synchronised list, in use | `Synch` |
| `SynchDisk` | the synchronised disk from boot to halt | `Synch` |
| `FileHeader` | index trees and the bitmap | |
| `FileSys`, `MCFileSys` | directories, path walks, listings, the order of disk writes, stops | |
| `Mips`, `MCMips` | the instruction interpreter and both address translations | |
| `List`, `HashTable` | the pointer lists, sorted insertion; the hash table and its iterator | |
| `Library`, `MCLibrary` | bitmap, list, sorted list and hash table in use, and their self-tests | `HashTable` |
| `Devices`, `MCDevices` | pending interrupts in simulated time, timer, console, disk | `List` |
| `PostOffice`, `MCPostOffice` | network device, post office and its programs, on several hosts | |
| `UserProg`, `MCUserProg` | the command line, `Copy` and `Print`, programs and their system calls, open files | |
| `TSQueueProofs`, `PipelineProofs`, `SynchDiskProofs`, `SynchListProofs`, `PostOfficeProofs`, `UserProgProofs`, `MipsProofs` | theorems about the module they are named after (section 4) | that module, `TLAPS` |
| `SynchProofs` | lemmas about `Scheduler` and `Synch`, for the two modules over them | `Synch`, `TLAPS` |

**TSQueue.** Each thread has an operation `op` and a point `pc` in it; the points
are the places where the code can be interrupted or can block. Spurious wake-ups
are an action. `get_size` reads `size` without the mutex; it is a step of
`Pipeline`, where it is used.

**Pipeline.** An item is its line number. The three queues are sequences with
atomic operations, which is what `TSQueue` has been proved to implement. An access
to a deleted object (`Access`) goes on with the old contents or crashes the
process: both are outcomes of the build. `Consumers` bounds the consumer objects
alive at a time; the controller waits when none is left.

**Scheduler, Synch.** The machine has one processor, and kernel code loses it
only where interrupts are enabled again: at the end of `P`, `V`, `Fork`, `Begin`
and `Yield`. A step of the modules above is the code between two such points.
Simulated time is left out: a pending interrupt may be delivered at any such point
and while the machine idles. `Sleep` with an empty ready list calls
`PrepareToEnd`, which disables the timer. Since the first disk access of the boot
idles the machine, this build never time-slices a thread afterwards;
`SynchList` starts with the timer on as well as off.

**SynchDisk.** `ReadSector` and `WriteSector` have the same control, and are one
set of actions. The main thread's first request runs inside `Kernel::Initialize`,
with interrupts off.

**FileHeader.** `disk` maps a sector to the header it holds; `Allocate`,
`Deallocate` and `ByteToSector` are recursive operators that thread the state of
the call through, failed `ASSERT`s included. A test of bit -1, a request for sector
-1 and a read beyond `dataSectors` set `aborted`, after which nothing is claimed.

**FileSys.** A call works out its writes from the disk as it finds it; `Write`
then makes them one by one, and `Crash` may drop the rest. All headers have one
level, a table and the bitmap are one sector each (so a stop inside the write of
one table is not modelled). `CheckedPaths` says that callers do not lead a path
through a file. Calls do not overlap, as `filesys.cc:183-184` says; what happens
when they do is the subject of `UserProg`. `List` and `RecursiveList` are operators:
the sequence of names they print, with depth and kind.

**Mips.** `OneInstruction` is the body of `Machine::Run`'s loop; `InterruptDue`
completes the load in progress, which is all that an interrupt does to the registers;
`SyscallReturns` is the handler's result and its move of the program counters.
Words are scaled: `ByteBits` bits to a byte, four bytes to a word, immediates of half
a word. An instruction is a record of its fields; what `Decode` does with immediates
and targets is kept. `Translate`, by page table or TLB, is an operator. C's `&`, `|`
and `^` are constants, to which `MCMips` gives the operators of `Bitwise`: the theorems
hold whatever they return.

**List, HashTable, Library.** A list is a heap of elements with `first`, `last` and
`numInList`; every operation changes pointers as the code does. A bitmap is a function
from indices to words. `Library` puts any calls on one object of each class, one class
after the other as `LibSelfTest` does; the classes' `SelfTest`s are predicates. `Append`
and `SanityCheck` are virtual: `SelfTestList` takes the class of the list, and the sorted list's
test runs it with those of `SortedList`.

**Devices.** `m` is the machine: `totalTicks`, the pending interrupts as a `List`
sorted by `PendingCompare`, the devices and the semaphores. A step of a thread is the
code up to the next moment interrupts are enabled, with the `OneTick` that follows and
the handlers this fires; `Idle` moves the clock to the next interrupt or halts. Which
ready thread runs next is left open.

**PostOffice.** Each host has a socket, a one-packet buffer (`inHdr`), the postal
worker and its mailboxes. A packet is lost when the network's random number says so or
when the receiver has not booted; a host boots at any time. The time between polls is
left out. In this build the kernel does not create the post office; `PostOffice` starts
from one that does, as `Kernel::NetworkTest` needs.

**UserProg.** A step is a trap or one disk access of a call, and any other thread may
run between two. A program is the sequence of its system calls; its code in memory is
the name of the image last loaded there. `opfile` points into `objs`, the `OpenFile`
objects made so far; `stopped` says how the machine came to an end (a `NULL` or deleted
`opfile`, another program's code, `Halt`). Three ghosts support the properties: `flat`
(each file as an array of bytes), `own` (the registers each program left) and `mixed`
(which kinds of overlap have happened: files, creations, programs). Paths have one
component, and the directory and the bitmap are one access each. With `-f` the disk
starts empty, without it with the executables and perhaps one old file. The kernel
passes pointers into a program's memory, so a call whose file name or bytes another
program has overwritten ends the behaviour (`LoseCode`), like code that is gone.

## 3. What the runs show

| run | instance | checks |
|---|---|---|
| `tsqueue` | 2 producers of 3 items, 3 consumers of 2, ring of 2, one spurious wake-up | `NoLostWakeup`, `ImplementsBoundedQueue`, `AllReturn` |
| `pipeline` | 3 lines, 2 producers, 2 consumers, queues of 1, 2, 1, thresholds 1 and 1 | `ExactlyOnce`, `VectorIsWorkforce`, `WriterFinishes` |
| `synchlist` | 2 appenders, 2 removers, main; timer on or off | `NoLostSignal`, `ImplementsQueue`, `KernelHalts` |
| `synchdisk` | main and 3 threads, 2 requests each | `ThreadsPlaced`, `InterruptMatched`, `KernelHalts` |
| `fileheader` | 48 sectors of 2 bytes, 3 entries per header, sizes on both sides of every level boundary, 2 files, 4 calls | `OneOwner`, `ByteToSectorOK`, `CreatedComplete`, `RemovesComplete` |
| `filesys` | 11 sectors, 2 entries per directory, 2 names, depth 2, 6 calls, stops in the removal of a file | `OneOwner`, `NoOtherLeak`, `OpenFindsFile`, `ListingExact`, `OthersUntouched` |
| `mips` | words of 8 bits; every instruction alone and after a load, a partial load, a branch or a system call; operands 0, 1, 4, 127, 128, 170, 255; pages that are valid, invalid, read-only, out of memory; page table or TLB | `InterruptsInvisible`, `UnalignedPairs`, `StoresConfined`, `ArithmeticExact`, `FaultsRestart` |
| `library` | bitmap of 7 bits in words of 3, a few entries with equal keys, a table that grows twice | `ContentsExact`, `SelfTestsPass`, `IteratorComplete` |
| `devices` | boot, `ConsoleTest` with and without other threads, two users of disk and display; keys, end of input or neither; fixed and random time slices | `FiredInOrder`, `HaltStrandsOnlyReaders`, `LatencyExact` |
| `postoffice` | 2 hosts, 3 mailboxes; `NetworkTest` on both, or two senders against one reader | `InOrderOnce`, `OneSendAtATime`, `ProgramsEnd` |
| `userprog` | 6 sectors of 2 bytes; command lines of `-cp`, `-p`, `-r`, `-rr`, `-f`, `-e` with UNIX files of 0 to 12 bytes; one or two programs | `OwnContext`, `OneFileAtATime`, `FilesAreFlat`, `CreatesApart`, `PrintsTheCopy` |

All of them hold. The bounds are the smallest at which the interesting cases
meet: more producers than free slots and more consumers than items at once;
a worker queue above the high and below the low threshold while a consumer is
inside its loop; two waiters and two signals; a thread coming to the disk while
another waits for its interrupt; each index depth and a disk that fills up within
a tree; a directory inside a directory, full tables and a full disk; both signs and
the extreme words; a rehash after removals; interrupts due at the same tick; a packet
that arrives while the last one is still buffered; transfers that begin and end inside
a sector. Names, in `filesys`, are interchangeable (symmetry).
Deadlock is not reported where the program ends: the client of the queue returns,
the process exits, the kernel or the user program halts, the calls are used up. In
`postoffice` it is: the network polls for ever.

`FilesAreFlat`, `OneFileAtATime`, `OwnContext` and `CreatesApart` are claimed up to the
kind of overlap that breaks them, which the code does not exclude: files open at once,
programs in memory at once, creations under way at once.

One more run, `filesys_rm_r`, shows where the code departs from what `README.md:68` of the
repository says of it: recursive removal marks the children's sectors again, from a
bitmap read before they were freed (`RecursiveRemoveFrees` is violated).

Seen while modelling, and not the subject of a run of its own:

* Pipeline: an input of at most `high_threshold` lines never gets a consumer, and the
  writer waits for ever (`consumer_controller.hpp:96`); `cancel()` reads an object that
  its thread may have deleted (`consumer.hpp:49`); `main` deletes objects that producers
  and the controller go on using.
* Headers: on a disk that fills up, a file may be created without all its blocks, since
  index sectors are not counted and the inner result is dropped (`filehdr.cc:88`);
  `Deallocate` above two levels visits too many entries and fails an `ASSERT`
  (`filehdr.cc:181`), and never frees index sectors. `CreatedComplete` and
  `RemovesComplete` say when all is well.
* File system: a removal whose path leads through an empty file takes another file's
  sectors (`filesys.cc:514`; excluded by `CheckedPaths`); `CreateDir` makes the first
  missing component only, where `README.md:25` speaks of `mkdir -p`; `Create` writes the
  directory before the bitmap, so that a stop in between leaves a listed file with
  unmarked sectors, and a stop inside a recursive removal leaves children listed whose
  sectors are free; `strtok` cuts a path of several components in the caller's memory.
* Kernel: the timer is disabled when the boot first waits for the disk, not after all
  threads complete (`kernel.cc:131-133`); `PrepareToEnd` disables the console whenever
  all threads sleep, so that `ConsoleTest` waiting for a key lets the machine halt.
* Machine: `SRL` and `SRLV` copy the sign; `DIV` of the smallest word by -1 stops the
  host; a system call in a branch's delay slot loses the branch; an instruction in a
  load's delay slot that writes the same register is overwritten by the load.
* Network: the post office is not created (`kernel.cc:119-123`) although `-N` calls
  `NetworkTest`; `sendBusy` is never set; a kernel with a network never halts.
* Programs: a failed `Open` returns 0, where `FS_test1.c` and `FS_test2.c` test for less
  than 0, and the next `Write` uses a `NULL` `opfile`; a failed `Open` of one program
  takes the shared `opfile` from another; the loader leaves it dangling; `-rr a -r b`
  removes `b` recursively.

### Fairness

* `TestSpec`, `Pipeline`: weak fairness for each thread: the operating system runs
  a thread that can run. The calls of `TSQueueTest` are finite, so that no thread
  loses the mutex for ever.
* `SynchList`, `SynchDisk`: a thread dispatched again and again gets on with its
  code (strong fairness: a timer interrupt may take the processor away between any
  two steps, but after a dispatch the thread executes to the next point where
  interrupts are enabled); a pending device interrupt is delivered, and the idle
  loop goes on (weak fairness).
* `PostOffice`: weak fairness for each host's boot, its scheduled interrupts (the
  simulator's clock moves on while the host idles) and its postal worker, and for some
  thread that can run being run. Nothing is assumed of the network: a packet may always
  be lost.

## 4. What is proved

The theorems hold for every value of the constants that satisfies the named
assumptions of the modules; TLC evaluates these on the instances of section 3. Each
proof has an inductive invariant, of which TLC had first checked that it is an
invariant of the instance.

| theorem | statement | assumes |
|---|---|---|
| `TSQueueProofs`: `TypeCorrect`, `MutexCorrect`, `RingCorrect` | types; one thread under the mutex; `head`, `tail` and `size` agree | finite set of threads, `buffer_size > 0` |
| `WakeupCorrect` | `Spec => []NoLostWakeup` | the same |
| `Refinement` | `Spec => BQ!Spec`: the ring implements the atomic FIFO | the same |
| `PipelineProofs`: `TypeCorrect` | types, and who has an item in hand | finite sets of threads, queue sizes `> 0` |
| `VectorCorrect` | `Spec => []VectorIsWorkforce` | the same |
| `ExactlyOnceCorrect` | `Spec => []ExactlyOnce` | the same |
| `SynchDiskProofs`: `ThreadsPlacedCorrect` | `Spec => []ThreadsPlaced` | finite set of threads; the semaphores are the lock's and the disk's |
| `InterruptMatchedCorrect` | `Spec => []InterruptMatched` | the same |
| `HaltsDoneCorrect` | the kernel halts only when all threads have finished | the same |
| `SynchListProofs`: `NoLostSignalCorrect` | `Spec => []NoLostSignal` | finite sets of callers; what is removed is what is appended |
| `ThreadsPlacedCorrect` | `Spec => []ThreadsPlaced` | the same |
| `HaltsDoneCorrect` | the kernel halts only when all threads have finished | the same |
| `Refinement` | `Spec => ImplementsQueue`: the list implements the atomic FIFO | the same |
| `PostOfficeProofs`: `OneSendAtATimeCorrect` | `Spec => []OneSendAtATime` | programs name existing mailboxes (the `ASSERT`s of `post.cc`) and answer only received mail |
| `InOrderOnceCorrect` | `Spec => []InOrderOnce` | the same |
| `UserProgProofs`: `OwnContextCorrect` | `Spec => []OwnContext` | nothing |
| `CreatesApartCorrect` | `Spec => []CreatesApart` | sizes `> 0`; UNIX files and old files are sequences of bytes, the programs of a command line a sequence of names |
| `MipsProofs`: `FaultsRestartCorrect` | `Spec => FaultsRestart` | a byte has bits, a page is a multiple of four bytes; instructions are those of the decoding tables, with registers below 32 |
| `InterruptsInvisibleCorrect` | `Spec => []InterruptsInvisible` | the same |

**TSQueue.** `TypeOK` is inductive, and `MutualExclusion` with it. `RingOK` is not:
the slot that `enqueue` fills is real only if its argument is, so `RingInv` adds that
the item of a thread that has still to put it is a real one. Neither needs the mutex,
because the three assignments under it are one step; that this is sound is what
`MutualExclusion` shows. The modular arithmetic is isolated in `ModSmall`, `ModWrap`
and `SlotAfter` (the provers do linear arithmetic only), from which `PutKeepsRing` and
`TakeKeepsRing` follow. `NoLostWakeup` counts threads: its proof sees every step as a
change of at most one or two memberships in finite sets, and uses the library's
theorems on cardinality. It is inductive with the types: each step that takes an
arriving thread away takes an item or a slot away, or finds none. `Refinement` maps
the ring to the sequence `Contents`; `PutAppends` and `TakeRemovesHead` say that the
two index updates append to it and take its head, and `InCall` that a thread inside
the queue has an operation.

**Pipeline.** A thread has an item in hand exactly between its two queue calls
(`ItemInHand`). `VectorIsWorkforce` needs `LastCancelled`: between `is_cancel = true`
and `pop_back()` the vector's last consumer is the cancelled one and not the only one,
or the pop would remove a consumer that works on. `ExactlyOnce` is a sum over the
places a line can be in; `OccurrencesAppend`, `OccurrencesTail` and `HandsTake` say
how a queue operation changes one term, so each action moves one copy between two
terms.

**Scheduler and semaphores.** `PlacedInv`, in `SynchProofs`, says that the ready list
and the semaphores' queues hold distinct threads, disjointly, and that the status of a
thread agrees with the place it is in. Every fragment of `Scheduler` and `Synch`
keeps it, and is described once as a change of the sets `Created`, `Awake`, `Blocked`
and `Ended`; `SynchDiskProofs` and `SynchListProofs` use only those descriptions.

**SynchDisk.** `InterruptMatched` follows from `LockInv`: the lock excludes, its
semaphore says whether it is held, and an interrupt is due or its `V` unconsumed
exactly while a thread awaits it. `HaltsDone` needs more: `P` re-tests in a loop, so a
thread that `V` woke has not yet got the semaphore, and one that arrives may take it
first. `WakeInv` says that whenever a semaphore has something to give and somebody
sleeps on it, somebody awake is about to take it.

**SynchList.** `NoLostSignal` is inductive only with the lock and with the fact that a
waiter's own semaphore holds the `V` of its signal exactly while it has been signalled
and has not taken it (`LockInv`). `HaltsDone` also counts calls: what was appended is
on the list or was removed (`CallsInv`), so at the halt, with all appenders done, a
remover still waiting would have an item that nobody else could take. `Refinement`
maps the critical sections to the moments the queue's operations take effect; the
invariant is used there to show that a thread inside one has that operation to do.

**PostOffice.** The sending and the receiving half of an office do not touch each
other's fields. In the sending half an interrupt, scheduled or already counted by
`messageSent`, exists exactly while the one thread inside `Send` waits for it
(`LockInv`). In the receiving half `messageAvailable` counts the buffered packet until
the worker takes it (`WorkerInv`); without that the worker could empty an empty buffer,
and `InOrderOnce` would fail. `CallInv` says that an answer has mail to answer. The
mailboxes' half of `InOrderOnce` says by counting which mail of a box is at which
place, so that it can be reasoned about without induction over sequences: one delivery
adds the last index of its box and moves no other.

**UserProg.** The registers of the program that runs are in the machine and those of
every other where `Scheduler::Run` takes them from (`ContextInv`); as long as programs
did not overlap, the code in memory is that of every program under way (`CodeInv`).
Most actions leave this alone, which is proved once (`KernelStepKeeps`); the ends of
system calls are a second case, and `Exec`, `Segments` and `Switch` one each.

`CreatesApart` speaks of moments when no `Create` is under way; its invariant follows
one through its five steps. Until it writes them back, the copies of directory
and bitmap that a `Create` holds are those on the disk, and the sectors it has chosen
are nobody's (`CreateInv`); that fails as soon as a second `Create` writes first, which
is why the property excludes overlap. A removal frees sectors in one access, and would
make a held copy stale too: but only the main thread removes, as its first call, before
any program is started (`MainInv`, from the calls of the command lines). `DiskInv` says
the rest: the sectors of a file are its own, and marked or about to be. The proof rests
on two facts shown apart: the sectors that repeated `FindAndSet` returns are clear and
distinct (`FoundClear`, from the library's theorems on finite sets), and the calls of
every command line have the form described (`LinesOK`).

**Mips.** That register 0 is zero and that a delayed load names a general register is
inductive (`Inv`). Every instruction either completes or faults (`Outcome`, proved
for each group of the switch), and one that faults has only completed the load in
progress, which the program cannot see: hence `FaultsRestart`. For
`InterruptsInvisible` two machines are run side by side, one with a load in progress
and one that has completed it (`Twins`); an instruction that keeps off the register
being loaded reads the same operands on both, and `LWL` and `LWR`, which may use it,
find the value in one place or the other (`SameInProgress`). None of this depends on
what an operation computes.

No run checks the types, `MutexCorrect`, `RingCorrect` and the
two `HaltsDone`: they are steps to the others or, for `HaltsDone`, the safety half of
`KernelHalts`.

Only model-checked:

* all liveness: `AllReturn`, `WriterFinishes`, `KernelHalts`, `ProgramsEnd`; the
  provers do not do fairness and `ENABLED`;
* everything about `FileHeader`, `FileSys`, `List`, `HashTable`, `Library` and
  `Devices`: what their recursive operators compute for every input needs induction
  over data, which the provers do not do here;
* of `Mips`: `ArithmeticExact` and `UnalignedPairs`, which depend on what bit operations,
  powers of two and the loop of `Mult` compute, and `StoresConfined`, which needs every
  register, products included, to hold an integer;
* of `UserProg`: `FilesAreFlat` and `PrintsTheCopy` compare the sectors a transfer
  goes through with one flat array, an induction over the transfer; `OneFileAtATime`
  holds of programs, like the run's, that do not use a file after they closed it;
  nothing in the code enforces that.

## 5. What is left

Not modelled:

* the transformer and the items of the pipeline: pure functions on one value, which no
  property of the pipeline depends on;
* stack allocation and `SWITCH`: machine code under the scheduler;
* the debugger, tracing, statistics and everything that only prints;
* calls of the host other than the datagram sockets: files and memory of the host are
  taken to work;
* destructors, and overloads and operations nothing calls (`Condition::Broadcast`,
  `OpenFile::Seek`, `AddrSpace::Translate`, the second `Remove`);
* the self-tests of threads, semaphores and `SynchList`, which use operations that are
  modelled;
* in `UserProg`, paths of several components and single bytes of a program's memory; in
  `FileSys`, overlapping calls. The two modules share the limits the other one lifts.
