------------------------------ MODULE UserProg -------------------------------
(***************************************************************************)
(* User programs on the file system: main's Copy and Print, ExecAll, the   *)
(* loader (userprog/addrspace.cc), the system calls (exception.cc,         *)
(* ksyscall.h), the switching of user registers (scheduler.cc, thread.cc)  *)
(* and OpenFile's reads and writes of partial sectors (openfile.cc).       *)
(*                                                                         *)
(* A step is the code up to a point where another thread may run: a user   *)
(* instruction that traps, or one access of the disk inside the kernel.    *)
(* Directory and bitmap are each read and written in one access, files lie *)
(* in the root directory and have a single-level header: FileSys and       *)
(* FileHeader model the rest.                                              *)
(*                                                                         *)
(* Thread 0 is main; thread n runs the n-th program of the command line.   *)
(* The points of a thread: "call" (the next call of main, or the next      *)
(* instruction of the program), "map", "header", "table" and "bits" inside *)
(* Create, "disk" inside ReadAt or WriteAt, "load" and "segments" in       *)
(* ForkExecute, "done".                                                    *)
(***************************************************************************)
EXTENDS Integers, Sequences, FiniteSets, FiniteSetsExt

CONSTANTS SectorSize, NumSectors, NumDirEntries,
          TransferSizes, \* the chunks of Copy and Print
          Images,        \* executable files: name -> the calls of the program
          UnixFiles,     \* name -> bytes
          OldFiles,      \* [name, bytes, dir]: what an earlier run may have left
          NoFile,
          CommandLines   \* sequences of arguments

ASSUME SizesAssumption == {SectorSize, NumSectors, NumDirEntries} \union TransferSizes \subseteq Nat \ {0}

ASSUME BytesAssumption ==
  /\ \A u \in DOMAIN UnixFiles : UnixFiles[u] \in Seq(Int)
  /\ \A old \in OldFiles : old.bytes \in Seq(Int)

VARIABLES fs,      \* the disk: [freeMap, directory, headers, data]
          objs,    \* every OpenFile made, deleted ones included
          opfile,  \* the global of filesys.cc: an index into objs, 0 for NULL
          mach,    \* the machine: user registers, page table, what memory holds
          saved,   \* Thread::userRegisters
          cur,     \* Kernel::currentThread
          th,      \* the kernel state of each thread
          stopped, \* "no", "halted", or why nothing more is said of the machine
          line,    \* the command line
          flat,    \* each file's bytes, as one array
          own,     \* the registers each program should find
          mixed    \* what overlapped so far: "files", "creates" or "programs"; or
                   \* "unopened", a program went on after an Open that failed

vars == <<fs, objs, opfile, mach, saved, cur, th, stopped, line, flat, own, mixed>>

Sectors == 0 .. NumSectors - 1
Bytes(n) == [i \in 1 .. n |-> 0]
Threads == DOMAIN th
Exists(name) == name \in DOMAIN fs.directory
Blocks(n) == (n + SectorSize - 1) \div SectorSize
Last_of(groups, flags) == LET k == Max({i \in DOMAIN groups : groups[i][1] \in flags}) IN groups[k]

-----------------------------------------------------------------------------
(***************************************************************************)
(* The command line.  main and Kernel's constructor each go over all of    *)
(* it, take the flags they know with their operands and pass over the rest *)
(* word by word.                                                           *)
(***************************************************************************)
MainOperands(flag) ==
  CASE flag \in {"-d", "-x", "-p", "-r", "-rr", "-l", "-lr", "-mkdir"} -> 1
    [] flag = "-cp" -> 2 [] OTHER -> 0
KernelOperands(flag) == IF flag \in {"-rs", "-e", "-ci", "-co", "-n", "-m"} THEN 1 ELSE 0

Scan(argv, scanner) ==
  LET Operands(flag) == IF scanner = "main" THEN MainOperands(flag) ELSE KernelOperands(flag)
      From[i \in 1 .. Len(argv) + 3] ==
        IF i > Len(argv) THEN <<>>
        ELSE <<SubSeq(argv, i, i + Operands(argv[i]))>> \o From[i + 1 + Operands(argv[i])]
  IN From[1]
Given(groups, flags) == \E i \in DOMAIN groups : groups[i][1] \in flags
Execs(argv) == LET e == SelectSeq(Scan(argv, "kernel"), LAMBDA g : g[1] = "-e")
               IN [i \in DOMAIN e |-> e[i][2]]

ASSUME LinesAssumption == \A argv \in CommandLines : Execs(argv) \in Seq(STRING)

\* Copy and Print as calls; a call whose result is 0 goes on skip calls later.
\* Copy gives up when there is no UNIX file or the file cannot be created.
Copy(from, to, chunk) ==
  LET bytes == UnixFiles[from]
      writes == [i \in 1 .. (Len(bytes) + chunk - 1) \div chunk |->
                   LET part == SubSeq(bytes, (i - 1) * chunk + 1, Min({i * chunk, Len(bytes)}))
                   IN [op |-> "write", n |-> Len(part), bytes |-> part, skip |-> 1]]
  IN IF from \notin DOMAIN UnixFiles THEN <<>>
     ELSE <<[op |-> "create", name |-> to, n |-> Len(bytes), skip |-> Len(writes) + 3],
            [op |-> "open", name |-> to, skip |-> Len(writes) + 2]>> \o writes \o <<[op |-> "close"]>>

\* Print reads until nothing is left; more reads than the largest file needs.
Print_(name, chunk) ==
  LET reads == ((NumSectors * SectorSize) \div chunk) + 2
  IN <<[op |-> "open", name |-> name, skip |-> reads + 2]>>
       \o [i \in 1 .. reads |-> [op |-> "read", n |-> chunk, skip |-> reads - i + 1]] \o <<[op |-> "close"]>>

\* What main does, in its order whatever the order of the flags, ExecAll last.
MainCalls_copies_first(argv, chunk) ==
  LET g == Scan(argv, "main")
      If(flags, calls) == IF Given(g, flags) THEN calls ELSE <<>>
  IN If({"-cp"}, Copy(Last_of(g, {"-cp"})[2], Last_of(g, {"-cp"})[3], chunk))
     \o If({"-r", "-rr"}, <<[op |-> "remove", name |-> Last_of(g, {"-r", "-rr"})[2],
                            recursive |-> Given(g, {"-rr"}), skip |-> 1]>>)
     \o If({"-p"}, Print_(Last_of(g, {"-p"})[2], chunk))
     \o [i \in DOMAIN Execs(argv) |-> [op |-> "exec", thread |-> i]] \o <<[op |-> "exit"]>>

MainCalls(argv, chunk) ==
  LET g == Scan(argv, "main")
      If(flags, calls) == IF Given(g, flags) THEN calls ELSE <<>>
  IN If({"-r", "-rr"}, <<[op |-> "remove", name |-> Last_of(g, {"-r", "-rr"})[2],
                         recursive |-> Given(g, {"-rr"}), skip |-> 1]>>)
     \o If({"-cp"}, Copy(Last_of(g, {"-cp"})[2], Last_of(g, {"-cp"})[3], chunk))
     \o If({"-D"}, <<[op |-> "show"]>>) \o If({"-l", "-lr"}, <<[op |-> "show"]>>)
     \o If({"-mkdir"}, <<[op |-> "mkdir", name |-> Last_of(g, {"-mkdir"})[2], n |-> SectorSize, skip |-> 1]>>)
     \o If({"-p"}, Print_(Last_of(g, {"-p"})[2], chunk))
     \o [i \in DOMAIN Execs(argv) |-> [op |-> "exec", thread |-> i]] \o <<[op |-> "exit"]>>
-----------------------------------------------------------------------------

\* A program's calls come from memory, at its program counter; main has its own.
\* Inside a call the arguments are those it trapped with, while memory holds them.
Call(t) == IF th[t].at # "call" THEN th[t].call
           ELSE IF t = 0 THEN line.calls[th[0].pc] ELSE Images[mach.code][mach.regs.pc]
\* A program whose memory has been cleared or overwritten does what nobody wrote, and
\* so does a call that has still to take its file's name or its bytes from there.
Clobbered(t) == t # 0 /\ th[t].at \in {"call", "map", "disk"} /\ mach.code # line.exec[t]
Runs(t, at) == stopped = "no" /\ cur = t /\ th[t].at = at /\ ~Clobbered(t)

-----------------------------------------------------------------------------
(***************************************************************************)
(* OpenFile.                                                               *)
(***************************************************************************)
\* The check of ReadAt and WriteAt: how many bytes are transferred.
Clip(length, numBytes, position) ==
  IF numBytes <= 0 \/ position >= length THEN 0
  ELSE IF position + numBytes > length THEN length - position ELSE numBytes

First(position) == position \div SectorSize
Last_(position, n) == (position + n - 1) \div SectorSize
Span(position, n) == [i \in 1 .. 1 + Last_(position, n) - First(position) |-> First(position) + i - 1]

\* The sectors WriteAt reads before it writes: those it changes in part.
Partial_first_only(position, n) ==
  IF position # First(position) * SectorSize THEN <<First(position)>> ELSE <<>>
Partial(position, n) ==
  LET firstAligned == position = First(position) * SectorSize
      lastAligned == position + n = (Last_(position, n) + 1) * SectorSize
  IN (IF ~firstAligned THEN <<First(position)>> ELSE <<>>)
       \o (IF ~lastAligned /\ (First(position) # Last_(position, n) \/ firstAligned)
             THEN <<Last_(position, n)>> ELSE <<>>)

\* A transfer as the disk accesses it has still to make; buf holds the sectors.
Transfer(call, obj) ==
  LET n == Clip(obj.length, call.n, obj.seek)
      Access(kind, seq) == [i \in DOMAIN seq |-> <<kind, seq[i]>>]
  IN [n |-> n, from |-> obj.seek,
      buf |-> [i \in 0 .. obj.length \div SectorSize |-> Bytes(SectorSize)],
      plan |-> IF n = 0 THEN <<>>
               ELSE IF call.op = "read" THEN Access("r", Span(obj.seek, n))
               ELSE Access("r", Partial(obj.seek, n)) \o Access("w", Span(obj.seek, n))]

\* A sector as ReadAt copies it, not beyond the end of the file, and as WriteAt
\* writes it, with the new bytes of x over what was read.
Within(obj, i, sector) == [j \in 1 .. SectorSize |-> IF i * SectorSize + j <= obj.length THEN sector[j] ELSE 0]
Changed(x, i, bytes) ==
  [j \in 1 .. SectorSize |->
     LET k == i * SectorSize + j - x.from IN IF k \in 1 .. x.n THEN bytes[k] ELSE x.buf[i][j]]

\* What a read returns: the bytes of the buffer from the position on.
Wanted(x) == [k \in 1 .. x.n |-> LET b == x.from + k - 1
                                 IN x.buf[b \div SectorSize][(b % SectorSize) + 1]]

\* The file as its header describes it, and an array written at a position.
Contents(hdr) == [b \in 1 .. hdr.length |->
                    fs.data[hdr.blocks[(b - 1) \div SectorSize + 1]][((b - 1) % SectorSize) + 1]]
Overwritten(array, x, bytes) ==
  [b \in DOMAIN array |-> IF b - x.from \in 1 .. x.n THEN bytes[b - x.from] ELSE array[b]]

-----------------------------------------------------------------------------
(***************************************************************************)
(* Returning from a call.  ExceptionHandler writes register 2 and advances *)
(* the program counter; Copy and Print go on, or give up.                  *)
(***************************************************************************)
Advanced(regs, result) == [regs EXCEPT !.r2 = result, !.pc = @ + 1]

ReturnToMain(result, after) ==
  /\ th' = [after EXCEPT ![0].at = "call", ![0].pc = @ + (IF result = 0 THEN Call(0).skip ELSE 1)]
  /\ UNCHANGED <<mach, own>>

ReturnToUser(t, result, after) ==
  /\ th' = [after EXCEPT ![t].at = "call"]
  /\ mach' = [mach EXCEPT !.regs = Advanced(@, result)]
  /\ own' = [own EXCEPT ![t].r2 = result, ![t].pc = @ + 1]

Return(t, result, after) ==
  IF t = 0 THEN ReturnToMain(result, after) ELSE ReturnToUser(t, result, after)

Stop(why) == /\ stopped' = why
             /\ UNCHANGED <<fs, objs, opfile, mach, saved, cur, th, line, flat, own, mixed>>

\* The file a call works on: Copy and Print have their own pointer, a system call
\* uses opfile whatever id it was given.
Target(t) == IF t = 0 THEN th[0].file ELSE opfile
Live == {i \in DOMAIN objs : objs[i].live}

Working == {u \in Threads \ {0} : th[u].at \notin {"new", "load", "done"}}
Mixing(what, condition) == mixed' = IF condition THEN mixed \union {what} ELSE mixed

NewOpfile_if_null == IF opfile = 0 THEN Len(objs) + 1 ELSE opfile
NewOpfile == Len(objs) + 1

\* OpenAFile finds files; of a directory it looks for an entry of the same name in it.
Opens(name) == Exists(name) /\ ~fs.headers[fs.directory[name]].dir

\* OpenAFile of a file that exists makes opfile point to it.
OpenAFile(name) ==
  /\ objs' = Append(objs, [name |-> name, length |-> fs.headers[fs.directory[name]].length,
                           blocks |-> fs.headers[fs.directory[name]].blocks, seek |-> 0, live |-> TRUE])
  /\ opfile' = NewOpfile

-----------------------------------------------------------------------------
\* FileSystem::Create, access by access: the directory, the bitmap (and the
\* cleaning of the blocks), the header, the directory, the bitmap.
Create(t) ==
  /\ Runs(t, "call") /\ Call(t).op \in {"create", "mkdir"}
  /\ IF Exists(Call(t).name) THEN Return(t, 0, th) /\ UNCHANGED mixed
     ELSE /\ th' = [th EXCEPT ![t].at = "map", ![t].call = Call(t), ![t].dir = fs.directory]
          /\ Mixing("creates", \E u \in Threads : th[u].at \in {"map", "header", "table", "bits"})
          /\ UNCHANGED <<mach, own>>
  /\ UNCHANGED <<fs, objs, opfile, saved, cur, stopped, line, flat>>

\* The sector the n-th FindAndSet returns when the sectors of S are clear; the first
\* one is the header's, the others are the blocks.
Nth(S, n) == CHOOSE s \in S : Cardinality({r \in S : r < s}) = n - 1
Clear == Sectors \ fs.freeMap
NewBlocks(n) == [i \in 1 .. Blocks(n) |-> Nth(Clear, i + 1)]

\* A sector for the header, an entry of the directory, and the blocks.
HasRoom(n, dir) ==
  /\ Cardinality(DOMAIN dir) < NumDirEntries
  /\ Blocks(n) \in 0 .. Cardinality(Clear) - 1

Allocate(t) ==
  /\ Runs(t, "map")
  /\ LET sector == Nth(Clear, 1)
         blocks == NewBlocks(Call(t).n)
     IN IF ~HasRoom(Call(t).n, th[t].dir) THEN Return(t, 0, th) /\ UNCHANGED fs
        ELSE /\ th' = [th EXCEPT ![t].at = "header", ![t].map = fs.freeMap \union {sector} \union Range(blocks),
                                 ![t].sector = sector, ![t].blocks = blocks]
             /\ fs' = [fs EXCEPT !.data = [s \in Sectors |-> IF s \in Range(blocks) THEN Bytes(SectorSize) ELSE @[s]]]
             /\ UNCHANGED <<mach, own>>
  /\ UNCHANGED <<objs, opfile, saved, cur, stopped, line, flat, mixed>>

WriteHeader(t) ==
  /\ Runs(t, "header")
  /\ fs' = [fs EXCEPT !.headers[th[t].sector] = [length |-> Call(t).n, blocks |-> th[t].blocks,
                                                    dir |-> Call(t).op = "mkdir"]]
  /\ th' = [th EXCEPT ![t].at = "table"]
  /\ UNCHANGED <<objs, opfile, mach, saved, cur, stopped, line, flat, own, mixed>>

With(f, key, value) == [k \in DOMAIN f \union {key} |-> IF k = key THEN value ELSE f[k]]

WriteTable(t) ==
  /\ Runs(t, "table")
  /\ fs' = [fs EXCEPT !.directory = With(th[t].dir, Call(t).name, th[t].sector)]
  /\ th' = [th EXCEPT ![t].at = "bits"]
  /\ flat' = With(flat, Call(t).name, Bytes(Call(t).n))
  /\ UNCHANGED <<objs, opfile, mach, saved, cur, stopped, line, own, mixed>>

NewMap_unmarked(t) == fs.freeMap
NewMap(t) == th[t].map

WriteBits(t) ==
  /\ Runs(t, "bits")
  /\ fs' = [fs EXCEPT !.freeMap = NewMap(t)]
  /\ Return(t, 1, th)
  /\ UNCHANGED <<objs, opfile, saved, cur, stopped, line, flat, mixed>>

Without(f, key) == [k \in DOMAIN f \ {key} |-> f[k]]

\* FileSystem::Remove in main, alone on the machine: FileSys has its steps.
RemoveFile ==
  /\ Runs(0, "call") /\ Call(0).op = "remove"
  /\ LET name == Call(0).name
         hdr == fs.headers[fs.directory[name]]
     IN IF ~Exists(name) \/ (hdr.dir /\ ~Call(0).recursive)
        THEN ReturnToMain(0, th) /\ UNCHANGED <<fs, flat>>
        ELSE /\ fs' = [fs EXCEPT !.directory = Without(@, name),
                                 !.freeMap = @ \ ({fs.directory[name]} \union Range(hdr.blocks))]
             /\ flat' = Without(flat, name)
             /\ ReturnToMain(1, th)
  /\ UNCHANGED <<objs, opfile, saved, cur, stopped, line, mixed>>

\* The listings only read.
Show ==
  /\ Runs(0, "call") /\ Call(0).op = "show"
  /\ ReturnToMain(1, th)
  /\ UNCHANGED <<fs, objs, opfile, saved, cur, stopped, line, flat, mixed>>

\* SysOpen, and OpenAFile in Copy and Print; NULL is 0.
Open(t) ==
  /\ Runs(t, "call") /\ Call(t).op = "open"
  /\ IF Opens(Call(t).name)
     THEN /\ OpenAFile(Call(t).name)
          /\ Return(t, Len(objs) + 1, [th EXCEPT ![t].file = Len(objs) + 1])
     ELSE opfile' = 0 /\ Return(t, 0, [th EXCEPT ![t].file = 0]) /\ UNCHANGED objs
  /\ Mixing("files", Live # {})
  /\ UNCHANGED <<fs, saved, cur, stopped, line, flat>>

\* OpenFile::Read and Write start; a NULL or deleted object ends the model.
StartTransfer(t) ==
  /\ Runs(t, "call") /\ Call(t).op \in {"read", "write"}
  /\ IF Target(t) = 0 THEN Stop("null")
     ELSE IF ~objs[Target(t)].live THEN Stop("dangling")
     ELSE /\ th' = [th EXCEPT ![t].at = "disk", ![t].call = Call(t), ![t].obj = Target(t),
                              ![t].io = Transfer(Call(t), objs[Target(t)])]
          /\ Mixing("unopened", t # 0 /\ th[t].file = 0)
          /\ UNCHANGED <<fs, objs, opfile, mach, saved, cur, stopped, line, flat, own>>

Access(t) ==
  /\ Runs(t, "disk") /\ th[t].io.plan # <<>>
  /\ LET kind == Head(th[t].io.plan)[1]
         i == Head(th[t].io.plan)[2]
         obj == objs[th[t].obj]
         rest == [th EXCEPT ![t].io.plan = Tail(@)]
     IN IF kind = "r"
        THEN /\ th' = [rest EXCEPT ![t].io.buf[i] = Within(obj, i, fs.data[obj.blocks[i + 1]])]
             /\ UNCHANGED fs
        ELSE /\ fs' = [fs EXCEPT !.data[obj.blocks[i + 1]] = Changed(th[t].io, i, Call(t).bytes)]
             /\ th' = rest
  /\ UNCHANGED <<objs, opfile, mach, saved, cur, stopped, line, flat, own, mixed>>

\* Read and Write move the position by what was transferred.
Moved(seek, x, call) == seek + x.n

EndTransfer(t) ==
  /\ Runs(t, "disk") /\ th[t].io.plan = <<>>
  /\ LET o == th[t].obj
         x == th[t].io
     IN IF ~objs[o].live THEN Stop("dangling")
        ELSE /\ objs' = [objs EXCEPT ![o].seek = Moved(@, x, Call(t))]
             /\ Return(t, x.n, [th EXCEPT ![t].got = IF Call(t).op = "read" THEN @ \o Wanted(x) ELSE @])
             /\ flat' = IF Call(t).op = "write"
                        THEN [flat EXCEPT ![objs[o].name] = Overwritten(@, x, Call(t).bytes)] ELSE flat
             /\ UNCHANGED <<fs, opfile, saved, cur, stopped, line, mixed>>

\* SysClose, and the delete of Copy and Print; delete of NULL does nothing.
Close(t) ==
  /\ Runs(t, "call") /\ Call(t).op = "close"
  /\ IF Target(t) # 0 /\ ~objs[Target(t)].live THEN Stop("dangling")
     ELSE /\ objs' = IF Target(t) = 0 THEN objs ELSE [objs EXCEPT ![Target(t)].live = FALSE]
          /\ Return(t, 1, th)
          /\ Mixing("unopened", t # 0 /\ th[t].file = 0)
          /\ UNCHANGED <<fs, opfile, saved, cur, stopped, line, flat>>

Halt(t) == Runs(t, "call") /\ Call(t).op = "halt" /\ Stop("halted")

\* SC_Exit, and ForkExecute's return: Thread::Finish.
Exit(t) ==
  /\ Runs(t, "call") /\ Call(t).op = "exit"
  /\ th' = [th EXCEPT ![t].at = "done"]
  /\ UNCHANGED <<fs, objs, opfile, mach, saved, cur, stopped, line, flat, own, mixed>>

-----------------------------------------------------------------------------
(***************************************************************************)
(* Programs.                                                               *)
(***************************************************************************)
\* Kernel::Exec, in main's ExecAll: the AddrSpace's constructor clears all of memory.
Exec ==
  /\ Runs(0, "call") /\ Call(0).op = "exec"
  /\ th' = [th EXCEPT ![Call(0).thread].at = "load", ![0].pc = @ + 1]
  /\ mach' = [mach EXCEPT !.code = "zero"]
  /\ Mixing("programs", Working # {})
  /\ UNCHANGED <<fs, objs, opfile, saved, cur, stopped, line, flat, own>>

\* AddrSpace::Load opens the executable with OpenAFile ...
Load(t) ==
  /\ Runs(t, "load")
  /\ IF Opens(line.exec[t])
     THEN OpenAFile(line.exec[t]) /\ th' = [th EXCEPT ![t].at = "segments", ![t].obj = Len(objs) + 1]
     ELSE opfile' = 0 /\ th' = [th EXCEPT ![t].at = "done"] /\ UNCHANGED objs
  /\ Mixing("files", Live # {})
  /\ UNCHANGED <<fs, mach, saved, cur, stopped, line, flat, own>>

Loaded_if_clear(t) == IF mach.code = "zero" THEN line.exec[t] ELSE mach.code
Loaded(t) == line.exec[t]

\* ... reads the segments to where they belong, the same for every program, and
\* deletes the OpenFile; opfile still points to it.  Execute then sets the
\* registers and the page table.
Segments(t) ==
  /\ Runs(t, "segments")
  /\ objs' = [objs EXCEPT ![th[t].obj].live = FALSE]
  /\ mach' = [code |-> Loaded(t), regs |-> [pc |-> 1, r2 |-> 0], pageTable |-> t]
  /\ own' = [own EXCEPT ![t] = [pc |-> 1, r2 |-> 0]]
  /\ th' = [th EXCEPT ![t].at = "call"]
  /\ Mixing("programs", Working \ {t} # {})
  /\ UNCHANGED <<fs, opfile, saved, cur, stopped, line, flat>>

\* Scheduler::Run, from Yield or Sleep: the old thread's user registers are saved
\* and, unless this is the new one's first time, its own restored.
Restored(u) == [mach EXCEPT !.regs = saved[u], !.pageTable = u]
Saved(u) == IF cur = 0 THEN saved ELSE [saved EXCEPT ![cur] = mach.regs]

Switch(u) ==
  /\ stopped = "no" /\ u # cur /\ th[u].at \notin {"new", "done"}
  /\ cur' = u
  /\ saved' = Saved(u)
  /\ mach' = IF u = 0 \/ th[u].at = "load" THEN mach ELSE Restored(u)
  /\ UNCHANGED <<fs, objs, opfile, th, stopped, line, flat, own, mixed>>

LoseCode(t) == stopped = "no" /\ cur = t /\ Clobbered(t) /\ Stop("clobbered")

\* A disk that holds the executables, which take no sectors of the pool, and
\* perhaps one more file, or nothing when -f formats it; main is about to do what the
\* command line says.
Boot(argv, old, chunk) ==
  LET formatFlag == Given(Scan(argv, "kernel"), {"-f"})
      kept == IF formatFlag THEN {} ELSE DOMAIN Images
      left == IF formatFlag \/ old = NoFile THEN {} ELSE {old}
      Length(o) == Len(o.bytes)
      Block(o, i) == [j \in 1 .. SectorSize |-> IF (i - 1) * SectorSize + j <= Length(o)
                                                THEN o.bytes[(i - 1) * SectorSize + j] ELSE 0]
  IN /\ line = [calls |-> MainCalls(argv, chunk), exec |-> Execs(argv), argv |-> argv]
     /\ fs = [freeMap |-> UNION {0 .. Blocks(Length(o)) : o \in left},
              directory |-> [n \in kept \union {o.name : o \in left} |-> IF n \in DOMAIN Images THEN -1 ELSE 0],
              headers |-> [s \in Sectors \union {-1} |->
                             IF s = 0 /\ left # {} THEN [length |-> Length(old), dir |-> old.dir,
                                                       blocks |-> [i \in 1 .. Blocks(Length(old)) |-> i]]
                             ELSE [length |-> 0, dir |-> FALSE, blocks |-> <<>>]],
              data |-> [s \in Sectors |-> IF left # {} /\ s \in 1 .. Blocks(Length(old))
                                         THEN Block(old, s) ELSE Bytes(SectorSize)]]
     /\ flat = [n \in DOMAIN fs.directory |-> IF n \in DOMAIN Images THEN <<>> ELSE old.bytes]

Init ==
  /\ \E argv \in CommandLines, old \in OldFiles \union {NoFile}, chunk \in TransferSizes : Boot(argv, old, chunk)
  /\ objs = <<>> /\ opfile = 0
  /\ mach = [code |-> "zero", regs |-> [pc |-> 1, r2 |-> 0], pageTable |-> 0]
  /\ th = [t \in 0 .. Len(line.exec) |->
             [at |-> IF t = 0 THEN "call" ELSE "new", pc |-> 1, call |-> <<>>, file |-> 0, obj |-> 0, got |-> <<>>,
              dir |-> <<>>, map |-> {}, sector |-> -1, blocks |-> <<>>, io |-> <<>>]]
  /\ saved = [t \in DOMAIN th |-> mach.regs] /\ own = saved
  /\ cur = 0 /\ stopped = "no" /\ mixed = {}

Next ==
  \/ RemoveFile \/ Show \/ Exec
  \/ \E t \in Threads :
       \/ Create(t) \/ Allocate(t) \/ WriteHeader(t) \/ WriteTable(t) \/ WriteBits(t)
       \/ Open(t) \/ StartTransfer(t) \/ Access(t) \/ EndTransfer(t) \/ Close(t)
       \/ Halt(t) \/ Exit(t) \/ Load(t) \/ Segments(t)
       \/ LoseCode(t) \/ Switch(t)

Spec == Init /\ [][Next]_vars

-----------------------------------------------------------------------------
Files == DOMAIN fs.directory \ DOMAIN Images
Header(name) == fs.headers[fs.directory[name]]
Owned(name) == {fs.directory[name]} \union Range(Header(name).blocks)
Quiet == \A t \in Threads : th[t].at \notin {"header", "table", "bits", "disk"}

\* A program in user mode finds its own registers and page table, wherever inside
\* its calls it was switched out: what other programs, the loader and main did in
\* between shows nowhere (SaveUserState, RestoreUserState, RestoreState).  Memory is
\* not shared out, so it loses its code, but only to a program that is loaded, or
\* given its address space, while it runs: programs that end before the next one is
\* loaded each run their own code, although all got their spaces at the start.
OwnContext ==
  /\ stopped = "no" /\ cur # 0 /\ th[cur].at \notin {"load", "segments", "done"} =>
       mach.regs = own[cur] /\ mach.pageTable = cur
  /\ stopped = "clobbered" => "programs" \in mixed

\* A file is an array of bytes: after any sequence of reads and writes, aligned to
\* sectors or not, its sectors hold what was written to each byte and no byte
\* beside the written ones has changed.
FilesAreFlat == mixed = {} /\ Quiet => \A name \in Files : Contents(Header(name)) = flat[name]

\* The one global opfile is enough while no file is opened before the last one is
\* closed and no program uses a file it failed to open: then every call acts on the
\* file whose id it was given, and none on NULL or on a deleted OpenFile, even when
\* programs take turns.
OneFileAtATime ==
  /\ mixed \intersect {"files", "unopened"} = {} =>
       \A t \in Threads \ {0} : th[t].at = "disk" => th[t].obj = th[t].file
  /\ stopped \in {"null", "dangling"} => "files" \in mixed \/ th[cur].file = 0

\* "-cp" and "-p" on one command line: what Print shows when main comes to ExecAll is
\* the UNIX file, byte for byte, whatever the order of the flags, the chunks and what
\* an earlier run left under the name, if that is removed and there is room.
PrintsTheCopy ==
  LET g == Scan(line.argv, "main")
      Says(group) == \E i \in DOMAIN g : g[i] = group
  IN stopped = "no" /\ (th[0].at = "done" \/ Call(0).op \in {"exec", "exit"}) =>
       \A u \in DOMAIN UnixFiles, f \in Range(line.argv) :
         Says(<<"-cp", u, f>>) /\ Says(<<"-p", f>>) /\ (Says(<<"-r", f>>) \/ Says(<<"-f">>))
           /\ Blocks(Len(UnixFiles[u])) < NumSectors
           /\ (Exists(f) => Opens(f))
           => th[0].got = UnixFiles[u]

\* Files have sectors of their own, all marked, and no created file is forgotten,
\* unless two Creates were under way at once.
CreatesApart ==
  "creates" \notin mixed /\ Quiet =>
    /\ \A name \in Files : Owned(name) \subseteq fs.freeMap
    /\ \A name, other \in Files : name # other => Owned(name) \intersect Owned(other) = {}
    /\ DOMAIN flat = DOMAIN fs.directory
=============================================================================
