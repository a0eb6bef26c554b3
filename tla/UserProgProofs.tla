--------------------------- MODULE UserProgProofs ----------------------------
(***************************************************************************)
(* Proofs, for any programs, files, disk and command lines, that files     *)
(* keep their sectors unless two Creates overlap, and that a user program  *)
(* finds its own registers and page table whenever it runs.                *)
(*                                                                         *)
(* For the first, the actions are taken together by what they do to the    *)
(* disk: most leave it alone, and Create, from its reading of the table    *)
(* and the bitmap to its writing them back, is followed access by access   *)
(* (CreateInv), as is the one call main makes at a time (MainInv).  What   *)
(* this needs of the sectors Create finds (FoundClear) and of the calls of *)
(* the command lines (LinesOK) is proved at the end, from the library's    *)
(* theorems about finite sets and from the sequences of calls.             *)
(*                                                                         *)
(* For the second, only the point a thread is at matters of its kernel     *)
(* state, so the actions are taken together by what they do to it: most    *)
(* leave the user context alone (KernelStep), those that end a system call *)
(* write register 2 and the program counter (Returns), and four more       *)
(* change the machine: Exec, Load, Segments and Switch.                    *)
(***************************************************************************)
EXTENDS UserProg, TLAPS

(***************************************************************************)
(* Files keep their sectors.                                               *)
(***************************************************************************)
Fields == {"at", "pc", "call", "file", "obj", "got", "dir", "map", "sector", "blocks", "io"}
Creating == {"map", "header", "table", "bits"}

Records ==
  /\ DOMAIN fs = {"freeMap", "directory", "headers", "data"}
  /\ Threads = 0 .. Len(line.exec) /\ Len(line.exec) \in Nat
  /\ \A t \in Threads : DOMAIN th[t] = Fields

\* The calls of main that may give up, and then go on skip calls later.
GivesUp == {"create", "mkdir", "open", "read", "write", "remove"}

\* The calls of main: its own, of which only the first removes; then an Exec for each
\* program, and the exit.
CallsOK(c, exec) ==
  /\ c \in Seq(Range(c)) /\ Len(c) \in Nat \ {0} /\ c[Len(c)].op = "exit"
  /\ \A i \in 1 .. Len(c) :
       /\ c[i].op = "remove" => i = 1
       /\ c[i].op \in GivesUp => c[i].skip \in 1 .. Len(c) - i
       /\ c[i].op = "exec" => c[i].thread \in 1 .. Len(exec)
  /\ \A i, j \in 1 .. Len(c) :
       c[i].op = "exec" /\ c[j].op = "exec" /\ c[i].thread = c[j].thread => i = j

\* Main goes over its calls once, forwards, and starts the programs at its end: when it
\* removes a file no program has been started yet.
MainInv ==
  /\ CallsOK(line.calls, line.exec)
  /\ th[0].pc \in 1 .. Len(line.calls)
  /\ \/ th[0].at \in {"call", "done"}
     \/ /\ th[0].at \in Creating \union {"disk"}
        /\ th[0].call = line.calls[th[0].pc] /\ th[0].call.op \in GivesUp
  /\ \A t \in Threads \ {0} : th[t].at # "new" => th[0].pc > 1
  /\ \A j \in 1 .. Len(line.calls) :
       j >= th[0].pc /\ line.calls[j].op = "exec" => th[line.calls[j].thread].at = "new"

\* The names whose files have sectors of the pool: not the executables, unless removed
\* and created anew.
Placed == {n \in DOMAIN fs.directory : fs.directory[n] # -1}

\* The sectors a Create under way has chosen.
New(t) == {th[t].sector} \union Range(th[t].blocks)

\* The copies of directory and bitmap a Create holds are those on the disk, and the
\* sectors it has chosen are nobody's, until it writes them back.
CreateInv(t) ==
  /\ th[t].at # "bits" => th[t].dir = fs.directory /\ th[t].call.name \notin DOMAIN fs.directory
  /\ th[t].at # "map" => th[t].map = fs.freeMap \union New(t) /\ New(t) \subseteq Sectors
  /\ th[t].at \in {"header", "table"} => New(t) \intersect fs.freeMap = {}
  /\ th[t].at = "table" => fs.headers[th[t].sector].blocks = th[t].blocks

\* The disk: a file's sectors are its own and marked, or about to be.
Sound ==
  /\ DOMAIN flat = DOMAIN fs.directory /\ DOMAIN fs.headers = Sectors \union {-1}
  /\ fs.headers[-1].blocks = <<>>
  /\ \A n \in DOMAIN fs.directory : n \in Placed \/ n \in DOMAIN Images
  /\ \A n \in Placed : fs.directory[n] \in Sectors /\ Owned(n) \subseteq Nat
  /\ \A n, o \in Placed : n # o => Owned(n) \intersect Owned(o) = {}
  /\ \A n \in Placed : \A s \in Owned(n) : s \in fs.freeMap \/ \E t \in Threads : th[t].at = "bits" /\ s \in th[t].map

OneCreate == \A t, u \in Threads : th[t].at \in Creating /\ th[u].at \in Creating => t = u

DiskInv == "creates" \notin mixed =>
  OneCreate /\ Sound /\ \A t \in Threads : th[t].at \in Creating => CreateInv(t)

CInv == Records /\ MainInv /\ DiskInv

-----------------------------------------------------------------------------
\* A step that leaves the disk's structures alone, and every Create where it is or lets
\* it give up before it has written anything.
DiskQuiet ==
  /\ UNCHANGED <<line, fs.directory, fs.freeMap, fs.headers>> /\ mixed \subseteq mixed'
  /\ DOMAIN fs' = DOMAIN fs /\ DOMAIN flat' = DOMAIN flat /\ Threads' = Threads
  /\ \A u \in Threads : /\ DOMAIN th'[u] = Fields
                        /\ th'[u].at \in Creating \/ th[u].at = "bits" => th'[u] = th[u]

\* Such a step keeps the disk sound.
LEMMA DiskQuietKeeps ==
  ASSUME Records, DiskInv, DiskQuiet
  PROVE  Records' /\ DiskInv'
<1>1. Records'
  BY Zenon DEF Records, DiskQuiet, Threads
<1>2. ASSUME "creates" \notin mixed'
      PROVE  OneCreate' /\ Sound' /\ \A t \in Threads : th'[t].at \in Creating => CreateInv(t)'
  <2>1. "creates" \notin mixed /\ Threads' = Threads
    BY Zenon, <1>2 DEF DiskQuiet
  <2>2. \A u \in Threads : th'[u].at \in Creating \/ th[u].at = "bits" => th'[u] = th[u]
    BY Zenon DEF DiskQuiet
  <2>3. OneCreate'
    BY Zenon, <2>1, <2>2 DEF DiskInv, OneCreate
  <2>4. /\ fs'.directory = fs.directory /\ fs'.freeMap = fs.freeMap /\ fs'.headers = fs.headers
        /\ DOMAIN flat' = DOMAIN flat
    BY Zenon DEF DiskQuiet
  <2>5. Placed' = Placed /\ \A n : Owned(n)' = Owned(n)
    BY Zenon, <2>4 DEF Placed, Owned, Header
  <2>6. Sound
    BY Zenon, <2>1 DEF DiskInv
  <2>7. Sound'
    <3>1. /\ DOMAIN flat' = DOMAIN fs'.directory /\ DOMAIN fs'.headers = Sectors \union {-1}
          /\ fs'.headers[-1].blocks = <<>>
          /\ \A n \in DOMAIN fs'.directory : n \in Placed' \/ n \in DOMAIN Images
          /\ \A n \in Placed' : fs'.directory[n] \in Sectors /\ Owned(n)' \subseteq Nat
      BY Zenon, <2>4, <2>5, <2>6 DEF Sound
    <3>2. \A n, o \in Placed' : n # o => Owned(n)' \intersect Owned(o)' = {}
      BY Zenon, <2>5, <2>6 DEF Sound
    <3>3. \A n \in Placed' : \A s \in Owned(n)' :
            s \in fs'.freeMap \/ \E t \in Threads' : th'[t].at = "bits" /\ s \in th'[t].map
      BY <2>1, <2>2, <2>4, <2>5, <2>6 DEF Sound
    <3> QED
      BY Zenon, <3>1, <3>2, <3>3 DEF Sound
  <2>8. ASSUME NEW t \in Threads, th'[t].at \in Creating
        PROVE  CreateInv(t)'
    <3>1. th'[t] = th[t] /\ CreateInv(t)
      BY Zenon, <2>1, <2>2, <2>8 DEF DiskInv
    <3> QED
      BY Zenon, <2>4, <3>1 DEF CreateInv, New
  <2> QED
    BY Zenon, <2>3, <2>7, <2>8
<1>3. DiskInv'
  BY Zenon, <1>2 DEF DiskInv, DiskQuiet
<1> QED
  BY Zenon, <1>1, <1>3

\* f is the kernel state of the threads, different at most for t.
Moves(f, t) == DOMAIN f = Threads /\ \A u \in Threads : DOMAIN f[u] = Fields /\ (u # t => f[u] = th[u])

\* The calls of main that are still to come.
LEMMA CallFacts ==
  ASSUME Records, MainInv, NEW j \in 1 .. Len(line.calls)
  PROVE  /\ line.calls[j].op = "remove" => j = 1
         /\ line.calls[j].op \in GivesUp => line.calls[j].skip \in 1 .. Len(line.calls) - j
         /\ line.calls[j].op = "exec" => line.calls[j].thread \in Threads \ {0}
         /\ line.calls[j].op = "exec" /\ j >= th[0].pc => th[line.calls[j].thread].at = "new"
<1>1. /\ line.calls[j].op = "remove" => j = 1
      /\ line.calls[j].op \in GivesUp => line.calls[j].skip \in 1 .. Len(line.calls) - j
  BY Zenon DEF MainInv, CallsOK
<1>2. line.calls[j].op = "exec" => line.calls[j].thread \in 1 .. Len(line.exec)
  BY Zenon DEF MainInv, CallsOK
<1>3. 1 .. Len(line.exec) \subseteq Threads \ {0}
  BY DEF Records
<1>4. line.calls[j].op = "exec" /\ j >= th[0].pc => th[line.calls[j].thread].at = "new"
  BY Zenon DEF MainInv
<1> QED
  BY Zenon, <1>1, <1>2, <1>3, <1>4

\* A program's steps do not show in main.
LEMMA OthersKeepMain ==
  ASSUME Records, MainInv, NEW t \in Threads \ {0}, Moves(th', t), th[t].at # "new", line' = line
  PROVE  MainInv'
<1>1. /\ Threads' = Threads /\ 0 \in Threads /\ th'[0] = th[0]
      /\ \A u \in Threads : u # t => th'[u] = th[u]
  BY DEF Records, Moves, Threads
<1>2. \A u \in Threads' \ {0} : th'[u].at # "new" => th'[0].pc > 1
  BY Zenon, <1>1 DEF MainInv
<1>3. ASSUME NEW j \in 1 .. Len(line.calls), j >= th[0].pc, line.calls[j].op = "exec"
      PROVE  th'[line.calls[j].thread].at = "new"
  <2>1. line.calls[j].thread \in Threads /\ th[line.calls[j].thread].at = "new"
    BY Zenon, <1>3, CallFacts
  <2> QED
    BY Zenon, <1>1, <2>1
<1> QED
  BY Zenon, <1>1, <1>2, <1>3 DEF MainInv

\* Main inside a call, or at its end.
LEMMA MainStays ==
  ASSUME Records, MainInv, Moves(th', 0), line' = line, th'[0].pc = th[0].pc,
         \/ th'[0].at \in {"call", "done"}
         \/ /\ th'[0].at \in Creating \union {"disk"}
            /\ th'[0].call = line.calls[th[0].pc] /\ th'[0].call.op \in GivesUp
  PROVE  MainInv'
<1>1. /\ Threads' = Threads /\ 0 \in Threads
      /\ \A u \in Threads : u # 0 => th'[u] = th[u]
  BY DEF Records, Moves, Threads
<1>2. \A u \in Threads' \ {0} : th'[u].at # "new" => th'[0].pc > 1
  BY Zenon, <1>1 DEF MainInv
<1>3. ASSUME NEW j \in 1 .. Len(line.calls), j >= th[0].pc, line.calls[j].op = "exec"
      PROVE  th'[line.calls[j].thread].at = "new"
  <2>1. /\ line.calls[j].thread \in Threads /\ th[line.calls[j].thread].at = "new"
        /\ line.calls[j].thread # 0
    BY Zenon, <1>3, CallFacts
  <2> QED
    BY Zenon, <1>1, <2>1
<1> QED
  BY Zenon, <1>1, <1>2, <1>3 DEF MainInv

\* What main calls, at the call or inside it.
LEMMA MainCallIs ==
  ASSUME MainInv, th[0].at # "done"
  PROVE  Call(0) = line.calls[th[0].pc]
BY Zenon DEF MainInv, Call

\* The calls main can be inside of.
LEMMA MainInside ==
  ASSUME MainInv, th[0].at \in Creating \union {"disk"}
  PROVE  Call(0).op \in GivesUp /\ Call(0).op # "exit"
<1>1. th[0].at \notin {"call", "done"}
  BY Zenon DEF Creating
<1>2. Call(0) = th[0].call /\ th[0].call.op \in GivesUp
  BY Zenon, <1>1 DEF MainInv, Call
<1> QED
  BY Zenon, <1>2 DEF GivesUp

\* Main goes on behind a call, or gives up what it was doing.
LEMMA ReturnKeepsMain ==
  ASSUME Records, MainInv, NEW result, NEW after, Moves(after, 0), after[0].pc = th[0].pc,
         ReturnToMain(result, after), line' = line, th[0].at # "done",
         Call(0).op # "exit", result = 0 => Call(0).op \in GivesUp
  PROVE  Moves(th', 0) /\ th'[0].at = "call" /\ MainInv'
<1> DEFINE c == line.calls
           p == th[0].pc
           d == IF result = 0 THEN Call(0).skip ELSE 1
<1>1. th' = [after EXCEPT ![0].at = "call", ![0].pc = @ + d]
  BY Zenon DEF ReturnToMain
<1>2. Call(0) = c[p]
  BY Zenon, MainCallIs
<1>3. p \in 1 .. Len(c) /\ Len(c) \in Nat /\ p # Len(c)
  BY Zenon, <1>2 DEF MainInv, CallsOK
<1>4. d \in Nat /\ p + d \in p + 1 .. Len(c)
  <2>1. CASE result = 0
    <3>1. c[p].skip \in 1 .. Len(c) - p
      BY Zenon, <1>2, <1>3, <2>1, CallFacts
    <3>2. d = c[p].skip
      BY Zenon, <1>2, <2>1
    <3> HIDE DEF d, c, p
    <3> QED
      BY <1>3, <3>1, <3>2
  <2>2. CASE result # 0
    BY <1>3, <2>2
  <2> QED
    BY Zenon, <2>1, <2>2
<1> HIDE DEF d
<1>5. /\ Threads' = Threads /\ 0 \in Threads /\ th'[0].at = "call" /\ th'[0].pc = p + d
      /\ \A u \in Threads : DOMAIN th'[u] = Fields /\ (u # 0 => th'[u] = th[u])
  BY <1>1 DEF Records, Moves, Threads, Fields
<1> HIDE DEF p
<1>6. \A u \in Threads' \ {0} : th'[u].at # "new" => th'[0].pc > 1
  BY <1>3, <1>4, <1>5
<1>7. ASSUME NEW j \in 1 .. Len(c), j >= th'[0].pc, c[j].op = "exec"
      PROVE  th'[c[j].thread].at = "new"
  <2>1. j >= p
    BY <1>3, <1>4, <1>5, <1>7
  <2>2. c[j].thread \in Threads /\ th[c[j].thread].at = "new" /\ c[j].thread # 0
    BY Zenon, <1>7, <2>1, CallFacts DEF p
  <2> QED
    BY Zenon, <1>5, <2>2
<1>8. th'[0].pc \in 1 .. Len(c)
  BY <1>3, <1>4, <1>5
<1>9. MainInv'
  BY Zenon, <1>5, <1>6, <1>7, <1>8 DEF MainInv
<1> QED
  BY Zenon, <1>5, <1>9 DEF Moves, Threads

\* The end of a call, in main or in a program.
LEMMA ReturnMoves ==
  ASSUME Records, MainInv, NEW t \in Threads, NEW result, NEW after, Moves(after, t),
         after[t].pc = th[t].pc, Return(t, result, after), line' = line,
         th[t].at \notin {"new", "done"},
         t = 0 => Call(0).op # "exit" /\ (result = 0 => Call(0).op \in GivesUp)
  PROVE  Moves(th', t) /\ th'[t].at = "call" /\ MainInv'
<1>1. CASE t = 0
  BY Zenon, <1>1, ReturnKeepsMain DEF Return
<1>2. CASE t # 0
  <2>1. th' = [after EXCEPT ![t].at = "call"]
    BY Zenon, <1>2 DEF Return, ReturnToUser
  <2>2. Moves(th', t) /\ th'[t].at = "call"
    BY Zenon, <2>1 DEF Moves, Records, Fields, Threads
  <2> QED
    BY Zenon, <1>2, <2>2, OthersKeepMain
<1> QED
  BY Zenon, <1>1, <1>2

\* The directory, the bitmap and the headers stay, and so do the names of the files.
SameDisk ==
  /\ UNCHANGED <<line, fs.directory, fs.freeMap, fs.headers>> /\ mixed \subseteq mixed'
  /\ DOMAIN fs' = DOMAIN fs /\ DOMAIN flat' = DOMAIN flat

\* A thread goes on outside Create.
LEMMA OutsideCreate ==
  ASSUME CInv, NEW t \in Threads, SameDisk, Moves(th', t), th'[t].at \notin Creating,
         th[t].at \notin {"new", "bits"}, t = 0 => MainInv'
  PROVE  CInv'
<1>1. DiskQuiet
  BY Zenon DEF DiskQuiet, SameDisk, Moves, Threads
<1>2. MainInv'
  BY Zenon, OthersKeepMain DEF CInv, SameDisk
<1> QED
  BY Zenon, <1>1, <1>2, DiskQuietKeeps DEF CInv

\* Nothing but the scheduler, the machine and the open files changes.
LEMMA NothingMoves ==
  ASSUME CInv, UNCHANGED <<fs, th, line, flat, mixed>>
  PROVE  CInv'
<1>1. DiskQuiet
  BY Zenon DEF DiskQuiet, CInv, Records, Threads
<1>2. MainInv'
  BY Zenon DEF CInv, MainInv, Threads
<1> QED
  BY Zenon, <1>1, <1>2, DiskQuietKeeps DEF CInv

\* State of the threads with another file or more bytes read.
LEMMA MovesSame ==
  ASSUME Records, NEW t \in Threads
  PROVE  /\ Moves(th, t)
         /\ \A x : Moves([th EXCEPT ![t].file = x], t) /\ [th EXCEPT ![t].file = x][t].pc = th[t].pc
         /\ \A x : Moves([th EXCEPT ![t].got = x], t) /\ [th EXCEPT ![t].got = x][t].pc = th[t].pc
BY Zenon DEF Records, Moves, Threads, Fields

\* FileSystem::Open.
LEMMA OpenApart ==
  ASSUME CInv, NEW t \in Threads, Open(t)
  PROVE  CInv'
<1>1. th[t].at = "call" /\ Call(t).op = "open" /\ SameDisk
  BY Zenon DEF Open, Runs, SameDisk, Mixing
<1>2. \E x : Return(t, x, [th EXCEPT ![t].file = x])
  BY ZenonT(30) DEF Open
<1>3. PICK x : Return(t, x, [th EXCEPT ![t].file = x])
  BY <1>2, Zenon
<1>4. Moves(th', t) /\ th'[t].at = "call" /\ MainInv'
  <2>1. /\ Moves([th EXCEPT ![t].file = x], t) /\ [th EXCEPT ![t].file = x][t].pc = th[t].pc
    BY Zenon, MovesSame DEF CInv
  <2>2. line' = line
    BY Zenon, <1>1 DEF SameDisk
  <2> QED
    BY Zenon, <1>1, <1>3, <2>1, <2>2, ReturnMoves DEF CInv, GivesUp
<1> QED
  BY Zenon, <1>1, <1>4, OutsideCreate DEF Creating

\* OpenFile::ReadAt and WriteAt up to the first sector.
LEMMA StartTransferApart ==
  ASSUME CInv, NEW t \in Threads, StartTransfer(t)
  PROVE  CInv'
<1>1. th[t].at = "call" /\ Call(t).op \in {"read", "write"}
  BY Zenon DEF StartTransfer, Runs
<1>2. CASE Stop("null") \/ Stop("dangling")
  BY Zenon, <1>2, NothingMoves DEF Stop
<1>3. CASE ~(Stop("null") \/ Stop("dangling"))
  <2>1. /\ th' = [th EXCEPT ![t].at = "disk", ![t].call = Call(t), ![t].obj = Target(t),
                             ![t].io = Transfer(Call(t), objs[Target(t)])]
        /\ SameDisk
    BY Zenon, <1>3 DEF StartTransfer, SameDisk, Mixing
  <2>2. Moves(th', t) /\ th'[t].at = "disk" /\ th'[t].call = Call(t) /\ th'[t].pc = th[t].pc
    BY Zenon, <2>1 DEF CInv, Records, Moves, Threads, Fields
  <2>3. ASSUME t = 0
        PROVE  MainInv'
    BY Zenon, <1>1, <2>1, <2>2, <2>3, MainStays, MainCallIs DEF CInv, SameDisk, GivesUp
  <2> QED
    BY Zenon, <1>1, <2>1, <2>2, <2>3, OutsideCreate DEF Creating
<1> QED
  BY Zenon, <1>2, <1>3

\* One sector of a transfer: data only.
LEMMA AccessApart ==
  ASSUME CInv, NEW t \in Threads, Access(t)
  PROVE  CInv'
<1>1. th[t].at = "disk" /\ UNCHANGED <<line, flat, mixed>>
  BY ZenonT(30) DEF Access, Runs
<1>2. \E p, i, b : \/ th' = [th EXCEPT ![t].io.plan = p]
                  \/ th' = [[th EXCEPT ![t].io.plan = p] EXCEPT ![t].io.buf[i] = b]
  BY ZenonT(30) DEF Access
<1>3. \E i, b : fs' = fs \/ fs' = [fs EXCEPT !.data[i] = b]
  BY ZenonT(30) DEF Access
<1>4. SameDisk
  BY Zenon, <1>1, <1>3 DEF SameDisk, CInv, Records
<1>5. Moves(th', t) /\ th'[t].at = "disk" /\ th'[t].call = th[t].call /\ th'[t].pc = th[t].pc
  BY <1>1, <1>2 DEF CInv, Records, Moves, Threads, Fields
<1>6. ASSUME t = 0
      PROVE  MainInv'
  <2>1. th[0].call = line.calls[th[0].pc] /\ th[0].call.op \in GivesUp
    BY Zenon, <1>1, <1>6 DEF CInv, MainInv
  <2> QED
    BY Zenon, <1>1, <1>5, <1>6, <2>1, MainStays DEF CInv
<1> QED
  BY Zenon, <1>1, <1>4, <1>5, <1>6, OutsideCreate DEF Creating

\* The end of a transfer: bytes of a file, not its name.
LEMMA EndTransferApart ==
  ASSUME CInv, NEW t \in Threads, EndTransfer(t)
  PROVE  CInv'
<1>1. th[t].at = "disk"
  BY Zenon DEF EndTransfer, Runs
<1>2. \/ Stop("dangling")
      \/ /\ \E n, x : Return(t, n, [th EXCEPT ![t].got = x])
         /\ \E y, z : flat' = flat \/ flat' = [flat EXCEPT ![y] = z]
         /\ UNCHANGED <<fs, line, mixed>>
  BY ZenonT(30) DEF EndTransfer
<1>3. CASE Stop("dangling")
  BY Zenon, <1>3, NothingMoves DEF Stop
<1>4. ASSUME NEW n, NEW x, Return(t, n, [th EXCEPT ![t].got = x]),
             \E y, z : flat' = flat \/ flat' = [flat EXCEPT ![y] = z],
             UNCHANGED <<fs, line, mixed>>
      PROVE  CInv'
  <2>1. SameDisk
    BY Zenon, <1>4 DEF SameDisk
  <2>2. Moves([th EXCEPT ![t].got = x], t) /\ [th EXCEPT ![t].got = x][t].pc = th[t].pc
    BY Zenon, MovesSame DEF CInv
  <2>3. ASSUME t = 0
        PROVE  Call(0).op \in GivesUp /\ Call(0).op # "exit"
    BY Zenon, <1>1, <2>3, MainInside DEF CInv, Creating
  <2>4. Moves(th', t) /\ th'[t].at = "call" /\ MainInv'
    BY Zenon, <1>1, <1>4, <2>2, <2>3, ReturnMoves DEF CInv
  <2> QED
    BY Zenon, <1>1, <2>1, <2>4, OutsideCreate DEF Creating
<1> QED
  BY ZenonT(30), <1>2, <1>3, <1>4

\* The end of an OpenFile.
LEMMA CloseApart ==
  ASSUME CInv, NEW t \in Threads, Close(t)
  PROVE  CInv'
<1>1. th[t].at = "call" /\ Call(t).op = "close"
  BY Zenon DEF Close, Runs
<1>2. CASE Stop("dangling")
  BY Zenon, <1>2, NothingMoves DEF Stop
<1>3. CASE ~Stop("dangling")
  <2>1. SameDisk /\ Return(t, 1, th)
    BY Zenon, <1>3 DEF Close, SameDisk, Mixing
  <2>2. Moves(th, t) /\ line' = line
    BY Zenon, <2>1, MovesSame DEF CInv, SameDisk
  <2>3. Moves(th', t) /\ th'[t].at = "call" /\ MainInv'
    BY <1>1, <2>1, <2>2, ReturnMoves DEF CInv
  <2> QED
    BY Zenon, <1>1, <2>1, <2>3, OutsideCreate DEF Creating
<1> QED
  BY Zenon, <1>2, <1>3

\* SC_Exit, and the end of main.
LEMMA ExitApart ==
  ASSUME CInv, NEW t \in Threads, Exit(t)
  PROVE  CInv'
<1>1. th[t].at = "call" /\ th' = [th EXCEPT ![t].at = "done"] /\ SameDisk
  BY Zenon DEF Exit, Runs, SameDisk
<1>2. Moves(th', t) /\ th'[t].at = "done" /\ th'[t].pc = th[t].pc
  BY Zenon, <1>1 DEF CInv, Records, Moves, Threads, Fields
<1>3. ASSUME t = 0
      PROVE  MainInv'
  BY Zenon, <1>1, <1>2, <1>3, MainStays DEF CInv, SameDisk
<1> QED
  BY Zenon, <1>1, <1>2, <1>3, OutsideCreate DEF Creating

\* The listings.
LEMMA ShowApart ==
  ASSUME CInv, Show
  PROVE  CInv'
<1>1. th[0].at = "call" /\ Call(0).op = "show" /\ SameDisk /\ ReturnToMain(1, th)
  BY Zenon DEF Show, Runs, SameDisk
<1>2. 0 \in Threads /\ line' = line
  BY <1>1 DEF CInv, Records, SameDisk
<1>3. Moves(th, 0)
  BY Zenon, <1>2, MovesSame DEF CInv
<1>4. Moves(th', 0) /\ th'[0].at = "call" /\ MainInv'
  BY <1>1, <1>2, <1>3, ReturnKeepsMain DEF CInv
<1> QED
  BY Zenon, <1>1, <1>2, <1>4, OutsideCreate DEF Creating

\* AddrSpace::Load opens the executable, or finds none.
LEMMA LoadApart ==
  ASSUME CInv, NEW t \in Threads, Load(t)
  PROVE  CInv'
<1>1. th[t].at = "load" /\ SameDisk
  BY Zenon DEF Load, Runs, SameDisk, Mixing
<1>2. \/ \E x : th' = [th EXCEPT ![t].at = "segments", ![t].obj = x]
      \/ th' = [th EXCEPT ![t].at = "done"]
  BY Zenon DEF Load
<1>3. Moves(th', t) /\ th'[t].at \in {"segments", "done"}
  BY ZenonT(60), <1>2 DEF CInv, Records, Moves, Threads, Fields
<1>4. t # 0
  BY Zenon, <1>1 DEF CInv, MainInv, Creating
<1> QED
  BY Zenon, <1>1, <1>3, <1>4, OutsideCreate DEF Creating

\* AddrSpace::Load and Execute: memory and registers.
LEMMA SegmentsApart ==
  ASSUME CInv, NEW t \in Threads, Segments(t)
  PROVE  CInv'
<1>1. th[t].at = "segments" /\ th' = [th EXCEPT ![t].at = "call"] /\ SameDisk
  BY Zenon DEF Segments, Runs, SameDisk, Mixing
<1>2. Moves(th', t) /\ th'[t].at = "call"
  BY Zenon, <1>1 DEF CInv, Records, Moves, Threads, Fields
<1>3. t # 0
  BY Zenon, <1>1 DEF CInv, MainInv, Creating
<1> QED
  BY Zenon, <1>1, <1>2, <1>3, OutsideCreate DEF Creating

\* Kernel::Exec starts a program that was not started before.
LEMMA ExecApart ==
  ASSUME CInv, Exec
  PROVE  CInv'
<1> DEFINE c == line.calls
           p == th[0].pc
           n == c[p].thread
<1>1. th[0].at = "call" /\ Call(0).op = "exec" /\ SameDisk
  BY Zenon DEF Exec, Runs, SameDisk, Mixing
<1>2. Call(0) = c[p]
  BY Zenon, <1>1, MainCallIs DEF CInv
<1>3. th' = [th EXCEPT ![n].at = "load", ![0].pc = @ + 1]
  BY Zenon, <1>2 DEF Exec
<1>4. p \in 1 .. Len(c) /\ Len(c) \in Nat /\ p # Len(c)
  BY Zenon, <1>1, <1>2 DEF CInv, MainInv, CallsOK
<1>5. n \in Threads /\ n # 0 /\ th[n].at = "new" /\ 0 \in Threads
  <2>1. p >= p
    BY <1>4
  <2>2. n \in Threads /\ n # 0 /\ th[n].at = "new"
    BY Zenon, <1>1, <1>2, <1>4, <2>1, CallFacts DEF CInv
  <2>3. Threads = 0 .. Len(line.exec) /\ Len(line.exec) \in Nat
    BY Zenon DEF CInv, Records
  <2>4. 0 \in Threads
    BY ONLY <2>3
  <2> QED
    BY Zenon, <2>2, <2>4
<1>6. \A j \in 1 .. Len(c) : c[j].op = "exec" /\ j # p => c[j].thread # n
  <2>1. \A i, j \in 1 .. Len(c) :
          c[i].op = "exec" /\ c[j].op = "exec" /\ c[i].thread = c[j].thread => i = j
    BY Zenon DEF CInv, MainInv, CallsOK
  <2> QED
    BY Zenon, <1>1, <1>2, <1>4, <2>1
<1> HIDE DEF n
<1>7. /\ Threads' = Threads /\ th'[n].at = "load" /\ th'[0].at = "call" /\ th'[0].pc = p + 1
      /\ \A u \in Threads : DOMAIN th'[u] = Fields /\ (u \notin {0, n} => th'[u] = th[u])
  BY Zenon, <1>1, <1>3, <1>5 DEF CInv, Records, Threads, Fields
<1>8. DiskQuiet
  <2>1. \A u \in Threads : th'[u].at \in Creating \/ th[u].at = "bits" => u \notin {0, n}
    BY Zenon, <1>1, <1>5, <1>7 DEF Creating
  <2> QED
    BY Zenon, <1>1, <1>7, <2>1 DEF DiskQuiet, SameDisk
<1>9. MainInv'
  <2>1. th'[0].pc \in 1 .. Len(c) /\ th'[0].pc > 1
    BY <1>4, <1>7
  <2>2. ASSUME NEW j \in 1 .. Len(c), j >= th'[0].pc, c[j].op = "exec"
        PROVE  th'[c[j].thread].at = "new"
    <3>1. j >= p /\ j # p
      BY <1>4, <1>7, <2>2
    <3>2. c[j].thread \in Threads /\ th[c[j].thread].at = "new" /\ c[j].thread \notin {0, n}
      BY Zenon, <1>6, <2>2, <3>1, CallFacts DEF CInv
    <3> QED
      BY Zenon, <1>7, <3>2
  <2>3. line' = line
    BY Zenon, <1>1 DEF SameDisk
  <2> QED
    BY Zenon, <1>7, <2>1, <2>2, <2>3 DEF CInv, MainInv
<1> QED
  BY Zenon, <1>8, <1>9, DiskQuietKeeps DEF CInv

-----------------------------------------------------------------------------
(***************************************************************************)
(* The steps of Create.                                                    *)
(***************************************************************************)
\* A thread goes on inside Create, with the call it trapped with.
InCreate(t) ==
  /\ Moves(th', t) /\ line' = line /\ th'[t].pc = th[t].pc /\ th'[t].at \in Creating
  /\ \/ th[t].at \in Creating /\ th'[t].call = th[t].call
     \/ th[t].at = "call" /\ Call(t).op \in GivesUp /\ th'[t].call = Call(t)
  /\ DOMAIN fs' = DOMAIN fs

\* For main this is one step of one of its calls.
LEMMA InCreateKeeps ==
  ASSUME Records, MainInv, NEW t \in Threads, InCreate(t)
  PROVE  Records' /\ MainInv'
<1>1. Records'
  BY Zenon DEF Records, InCreate, Moves, Threads
<1>2. CASE t = 0
  <2>1. th'[0].call = line.calls[th[0].pc] /\ th'[0].call.op \in GivesUp
    <3>1. CASE th[0].at \in Creating /\ th'[0].call = th[0].call
      BY Zenon, <3>1 DEF MainInv, Creating
    <3>2. CASE th[0].at = "call" /\ Call(0).op \in GivesUp /\ th'[0].call = Call(0)
      BY Zenon, <3>2, MainCallIs
    <3> QED
      BY Zenon, <1>2, <3>1, <3>2 DEF InCreate
  <2>2. MainInv'
    BY Zenon, <1>2, <2>1, MainStays DEF InCreate
  <2> QED
    BY Zenon, <1>1, <2>2
<1>3. CASE t # 0
  <2>1. th[t].at # "new"
    BY Zenon DEF InCreate, Creating
  <2>2. MainInv'
    BY Zenon, <1>3, <2>1, OthersKeepMain DEF InCreate
  <2> QED
    BY Zenon, <1>1, <2>2
<1> QED
  BY Zenon, <1>2, <1>3

\* Unless Creates overlapped, one under way is the only one.
LEMMA OnlyOne ==
  ASSUME DiskInv, "creates" \notin mixed, NEW t \in Threads, th[t].at \in Creating
  PROVE  /\ Sound /\ CreateInv(t)
         /\ \A u \in Threads : u # t => th[u].at \notin Creating
BY Zenon DEF DiskInv, OneCreate

\* While no Create is about to write the bitmap, the files' sectors are marked.
LEMMA Marked ==
  ASSUME Sound, \A t \in Threads : th[t].at # "bits"
  PROVE  \A n \in Placed : Owned(n) \subseteq fs.freeMap
BY Zenon DEF Sound

\* Create reads the directory.
LEMMA CreateApart ==
  ASSUME CInv, NEW t \in Threads, Create(t)
  PROVE  CInv'
<1>1. th[t].at = "call" /\ Call(t).op \in {"create", "mkdir"} /\ UNCHANGED <<fs, line, flat>>
  BY Zenon DEF Create, Runs
<1>2. CASE Exists(Call(t).name)
  <2>1. Return(t, 0, th) /\ mixed' = mixed
    BY Zenon, <1>2 DEF Create
  <2>2. Moves(th, t)
    BY Zenon, MovesSame DEF CInv
  <2>3. Moves(th', t) /\ th'[t].at = "call" /\ MainInv'
    BY Zenon, <1>1, <2>1, <2>2, ReturnMoves DEF CInv, GivesUp
  <2> QED
    BY Zenon, <1>1, <2>1, <2>3, OutsideCreate DEF Creating, SameDisk
<1>3. CASE ~Exists(Call(t).name)
  <2>1. /\ th' = [th EXCEPT ![t].at = "map", ![t].call = Call(t), ![t].dir = fs.directory]
        /\ mixed' = IF \E u \in Threads : th[u].at \in Creating THEN mixed \union {"creates"} ELSE mixed
    BY Zenon, <1>3 DEF Create, Mixing, Creating
  <2>2. /\ Moves(th', t) /\ th'[t].at = "map" /\ th'[t].call = Call(t) /\ th'[t].pc = th[t].pc
        /\ th'[t].dir = fs.directory
    BY Zenon, <2>1 DEF CInv, Records, Moves, Threads, Fields
  <2>3. InCreate(t)
    BY Zenon, <1>1, <2>2 DEF InCreate, Creating, GivesUp
  <2>4. Records' /\ MainInv'
    BY Zenon, <2>3, InCreateKeeps DEF CInv
  <2>5. ASSUME "creates" \notin mixed'
        PROVE  OneCreate' /\ Sound' /\ \A u \in Threads' : th'[u].at \in Creating => CreateInv(u)'
    <3>1. "creates" \notin mixed /\ \A u \in Threads : th[u].at \notin Creating
      BY Zenon, <2>1, <2>5
    <3>2. Threads' = Threads /\ \A u \in Threads : u # t => th'[u] = th[u]
      BY Zenon, <2>2 DEF Moves, Threads
    <3>3. OneCreate'
      BY Zenon, <3>1, <3>2 DEF OneCreate
    <3>4. Sound
      BY Zenon, <3>1 DEF CInv, DiskInv
    <3>5. Sound'
      <4>1. Placed' = Placed /\ \A n : Owned(n)' = Owned(n)
        BY Zenon, <1>1 DEF Placed, Owned, Header
      <4>2. \A n \in Placed : Owned(n) \subseteq fs.freeMap
        BY Zenon, <3>1, <3>4, Marked DEF Creating
      <4> QED
        BY Zenon, <1>1, <3>4, <4>1, <4>2 DEF Sound
    <3>6. CreateInv(t)'
      BY Zenon, <1>1, <1>3, <2>2 DEF CreateInv, Exists
    <3> QED
      BY Zenon, <3>1, <3>2, <3>3, <3>5, <3>6
  <2> QED
    BY Zenon, <2>4, <2>5 DEF CInv, DiskInv
<1> QED
  BY Zenon, <1>2, <1>3

\* FileHeader::WriteBack: in a sector that is no file's header.
LEMMA WriteHeaderApart ==
  ASSUME CInv, NEW t \in Threads, WriteHeader(t)
  PROVE  CInv'
<1> DEFINE hdr == [length |-> Call(t).n, blocks |-> th[t].blocks, dir |-> Call(t).op = "mkdir"]
           sec == th[t].sector
<1>1. /\ th[t].at = "header" /\ UNCHANGED <<line, flat, mixed>> /\ th' = [th EXCEPT ![t].at = "table"]
      /\ fs' = [fs EXCEPT !.headers[sec] = hdr]
  BY Zenon DEF WriteHeader, Runs
<1>2. hdr.blocks = th[t].blocks
  OBVIOUS
<1> HIDE DEF hdr
<1>3. /\ Moves(th', t) /\ th'[t].at = "table" /\ th'[t].call = th[t].call /\ th'[t].pc = th[t].pc
      /\ th'[t].map = th[t].map /\ th'[t].sector = sec /\ th'[t].blocks = th[t].blocks /\ th'[t].dir = th[t].dir
  BY Zenon, <1>1 DEF CInv, Records, Moves, Threads, Fields
<1>4. /\ DOMAIN fs' = DOMAIN fs /\ fs'.directory = fs.directory /\ fs'.freeMap = fs.freeMap
      /\ fs'.headers = [fs.headers EXCEPT ![sec] = hdr]
  BY Zenon, <1>1 DEF CInv, Records
<1>5. Records' /\ MainInv'
  <2>1. InCreate(t)
    BY Zenon, <1>1, <1>3, <1>4 DEF InCreate, Creating
  <2> QED
    BY Zenon, <2>1, InCreateKeeps DEF CInv
<1>6. ASSUME "creates" \notin mixed
      PROVE  OneCreate' /\ Sound' /\ \A u \in Threads' : th'[u].at \in Creating => CreateInv(u)'
  <2>1. Sound /\ CreateInv(t) /\ \A u \in Threads : u # t => th[u].at \notin Creating
    BY Zenon, <1>1, <1>6, OnlyOne DEF CInv, Creating
  <2>2. Threads' = Threads /\ \A u \in Threads : u # t => th'[u] = th[u]
    BY Zenon, <1>3 DEF Moves, Threads
  <2>3. OneCreate'
    BY Zenon, <2>1, <2>2 DEF OneCreate
  <2>4. /\ th[t].dir = fs.directory /\ th[t].call.name \notin DOMAIN fs.directory
        /\ th[t].map = fs.freeMap \union New(t) /\ New(t) \subseteq Sectors /\ New(t) \intersect fs.freeMap = {}
        /\ sec \in New(t)
    BY Zenon, <1>1, <2>1 DEF CreateInv, New
  <2>5. \A n \in Placed : Owned(n) \subseteq fs.freeMap
    BY Zenon, <1>1, <2>1, Marked DEF Creating
  <2>6. \A n \in Placed : fs.directory[n] # sec
    BY Zenon, <2>4, <2>5 DEF Owned
  <2>7. sec \in Sectors /\ sec # -1
    BY <2>4, SizesAssumption DEF Sectors
  <2>8. /\ DOMAIN fs'.headers = DOMAIN fs.headers /\ fs'.headers[sec] = hdr
        /\ \A x \in DOMAIN fs.headers : x # sec => fs'.headers[x] = fs.headers[x]
    BY Zenon, <1>4, <2>1, <2>7 DEF Sound
  <2>9. Sound'
    <3>1. Placed' = Placed
      BY Zenon, <1>4 DEF Placed
    <3>2. \A n \in Placed : Owned(n)' = Owned(n)
      <4>1. \A n \in Placed : fs.directory[n] \in DOMAIN fs.headers
        BY Zenon, <2>1 DEF Sound
      <4>2. \A n \in Placed : Header(n)' = Header(n)
        BY Zenon, <1>4, <2>6, <2>8, <4>1 DEF Header
      <4> QED
        BY Zenon, <1>4, <4>2 DEF Owned
    <3>3. fs'.headers[-1].blocks = <<>>
      BY Zenon, <2>1, <2>7, <2>8 DEF Sound
    <3> QED
      BY <1>1, <1>4, <2>1, <2>5, <2>8, <3>1, <3>2, <3>3 DEF Sound
  <2>10. CreateInv(t)'
    <3>1. New(t)' = New(t)
      BY Zenon, <1>3 DEF New
    <3> QED
      BY Zenon, <1>2, <1>3, <1>4, <2>4, <2>8, <3>1 DEF CreateInv
  <2> QED
    BY Zenon, <2>1, <2>2, <2>3, <2>9, <2>10
<1> QED
  BY Zenon, <1>1, <1>5, <1>6 DEF CInv, DiskInv

\* Directory::WriteBack: the file gets the sectors chosen for it, nobody else's.
LEMMA WriteTableApart ==
  ASSUME CInv, NEW t \in Threads, WriteTable(t)
  PROVE  CInv'
<1> DEFINE sec == th[t].sector
<1>0. PICK name : name = th[t].call.name
  OBVIOUS
<1>1. th[t].at = "table" /\ UNCHANGED <<line, mixed>> /\ th' = [th EXCEPT ![t].at = "bits"]
  BY Zenon DEF WriteTable, Runs
<1>2. Call(t) = th[t].call
  BY Zenon, <1>1 DEF Call
<1>3. fs' = [fs EXCEPT !.directory = With(th[t].dir, name, sec)] /\ flat' = With(flat, name, Bytes(Call(t).n))
  BY Zenon, <1>0, <1>2 DEF WriteTable
<1>4. /\ Moves(th', t) /\ th'[t].at = "bits" /\ th'[t].call = th[t].call /\ th'[t].pc = th[t].pc
      /\ th'[t].map = th[t].map /\ th'[t].sector = sec /\ th'[t].blocks = th[t].blocks
  BY Zenon, <1>1 DEF CInv, Records, Moves, Threads, Fields
<1>5. /\ DOMAIN fs' = DOMAIN fs /\ fs'.directory = With(th[t].dir, name, sec) /\ fs'.freeMap = fs.freeMap
      /\ fs'.headers = fs.headers
  BY Zenon, <1>3 DEF CInv, Records
<1>6. Records' /\ MainInv'
  <2>1. InCreate(t)
    BY Zenon, <1>1, <1>4, <1>5 DEF InCreate, Creating
  <2> QED
    BY Zenon, <2>1, InCreateKeeps DEF CInv
<1>7. ASSUME "creates" \notin mixed
      PROVE  OneCreate' /\ Sound' /\ \A u \in Threads' : th'[u].at \in Creating => CreateInv(u)'
  <2>1. Sound /\ CreateInv(t) /\ \A u \in Threads : u # t => th[u].at \notin Creating
    BY Zenon, <1>1, <1>7, OnlyOne DEF CInv, Creating
  <2>2. Threads' = Threads /\ \A u \in Threads : u # t => th'[u] = th[u]
    BY Zenon, <1>4 DEF Moves, Threads
  <2>3. OneCreate'
    BY Zenon, <2>1, <2>2 DEF OneCreate
  <2>4. /\ th[t].dir = fs.directory /\ name \notin DOMAIN fs.directory
        /\ th[t].map = fs.freeMap \union New(t) /\ New(t) \subseteq Sectors /\ New(t) \intersect fs.freeMap = {}
        /\ sec \in New(t) /\ fs.headers[sec].blocks = th[t].blocks
    BY Zenon, <1>0, <1>1, <2>1 DEF CreateInv, New
  <2>5. \A n \in Placed : Owned(n) \subseteq fs.freeMap
    BY Zenon, <1>1, <2>1, Marked DEF Creating
  <2>6. sec \in Sectors /\ sec # -1 /\ Sectors \subseteq Nat
    BY <2>4, SizesAssumption DEF Sectors
  <2>7. /\ DOMAIN fs'.directory = DOMAIN fs.directory \union {name} /\ fs'.directory[name] = sec
        /\ \A n \in DOMAIN fs.directory : n # name /\ fs'.directory[n] = fs.directory[n]
    BY Zenon, <1>5, <2>4 DEF With
  <2>8. Placed' = Placed \union {name} /\ name \notin Placed
    BY Zenon, <2>4, <2>6, <2>7 DEF Placed
  <2>9. /\ Owned(name)' = New(t)
        /\ \A n \in Placed : Owned(n)' = Owned(n) /\ fs'.directory[n] = fs.directory[n]
    <3>1. Owned(name)' = New(t)
      BY Zenon, <1>5, <2>4, <2>7 DEF Owned, Header, New
    <3>2. \A n \in Placed : fs'.directory[n] = fs.directory[n]
      BY Zenon, <2>7 DEF Placed
    <3> QED
      BY Zenon, <1>5, <3>1, <3>2 DEF Owned, Header
  <2>10. Sound'
    <3>1. DOMAIN flat' = DOMAIN fs'.directory
      BY Zenon, <1>3, <2>1, <2>7 DEF Sound, With
    <3>2. \A n \in DOMAIN fs'.directory : n \in Placed' \/ n \in DOMAIN Images
      BY Zenon, <2>1, <2>7, <2>8 DEF Sound
    <3>3. \A n \in Placed' : fs'.directory[n] \in Sectors /\ Owned(n)' \subseteq Nat
      <4>1. fs'.directory[name] \in Sectors /\ Owned(name)' \subseteq Nat
        BY Zenon, <2>4, <2>6, <2>7, <2>9
      <4>2. \A n \in Placed : fs.directory[n] \in Sectors /\ Owned(n) \subseteq Nat
        BY Zenon, <2>1 DEF Sound
      <4> QED
        BY Zenon, <2>8, <2>9, <4>1, <4>2
    <3>4. ASSUME NEW n \in Placed', NEW o \in Placed', n # o
          PROVE  Owned(n)' \intersect Owned(o)' = {}
      <4>1. CASE n \in Placed /\ o \in Placed
        BY Zenon, <2>1, <2>9, <3>4, <4>1 DEF Sound
      <4>2. CASE n = name /\ o \in Placed
        BY <2>4, <2>5, <2>9, <4>2
      <4>3. CASE n \in Placed /\ o = name
        BY <2>4, <2>5, <2>9, <4>3
      <4> QED
        BY Zenon, <2>8, <3>4, <4>1, <4>2, <4>3
    <3>5. \A n \in Placed' : \A s \in Owned(n)' :
            s \in fs'.freeMap \/ \E u \in Threads' : th'[u].at = "bits" /\ s \in th'[u].map
      BY <1>4, <1>5, <2>2, <2>4, <2>5, <2>8, <2>9
    <3> QED
      BY Zenon, <1>5, <2>1, <3>1, <3>2, <3>3, <3>4, <3>5 DEF Sound
  <2>11. CreateInv(t)'
    <3>1. New(t)' = New(t)
      BY Zenon, <1>4 DEF New
    <3> QED
      BY Zenon, <1>4, <1>5, <2>4, <3>1 DEF CreateInv
  <2> QED
    BY Zenon, <2>1, <2>2, <2>3, <2>10, <2>11
<1> QED
  BY Zenon, <1>1, <1>6, <1>7 DEF CInv, DiskInv

\* PersistentBitmap::WriteBack: the new file's sectors are marked.
LEMMA WriteBitsApart ==
  ASSUME CInv, NEW t \in Threads, WriteBits(t)
  PROVE  CInv'
<1>1. /\ th[t].at = "bits" /\ UNCHANGED <<line, flat, mixed>> /\ Return(t, 1, th)
      /\ fs' = [fs EXCEPT !.freeMap = th[t].map]
  BY Zenon DEF WriteBits, Runs, NewMap
<1>2. /\ DOMAIN fs' = DOMAIN fs /\ fs'.directory = fs.directory /\ fs'.freeMap = th[t].map
      /\ fs'.headers = fs.headers
  BY Zenon, <1>1 DEF CInv, Records
<1>3. ASSUME t = 0
      PROVE  Call(0).op \in GivesUp /\ Call(0).op # "exit"
  BY Zenon, <1>1, <1>3, MainInside DEF CInv, Creating
<1>4. Moves(th, t)
  BY Zenon, MovesSame DEF CInv
<1>5. Moves(th', t) /\ th'[t].at = "call" /\ MainInv'
  BY Zenon, <1>1, <1>3, <1>4, ReturnMoves DEF CInv
<1>6. Threads' = Threads /\ \A u \in Threads : u # t => th'[u] = th[u]
  BY Zenon, <1>5 DEF Moves, Threads
<1>7. Records'
  BY Zenon, <1>1, <1>2, <1>5, <1>6 DEF CInv, Records, Moves
<1>8. ASSUME "creates" \notin mixed
      PROVE  OneCreate' /\ Sound' /\ \A u \in Threads' : th'[u].at \in Creating => CreateInv(u)'
  <2>1. Sound /\ CreateInv(t) /\ \A u \in Threads : u # t => th[u].at \notin Creating
    BY Zenon, <1>1, <1>8, OnlyOne DEF CInv, Creating
  <2>2. \A u \in Threads : th'[u].at \notin Creating
    BY Zenon, <1>5, <1>6, <2>1 DEF Creating
  <2>3. fs.freeMap \subseteq th[t].map
    BY Zenon, <1>1, <2>1 DEF CreateInv
  <2>4. \A n \in Placed : Owned(n) \subseteq th[t].map
    BY Zenon, <2>1, <2>3 DEF Sound, Creating
  <2>5. Placed' = Placed /\ \A n : Owned(n)' = Owned(n)
    BY Zenon, <1>2 DEF Placed, Owned, Header
  <2>6. Sound'
    BY Zenon, <1>1, <1>2, <2>1, <2>4, <2>5 DEF Sound
  <2> QED
    BY Zenon, <1>6, <2>2, <2>6 DEF OneCreate
<1> QED
  BY Zenon, <1>1, <1>5, <1>7, <1>8 DEF CInv, DiskInv

\* FileSystem::Remove gives back the sectors of one file, before any program runs.
LEMMA RemoveFileApart ==
  ASSUME CInv, RemoveFile
  PROVE  CInv'
<1>1. th[0].at = "call" /\ Call(0).op = "remove" /\ UNCHANGED <<line, mixed>> /\ 0 \in Threads
  BY DEF RemoveFile, Runs, CInv, Records
<1>2. PICK name : name = Call(0).name
  OBVIOUS
<1> DEFINE hdr == fs.headers[fs.directory[name]]
<1>3. Moves(th, 0)
  BY Zenon, <1>1, MovesSame DEF CInv
<1>4. ASSUME NEW result \in {0, 1}, ReturnToMain(result, th)
      PROVE  Moves(th', 0) /\ th'[0].at = "call" /\ MainInv'
  BY Zenon, <1>1, <1>3, <1>4, ReturnKeepsMain DEF CInv, GivesUp
<1>5. CASE ~Exists(name) \/ (hdr.dir /\ ~Call(0).recursive)
  <2>1. ReturnToMain(0, th) /\ UNCHANGED <<fs, flat>>
    BY Zenon, <1>2, <1>5 DEF RemoveFile
  <2>2. SameDisk
    BY Zenon, <1>1, <2>1 DEF SameDisk
  <2> QED
    BY Zenon, <1>1, <1>4, <2>1, <2>2, OutsideCreate DEF Creating
<1>6. CASE ~(~Exists(name) \/ (hdr.dir /\ ~Call(0).recursive))
  <2>1. /\ fs' = [fs EXCEPT !.directory = Without(@, name),
                            !.freeMap = @ \ ({fs.directory[name]} \union Range(hdr.blocks))]
        /\ flat' = Without(flat, name) /\ ReturnToMain(1, th)
    BY Zenon, <1>2, <1>6 DEF RemoveFile
  <2>2. /\ DOMAIN fs' = DOMAIN fs /\ fs'.directory = Without(fs.directory, name)
        /\ fs'.freeMap = fs.freeMap \ Owned(name) /\ fs'.headers = fs.headers
    BY Zenon, <2>1 DEF CInv, Records, Owned, Header
  <2>3. Moves(th', 0) /\ th'[0].at = "call" /\ MainInv'
    BY Zenon, <1>4, <2>1
  <2>4. Threads' = Threads /\ \A u \in Threads : u # 0 => th'[u] = th[u]
    BY Zenon, <2>3 DEF Moves, Threads
  <2>5. Records'
    BY Zenon, <1>1, <2>2, <2>3, <2>4 DEF CInv, Records, Moves
  <2>6. \A u \in Threads : th[u].at \notin Creating /\ th'[u].at \notin Creating
    <3>1. th[0].pc = 1
      <4>1. Call(0) = line.calls[th[0].pc]
        BY Zenon, <1>1, MainCallIs DEF CInv
      <4>2. th[0].pc \in 1 .. Len(line.calls)
        BY Zenon DEF CInv, MainInv
      <4> QED
        BY Zenon, <1>1, <4>1, <4>2, CallFacts DEF CInv
    <3>2. \A u \in Threads \ {0} : th[u].at = "new"
      BY <3>1 DEF CInv, MainInv
    <3>3. th[0].at = "call" /\ th'[0].at = "call" /\ \A u \in Threads : u # 0 => th'[u].at = "new"
      BY Zenon, <1>1, <2>3, <2>4, <3>2
    <3> QED
      BY Zenon, <3>2, <3>3 DEF Creating
  <2>7. ASSUME "creates" \notin mixed
        PROVE  Sound'
    <3>1. Sound
      BY Zenon, <2>7 DEF CInv, DiskInv
    <3>2. \A n \in Placed : Owned(n) \subseteq fs.freeMap
      BY Zenon, <2>6, <3>1, Marked DEF Creating
    <3>3. /\ DOMAIN fs'.directory = DOMAIN fs.directory \ {name}
          /\ \A n \in DOMAIN fs.directory : n # name => fs'.directory[n] = fs.directory[n]
      BY Zenon, <2>2 DEF Without
    <3>4. Placed' = Placed \ {name}
      BY Zenon, <3>3 DEF Placed
    <3>5. \A n \in Placed \ {name} : Owned(n)' = Owned(n) /\ fs'.directory[n] = fs.directory[n]
      BY Zenon, <2>2, <3>3 DEF Owned, Header, Placed
    <3>6. ASSUME NEW n \in Placed \ {name}
          PROVE  Owned(n) \intersect Owned(name) = {}
      <4>1. CASE name \in Placed
        BY Zenon, <3>1, <3>6, <4>1 DEF Sound
      <4>2. CASE name \notin Placed
        <5>1. Exists(name) /\ fs.directory[name] = -1
          BY Zenon, <1>6, <4>2 DEF Exists, Placed
        <5>2. Owned(name) = {-1}
          <6>1. Header(name).blocks = <<>>
            BY Zenon, <3>1, <5>1 DEF Header, Sound
          <6> QED
            BY <5>1, <6>1 DEF Owned, Range
        <5>3. Owned(n) \subseteq Nat
          BY Zenon, <3>1 DEF Sound
        <5> QED
          BY <5>2, <5>3
      <4> QED
        BY Zenon, <4>1, <4>2
    <3>7. DOMAIN flat' = DOMAIN fs'.directory
      BY Zenon, <2>1, <3>1, <3>3 DEF Sound, Without
    <3>8. /\ DOMAIN fs'.headers = Sectors \union {-1} /\ fs'.headers[-1].blocks = <<>>
          /\ \A n \in DOMAIN fs'.directory : n \in Placed' \/ n \in DOMAIN Images
          /\ \A n \in Placed' : fs'.directory[n] \in Sectors /\ Owned(n)' \subseteq Nat
      BY Zenon, <2>2, <3>1, <3>3, <3>4, <3>5 DEF Sound
    <3>9. \A n, o \in Placed' : n # o => Owned(n)' \intersect Owned(o)' = {}
      BY Zenon, <3>1, <3>4, <3>5 DEF Sound
    <3>10. \A n \in Placed' : Owned(n)' \subseteq fs'.freeMap
      BY Zenon, <2>2, <3>2, <3>4, <3>5, <3>6
    <3> QED
      BY Zenon, <3>7, <3>8, <3>9, <3>10 DEF Sound
  <2> QED
    BY Zenon, <1>1, <2>3, <2>4, <2>5, <2>6, <2>7 DEF CInv, DiskInv, OneCreate
<1> QED
  BY Zenon, <1>5, <1>6

\* The calls of main are as CallsOK says, whatever the command line: shown further down.
LinesOK == \A argv \in CommandLines, chunk \in TransferSizes : CallsOK(MainCalls(argv, chunk), Execs(argv))

\* The threads and the calls main starts with.
LEMMA InitMain ==
  ASSUME LinesOK, Init
  PROVE  /\ CallsOK(line.calls, line.exec) /\ Len(line.exec) \in Nat /\ Threads = 0 .. Len(line.exec)
         /\ \A t \in Threads : /\ DOMAIN th[t] = Fields /\ th[t].pc = 1
                               /\ th[t].at = IF t = 0 THEN "call" ELSE "new"
<1>1. PICK argv \in CommandLines, old \in OldFiles \union {NoFile}, chunk \in TransferSizes :
        Boot(argv, old, chunk)
  BY Zenon DEF Init
<1>2. line = [calls |-> MainCalls(argv, chunk), exec |-> Execs(argv), argv |-> argv]
  BY <1>1, Zenon DEF Boot
<1>3. line.calls = MainCalls(argv, chunk) /\ line.exec = Execs(argv)
  BY Zenon, <1>2
<1>4. CallsOK(line.calls, line.exec)
  BY Zenon, <1>3 DEF LinesOK
<1>5. Execs(argv) \in Seq(STRING)
  BY Zenon, LinesAssumption
<1>6. Len(line.exec) \in Nat
  BY <1>3, <1>5
<1>7. /\ Threads = 0 .. Len(line.exec)
      /\ \A t \in Threads : /\ DOMAIN th[t] = Fields /\ th[t].pc = 1
                            /\ th[t].at = IF t = 0 THEN "call" ELSE "new"
  BY Zenon DEF Init, Threads, Fields
<1> QED
  BY Zenon, <1>4, <1>6, <1>7

\* Main and the threads, before the first step.
LEMMA InitThreads ==
  ASSUME LinesOK, Init
  PROVE  MainInv /\ OneCreate /\ \A t \in Threads : th[t].at \notin Creating
<1>1. CallsOK(line.calls, line.exec) /\ Threads = 0 .. Len(line.exec) /\ Len(line.exec) \in Nat
  BY Zenon, InitMain
<1>2. \A t \in Threads : th[t].pc = 1 /\ th[t].at = IF t = 0 THEN "call" ELSE "new"
  BY Zenon, InitMain
<1>3. 0 \in Threads
  BY <1>1
<1>4. 1 \in 1 .. Len(line.calls)
  BY <1>1 DEF CallsOK
<1>5. \A j \in 1 .. Len(line.calls) :
        line.calls[j].op = "exec" => line.calls[j].thread \in Threads \ {0}
  BY <1>1 DEF CallsOK
<1>6. th[0].pc = 1 /\ th[0].at = "call" /\ \A t \in Threads \ {0} : th[t].at = "new"
  BY Zenon, <1>2, <1>3
<1>7. MainInv
  BY Zenon, <1>1, <1>4, <1>5, <1>6 DEF MainInv
<1>8. \A t \in Threads : th[t].at \notin Creating
  BY Zenon, <1>2 DEF Creating
<1> QED
  BY Zenon, <1>7, <1>8 DEF OneCreate

\* A disk that holds executables and the file old, or not even that.
FileSystemOf(old, left, kept, n) ==
  /\ fs.freeMap = UNION {0 .. Blocks(Len(o.bytes)) : o \in left}
  /\ fs.directory = [m \in kept \union {o.name : o \in left} |-> IF m \in DOMAIN Images THEN -1 ELSE 0]
  /\ fs.headers = [s \in Sectors \union {-1} |->
                     IF s = 0 /\ left # {} THEN [length |-> Len(old.bytes), dir |-> old.dir,
                                               blocks |-> [i \in 1 .. n |-> i]]
                     ELSE [length |-> 0, dir |-> FALSE, blocks |-> <<>>]]

\* Such a disk is sound.
LEMMA DiskSound ==
  ASSUME NEW old, NEW left, left \in {{}, {old}}, left # {} => old \in OldFiles,
         NEW kept, kept \subseteq DOMAIN Images,
         FileSystemOf(old, left, kept, Blocks(Len(old.bytes))), DOMAIN flat = DOMAIN fs.directory
  PROVE  Sound
<1> DEFINE B == Blocks(Len(old.bytes))
<1>1. 0 \in Sectors /\ -1 \notin Sectors
  BY SizesAssumption DEF Sectors
<1> HIDE DEF B
<1>2. DOMAIN fs.headers = Sectors \union {-1} /\ fs.headers[-1].blocks = <<>>
  BY <1>1 DEF FileSystemOf
<1>3. \A n \in DOMAIN fs.directory : n \in Placed \/ n \in DOMAIN Images
  BY DEF Placed, FileSystemOf
<1>4. CASE left = {}
  <2>1. Placed = {}
    BY Zenon, <1>4 DEF Placed, FileSystemOf
  <2> QED
    BY Zenon, <1>2, <1>3, <2>1 DEF Sound
<1>5. CASE left = {old} /\ old \in OldFiles
  <2>1. B \in Nat
    <3>1. Len(old.bytes) \in Nat /\ SectorSize \in Nat \ {0}
      BY <1>5, BytesAssumption, SizesAssumption
    <3>2. ASSUME NEW n \in Nat
          PROVE  Blocks(n) \in Nat
      BY <3>1 DEF Blocks
    <3> QED
      BY Zenon, <3>1, <3>2 DEF B
  <2>2. fs.freeMap = 0 .. B
    BY <1>5 DEF B, FileSystemOf
  <2>3. Placed \subseteq {old.name} /\ \A n \in Placed : fs.directory[n] = 0
    BY <1>5 DEF Placed, FileSystemOf
  <2>4. fs.headers[0] = [length |-> Len(old.bytes), dir |-> old.dir, blocks |-> [i \in 1 .. B |-> i]]
    BY <1>1, <1>5, Zenon DEF FileSystemOf, B
  <2>5. Range(fs.headers[0].blocks) = 1 .. B
    BY <2>4 DEF Range
  <2>6. \A n \in Placed : Owned(n) = {0} \union 1 .. B
    BY Zenon, <2>3, <2>5 DEF Owned, Header
  <2>7. {0} \union 1 .. B = 0 .. B
    BY <2>1
  <2> QED
    BY <1>1, <1>2, <1>3, <2>1, <2>2, <2>3, <2>6, <2>7 DEF Sound
<1> QED
  BY Zenon, <1>4, <1>5

\* A disk as Kernel::Initialize finds or formats it.
LEMMA InitDisk ==
  ASSUME Init
  PROVE  Sound /\ DOMAIN fs = {"freeMap", "directory", "headers", "data"}
<1>1. PICK argv \in CommandLines, old \in OldFiles \union {NoFile}, chunk \in TransferSizes :
        Boot(argv, old, chunk)
  BY Zenon DEF Init
<1> DEFINE formatFlag == Given(Scan(argv, "kernel"), {"-f"})
           kept == IF formatFlag THEN {} ELSE DOMAIN Images
           left == IF formatFlag \/ old = NoFile THEN {} ELSE {old}
<1>2. /\ DOMAIN fs = {"freeMap", "directory", "headers", "data"} /\ DOMAIN flat = DOMAIN fs.directory
      /\ FileSystemOf(old, left, kept, Blocks(Len(old.bytes)))
  BY Zenon, <1>1 DEF Boot, FileSystemOf
<1>3. left \in {{}, {old}} /\ (left # {} => old \in OldFiles) /\ kept \subseteq DOMAIN Images
  OBVIOUS
<1> HIDE DEF formatFlag, kept, left
<1> QED
  BY Zenon, <1>2, <1>3, DiskSound

\* The first state.
LEMMA InitApart ==
  ASSUME LinesOK, Init
  PROVE  CInv
<1>1. Records
  BY Zenon, InitMain, InitDisk DEF Records
<1> QED
  BY Zenon, <1>1, InitThreads, InitDisk DEF CInv, DiskInv

\* The sectors Allocate finds are clear ones: shown at the end of the module, since it
\* needs facts about finite sets.
FoundClear ==
  \A n, dir : HasRoom(n, dir) => {Nth(Clear, 1)} \union Range(NewBlocks(n)) \subseteq Clear

\* A Create that has found the sector s and the blocks b.
LEMMA FoundApart ==
  ASSUME CInv, NEW t \in Threads, th[t].at = "map", UNCHANGED <<line, flat, mixed>>,
         NEW m, NEW s, NEW b, m = fs.freeMap \union ({s} \union Range(b)), {s} \union Range(b) \subseteq Clear,
         th' = [th EXCEPT ![t].at = "header", ![t].map = m, ![t].sector = s, ![t].blocks = b],
         \E d : fs' = [fs EXCEPT !.data = d]
  PROVE  CInv'
<1>1. /\ Moves(th', t) /\ th'[t].at = "header" /\ th'[t].call = th[t].call /\ th'[t].pc = th[t].pc
      /\ th'[t].map = m /\ th'[t].sector = s /\ th'[t].blocks = b /\ th'[t].dir = th[t].dir
  BY DEF CInv, Records, Moves, Threads, Fields
<1>2. /\ DOMAIN fs' = DOMAIN fs /\ fs'.directory = fs.directory /\ fs'.freeMap = fs.freeMap
      /\ fs'.headers = fs.headers
  BY Zenon DEF CInv, Records
<1>3. Records' /\ MainInv'
  <2>1. InCreate(t)
    BY Zenon, <1>1, <1>2 DEF InCreate, Creating
  <2> QED
    BY Zenon, <2>1, InCreateKeeps DEF CInv
<1>4. ASSUME "creates" \notin mixed
      PROVE  OneCreate' /\ Sound' /\ \A u \in Threads' : th'[u].at \in Creating => CreateInv(u)'
  <2>1. Sound /\ CreateInv(t) /\ \A u \in Threads : u # t => th[u].at \notin Creating
    BY Zenon, <1>4, OnlyOne DEF CInv, Creating
  <2>2. Threads' = Threads /\ \A u \in Threads : u # t => th'[u] = th[u]
    BY Zenon, <1>1 DEF Moves, Threads
  <2>3. OneCreate'
    BY <2>1, <2>2 DEF OneCreate
  <2>4. Sound'
    <3>1. Placed' = Placed /\ \A n : Owned(n)' = Owned(n)
      BY Zenon, <1>2 DEF Placed, Owned, Header
    <3>2. \A u \in Threads : th[u].at # "bits"
      BY Zenon, <2>1 DEF Creating
    <3>3. \A n \in Placed : Owned(n) \subseteq fs.freeMap
      BY Zenon, <2>1, <3>2, Marked
    <3> QED
      BY Zenon, <1>2, <2>1, <3>1, <3>3 DEF Sound
  <2>5. CreateInv(t)'
    <3>1. New(t)' = {s} \union Range(b)
      BY Zenon, <1>1 DEF New
    <3>2. th[t].dir = fs.directory /\ th[t].call.name \notin DOMAIN fs.directory
      BY Zenon, <2>1 DEF CreateInv
    <3>3. {s} \union Range(b) \subseteq Sectors /\ ({s} \union Range(b)) \intersect fs.freeMap = {}
      BY Zenon DEF Clear
    <3>4. th'[t].map = fs'.freeMap \union New(t)'
      BY Zenon, <1>1, <1>2, <3>1
    <3> QED
      BY Zenon, <1>1, <1>2, <3>1, <3>2, <3>3, <3>4 DEF CreateInv
  <2> QED
    BY Zenon, <2>1, <2>2, <2>3, <2>4, <2>5
<1> QED
  BY Zenon, <1>3, <1>4 DEF CInv, DiskInv

\* FindAndSet and FileHeader::Allocate: no room, or sectors nobody has.
LEMMA AllocateApart ==
  ASSUME FoundClear, CInv, NEW t \in Threads, Allocate(t)
  PROVE  CInv'
<1>1. th[t].at = "map" /\ UNCHANGED <<line, flat, mixed>>
  BY ZenonT(30) DEF Allocate, Runs
<1>2. CASE ~HasRoom(Call(t).n, th[t].dir)
  <2>1. Return(t, 0, th) /\ fs' = fs
    BY <1>2, Zenon DEF Allocate
  <2>2. Moves(th, t)
    BY Zenon, MovesSame DEF CInv
  <2>3. ASSUME t = 0
        PROVE  Call(0).op \in GivesUp /\ Call(0).op # "exit"
    BY Zenon, <1>1, <2>3, MainInside DEF CInv, Creating
  <2>4. Moves(th', t) /\ th'[t].at = "call" /\ MainInv'
    BY Zenon, <1>1, <2>1, <2>2, <2>3, ReturnMoves DEF CInv
  <2> QED
    BY Zenon, <1>1, <2>1, <2>4, OutsideCreate DEF Creating, SameDisk
<1>3. CASE HasRoom(Call(t).n, th[t].dir)
  <2>1. PICK s, b : s = Nth(Clear, 1) /\ b = NewBlocks(Call(t).n)
    OBVIOUS
  <2>2. PICK m : m = fs.freeMap \union {s} \union Range(b)
    BY Zenon
  <2>3. /\ th' = [th EXCEPT ![t].at = "header", ![t].map = m, ![t].sector = s, ![t].blocks = b]
        /\ \E d : fs' = [fs EXCEPT !.data = d]
    BY <1>3, <2>1, <2>2, Zenon DEF Allocate
  <2>4. {s} \union Range(b) \subseteq Clear
    BY Zenon, <1>3, <2>1 DEF FoundClear
  <2>5. m = fs.freeMap \union ({s} \union Range(b))
    BY Zenon, <2>2
  <2> QED
    BY Zenon, <1>1, <2>3, <2>4, <2>5, FoundApart
<1> QED
  BY Zenon, <1>2, <1>3

\* Every step of main, the programs and the scheduler keeps the files apart.
LEMMA NextApart ==
  ASSUME FoundClear, CInv, [Next]_vars
  PROVE  CInv'
<1>1. CASE UNCHANGED vars
  BY Zenon, <1>1, NothingMoves DEF vars
<1>2. CASE RemoveFile \/ Show \/ Exec
  BY Zenon, <1>2, RemoveFileApart, ShowApart, ExecApart
<1>3. ASSUME NEW t \in Threads,
             Create(t) \/ Allocate(t) \/ WriteHeader(t) \/ WriteTable(t) \/ WriteBits(t)
      PROVE  CInv'
  BY Zenon, <1>3, CreateApart, AllocateApart, WriteHeaderApart, WriteTableApart, WriteBitsApart
<1>4. ASSUME NEW t \in Threads,
             Open(t) \/ StartTransfer(t) \/ Access(t) \/ EndTransfer(t) \/ Close(t)
      PROVE  CInv'
  BY Zenon, <1>4, OpenApart, StartTransferApart, AccessApart, EndTransferApart, CloseApart
<1>5. ASSUME NEW t \in Threads, Exit(t) \/ Load(t) \/ Segments(t)
      PROVE  CInv'
  BY Zenon, <1>5, ExitApart, LoadApart, SegmentsApart
<1>6. ASSUME NEW t \in Threads, Halt(t) \/ LoseCode(t) \/ Switch(t)
      PROVE  CInv'
  BY Zenon, <1>6, NothingMoves DEF Halt, LoseCode, Switch, Stop
<1> QED
  BY Zenon, <1>1, <1>2, <1>3, <1>4, <1>5, <1>6 DEF Next

\* What the invariant says of a disk that no call is changing.
LEMMA SoundApart ==
  ASSUME CInv
  PROVE  CreatesApart
<1> SUFFICES ASSUME "creates" \notin mixed, Quiet
             PROVE  /\ \A name \in Files : Owned(name) \subseteq fs.freeMap
                    /\ \A name, other \in Files : name # other => Owned(name) \intersect Owned(other) = {}
                    /\ DOMAIN flat = DOMAIN fs.directory
  BY Zenon DEF CreatesApart
<1>1. Sound
  BY Zenon DEF CInv, DiskInv
<1>2. Files \subseteq Placed
  BY Zenon, <1>1 DEF Files, Sound
<1>3. \A n \in Placed : Owned(n) \subseteq fs.freeMap
  BY Zenon, <1>1, Marked DEF Quiet
<1> QED
  BY Zenon, <1>1, <1>2, <1>3 DEF Sound

-----------------------------------------------------------------------------
(***************************************************************************)
(* Programs keep their context.                                            *)
(***************************************************************************)
\* No user program of the thread is under way.
Outside == {"new", "load", "segments", "done"}
InUser(t) == t # 0 /\ th[t].at \notin Outside

Shape ==
  /\ \A t \in Threads : "at" \in DOMAIN th[t]
  /\ DOMAIN own = Threads /\ DOMAIN saved = Threads
  /\ {"code", "regs", "pageTable"} \subseteq DOMAIN mach
  /\ cur # 0 => cur \in Threads /\ th[cur].at # "new"

\* The registers of the program that runs are in the machine, those of every other
\* where Scheduler::Run will take them from.
ContextInv ==
  \A t \in Threads : InUser(t) =>
    IF t = cur THEN mach.regs = own[t] /\ mach.pageTable = t ELSE saved[t] = own[t]

\* Unless programs overlapped, the code in memory is that of every program under way.
CodeInv == "programs" \in mixed \/ \A t \in Threads : InUser(t) => mach.code = line.exec[t]

StopInv == stopped = "clobbered" => "programs" \in mixed

IInv == Shape /\ ContextInv /\ CodeInv /\ StopInv

-----------------------------------------------------------------------------
\* f is the kernel state of the threads, with only t, if any, at another point.
Keeps(f, t) ==
  /\ DOMAIN f = Threads
  /\ \A u \in Threads : "at" \in DOMAIN f[u] /\ (u # t => f[u].at = th[u].at)

\* What overlapped is not forgotten, and the scheduler does nothing.
Same == mixed \subseteq mixed' /\ UNCHANGED <<saved, cur, stopped, line>>

\* Thread t goes on inside the kernel, at the point a.
KernelStep(t, a) ==
  /\ Same /\ UNCHANGED <<mach, own>>
  /\ Keeps(th', t) /\ (t \in Threads => th'[t].at = a)

\* The system call of t, at a point inside it or at the trap, returns.
Returns(t) ==
  /\ Same /\ cur = t /\ t \in Threads \ {0} /\ Keeps(th', t) /\ th'[t].at = "call"
  /\ \E result : /\ mach' = [mach EXCEPT !.regs = Advanced(@, result)]
                 /\ own' = [own EXCEPT ![t] = Advanced(@, result)]

\* A thread that goes on inside the kernel leaves every user context alone.
LEMMA KernelStepKeeps ==
  ASSUME IInv, NEW t, NEW a, KernelStep(t, a), cur = t, a # "new",
         a \in Outside \/ t = 0 \/ th[t].at \notin Outside
  PROVE  IInv'
<1>1. /\ Threads' = Threads /\ UNCHANGED <<saved, cur, stopped, line, mach, own>>
      /\ mixed \subseteq mixed'
      /\ \A u \in Threads : "at" \in DOMAIN th'[u] /\ (u # t => th'[u].at = th[u].at)
      /\ t \in Threads => th'[t].at = a
  BY Zenon DEF KernelStep, Same, Keeps, Threads
<1>2. Shape'
  BY Zenon, <1>1 DEF IInv, Shape
<1>3. \A u \in Threads : InUser(u)' => InUser(u)
  BY Zenon, <1>1 DEF InUser
<1>4. ContextInv'
  BY Zenon, <1>1, <1>3 DEF IInv, ContextInv
<1>5. CodeInv'
  BY Zenon, <1>1, <1>3 DEF IInv, CodeInv
<1>6. StopInv'
  BY Zenon, <1>1 DEF IInv, StopInv
<1> QED
  BY Zenon, <1>2, <1>4, <1>5, <1>6 DEF IInv

\* A system call's result and program counter go to the program that made it.
LEMMA ReturnsKeeps ==
  ASSUME IInv, NEW t, Returns(t), th[t].at \notin Outside
  PROVE  IInv'
<1>1. /\ Threads' = Threads /\ UNCHANGED <<saved, cur, stopped, line>> /\ mixed \subseteq mixed'
      /\ \A u \in Threads : "at" \in DOMAIN th'[u] /\ (u # t => th'[u].at = th[u].at)
      /\ th'[t].at = "call" /\ cur = t /\ t \in Threads /\ t # 0
  BY Zenon DEF Returns, Same, Keeps, Threads
<1>2. PICK result : /\ mach' = [mach EXCEPT !.regs = Advanced(@, result)]
                    /\ own' = [own EXCEPT ![t] = Advanced(@, result)]
  BY ZenonT(30) DEF Returns
<1>3. /\ DOMAIN own' = Threads /\ DOMAIN mach' = DOMAIN mach
      /\ mach'.pageTable = mach.pageTable /\ mach'.code = mach.code
      /\ mach'.regs = Advanced(mach.regs, result) /\ own'[t] = Advanced(own[t], result)
      /\ \A u \in Threads : u # t => own'[u] = own[u]
  BY Zenon, <1>1, <1>2 DEF IInv, Shape
<1>4. Shape'
  BY Zenon, <1>1, <1>3 DEF IInv, Shape
<1>5. \A u \in Threads : InUser(u)' => InUser(u)
  BY Zenon, <1>1 DEF InUser
<1>6. mach.regs = own[t] /\ mach.pageTable = t
  BY Zenon, <1>1 DEF IInv, ContextInv, InUser
<1>7. ContextInv'
  BY <1>1, <1>3, <1>5, <1>6 DEF IInv, ContextInv
<1>8. CodeInv'
  BY Zenon, <1>1, <1>3, <1>5 DEF IInv, CodeInv
<1>9. StopInv'
  BY Zenon, <1>1 DEF IInv, StopInv
<1> QED
  BY Zenon, <1>4, <1>7, <1>8, <1>9 DEF IInv

\* The model ends because of something else than lost code.
LEMMA StopKeeps ==
  ASSUME IInv, NEW why, why # "clobbered", Stop(why)
  PROVE  IInv'
<1>1. stopped' = why /\ UNCHANGED <<mach, saved, cur, th, line, own, mixed>>
  BY Zenon DEF Stop
<1> QED
  BY Zenon, <1>1 DEF IInv, Shape, ContextInv, CodeInv, StopInv, InUser, Threads

\* Return in main goes on with Copy or Print, in a program it ends a system call.
LEMMA ReturnToMainIs ==
  ASSUME IInv, NEW result, NEW after, Keeps(after, 0), ReturnToMain(result, after), Same
  PROVE  KernelStep(0, "call")
<1>1. UNCHANGED <<mach, own>>
  BY Zenon DEF ReturnToMain
<1>2. Keeps(th', 0) /\ (0 \in Threads => th'[0].at = "call")
  BY Zenon DEF ReturnToMain, Keeps
<1> QED
  BY Zenon, <1>1, <1>2 DEF KernelStep

\* The end of a system call, of a program or of the commands in main.
LEMMA ReturnKeeps ==
  ASSUME IInv, NEW t \in Threads, NEW result, NEW after, Keeps(after, t),
         Return(t, result, after), Same, cur = t, th[t].at \notin Outside
  PROVE  IInv'
<1>1. CASE t = 0
  BY Zenon, <1>1, ReturnToMainIs, KernelStepKeeps DEF Return
<1>2. CASE t # 0
  <2>1. ReturnToUser(t, result, after)
    BY Zenon, <1>2 DEF Return
  <2>2. Keeps(th', t) /\ th'[t].at = "call"
    BY Zenon, <2>1 DEF ReturnToUser, Keeps
  <2>3. mach' = [mach EXCEPT !.regs = Advanced(@, result)]
    BY Zenon, <2>1 DEF ReturnToUser
  <2>31. own' = [own EXCEPT ![t] = Advanced(@, result)]
    BY ZenonT(30), <2>1 DEF IInv, Shape, ReturnToUser, Advanced
  <2>4. Returns(t)
    BY ZenonT(30), <1>2, <2>2, <2>3, <2>31 DEF Returns
  <2> QED
    BY Zenon, <2>4, ReturnsKeeps
<1> QED
  BY Zenon, <1>1, <1>2

-----------------------------------------------------------------------------
(***************************************************************************)
(* The actions.                                                            *)
(***************************************************************************)
\* State of the threads that is at the points th has.
LEMMA KeepsSame ==
  ASSUME Shape, NEW t \in Threads
  PROVE  /\ Keeps(th, t)
         /\ \A x : Keeps([th EXCEPT ![t].file = x], t) /\ Keeps([th EXCEPT ![t].got = x], t)
BY Zenon DEF Shape, Keeps, Threads

\* FileSystem::Create: the name exists, or the free map is read.
LEMMA CreateKeeps ==
  ASSUME IInv, NEW t \in Threads, Create(t)
  PROVE  IInv'
<1>1. cur = t /\ th[t].at = "call" /\ Same
  BY Zenon DEF Create, Runs, Same, Mixing
<1>2. CASE Exists(Call(t).name)
  BY Zenon, <1>1, <1>2, KeepsSame, ReturnKeeps DEF IInv, Create, Outside
<1>3. CASE ~Exists(Call(t).name)
  <2>1. /\ th' = [th EXCEPT ![t].at = "map", ![t].call = Call(t), ![t].dir = fs.directory]
        /\ UNCHANGED <<mach, own>>
    BY Zenon, <1>3 DEF Create
  <2>2. KernelStep(t, "map")
    BY Zenon, <1>1, <2>1 DEF IInv, Shape, KernelStep, Keeps, Threads
  <2> QED
    BY Zenon, <1>1, <2>2, KernelStepKeeps DEF Outside
<1> QED
  BY Zenon, <1>2, <1>3

\* FindAndSet and FileHeader::Allocate: no room, or sectors for the file.
LEMMA AllocateKeeps ==
  ASSUME IInv, NEW t \in Threads, Allocate(t)
  PROVE  IInv'
<1>1. cur = t /\ th[t].at = "map" /\ Same
  BY ZenonT(30) DEF Allocate, Runs, Same
<1> DEFINE b == NewBlocks(Call(t).n)
           s == Nth(Clear, 1)
           m == fs.freeMap \union {s} \union Range(b)
<1>2. CASE ~HasRoom(Call(t).n, th[t].dir)
  <2>1. Return(t, 0, th)
    BY <1>2, Zenon DEF Allocate
  <2> QED
    BY Zenon, <1>1, <2>1, KeepsSame, ReturnKeeps DEF IInv, Outside
<1>3. CASE HasRoom(Call(t).n, th[t].dir)
  <2>1. /\ th' = [th EXCEPT ![t].at = "header", ![t].map = m, ![t].sector = s, ![t].blocks = b]
        /\ UNCHANGED <<mach, own>>
    BY <1>3, Zenon DEF Allocate
  <2> HIDE DEF m, s, b
  <2>2. KernelStep(t, "header")
    BY Zenon, <1>1, <2>1 DEF IInv, Shape, KernelStep, Keeps, Threads
  <2> QED
    BY Zenon, <1>1, <2>2, KernelStepKeeps DEF Outside
<1> QED
  BY Zenon, <1>2, <1>3

\* FileHeader::WriteBack.
LEMMA WriteHeaderKeeps ==
  ASSUME IInv, NEW t \in Threads, WriteHeader(t)
  PROVE  IInv'
<1>1. cur = t /\ th[t].at = "header" /\ Same
  BY Zenon DEF WriteHeader, Runs, Same
<1>2. KernelStep(t, "table")
  BY Zenon, <1>1 DEF IInv, Shape, WriteHeader, KernelStep, Keeps, Threads
<1> QED
  BY Zenon, <1>1, <1>2, KernelStepKeeps DEF Outside

\* Directory::WriteBack.
LEMMA WriteTableKeeps ==
  ASSUME IInv, NEW t \in Threads, WriteTable(t)
  PROVE  IInv'
<1>1. cur = t /\ th[t].at = "table" /\ Same
  BY Zenon DEF WriteTable, Runs, Same
<1>2. KernelStep(t, "bits")
  BY Zenon, <1>1 DEF IInv, Shape, WriteTable, KernelStep, Keeps, Threads
<1> QED
  BY Zenon, <1>1, <1>2, KernelStepKeeps DEF Outside

\* PersistentBitmap::WriteBack, the end of Create.
LEMMA WriteBitsKeeps ==
  ASSUME IInv, NEW t \in Threads, WriteBits(t)
  PROVE  IInv'
<1>1. cur = t /\ th[t].at = "bits" /\ Same /\ Return(t, 1, th)
  BY Zenon DEF WriteBits, Runs, Same
<1> QED
  BY Zenon, <1>1, KeepsSame, ReturnKeeps DEF IInv, Outside

\* main removes files and lists directories.
LEMMA MainKeeps ==
  ASSUME IInv, RemoveFile \/ Show
  PROVE  IInv'
<1>1. cur = 0 /\ Same
  BY Zenon DEF RemoveFile, Show, Runs, Same
<1>2. ReturnToMain(0, th) \/ ReturnToMain(1, th)
  BY Zenon DEF RemoveFile, Show
<1>3. Keeps(th, 0)
  BY Zenon DEF IInv, Shape, Keeps, Threads
<1>4. KernelStep(0, "call")
  BY Zenon, <1>1, <1>2, <1>3, ReturnToMainIs
<1> QED
  BY Zenon, <1>1, <1>4, KernelStepKeeps

\* FileSystem::Open.
LEMMA OpenKeeps ==
  ASSUME IInv, NEW t \in Threads, Open(t)
  PROVE  IInv'
<1>1. cur = t /\ th[t].at = "call" /\ Same
  BY Zenon DEF Open, Runs, Same, Mixing
<1>2. \E x : Return(t, x, [th EXCEPT ![t].file = x])
  BY ZenonT(30) DEF Open
<1> QED
  BY ZenonT(30), <1>1, <1>2, KeepsSame, ReturnKeeps DEF IInv, Outside

\* OpenFile::ReadAt and WriteAt up to the first sector.
LEMMA StartTransferKeeps ==
  ASSUME IInv, NEW t \in Threads, StartTransfer(t)
  PROVE  IInv'
<1>1. cur = t /\ th[t].at = "call"
  BY Zenon DEF StartTransfer, Runs
<1>2. CASE Stop("null") \/ Stop("dangling")
  BY Zenon, <1>2, StopKeeps
<1>3. CASE ~(Stop("null") \/ Stop("dangling"))
  <2>1. Same /\ KernelStep(t, "disk")
    BY <1>3 DEF IInv, Shape, StartTransfer, Same, Mixing, KernelStep, Keeps, Threads
  <2> QED
    BY Zenon, <1>1, <2>1, KernelStepKeeps DEF Outside
<1> QED
  BY Zenon, <1>2, <1>3

\* One sector of a transfer.
LEMMA AccessKeeps ==
  ASSUME IInv, NEW t \in Threads, Access(t)
  PROVE  IInv'
<1>1. cur = t /\ th[t].at = "disk" /\ Same /\ UNCHANGED <<mach, own>>
  BY ZenonT(30) DEF Access, Runs, Same
<1>2. \E p, i, b : \/ th' = [th EXCEPT ![t].io.plan = p]
                  \/ th' = [[th EXCEPT ![t].io.plan = p] EXCEPT ![t].io.buf[i] = b]
  BY ZenonT(30) DEF Access
<1>3. KernelStep(t, "disk")
  BY <1>1, <1>2 DEF IInv, Shape, KernelStep, Keeps, Threads
<1> QED
  BY Zenon, <1>1, <1>3, KernelStepKeeps DEF Outside

\* The end of a transfer.
LEMMA EndTransferKeeps ==
  ASSUME IInv, NEW t \in Threads, EndTransfer(t)
  PROVE  IInv'
<1>1. cur = t /\ th[t].at = "disk"
  BY Zenon DEF EndTransfer, Runs
<1>2. \/ Stop("dangling")
      \/ Same /\ \E n, x : Return(t, n, [th EXCEPT ![t].got = x])
  BY ZenonT(30) DEF EndTransfer, Same
<1>3. CASE Stop("dangling")
  BY Zenon, <1>3, StopKeeps
<1>4. ASSUME Same, NEW n, NEW x, Return(t, n, [th EXCEPT ![t].got = x])
      PROVE  IInv'
  BY ZenonT(30), <1>1, <1>4, KeepsSame, ReturnKeeps DEF IInv, Outside
<1> QED
  BY ZenonT(30), <1>2, <1>3, <1>4

\* The end of an OpenFile.
LEMMA CloseKeeps ==
  ASSUME IInv, NEW t \in Threads, Close(t)
  PROVE  IInv'
<1>1. cur = t /\ th[t].at = "call"
  BY Zenon DEF Close, Runs
<1>2. CASE Stop("dangling")
  BY Zenon, <1>2, StopKeeps
<1>3. CASE ~Stop("dangling")
  <2>1. Same /\ Return(t, 1, th)
    BY Zenon, <1>3 DEF Close, Same, Mixing
  <2> QED
    BY Zenon, <1>1, <2>1, KeepsSame, ReturnKeeps DEF IInv, Outside
<1> QED
  BY Zenon, <1>2, <1>3

\* SC_Halt.
LEMMA HaltKeeps ==
  ASSUME IInv, NEW t \in Threads, Halt(t)
  PROVE  IInv'
BY Zenon, StopKeeps DEF Halt

\* SC_Exit: the thread's program is over.
LEMMA ExitKeeps ==
  ASSUME IInv, NEW t \in Threads, Exit(t)
  PROVE  IInv'
<1>1. cur = t /\ Same
  BY Zenon DEF Exit, Runs, Same
<1>2. KernelStep(t, "done")
  BY Zenon, <1>1 DEF IInv, Shape, Exit, KernelStep, Keeps, Threads
<1> QED
  BY Zenon, <1>1, <1>2, KernelStepKeeps DEF Outside

\* Kernel::Exec clears the memory: no program may be under way that needs its code.
LEMMA ExecKeeps ==
  ASSUME IInv, Exec
  PROVE  IInv'
<1>1. /\ cur = 0 /\ th[0].at = "call" /\ mach' = [mach EXCEPT !.code = "zero"]
      /\ mixed' = IF Working # {} THEN mixed \union {"programs"} ELSE mixed
      /\ UNCHANGED <<saved, cur, stopped, line, own>>
  BY Zenon DEF Exec, Runs, Mixing
<1>2. PICK n : th' = [th EXCEPT ![n].at = "load", ![0].pc = @ + 1]
  BY ZenonT(30) DEF Exec
<1>3. /\ Threads' = Threads
      /\ \A u \in Threads : /\ "at" \in DOMAIN th'[u]
                            /\ th'[u].at = IF u = n THEN "load" ELSE th[u].at
  BY Zenon, <1>2 DEF IInv, Shape, Threads
<1>4. DOMAIN mach' = DOMAIN mach /\ mach'.regs = mach.regs /\ mach'.pageTable = mach.pageTable
  BY Zenon, <1>1 DEF IInv, Shape
<1>5. Shape'
  BY Zenon, <1>1, <1>3, <1>4 DEF IInv, Shape
<1>6. \A u \in Threads : InUser(u)' => InUser(u)
  BY Zenon, <1>3 DEF InUser, Outside
<1>7. ContextInv'
  BY Zenon, <1>1, <1>3, <1>4, <1>6 DEF IInv, ContextInv
<1>8. CodeInv'
  <2>1. CASE Working # {}
    BY Zenon, <1>1, <2>1 DEF CodeInv
  <2>2. CASE Working = {}
    <3>1. \A u \in Threads : ~InUser(u)
      BY Zenon, <2>2 DEF Working, InUser, Outside
    <3> QED
      BY Zenon, <1>3, <1>6, <3>1 DEF CodeInv
  <2> QED
    BY Zenon, <2>1, <2>2
<1>9. StopInv'
  BY Zenon, <1>1 DEF IInv, StopInv
<1> QED
  BY Zenon, <1>5, <1>7, <1>8, <1>9 DEF IInv

\* AddrSpace::Load opens the executable, or finds none.
LEMMA LoadKeeps ==
  ASSUME IInv, NEW t \in Threads, Load(t)
  PROVE  IInv'
<1>1. cur = t /\ Same /\ UNCHANGED <<mach, own>>
  BY Zenon DEF Load, Runs, Same, Mixing
<1>2. \/ \E x : th' = [th EXCEPT ![t].at = "segments", ![t].obj = x]
      \/ th' = [th EXCEPT ![t].at = "done"]
  BY Zenon DEF Load
<1>3. KernelStep(t, "segments") \/ KernelStep(t, "done")
  BY ZenonT(30), <1>1, <1>2 DEF IInv, Shape, KernelStep, Keeps, Threads
<1> QED
  BY Zenon, <1>1, <1>3, KernelStepKeeps DEF Outside

\* AddrSpace::Load and Execute: memory, registers and page table are now those of the
\* new program, which is the one that runs.
LEMMA SegmentsKeeps ==
  ASSUME IInv, NEW t \in Threads, Segments(t)
  PROVE  IInv'
<1>1. /\ cur = t /\ th[t].at = "segments"
      /\ mach' = [code |-> line.exec[t], regs |-> [pc |-> 1, r2 |-> 0], pageTable |-> t]
      /\ own' = [own EXCEPT ![t] = [pc |-> 1, r2 |-> 0]]
      /\ th' = [th EXCEPT ![t].at = "call"]
      /\ mixed' = IF Working \ {t} # {} THEN mixed \union {"programs"} ELSE mixed
      /\ UNCHANGED <<saved, cur, stopped, line>>
  BY Zenon DEF Segments, Runs, Mixing, Loaded
<1>2. /\ Threads' = Threads
      /\ \A u \in Threads : /\ "at" \in DOMAIN th'[u]
                            /\ th'[u].at = IF u = t THEN "call" ELSE th[u].at
  BY Zenon, <1>1 DEF IInv, Shape, Threads
<1>3. /\ DOMAIN own' = Threads /\ own'[t] = [pc |-> 1, r2 |-> 0]
      /\ \A u \in Threads : u # t => own'[u] = own[u]
  BY Zenon, <1>1 DEF IInv, Shape
<1>4. /\ {"code", "regs", "pageTable"} \subseteq DOMAIN mach' /\ mach'.code = line.exec[t]
      /\ mach'.regs = [pc |-> 1, r2 |-> 0] /\ mach'.pageTable = t
  BY Zenon, <1>1
<1>5. Shape'
  BY <1>1, <1>2, <1>3, <1>4 DEF IInv, Shape
<1>6. \A u \in Threads : u # t /\ InUser(u)' => InUser(u)
  BY Zenon, <1>2 DEF InUser
<1>7. ContextInv'
  BY Zenon, <1>1, <1>2, <1>3, <1>4, <1>6 DEF IInv, ContextInv
<1>8. CodeInv'
  <2>1. CASE Working \ {t} # {}
    BY Zenon, <1>1, <2>1 DEF CodeInv
  <2>2. CASE Working \ {t} = {}
    <3>1. \A u \in Threads : u # t => ~InUser(u)
      BY Zenon, <2>2 DEF Working, InUser, Outside
    <3> QED
      BY Zenon, <1>1, <1>2, <1>4, <1>6, <3>1 DEF CodeInv
  <2> QED
    BY Zenon, <2>1, <2>2
<1>9. StopInv'
  BY Zenon, <1>1 DEF IInv, StopInv
<1> QED
  BY Zenon, <1>5, <1>7, <1>8, <1>9 DEF IInv

\* Scheduler::Run: what the old thread leaves in the machine is saved for it, and a
\* thread that has run before gets its own back.
LEMMA SwitchKeeps ==
  ASSUME IInv, NEW u \in Threads, Switch(u)
  PROVE  IInv'
<1>1. /\ u # cur /\ th[u].at \notin {"new", "done"} /\ cur' = u
      /\ saved' = IF cur = 0 THEN saved ELSE [saved EXCEPT ![cur] = mach.regs]
      /\ mach' = IF u = 0 \/ th[u].at = "load" THEN mach
                 ELSE [mach EXCEPT !.regs = saved[u], !.pageTable = u]
      /\ UNCHANGED <<th, stopped, line, own, mixed>>
  BY Zenon DEF Switch, Saved, Restored
<1>2. /\ DOMAIN saved' = Threads /\ (cur # 0 => saved'[cur] = mach.regs)
      /\ \A t \in Threads : t # cur \/ cur = 0 => saved'[t] = saved[t]
  BY Zenon, <1>1 DEF IInv, Shape
<1>3. DOMAIN mach' = DOMAIN mach /\ mach'.code = mach.code
  BY Zenon, <1>1 DEF IInv, Shape
<1>4. InUser(u) => mach'.regs = saved[u] /\ mach'.pageTable = u
  BY Zenon, <1>1 DEF IInv, Shape, InUser, Outside
<1>5. Shape'
  BY Zenon, <1>1, <1>2, <1>3 DEF IInv, Shape, Threads
<1>6. \A t : InUser(t)' = InUser(t)
  BY Zenon, <1>1 DEF InUser
<1>7. ContextInv'
  <2> SUFFICES ASSUME NEW t \in Threads, InUser(t)
               PROVE  IF t = u THEN mach'.regs = own[t] /\ mach'.pageTable = t
                      ELSE saved'[t] = own[t]
    BY Zenon, <1>1, <1>6 DEF ContextInv, Threads
  <2>1. CASE t = u
    BY Zenon, <1>1, <1>4, <2>1 DEF IInv, ContextInv
  <2>2. CASE t # u /\ t = cur
    BY Zenon, <1>2, <2>2 DEF IInv, ContextInv, InUser
  <2>3. CASE t # u /\ t # cur
    BY Zenon, <1>2, <2>3 DEF IInv, ContextInv
  <2> QED
    BY Zenon, <2>1, <2>2, <2>3
<1>8. CodeInv'
  BY Zenon, <1>1, <1>3, <1>6 DEF IInv, CodeInv, Threads
<1>9. StopInv'
  BY Zenon, <1>1 DEF IInv, StopInv
<1> QED
  BY Zenon, <1>5, <1>7, <1>8, <1>9 DEF IInv

\* A program loses its code only to another one.
LEMMA LoseCodeKeeps ==
  ASSUME IInv, NEW t \in Threads, LoseCode(t)
  PROVE  IInv'
<1>1. /\ stopped' = "clobbered" /\ UNCHANGED <<mach, saved, cur, th, line, own, mixed>>
      /\ t # 0 /\ th[t].at \in {"call", "map", "disk"} /\ mach.code # line.exec[t]
  BY Zenon DEF LoseCode, Clobbered, Stop
<1>2. "programs" \in mixed
  BY Zenon, <1>1 DEF IInv, CodeInv, InUser, Outside
<1>3. StopInv'
  BY Zenon, <1>1, <1>2 DEF StopInv
<1>4. Shape' /\ ContextInv' /\ CodeInv'
  BY Zenon, <1>1 DEF IInv, Shape, ContextInv, CodeInv, InUser, Threads
<1> QED
  BY Zenon, <1>3, <1>4 DEF IInv

-----------------------------------------------------------------------------
\* No program is under way at the start.
LEMMA InitInv ==
  ASSUME Init
  PROVE  IInv
<1>1. /\ mach = [code |-> "zero", regs |-> [pc |-> 1, r2 |-> 0], pageTable |-> 0]
      /\ saved = [t \in DOMAIN th |-> mach.regs] /\ own = saved
      /\ cur = 0 /\ stopped = "no"
  BY Zenon DEF Init
<1>2. \A t \in Threads : "at" \in DOMAIN th[t] /\ (t # 0 => th[t].at = "new")
  BY Zenon DEF Init, Threads
<1>3. \A t \in Threads : ~InUser(t)
  BY Zenon, <1>2 DEF InUser, Outside
<1>4. {"code", "regs", "pageTable"} \subseteq DOMAIN mach
  BY Zenon, <1>1
<1> QED
  BY Zenon, <1>1, <1>2, <1>3, <1>4 DEF IInv, Shape, ContextInv, CodeInv, StopInv, Threads

\* Every step of main, the programs and the scheduler keeps the invariant.
LEMMA NextKeeps ==
  ASSUME IInv, [Next]_vars
  PROVE  IInv'
<1>1. CASE UNCHANGED vars
  BY Zenon, <1>1 DEF vars, IInv, Shape, ContextInv, CodeInv, StopInv, InUser, Threads
<1>2. CASE RemoveFile \/ Show \/ Exec
  BY Zenon, <1>2, MainKeeps, ExecKeeps
<1>3. ASSUME NEW t \in Threads,
             \/ Create(t) \/ Allocate(t) \/ WriteHeader(t) \/ WriteTable(t) \/ WriteBits(t)
             \/ Open(t) \/ StartTransfer(t) \/ Access(t) \/ EndTransfer(t) \/ Close(t)
      PROVE  IInv'
  BY Zenon, <1>3, CreateKeeps, AllocateKeeps, WriteHeaderKeeps, WriteTableKeeps, WriteBitsKeeps,
     OpenKeeps, StartTransferKeeps, AccessKeeps, EndTransferKeeps, CloseKeeps
<1>4. ASSUME NEW t \in Threads,
             \/ Halt(t) \/ Exit(t) \/ Load(t) \/ Segments(t)
             \/ LoseCode(t) \/ Switch(t)
      PROVE  IInv'
  BY Zenon, <1>4, HaltKeeps, ExitKeeps, LoadKeeps, SegmentsKeeps, LoseCodeKeeps, SwitchKeeps
<1> QED
  BY Zenon, <1>1, <1>2, <1>3, <1>4 DEF Next

\* Whatever the programs, the files and the order in which the threads are switched,
\* a program in user mode finds its own registers and page table, and loses its code
\* only to a program loaded, or given its address space, while it was under way
\* (Thread::SaveUserState, RestoreUserState, AddrSpace::RestoreState, Execute).
THEOREM OwnContextCorrect == Spec => []OwnContext
<1>1. ASSUME IInv
      PROVE  OwnContext
  BY Zenon, <1>1 DEF IInv, Shape, ContextInv, StopInv, InUser, Outside, OwnContext
<1> QED
  BY <1>1, InitInv, NextKeeps, PTL DEF Spec
-----------------------------------------------------------------------------
(***************************************************************************)
(* The calls of main, for any command line.                                *)
(***************************************************************************)
\* A sequence of calls: one that gives up goes on in the sequence or right behind it.
Calls(s) ==
  /\ s \in Seq(Range(s))
  /\ \A i \in 1 .. Len(s) : s[i].op \in GivesUp => s[i].skip \in 1 .. Len(s) + 1 - i
Plain(s) == Calls(s) /\ \A i \in 1 .. Len(s) : s[i].op \notin {"remove", "exec"}
Starts(s) == Calls(s) /\ \A i \in 1 .. Len(s) : s[i].op # "exec" /\ (s[i].op = "remove" => i = 1)

\* A function on 1 .. n is a sequence.
LEMMA IsSequence ==
  ASSUME NEW n \in Nat, NEW s, s = [i \in 1 .. n |-> s[i]]
  PROVE  s \in Seq(Range(s)) /\ Len(s) = n
<1>1. s \in [1 .. n -> Range(s)]
  BY Zenon DEF Range
<1> QED
  BY <1>1

\* u is s and, behind it, t.
Joins(u, s, t) ==
  /\ u \in Seq(Range(u)) /\ Len(u) = Len(s) + Len(t)
  /\ Len(s) \in Nat /\ Len(t) \in Nat
  /\ \A i \in 1 .. Len(s) : u[i] = s[i]
  /\ \A i \in 1 .. Len(t) : u[Len(s) + i] = t[i]
  /\ \A i \in 1 .. Len(u) : i \in 1 .. Len(s) \/ i - Len(s) \in 1 .. Len(t)

\* The concatenation of two sequences, of any calls.
LEMMA Joined ==
  ASSUME NEW s, NEW t, s \in Seq(Range(s)), t \in Seq(Range(t))
  PROVE  Joins(s \o t, s, t)
<1> DEFINE S == Range(s) \union Range(t)
<1>1. s \in Seq(S) /\ t \in Seq(S)
  OBVIOUS
<1> HIDE DEF S
<1>2. /\ s \o t \in Seq(S) /\ Len(s \o t) = Len(s) + Len(t)
      /\ \A i \in 1 .. Len(s) + Len(t) : (s \o t)[i] = IF i <= Len(s) THEN s[i] ELSE t[i - Len(s)]
  BY <1>1
<1>3. Len(s) \in Nat /\ Len(t) \in Nat
  BY <1>1
<1>4. s \o t \in Seq(Range(s \o t))
  <2> DEFINE u == s \o t
  <2>0. u \in Seq(S)
    BY Zenon, <1>2
  <2> HIDE DEF u
  <2>1. u \in [1 .. Len(u) -> S] /\ Len(u) \in Nat
    BY <2>0
  <2>2. u = [i \in 1 .. Len(u) |-> u[i]]
    BY Zenon, <2>1
  <2>3. u \in Seq(Range(u))
    BY Zenon, <2>1, <2>2, IsSequence
  <2> QED
    BY Zenon, <2>3 DEF u
<1> QED
  BY <1>2, <1>3, <1>4 DEF Joins

\* Calls that start or do not start a command line, one after the other.
LEMMA PlainJoined ==
  ASSUME NEW s, NEW t, Plain(t), Plain(s) \/ Starts(s)
  PROVE  /\ Plain(s) => Plain(s \o t)
         /\ Starts(s) => Starts(s \o t)
<1> DEFINE u == s \o t
<1>1. s \in Seq(Range(s)) /\ t \in Seq(Range(t))
  BY Zenon DEF Plain, Starts, Calls
<1>2. Joins(u, s, t)
  BY Zenon, <1>1, Joined
<1> HIDE DEF u
<1>3. ASSUME NEW i \in 1 .. Len(u)
      PROVE  \/ i \in 1 .. Len(s) /\ u[i] = s[i]
             \/ \E j \in 1 .. Len(t) : i = Len(s) + j /\ u[i] = t[j]
  <2>1. CASE i \in 1 .. Len(s)
    BY Zenon, <1>2, <2>1 DEF Joins
  <2>2. CASE i - Len(s) \in 1 .. Len(t)
    <3>1. PICK j \in 1 .. Len(t) : j = i - Len(s)
      BY Zenon, <2>2
    <3>2. i = Len(s) + j
      BY <1>2, <3>1 DEF Joins
    <3> QED
      BY Zenon, <1>2, <3>2 DEF Joins
  <2> QED
    BY Zenon, <1>2, <2>1, <2>2 DEF Joins
<1>4. Calls(u)
  <2> SUFFICES ASSUME NEW i \in 1 .. Len(u), u[i].op \in GivesUp
               PROVE  u[i].skip \in 1 .. Len(u) + 1 - i
    BY Zenon, <1>2 DEF Calls, Joins
  <2>1. CASE i \in 1 .. Len(s) /\ u[i] = s[i]
    <3>1. s[i].skip \in 1 .. Len(s) + 1 - i
      BY Zenon, <2>1 DEF Plain, Starts, Calls
    <3> QED
      BY <1>2, <2>1, <3>1 DEF Joins
  <2>2. ASSUME NEW j \in 1 .. Len(t), i = Len(s) + j, u[i] = t[j]
        PROVE  u[i].skip \in 1 .. Len(u) + 1 - i
    <3>1. t[j].skip \in 1 .. Len(t) + 1 - j
      BY Zenon, <2>2 DEF Plain, Calls
    <3> QED
      BY <1>2, <2>2, <3>1 DEF Joins
  <2> QED
    BY Zenon, <1>3, <2>1, <2>2
<1>5. ASSUME Plain(s)
      PROVE  Plain(u)
  BY Zenon, <1>3, <1>4, <1>5 DEF Plain
<1>6. ASSUME Starts(s)
      PROVE  Starts(u)
  BY Zenon, <1>3, <1>4, <1>6 DEF Starts, Plain
<1> QED
  BY Zenon, <1>5, <1>6 DEF u

\* One call.
LEMMA Single ==
  ASSUME NEW c
  PROVE  <<c>> \in Seq(Range(<<c>>)) /\ Len(<<c>>) = 1 /\ <<c>>[1] = c
<1>1. <<c>> \in Seq({c}) /\ Len(<<c>>) = 1 /\ <<c>>[1] = c
  OBVIOUS
<1>2. Range(<<c>>) = {c}
  BY <1>1 DEF Range
<1> QED
  BY Zenon, <1>1, <1>2

\* Parts of a command line: none, or one call.
LEMMA PlainShort ==
  /\ Plain(<<>>) /\ Starts(<<>>)
  /\ \A c : c.op \notin GivesUp \union {"exec"} \/ (c.op \notin {"remove", "exec"} /\ c.skip = 1) => Plain(<<c>>)
  /\ \A c : c.op # "exec" /\ c.skip = 1 => Starts(<<c>>)
<1>1. <<>> \in Seq(Range(<<>>)) /\ Len(<<>>) = 0
  OBVIOUS
<1>2. ASSUME NEW c
      PROVE  /\ <<c>> \in Seq(Range(<<c>>)) /\ Len(<<c>>) = 1 /\ <<c>>[1] = c
             /\ \A i \in 1 .. Len(<<c>>) : i = 1
  BY Single
<1>3. Plain(<<>>) /\ Starts(<<>>)
  BY <1>1 DEF Plain, Starts, Calls
<1>4. ASSUME NEW c, c.op \notin GivesUp \/ c.skip = 1
      PROVE  Calls(<<c>>)
  BY <1>2, <1>4 DEF Calls
<1> QED
  BY Zenon, <1>2, <1>3, <1>4 DEF Plain, Starts, GivesUp

\* Copy: the calls of a copy, whatever the file and the chunks.
LEMMA CopyPlain ==
  ASSUME NEW from, NEW to, NEW chunk \in TransferSizes
  PROVE  Plain(Copy(from, to, chunk))
<1>1. CASE from \notin DOMAIN UnixFiles
  BY Zenon, <1>1, PlainShort DEF Copy
<1>2. CASE from \in DOMAIN UnixFiles
  <2> DEFINE bytes == UnixFiles[from]
             k == (Len(bytes) + chunk - 1) \div chunk
             part(i) == SubSeq(bytes, (i - 1) * chunk + 1, Min({i * chunk, Len(bytes)}))
             writes == [i \in 1 .. k |->
                          [op |-> "write", n |-> Len(part(i)), bytes |-> part(i), skip |-> 1]]
             create == [op |-> "create", name |-> to, n |-> Len(bytes), skip |-> Len(writes) + 3]
             open == [op |-> "open", name |-> to, skip |-> Len(writes) + 2]
             close == [op |-> "close"]
             p == <<create, open>>
             q == <<close>>
             s == p \o writes
             u == s \o q
  <2>1. k \in Nat
    <3>1. Len(bytes) \in Nat /\ chunk \in Nat \ {0}
      BY <1>2, BytesAssumption, SizesAssumption
    <3> HIDE DEF bytes
    <3> QED
      BY <3>1
  <2>2. writes \in Seq(Range(writes)) /\ Len(writes) = k
    <3> HIDE DEF k, part
    <3>1. DOMAIN writes = 1 .. k
      OBVIOUS
    <3>2. writes = [i \in 1 .. k |-> writes[i]]
      OBVIOUS
    <3> HIDE DEF writes
    <3> QED
      BY Zenon, <2>1, <3>2, IsSequence
  <2>3. \A i \in 1 .. k : writes[i].op = "write" /\ writes[i].skip = 1
    <3> HIDE DEF k, part
    <3> QED OBVIOUS
  <2>4. Copy(from, to, chunk) = u
    BY <1>2, Zenon DEF Copy
  <2> HIDE DEF k, part, writes
  <2>5. p \in Seq(Range(p)) /\ Len(p) = 2 /\ p[1] = create /\ p[2] = open
    <3> HIDE DEF create, open
    <3>1. p \in Seq({create, open}) /\ Len(p) = 2 /\ p[1] = create /\ p[2] = open
      OBVIOUS
    <3>2. Range(p) = {create, open}
      BY <3>1 DEF Range
    <3> QED
      BY Zenon, <3>1, <3>2
  <2>6. q \in Seq(Range(q)) /\ Len(q) = 1 /\ q[1] = close
    <3> HIDE DEF close
    <3> QED
      BY Zenon, Single
  <2>7. /\ create.op = "create" /\ create.skip = k + 3 /\ open.op = "open" /\ open.skip = k + 2
        /\ close.op = "close"
    BY Zenon, <2>2
  <2> HIDE DEF create, open, close, p, q
  <2>8. /\ s \in Seq(Range(s)) /\ Len(s) = 2 + k /\ s[1] = create /\ s[2] = open
        /\ \A i \in 1 .. k : s[2 + i] = writes[i]
    <3>1. Joins(s, p, writes)
      BY Zenon, <2>2, <2>5, Joined
    <3> HIDE DEF s
    <3> QED
      BY <2>1, <2>2, <2>5, <3>1 DEF Joins
  <2> HIDE DEF s
  <2>9. /\ u \in Seq(Range(u)) /\ Len(u) = k + 3 /\ u[k + 3] = close
        /\ \A i \in 1 .. k + 2 : u[i] = s[i]
    <3>1. Joins(u, s, q)
      BY Zenon, <2>6, <2>8, Joined
    <3> HIDE DEF u
    <3>2. Len(s) + 1 = k + 3 /\ Len(s) = k + 2 /\ 1 \in 1 .. Len(q)
      BY <2>1, <2>6, <2>8
    <3> QED
      BY Zenon, <2>6, <3>1, <3>2 DEF Joins
  <2> HIDE DEF u
  <2>10. ASSUME NEW i \in 1 .. k + 3
         PROVE  \/ i = 1 /\ u[i] = create
                \/ i = 2 /\ u[i] = open
                \/ i = k + 3 /\ u[i] = close
                \/ u[i].op = "write" /\ u[i].skip = 1
    <3>1. CASE i \in {1, 2}
      BY <2>1, <2>8, <2>9, <3>1
    <3>2. CASE i = k + 3
      BY Zenon, <2>9, <3>2
    <3>3. CASE i \in 3 .. k + 2
      <4>1. PICK j \in 1 .. k : i = 2 + j
        <5>1. i - 2 \in 1 .. k /\ i = 2 + (i - 2)
          BY <2>1, <3>3
        <5> QED
          BY Zenon, <5>1
      <4>2. u[i] = s[i] /\ s[i] = writes[j]
        BY <2>1, <2>8, <2>9, <3>3, <4>1
      <4>3. writes[j].op = "write" /\ writes[j].skip = 1
        BY Zenon, <2>3
      <4> QED
        BY Zenon, <4>2, <4>3
    <3> QED
      BY <2>1, <3>1, <3>2, <3>3
  <2>11. Calls(u)
    BY <2>1, <2>7, <2>9, <2>10 DEF Calls, GivesUp
  <2>12. Plain(u)
    BY Zenon, <2>1, <2>7, <2>9, <2>10, <2>11 DEF Plain
  <2> QED
    BY Zenon, <2>4, <2>12
<1> QED
  BY Zenon, <1>1, <1>2

\* Print: the calls of a print, whatever the file and the chunks.
LEMMA PrintPlain ==
  ASSUME NEW name, NEW chunk \in TransferSizes
  PROVE  Plain(Print_(name, chunk))
<1> DEFINE k == ((NumSectors * SectorSize) \div chunk) + 2
           reads == [i \in 1 .. k |-> [op |-> "read", n |-> chunk, skip |-> k - i + 1]]
           open == [op |-> "open", name |-> name, skip |-> k + 2]
           close == [op |-> "close"]
           p == <<open>>
           q == <<close>>
           s == p \o reads
           u == s \o q
<1>1. k \in Nat
  <2>1. NumSectors \in Nat /\ SectorSize \in Nat /\ chunk \in Nat \ {0}
    BY Zenon, SizesAssumption
  <2>2. PICK m \in Nat : m = NumSectors * SectorSize
    BY <2>1
  <2>3. m \div chunk \in Nat
    BY <2>1, <2>2
  <2> QED
    BY <2>2, <2>3
<1>2. Print_(name, chunk) = u
  BY Zenon DEF Print_
<1> HIDE DEF k
<1>3. reads \in Seq(Range(reads)) /\ Len(reads) = k
  <2>1. reads = [i \in 1 .. k |-> reads[i]]
    OBVIOUS
  <2> HIDE DEF reads
  <2> QED
    BY Zenon, <1>1, <2>1, IsSequence
<1>4. \A i \in 1 .. k : reads[i].op = "read" /\ reads[i].skip = k - i + 1
  OBVIOUS
<1>5. open.op = "open" /\ open.skip = k + 2 /\ close.op = "close"
  OBVIOUS
<1> HIDE DEF reads, open, close
<1>6. /\ p \in Seq(Range(p)) /\ Len(p) = 1 /\ p[1] = open
      /\ q \in Seq(Range(q)) /\ Len(q) = 1 /\ q[1] = close
  BY Zenon, Single
<1> HIDE DEF p, q
<1>7. /\ s \in Seq(Range(s)) /\ Len(s) = 1 + k /\ s[1] = open
      /\ \A i \in 1 .. k : s[1 + i] = reads[i]
  <2>1. Joins(s, p, reads)
    BY Zenon, <1>3, <1>6, Joined
  <2> HIDE DEF s
  <2> QED
    BY <1>1, <1>3, <1>6, <2>1 DEF Joins
<1> HIDE DEF s
<1>8. /\ u \in Seq(Range(u)) /\ Len(u) = k + 2 /\ u[k + 2] = close
      /\ \A i \in 1 .. k + 1 : u[i] = s[i]
  <2>1. Joins(u, s, q)
    BY Zenon, <1>6, <1>7, Joined
  <2> HIDE DEF u
  <2>2. Len(s) + 1 = k + 2 /\ Len(s) = k + 1 /\ 1 \in 1 .. Len(q)
    BY <1>1, <1>6, <1>7
  <2> QED
    BY Zenon, <1>6, <2>1, <2>2 DEF Joins
<1> HIDE DEF u
<1>9. ASSUME NEW i \in 1 .. k + 2
      PROVE  \/ i = 1 /\ u[i] = open
             \/ i = k + 2 /\ u[i] = close
             \/ u[i].op = "read" /\ u[i].skip = k + 2 - i
  <2>1. CASE i = 1
    BY <1>1, <1>7, <1>8, <2>1
  <2>2. CASE i = k + 2
    BY Zenon, <1>8, <2>2
  <2>3. CASE i \in 2 .. k + 1
    <3>1. PICK j \in 1 .. k : i = 1 + j
      <4>1. i - 1 \in 1 .. k /\ i = 1 + (i - 1)
        BY <1>1, <2>3
      <4> QED
        BY Zenon, <4>1
    <3>2. u[i] = s[i] /\ s[i] = reads[j]
      BY <1>1, <1>7, <1>8, <2>3, <3>1
    <3>3. reads[j].op = "read" /\ reads[j].skip = k - j + 1
      BY Zenon, <1>4
    <3> QED
      BY <1>1, <3>1, <3>2, <3>3
  <2> QED
    BY <1>1, <2>1, <2>2, <2>3
<1>10. Calls(u)
  BY <1>1, <1>5, <1>8, <1>9 DEF Calls, GivesUp
<1>11. Plain(u)
  BY Zenon, <1>1, <1>5, <1>8, <1>9, <1>10 DEF Plain
<1> QED
  BY Zenon, <1>2, <1>11

\* u is s and, behind it, an Exec for each of n programs, then the exit.
Ends(u, s, n) ==
  /\ Len(s) \in Nat /\ u \in Seq(Range(u)) /\ Len(u) = Len(s) + n + 1 /\ u[Len(s) + n + 1].op = "exit"
  /\ \A i \in 1 .. Len(s) : u[i] = s[i]
  /\ \A i \in 1 .. n : u[Len(s) + i].op = "exec" /\ u[Len(s) + i].thread = i

\* Such a sequence, made with \o.
LEMMA EndsJoined ==
  ASSUME NEW s, s \in Seq(Range(s)), NEW exec, exec \in Seq(STRING)
  PROVE  Ends(s \o [i \in DOMAIN exec |-> [op |-> "exec", thread |-> i]] \o <<[op |-> "exit"]>>, s, Len(exec))
<1> DEFINE n == Len(exec)
           e == [i \in DOMAIN exec |-> [op |-> "exec", thread |-> i]]
           exit == [op |-> "exit"]
           q == <<exit>>
           v == s \o e
           u == v \o q
<1>1. n \in Nat /\ DOMAIN exec = 1 .. n
  OBVIOUS
<1> HIDE DEF n
<1>2. e \in Seq(Range(e)) /\ Len(e) = n
  <2>1. e = [i \in 1 .. n |-> e[i]]
    BY Zenon, <1>1
  <2> HIDE DEF e
  <2> QED
    BY Zenon, <1>1, <2>1, IsSequence
<1>3. \A i \in 1 .. n : e[i].op = "exec" /\ e[i].thread = i
  BY Zenon, <1>1
<1>4. exit.op = "exit"
  OBVIOUS
<1> HIDE DEF e, exit
<1>5. q \in Seq(Range(q)) /\ Len(q) = 1 /\ q[1] = exit
  BY Zenon, Single
<1> HIDE DEF q
<1>6. Joins(v, s, e)
  BY Zenon, <1>2, Joined
<1> HIDE DEF v
<1>7. Joins(u, v, q)
  BY Zenon, <1>5, <1>6, Joined DEF Joins
<1> HIDE DEF u
<1>8. Len(s) \in Nat /\ Len(v) = Len(s) + n
  BY Zenon, <1>2, <1>6 DEF Joins
<1>9. /\ u \in Seq(Range(u)) /\ Len(u) = Len(s) + n + 1 /\ u[Len(s) + n + 1] = exit
      /\ \A i \in 1 .. Len(s) + n : u[i] = v[i]
  <2>1. 1 \in 1 .. Len(q) /\ Len(q) = 1
    BY <1>5
  <2> QED
    BY Zenon, <1>5, <1>7, <1>8, <2>1 DEF Joins
<1>10. /\ \A i \in 1 .. Len(s) : v[i] = s[i]
       /\ \A i \in 1 .. n : v[Len(s) + i] = e[i]
  BY Zenon, <1>2, <1>6 DEF Joins
<1>11. \A i \in 1 .. Len(s) : i \in 1 .. Len(s) + n
  BY <1>1, <1>8
<1>12. \A i \in 1 .. n : Len(s) + i \in 1 .. Len(s) + n
  BY <1>1, <1>8
<1>13. \A i \in 1 .. Len(s) : u[i] = s[i]
  BY Zenon, <1>9, <1>10, <1>11
<1>14. \A i \in 1 .. n : u[Len(s) + i].op = "exec" /\ u[Len(s) + i].thread = i
  <2>1. \A i \in 1 .. n : u[Len(s) + i] = e[i]
    BY Zenon, <1>9, <1>10, <1>12
  <2> QED
    BY <1>3, <2>1
<1>15. Ends(u, s, n)
  BY Zenon, <1>4, <1>8, <1>9, <1>13, <1>14 DEF Ends
<1> QED
  BY Zenon, <1>15 DEF u, v, e, q, exit, n

\* Where the calls of such a sequence come from.
LEMMA EndsCall ==
  ASSUME NEW u, NEW s, NEW n \in Nat, Ends(u, s, n), NEW i \in 1 .. Len(u)
  PROVE  \/ i = Len(u) /\ u[i].op = "exit"
         \/ i \in 1 .. Len(s) /\ u[i] = s[i]
         \/ i - Len(s) \in 1 .. n /\ u[i].op = "exec" /\ u[i].thread = i - Len(s)
<1>1. Len(s) \in Nat /\ Len(u) = Len(s) + n + 1
  BY Zenon DEF Ends
<1>2. CASE i = Len(u)
  BY Zenon, <1>2 DEF Ends
<1>3. CASE i \in 1 .. Len(s)
  BY Zenon, <1>3 DEF Ends
<1>4. CASE i - Len(s) \in 1 .. n
  <2>1. PICK j \in 1 .. n : j = i - Len(s)
    BY Zenon, <1>4
  <2>2. i = Len(s) + j
    BY <1>1, <2>1
  <2>3. u[Len(s) + j].op = "exec" /\ u[Len(s) + j].thread = j
    BY Zenon DEF Ends
  <2> QED
    BY Zenon, <2>1, <2>2, <2>3
<1>5. i = Len(u) \/ i \in 1 .. Len(s) \/ i - Len(s) \in 1 .. n
  BY <1>1
<1> QED
  BY Zenon, <1>2, <1>3, <1>4, <1>5

\* Calls that start a command line, then the Execs, then the exit.
LEMMA CallsEnd ==
  ASSUME NEW u, NEW s, Starts(s), NEW exec, Len(exec) \in Nat, Ends(u, s, Len(exec))
  PROVE  CallsOK(u, exec)
<1> DEFINE n == Len(exec)
           k == Len(s)
<1>1. /\ k \in Nat /\ n \in Nat /\ Len(u) = k + n + 1
      /\ u \in Seq(Range(u)) /\ u[Len(u)].op = "exit"
  BY Zenon DEF Ends
<1>2. \A i \in 1 .. k : /\ s[i].op # "exec" /\ (s[i].op = "remove" => i = 1)
                        /\ s[i].op \in GivesUp => s[i].skip \in 1 .. k + 1 - i
  BY Zenon DEF Starts, Calls
<1>3. ASSUME NEW i \in 1 .. Len(u)
      PROVE  /\ u[i].op = "remove" => i = 1
             /\ u[i].op \in GivesUp => u[i].skip \in 1 .. Len(u) - i
             /\ u[i].op = "exec" => u[i].thread \in 1 .. n /\ u[i].thread = i - k
  <2> HIDE DEF n, k
  <2>1. CASE i = Len(u) /\ u[i].op = "exit"
    BY Zenon, <2>1 DEF GivesUp
  <2>2. CASE i \in 1 .. k /\ u[i] = s[i]
    <3>1. u[i].op \in GivesUp => u[i].skip \in 1 .. k + 1 - i
      BY Zenon, <1>2, <2>2
    <3>2. 1 .. k + 1 - i \subseteq 1 .. Len(u) - i
      BY <1>1, <2>2
    <3> QED
      BY Zenon, <1>2, <2>2, <3>1, <3>2
  <2>3. CASE i - k \in 1 .. n /\ u[i].op = "exec" /\ u[i].thread = i - k
    BY Zenon, <2>3 DEF GivesUp
  <2> QED
    BY Zenon, <2>1, <2>2, <2>3, EndsCall DEF n, k
<1> HIDE DEF n, k
<1>4. ASSUME NEW i \in 1 .. Len(u), NEW j \in 1 .. Len(u),
             u[i].op = "exec", u[j].op = "exec", u[i].thread = u[j].thread
      PROVE  i = j
  <2>1. i - k = j - k
    BY Zenon, <1>3, <1>4
  <2> QED
    BY <1>1, <2>1
<1>5. Len(u) \in Nat \ {0}
  BY <1>1
<1> QED
  BY Zenon, <1>1, <1>3, <1>4, <1>5 DEF CallsOK, n

\* MainCalls: whatever the command line, the calls of main are such a sequence.
LEMMA MainCallsOK ==
  ASSUME NEW argv \in CommandLines, NEW chunk \in TransferSizes
  PROVE  CallsOK(MainCalls(argv, chunk), Execs(argv))
<1> DEFINE g == Scan(argv, "main")
           remove == [op |-> "remove", name |-> Last_of(g, {"-r", "-rr"})[2],
                      recursive |-> Given(g, {"-rr"}), skip |-> 1]
           show == [op |-> "show"]
           mkdir == [op |-> "mkdir", name |-> Last_of(g, {"-mkdir"})[2], n |-> SectorSize, skip |-> 1]
           s1 == IF Given(g, {"-r", "-rr"}) THEN <<remove>> ELSE <<>>
           s2 == IF Given(g, {"-cp"}) THEN Copy(Last_of(g, {"-cp"})[2], Last_of(g, {"-cp"})[3], chunk) ELSE <<>>
           s3 == IF Given(g, {"-D"}) THEN <<show>> ELSE <<>>
           s4 == IF Given(g, {"-l", "-lr"}) THEN <<show>> ELSE <<>>
           s5 == IF Given(g, {"-mkdir"}) THEN <<mkdir>> ELSE <<>>
           s6 == IF Given(g, {"-p"}) THEN Print_(Last_of(g, {"-p"})[2], chunk) ELSE <<>>
           s == s1 \o s2 \o s3 \o s4 \o s5 \o s6
<1>1. MainCalls(argv, chunk)
        = s \o [i \in DOMAIN Execs(argv) |-> [op |-> "exec", thread |-> i]] \o <<[op |-> "exit"]>>
  BY Zenon DEF MainCalls
<1>2. remove.op = "remove" /\ remove.skip = 1 /\ show.op = "show" /\ mkdir.op = "mkdir" /\ mkdir.skip = 1
  OBVIOUS
<1> HIDE DEF remove, show, mkdir
<1>3. Starts(s1)
  BY Zenon, <1>2, PlainShort
<1>4. Plain(s2)
  BY Zenon, CopyPlain, PlainShort
<1>5. Plain(s3) /\ Plain(s4)
  BY Zenon, <1>2, PlainShort DEF GivesUp
<1>6. Plain(s5)
  BY Zenon, <1>2, PlainShort
<1>7. Plain(s6)
  BY Zenon, PrintPlain, PlainShort
<1> HIDE DEF s1, s2, s3, s4, s5, s6
<1>8. Starts(s)
  <2>1. Starts(s1 \o s2)
    BY Zenon, <1>3, <1>4, PlainJoined
  <2>2. Starts(s1 \o s2 \o s3)
    BY Zenon, <1>5, <2>1, PlainJoined
  <2>3. Starts(s1 \o s2 \o s3 \o s4)
    BY Zenon, <1>5, <2>2, PlainJoined
  <2>4. Starts(s1 \o s2 \o s3 \o s4 \o s5)
    BY Zenon, <1>6, <2>3, PlainJoined
  <2> QED
    BY Zenon, <1>7, <2>4, PlainJoined
<1> HIDE DEF s
<1>9. Execs(argv) \in Seq(STRING) /\ s \in Seq(Range(s))
  BY Zenon, <1>8, LinesAssumption DEF Starts, Calls
<1>10. Len(Execs(argv)) \in Nat
  BY <1>9
<1>11. Ends(MainCalls(argv, chunk), s, Len(Execs(argv)))
  BY Zenon, <1>1, <1>9, EndsJoined
<1> QED
  BY Zenon, <1>8, <1>10, <1>11, CallsEnd

-----------------------------------------------------------------------------
(***************************************************************************)
(* FindAndSet, which needs facts about finite sets, and the theorem.       *)
(***************************************************************************)
INSTANCE FiniteSetTheorems

\* FindAndSet returns a clear sector, as often as there are clear ones: the ranks of
\* the members of a finite set of numbers are 0, 1, ... up to its size.
LEMMA NthIn ==
  ASSUME NEW S \in SUBSET Nat, IsFiniteSet(S), NEW n \in 1 .. Cardinality(S)
  PROVE  Nth(S, n) \in S
<1> DEFINE Below(s) == {r \in S : r < s}
           T == 0 .. Cardinality(S) - 1
           rank == [s \in S |-> Cardinality(Below(s))]
<1>1. Cardinality(S) \in Nat
  BY Zenon, FS_CardinalityType
<1>2. ASSUME NEW s \in S
      PROVE  /\ IsFiniteSet(Below(s)) /\ Cardinality(Below(s)) \in T
  <2>1. IsFiniteSet(S \ {s}) /\ Cardinality(S \ {s}) = Cardinality(S) - 1
    BY Zenon, FS_RemoveElement
  <2>2. Below(s) \subseteq S \ {s}
    OBVIOUS
  <2>3. IsFiniteSet(Below(s)) /\ Cardinality(Below(s)) <= Cardinality(S \ {s})
    BY Zenon, <2>1, <2>2, FS_Subset
  <2>4. Cardinality(Below(s)) \in Nat
    BY Zenon, <2>3, FS_CardinalityType
  <2> QED
    BY <1>1, <2>1, <2>3, <2>4
<1>3. ASSUME NEW s \in S, NEW u \in S, s < u
      PROVE  Cardinality(Below(s)) < Cardinality(Below(u))
  <2>1. Below(s) \union {s} \subseteq Below(u)
    <3>1. \A r \in S : r < s => r < u
      BY <1>3
    <3> QED
      BY Zenon, <1>3, <3>1
  <2>2. /\ IsFiniteSet(Below(s) \union {s})
        /\ Cardinality(Below(s) \union {s}) = Cardinality(Below(s)) + 1
    <3>1. s \notin Below(s)
      OBVIOUS
    <3> HIDE DEF Below
    <3> QED
      BY Zenon, <1>2, <3>1, FS_AddElement
  <2>3. Cardinality(Below(s) \union {s}) <= Cardinality(Below(u))
    BY Zenon, <1>2, <2>1, FS_Subset
  <2> HIDE DEF Below
  <2> QED
    BY <1>1, <1>2, <2>2, <2>3
<1>4. rank \in Injection(S, T)
  <2>1. rank \in [S -> T]
    BY Zenon, <1>2
  <2>2. ASSUME NEW s \in S, NEW u \in S, rank[s] = rank[u]
        PROVE  s = u
    <3>1. ~(s < u) /\ ~(u < s)
      BY <1>1, <1>2, <1>3, <2>2
    <3> QED
      BY <3>1
  <2> QED
    BY Zenon, <2>1, <2>2 DEF Injection, IsInjective
<1>5. IsFiniteSet(T) /\ Cardinality(T) = Cardinality(S)
  <2>1. ASSUME NEW c \in Nat
        PROVE  IsFiniteSet(0 .. c - 1) /\ Cardinality(0 .. c - 1) = c
    <3>1. PICK b \in Int : b = c - 1
      OBVIOUS
    <3>2. IsFiniteSet(0 .. b) /\ Cardinality(0 .. b) = IF 0 > b THEN 0 ELSE b - 0 + 1
      BY FS_Interval
    <3>3. (IF 0 > b THEN 0 ELSE b - 0 + 1) = c
      BY <3>1
    <3> QED
      BY Zenon, <3>1, <3>2, <3>3
  <2> QED
    BY Zenon, <1>1, <2>1
<1>6. rank \in Surjection(S, T)
  BY Zenon, <1>4, <1>5, FS_Injection
<1>7. n - 1 \in T
  BY <1>1
<1>8. \E s \in S : rank[s] = n - 1
  <2> HIDE DEF rank, T
  <2> QED BY <1>6, <1>7 DEF Surjection
<1>9. \E s \in S : Cardinality({r \in S : r < s}) = n - 1
  BY Zenon, <1>8
<1> QED
  BY <1>9, Zenon DEF Nth

\* The sectors Allocate finds are clear ones.
LEMMA ChosenClear ==
  ASSUME NEW n, NEW dir, HasRoom(n, dir)
  PROVE  {Nth(Clear, 1)} \union Range(NewBlocks(n)) \subseteq Clear
<1>1. IsFiniteSet(Clear) /\ Clear \in SUBSET Nat
  <2>1. NumSectors \in Nat /\ NumSectors - 1 \in Int
    BY SizesAssumption
  <2>2. IsFiniteSet(Sectors)
    BY <2>1, FS_Interval DEF Sectors
  <2>3. Clear \subseteq Sectors /\ Sectors \subseteq Nat
    BY <2>1 DEF Clear, Sectors
  <2> QED
    BY Zenon, <2>2, <2>3, FS_Subset
<1>2. Cardinality(Clear) \in Nat
  BY Zenon, <1>1, FS_CardinalityType
<1>3. Blocks(n) \in 0 .. Cardinality(Clear) - 1
  BY Zenon DEF HasRoom
<1>4. Nth(Clear, 1) \in Clear
  BY <1>1, <1>2, <1>3, NthIn
<1>5. ASSUME NEW i \in 1 .. Blocks(n)
      PROVE  NewBlocks(n)[i] \in Clear
  <2>1. i + 1 \in 1 .. Cardinality(Clear)
    BY <1>2, <1>3
  <2>2. Nth(Clear, i + 1) \in Clear
    BY Zenon, <1>1, <2>1, NthIn
  <2> QED
    BY Zenon, <2>2 DEF NewBlocks
<1>6. DOMAIN NewBlocks(n) = 1 .. Blocks(n)
  BY Zenon DEF NewBlocks
<1> QED
  BY Zenon, <1>4, <1>5, <1>6 DEF Range

\* Whatever the programs, the command lines, the disk and the order in which the threads
\* are switched: unless two Creates were under way at once, files have sectors of their
\* own, all marked in the bitmap, and no created file is missing from the directory
\* (FileSystem::Create and Remove, FileHeader::Allocate, Directory::Add).
THEOREM CreatesApartCorrect == Spec => []CreatesApart
<1>1. FoundClear
  BY Zenon, ChosenClear DEF FoundClear
<1>2. Init => CInv
  BY Zenon, InitApart, MainCallsOK DEF LinesOK
<1>3. CInv /\ [Next]_vars => CInv'
  BY Zenon, <1>1, NextApart
<1>4. CInv => CreatesApart
  BY Zenon, SoundApart
<1> QED
  BY <1>2, <1>3, <1>4, PTL DEF Spec
=============================================================================
