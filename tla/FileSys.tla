------------------------------ MODULE FileSys -------------------------------
(***************************************************************************)
(* filesys/filesys.cc and directory.cc over the free map and single-level  *)
(* headers: FileSystem::Create, CreateDir, Remove and OpenAFile on a tree  *)
(* of directories, one call at a time ("this implementation assumes there  *)
(* is no concurrent access", filesys.cc:183-184).                          *)
(*                                                                         *)
(* A call reads the disk and works out its writes; they then reach the     *)
(* disk one by one, in the code's order, and the machine may stop between  *)
(* any two of them.  The table of a directory and the bitmap are each      *)
(* written as one sector.  FileHeader models headers with index sectors.   *)
(***************************************************************************)
EXTENDS Integers, Sequences, FiniteSets, FiniteSetsExt, SequencesExt

CONSTANTS
  NumSectors, NumDirEntries,
  Names, MaxDepth,   \* bound: the paths are the sequences of 1 .. MaxDepth names
  MaxCalls,          \* bound: calls of Create, CreateDir and Remove
  NoName,
  CheckedPaths,      \* callers never lead a path through a file
  CrashDuring        \* bound: the calls in which the machine may stop

FreeMapSector == 0
DirectorySector == 1
FreeMapData == 2     \* the only data block of the bitmap file
DirectoryData == 3   \* the only data block of the root directory
SystemSectors == {FreeMapSector, DirectorySector, FreeMapData, DirectoryData}

ASSUME FileSysAssumption ==
  /\ NumSectors \in Nat /\ NumSectors > 4 /\ NumDirEntries \in Nat \ {0}
  /\ MaxDepth \in Nat \ {0} /\ MaxCalls \in Nat /\ NoName \notin Names
  /\ CheckedPaths \in BOOLEAN /\ CrashDuring \subseteq {"Create", "CreateDir", "Remove", "RemoveDir"}

VARIABLES
  disk,       \* sector -> its contents: a header, a table or the bitmap
  pending,    \* the writes <<sector, contents>> that the call has still to make
  aborted,    \* an ASSERT has failed
  last,       \* the last call: [op, path]
  leaky,      \* a directory with entries was removed, or the machine stopped
  calls       \* how many calls there have been

vars == <<disk, pending, aborted, last, leaky, calls>>

Sectors == 0 .. NumSectors - 1
Paths == UNION {[1 .. n -> Names] : n \in 1 .. MaxDepth}

-----------------------------------------------------------------------------
(* Directory: the table, as a sequence of entries.                          *)
Unused == [inUse |-> FALSE, name |-> NoName, sector |-> 0, isadirectory |-> FALSE]
NewTable == [i \in 1 .. NumDirEntries |-> Unused]

(* Directory::FindIndex, with 0 for -1; the first match, as all loops are   *)
(* from the front.                                                          *)
FindIndex(table, name) ==
  LET found == {i \in DOMAIN table : table[i].inUse /\ table[i].name = name}
  IN  IF found = {} THEN 0 ELSE Min(found)

Find(table, name) ==
  LET i == FindIndex(table, name) IN IF i = 0 THEN -1 ELSE table[i].sector

IsFull(table) == \A i \in DOMAIN table : table[i].inUse

(* Mutant: Add takes the last entry whether or not it is in use. *)
Add_overwrites(table, name, sector, isdir) ==
  [table EXCEPT ![Len(table)] =
     [inUse |-> TRUE, name |-> name, sector |-> sector, isadirectory |-> isdir]]

(* Directory::Add, of a name that is not in the table, which is not full. *)
Add(table, name, sector, isdir) ==
  [table EXCEPT ![Min({i \in DOMAIN table : ~table[i].inUse})] =
     [inUse |-> TRUE, name |-> name, sector |-> sector, isadirectory |-> isdir]]

(* Directory::Remove; a name that is not there changes nothing. *)
DirRemove(table, name) ==
  [i \in DOMAIN table |-> IF i = FindIndex(table, name) THEN Unused ELSE table[i]]

(* Directory::FetchFrom of a file with header hdr into a table: an empty    *)
(* file leaves the table as it was.                                         *)
FetchFrom(d, hdr, table) == IF hdr = << >> THEN table ELSE d[hdr[1]]

-----------------------------------------------------------------------------
(* The disk as a call sees it: io = [disk, writes, abort].                  *)
Fresh == [disk |-> disk, writes |-> << >>, abort |-> FALSE]

Put(io, sector, contents) ==
  [io EXCEPT !.disk[sector] = contents, !.writes = Append(@, <<sector, contents>>)]

(* Directory::WriteBack to the file with header hdr; WriteAt writes nothing *)
(* to an empty file.                                                        *)
PutTable(io, hdr, table) == IF hdr = << >> THEN io ELSE Put(io, hdr[1], table)

(* The sectors that Bitmap::FindAndSet may return, the smallest first. *)
ClearBits(map) == Sectors \ map

(* Mutant: the header's own sector stays marked. *)
Freed_keeps_header(map, hdr, sector) == map \ ToSet(hdr)

(* FileHeader::Deallocate and Bitmap::Clear of the header's own sector, on  *)
(* a bitmap fetched earlier.  ASSERT(freeMap->Test(..)) for the data.       *)
Freed(map, hdr, sector) == map \ (ToSet(hdr) \union {sector})
AssertMarked(io, map, hdr) == [io EXCEPT !.abort = @ \/ ~(ToSet(hdr) \subseteq map)]

(* The walk of Create, CreateDir and Remove over the components of a path:  *)
(* dir is the table last fetched, file and before the headers of the last   *)
(* two files opened, sector that of file's header.                          *)
RECURSIVE WalkFrom(_, _, _)
WalkFrom(path, i, w) ==
  IF i > Len(path)
  THEN [w EXCEPT !.dir = FetchFrom(disk, w.before, w.dir), !.token = path[Len(path)]]
  ELSE LET s == Find(w.dir, path[i])
       IN  IF s = -1 THEN [w EXCEPT !.token = path[i], !.missing = TRUE]
           ELSE WalkFrom(path, i + 1,
                  [w EXCEPT !.dir = FetchFrom(disk, disk[s], w.dir), !.before = w.file,
                            !.file = disk[s], !.sector = s])

Walk(path) ==
  LET root == disk[DirectorySector]
  IN  WalkFrom(path, 1, [dir |-> disk[DirectoryData], file |-> root, before |-> root,
                         sector |-> DirectorySector, token |-> NoName, missing |-> FALSE])

(* Mutant: the walk of OpenAFile does not stop at a file. *)
RECURSIVE OpenFrom_through_files(_, _, _)
OpenFrom_through_files(path, i, table) ==
  LET k == FindIndex(table, path[i])
  IN  IF k = 0 THEN -1
      ELSE LET next == FetchFrom(disk, disk[table[k].sector], table)
           IN  IF i = Len(path) THEN Find(next, path[i]) ELSE OpenFrom_through_files(path, i + 1, next)

(* FileSystem::OpenAFile: the sector of the header it opens, or -1.  Its    *)
(* walk stops at a file as well.                                            *)
RECURSIVE OpenFrom(_, _, _)
OpenFrom(path, i, table) ==
  LET k == FindIndex(table, path[i])
  IN  IF k = 0 THEN -1
      ELSE IF ~table[k].isadirectory THEN table[k].sector
      ELSE LET next == FetchFrom(disk, disk[table[k].sector], table)
           IN  IF i = Len(path) THEN Find(next, path[i]) ELSE OpenFrom(path, i + 1, next)

OpenAFile(path) == OpenFrom(path, 1, disk[DirectoryData])

(* Directory::List: the names.  RecursiveList: <<depth, name, isadirectory>>*)
(* in the order of the entries, a directory's own after it.                 *)
ListNames(table) == LET used == SelectSeq(table, LAMBDA e : e.inUse)
                    IN  [i \in DOMAIN used |-> used[i].name]

RECURSIVE RecursiveList_to_first_gap(_, _, _), RecursiveList(_, _, _)

(* Mutant: the loop ends at the first entry that is not in use. *)
RecursiveList_to_first_gap(table, depth, i) ==
  IF i > Len(table) \/ ~table[i].inUse THEN << >>
  ELSE LET e == table[i]
       IN  <<<<depth, e.name, e.isadirectory>>>>
             \o (IF e.isadirectory THEN RecursiveList_to_first_gap(FetchFrom(disk, disk[e.sector], NewTable), depth + 1, 1)
                 ELSE << >>)
             \o RecursiveList_to_first_gap(table, depth, i + 1)

RecursiveList(table, depth, i) ==
  IF i > Len(table) THEN << >>
  ELSE LET e == table[i]
           sub == RecursiveList(FetchFrom(disk, disk[e.sector], NewTable), depth + 1, 1)
       IN  (IF e.inUse THEN <<<<depth, e.name, e.isadirectory>>>> \o (IF e.isadirectory THEN sub ELSE << >>)
            ELSE << >>)
             \o RecursiveList(table, depth, i + 1)

(* FileSystem::List: the table of the last component, if every one is found.*)
RECURSIVE ListedFrom(_, _)
ListedFrom(path, table) ==
  IF path = << >> THEN table
  ELSE IF Find(table, Head(path)) = -1 THEN NoName
  ELSE ListedFrom(Tail(path), FetchFrom(disk, disk[Find(table, Head(path))], table))
Listed(path) == ListedFrom(path, disk[DirectoryData])

-----------------------------------------------------------------------------
(* What a path names: the sector of its header, following directories only. *)
RECURSIVE LookupFrom(_, _, _)
LookupFrom(d, path, table) ==
  LET k == FindIndex(table, Head(path))
  IN  IF k = 0 THEN Unused
      ELSE IF Len(path) = 1 THEN table[k]
      ELSE IF ~table[k].isadirectory THEN Unused
      ELSE LookupFrom(d, Tail(path), d[d[table[k].sector][1]])

Lookup(d, path) == LookupFrom(d, path, d[DirectoryData])
Exists(path) == Lookup(disk, path).inUse

(* A call is made: the machine runs, and the one before has returned. *)
Called(path) ==
  /\ pending = << >> /\ ~aborted
  /\ calls < MaxCalls /\ calls' = calls + 1
  /\ CheckedPaths => \A n \in 1 .. Len(path) - 1 :
       LET e == Lookup(disk, SubSeq(path, 1, n)) IN e.inUse => e.isadirectory

Returns(op, path, io) ==
  /\ pending' = io.writes
  /\ aborted' = io.abort
  /\ last' = [op |-> op, path |-> path]
  /\ UNCHANGED disk

-----------------------------------------------------------------------------
(* A formatted disk. *)
Init ==
  /\ disk = [s \in Sectors |->
               CASE s = FreeMapSector -> <<FreeMapData>>
                 [] s = DirectorySector -> <<DirectoryData>>
                 [] s = FreeMapData -> SystemSectors
                 [] OTHER -> NewTable]
  /\ pending = << >>
  /\ aborted = FALSE
  /\ last = [op |-> "format", path |-> << >>]
  /\ leaky = FALSE
  /\ calls = 0

(* Create and CreateDir have the same code up to the size, n blocks, and    *)
(* the kind.  The header's sector and the blocks are the first free ones;   *)
(* the blocks are cleaned, then the header, the directory and the bitmap    *)
(* are written.  Every failure is found before the first write.             *)
CreateNode(op, path, n, isdir) ==
  LET w == Walk(path)
      map == disk[FreeMapData]
      clear == ClearBits(map)
      sector == Min(clear)
      hdr == IF n = 0 THEN << >> ELSE <<Min(clear \ {sector})>>
      ok == /\ Find(w.dir, w.token) = -1
            /\ clear # {} /\ ~IsFull(w.dir)
            /\ Cardinality(clear) > n
      cleaned == PutTable(Fresh, hdr, NewTable)
      written == PutTable(Put(cleaned, sector, hdr), w.file, Add(w.dir, w.token, sector, isdir))
      io == IF ok THEN Put(written, FreeMapData, map \union {sector} \union ToSet(hdr)) ELSE Fresh
  IN  Called(path) /\ Returns(op, path, io) /\ UNCHANGED leaky

Create(path, n) == CreateNode("Create", path, n, FALSE)
CreateDir(path) == CreateNode("CreateDir", path, 1, TRUE)

(* Directory::RecursiveRemove over the table of a directory, from entry i   *)
(* on: the table and the disk after it.  For a directory entry the bitmap   *)
(* is fetched before, and written after, the recursion; the entry of a file *)
(* stays in the table.                                                      *)
RECURSIVE RecursiveRemove(_, _, _)
RecursiveRemove(io, table, i) ==
  IF i > NumDirEntries THEN [io |-> io, table |-> table]
  ELSE IF ~table[i].inUse THEN RecursiveRemove(io, table, i + 1)
  ELSE LET sector == table[i].sector
           hdr == io.disk[sector]
           freeMap == io.disk[FreeMapData]
           checked == AssertMarked(io, freeMap, hdr)
       IN  IF table[i].isadirectory
           THEN LET sub == RecursiveRemove(checked, FetchFrom(io.disk, hdr, NewTable), 1)
                    emptied == PutTable(sub.io, hdr, sub.table)
                IN  RecursiveRemove(Put(emptied, FreeMapData, Freed(freeMap, hdr, sector)),
                                    DirRemove(table, table[i].name), i + 1)
           ELSE RecursiveRemove(Put(checked, FreeMapData, Freed(freeMap, hdr, sector)), table, i + 1)

(* Mutant: the bitmap goes to disk before the directory. *)
RemoveEntry_map_first(io, w, map) ==
  LET parent == FetchFrom(io.disk, w.before, w.dir)
  IN  PutTable(Put(AssertMarked(io, map, w.file), FreeMapData, Freed(map, w.file, w.sector)),
               w.before, DirRemove(parent, w.token))

(* The end of Remove, for the node found by the walk w: its entry leaves    *)
(* the directory, then its sectors the bitmap, map, fetched at the start.   *)
RemoveEntry(io, w, map) ==
  LET parent == FetchFrom(io.disk, w.before, w.dir)
  IN  Put(PutTable(AssertMarked(io, map, w.file), w.before, DirRemove(parent, w.token)),
          FreeMapData, Freed(map, w.file, w.sector))

(* FileSystem::Remove(name, Recursive).  When the token is not in the table *)
(* last fetched, isadirectory reads the entry before the first: outside.    *)
RemovePath(path, Recursive) ==
  LET w == Walk(path)
      map == disk[FreeMapData]
      k == FindIndex(w.dir, w.token)
  IN  /\ Called(path)
      /\ \E isdir \in IF w.missing \/ k # 0 THEN {~w.missing /\ w.dir[k].isadirectory} ELSE BOOLEAN :
           LET table == FetchFrom(disk, w.file, w.dir)
               sub == RecursiveRemove(Fresh, table, 1)
               emptied == PutTable(sub.io, w.file, sub.table)
           IN  IF w.missing \/ (isdir /\ ~Recursive)
               THEN Returns("Remove", path, Fresh) /\ UNCHANGED leaky
               ELSE /\ Returns(IF isdir THEN "RemoveDir" ELSE "Remove", path,
                            RemoveEntry(IF isdir THEN emptied ELSE Fresh, w, map))
                    /\ leaky' = (leaky \/ (isdir /\ table # NewTable))

(* The call's next write reaches the disk. *)
Write ==
  /\ pending # << >>
  /\ disk' = [disk EXCEPT ![Head(pending)[1]] = Head(pending)[2]]
  /\ pending' = Tail(pending)
  /\ UNCHANGED <<aborted, last, leaky, calls>>

(* The machine stops; FileSystem(FALSE) then starts from the disk. *)
Crash ==
  /\ pending # << >> /\ last.op \in CrashDuring
  /\ pending' = << >>
  /\ last' = [last EXCEPT !.op = "crash"]
  /\ leaky' = TRUE
  /\ UNCHANGED <<disk, aborted, calls>>

Next ==
  \/ \E path \in Paths : \/ \E n \in {0, 1} : Create(path, n)
                         \/ CreateDir(path)
                         \/ \E Recursive \in BOOLEAN : RemovePath(path, Recursive)
  \/ Write
  \/ Crash

Spec == Init /\ [][Next]_vars

-----------------------------------------------------------------------------
Marked == disk[FreeMapData]
Existing == {p \in Paths : Exists(p)}
OwnedBy(p) == LET s == Lookup(disk, p).sector IN {s} \union ToSet(disk[s])
Owned == SystemSectors \union UNION {OwnedBy(p) : p \in Existing}

(* Between calls every sector has at most one owner and what is owned is     *)
(* marked, so that no call hands out a sector in use and no ASSERT on a      *)
(* sector to be freed fails.  This survives the stale bitmaps of             *)
(* RecursiveRemove, and a stop anywhere in the removal of a file, which      *)
(* writes the directory before the bitmap.                                   *)
OneOwner ==
  /\ ~aborted
  /\ pending = << >> =>
       /\ Owned \subseteq Marked
       /\ \A p, q \in Existing : p # q => OwnedBy(p) \intersect OwnedBy(q) = {}
       /\ \A p \in Existing : OwnedBy(p) \intersect SystemSectors = {}
       /\ \A p \in Existing : Lookup(disk, p).sector \notin ToSet(disk[Lookup(disk, p).sector])

(* A call on one path leaves alone every file whose path neither extends nor *)
(* begins it: no write of Create, CreateDir or Remove changes what another   *)
(* path names, nor its header.                                               *)
OthersUntouched ==
  [][\A q \in Paths :
       ~IsPrefix(q, last'.path) /\ ~IsPrefix(last'.path, q) =>
         /\ Lookup(disk', q) = Lookup(disk, q)
         /\ Exists(q) => disk'[Lookup(disk, q).sector] = disk[Lookup(disk, q).sector]]_vars

(* Only the removal of a directory that has entries, or a stop, leaves       *)
(* sectors marked that nothing owns: a failed call, a removed file and a     *)
(* removed empty directory do not.                                           *)
NoOtherLeak == pending = << >> /\ ~leaky => Marked = Owned

(* OpenAFile opens the file that the path names. *)
OpenFindsFile ==
  pending = << >> => \A p \in Existing :
    ~Lookup(disk, p).isadirectory => OpenAFile(p) = Lookup(disk, p).sector

(* The listings of a directory are complete and name nothing else: "-l" the   *)
(* entries, "-lr" everything below it, each once, with its kind, and indented *)
(* below the directory it is in.                                              *)
ListingExact ==
  pending = << >> => \A p \in {q \in Existing : Lookup(disk, q).isadirectory} \union {<< >>} :
    LET l == RecursiveList(Listed(p), 0, 1)
        Above(n, depth) == l[Max({m \in 1 .. n : l[m][1] = depth})][2]
        Path(n) == p \o [k \in 1 .. l[n][1] + 1 |-> Above(n, k - 1)]
        below == {q \in Existing : Len(q) > Len(p) /\ IsPrefix(p, q)}
    IN  /\ {Path(n) : n \in DOMAIN l} = below /\ Len(l) = Cardinality(below)
        /\ \A n \in DOMAIN l : l[n][3] = Lookup(disk, Path(n)).isadirectory
        /\ ToSet(ListNames(Listed(p))) = {Last(q) : q \in {q \in below : Len(q) = Len(p) + 1}}

(* README.md:68, of recursive removal: it "deletes files bottom-up, and      *)
(* updates the `FreeMap` and `DirectoryTable` only after the child nodes are *)
(* successfully cleared": what it removes is free afterwards.                *)
RecursiveRemoveFrees == pending = << >> => Marked = Owned
=============================================================================
