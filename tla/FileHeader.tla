----------------------------- MODULE FileHeader -----------------------------
(***************************************************************************)
(* filesys/filehdr.cc: the index tree of a file, built by Allocate, freed  *)
(* by Deallocate and searched by ByteToSector, as FileSystem::Create and   *)
(* Remove use them for files in one directory.                             *)
(*                                                                         *)
(* The disk has fewer sectors than the largest tree has leaves, as in the  *)
(* code (512000 sectors, 30^4 leaves), so that Allocate's branch for files *)
(* beyond four levels is never taken.                                      *)
(***************************************************************************)
EXTENDS Integers, Sequences, FiniteSets, FiniteSetsExt, SequencesExt

CONSTANTS
  NumSectors, SectorSize, NumDirect,
  Files,          \* the names
  Sizes,          \* bound: the initialSize arguments of Create
  MaxCalls,       \* bound: calls of Create and Remove
  Absent          \* no such file

BYTES_1LEVEL == NumDirect * SectorSize
BYTES_2LEVEL == NumDirect * BYTES_1LEVEL
BYTES_3LEVEL == NumDirect * BYTES_2LEVEL
BYTES_4LEVEL == NumDirect * BYTES_3LEVEL

ASSUME HeaderAssumption ==
  /\ NumSectors \in Nat /\ SectorSize \in Nat \ {0} /\ NumDirect \in Nat \ {0, 1}
  /\ Sizes \subseteq Nat /\ MaxCalls \in Nat
  /\ NumSectors * SectorSize < BYTES_4LEVEL

VARIABLES
  disk,           \* sector -> the FileHeader it holds
  freeMap,        \* the bitmap file: the sectors marked
  directory,      \* file -> the sector of its header, or Absent
  aborted,        \* an ASSERT has failed, or memory beyond a header was used,
                  \* and nothing more is said of the kernel
  calls           \* how many calls of Create and Remove there have been

vars == <<disk, freeMap, directory, aborted, calls>>

divRoundUp(n, s) == (n \div s) + (IF n % s > 0 THEN 1 ELSE 0)

Sectors == 0 .. NumSectors - 1

(* The constructor; and a sector that CleanDiskSector has zeroed.           *)
NewHeader == [numBytes |-> -1, numSectors |-> -1, dataSectors |-> [i \in 1 .. NumDirect |-> -1]]
ZeroHeader == [numBytes |-> 0, numSectors |-> 0, dataSectors |-> [i \in 1 .. NumDirect |-> 0]]

(* The bytes below one entry of a header for more than BYTES_1LEVEL bytes.  *)
Span(numBytes) ==
  CASE numBytes > BYTES_3LEVEL -> BYTES_3LEVEL
    [] numBytes > BYTES_2LEVEL -> BYTES_2LEVEL
    [] OTHER -> BYTES_1LEVEL

-----------------------------------------------------------------------------
(* Bitmap::FindAndSet and NumClear, on the set of marked sectors.           *)
FindAndSet(map) ==
  IF map = Sectors THEN [sector |-> -1, map |-> map]
  ELSE LET s == Min(Sectors \ map) IN [sector |-> s, map |-> map \union {s}]

(* Mutant: only whole words of the bitmap are counted. *)
NumClear_whole_words(map) == (Cardinality(Sectors \ map) \div 4) * 4

NumClear(map) == Cardinality(Sectors \ map)

RECURSIVE Allocate(_, _), AllocateSubHeaders(_, _, _, _)

(* FileHeader::Allocate on the state st = [map, disk, abort] of the call:   *)
(* the state after it, the header and the result.                           *)
Allocate(st, fileSize) ==
  LET numSectors == divRoundUp(fileSize, SectorSize)
      hdr == [NewHeader EXCEPT !.numBytes = fileSize, !.numSectors = numSectors]
      Place(p, i) == LET found == FindAndSet(p.map)
                     IN  [map |-> found.map, blocks |-> Append(p.blocks, found.sector)]
      placed == FoldLeft(Place, [map |-> st.map, blocks |-> << >>], [i \in 1 .. numSectors |-> i])
  IN  IF NumClear(st.map) < numSectors THEN [st |-> st, hdr |-> hdr, result |-> FALSE]
      ELSE IF fileSize > BYTES_1LEVEL THEN AllocateSubHeaders(st, hdr, fileSize, 1)
      ELSE [st |-> [st EXCEPT !.map = placed.map,
                              !.disk = [s \in Sectors |-> IF s \in ToSet(placed.blocks)
                                                          THEN ZeroHeader ELSE @[s]]],
            hdr |-> [hdr EXCEPT !.dataSectors =
                       [i \in 1 .. NumDirect |-> IF i <= numSectors THEN placed.blocks[i] ELSE -1]],
            result |-> TRUE]

(* The while loop of Allocate, from entry i on, with left bytes to place.   *)
(* The result of the inner Allocate is dropped (AllocateSubHeader), and     *)
(* WriteBack to sector -1 fails an ASSERT of the disk.                      *)
AllocateSubHeaders(st, hdr, left, i) ==
  IF left <= 0 \/ st.abort THEN [st |-> st, hdr |-> hdr, result |-> TRUE]
  ELSE LET span == Span(hdr.numBytes)
           found == FindAndSet(st.map)
           sub == Allocate([st EXCEPT !.map = found.map], IF left < span THEN left ELSE span)
           written == IF found.sector = -1 THEN [sub.st EXCEPT !.abort = TRUE]
                      ELSE [sub.st EXCEPT !.disk[found.sector] = sub.hdr]
       IN  AllocateSubHeaders(written, [hdr EXCEPT !.dataSectors[i] = found.sector],
                              left - span, i + 1)

RECURSIVE Deallocate(_, _)

(* FileHeader::Deallocate on st = [map, disk, abort]: the state after it.    *)
(* Reading sector -1, or beyond dataSectors, and testing bit -1 abort.      *)
Deallocate(st, hdr) ==
  LET Entry(i) == IF i <= NumDirect THEN hdr.dataSectors[i] ELSE -1
      FreeSub(s, i) == IF s.abort \/ Entry(i) = -1 THEN [s EXCEPT !.abort = TRUE]
                       ELSE Deallocate(s, s.disk[Entry(i)])
      Free(s, i) == IF s.abort \/ Entry(i) \notin s.map THEN [s EXCEPT !.abort = TRUE]
                    ELSE [s EXCEPT !.map = @ \ {Entry(i)}]
  IN  IF hdr.numBytes > BYTES_1LEVEL
      THEN FoldLeft(FreeSub, st, [i \in 1 .. divRoundUp(hdr.numSectors, NumDirect) |-> i])
      ELSE FoldLeft(Free, st, [i \in 1 .. hdr.numSectors |-> i])

RECURSIVE ByteToSector_wrong_span(_, _, _), ByteToSector(_, _, _)

(* Mutant: the offset within the entry is not made relative to it when the  *)
(* file has three levels or more.                                           *)
ByteToSector_wrong_span(d, hdr, offset) ==
  IF hdr.numBytes > BYTES_1LEVEL
  THEN LET span == Span(hdr.numBytes)
       IN  ByteToSector_wrong_span(d, d[hdr.dataSectors[offset \div span + 1]],
                                   offset % BYTES_1LEVEL)
  ELSE hdr.dataSectors[offset \div SectorSize + 1]

(* FileHeader::ByteToSector *)
ByteToSector(d, hdr, offset) ==
  IF hdr.numBytes > BYTES_1LEVEL
  THEN LET span == Span(hdr.numBytes)
           entry_number == offset \div span
       IN  ByteToSector(d, d[hdr.dataSectors[entry_number + 1]], offset - span * entry_number)
  ELSE hdr.dataSectors[offset \div SectorSize + 1]

-----------------------------------------------------------------------------
(* A formatted disk: sectors 0 and 1 hold the headers of the bitmap and the *)
(* directory, whose data blocks are left out.                               *)
Init ==
  /\ disk = [s \in Sectors |-> ZeroHeader]
  /\ freeMap = {0, 1}
  /\ directory = [f \in Files |-> Absent]
  /\ aborted = FALSE
  /\ calls = 0

Called == ~aborted /\ calls < MaxCalls /\ calls' = calls + 1

(* Mutant: Create does not write the bitmap back. *)
Create_loses_bitmap(f, size) ==
  LET header == FindAndSet(freeMap)
      a == Allocate([map |-> header.map, disk |-> disk, abort |-> FALSE], size)
      success == header.sector # -1 /\ a.result
  IN  /\ Called /\ directory[f] = Absent
      /\ UNCHANGED <<aborted, freeMap>>
      /\ IF success
         THEN /\ disk' = [a.st.disk EXCEPT ![header.sector] = a.hdr]
              /\ directory' = [directory EXCEPT ![f] = header.sector]
         ELSE UNCHANGED <<disk, directory>>

(* FileSystem::Create of a new name in a directory with room.  Only a       *)
(* successful one writes the header, the directory and the bitmap back;     *)
(* index sectors and cleaned data sectors were written on the way.          *)
Create(f, size) ==
  LET header == FindAndSet(freeMap)
      a == Allocate([map |-> header.map, disk |-> disk, abort |-> FALSE], size)
      success == header.sector # -1 /\ a.result
  IN  /\ Called /\ directory[f] = Absent
      /\ IF header.sector = -1
         THEN UNCHANGED <<disk, freeMap, directory, aborted>>
         ELSE /\ aborted' = a.st.abort
              /\ IF success /\ ~a.st.abort
                 THEN /\ disk' = [a.st.disk EXCEPT ![header.sector] = a.hdr]
                      /\ freeMap' = a.st.map
                      /\ directory' = [directory EXCEPT ![f] = header.sector]
                 ELSE disk' = a.st.disk /\ UNCHANGED <<freeMap, directory>>

(* Mutant: the bit of the header's own sector is not cleared. *)
RemoveFile_keeps_header(f) ==
  LET d == Deallocate([map |-> freeMap, disk |-> disk, abort |-> FALSE], disk[directory[f]])
  IN  /\ Called /\ directory[f] # Absent
      /\ aborted' = d.abort
      /\ IF d.abort THEN UNCHANGED <<freeMap, directory>>
         ELSE freeMap' = d.map /\ directory' = [directory EXCEPT ![f] = Absent]
      /\ UNCHANGED disk

(* FileSystem::Remove of a file. *)
RemoveFile(f) ==
  LET sector == directory[f]
      d == Deallocate([map |-> freeMap, disk |-> disk, abort |-> FALSE], disk[sector])
  IN  /\ Called /\ directory[f] # Absent
      /\ aborted' = d.abort
      /\ IF d.abort THEN UNCHANGED <<freeMap, directory>>
         ELSE /\ freeMap' = d.map \ {sector}
              /\ directory' = [directory EXCEPT ![f] = Absent]
      /\ UNCHANGED disk

Next == \E f \in Files : RemoveFile(f) \/ \E size \in Sizes : Create(f, size)

Spec == Init /\ [][Next]_vars

-----------------------------------------------------------------------------

Present == {f \in Files : directory[f] # Absent}
Header(f) == disk[directory[f]]

RECURSIVE Tree(_)

(* The sectors of the index tree of a header, in the order of their first   *)
(* visit, as <<kind, sector>>.                                              *)
Tree(hdr) ==
  LET entries == SelectSeq(hdr.dataSectors, LAMBDA s : s # -1)
  IN  IF hdr.numBytes > BYTES_1LEVEL
      THEN FlattenSeq([i \in DOMAIN entries |-> <<<<"index", entries[i]>>>> \o Tree(disk[entries[i]])])
      ELSE [i \in 1 .. (IF hdr.numSectors < Len(entries) THEN hdr.numSectors ELSE Len(entries)) |->
              <<"data", entries[i]>>]

TreeSectors(hdr) == [i \in DOMAIN Tree(hdr) |-> Tree(hdr)[i][2]]
DataBlocks(hdr) == LET d == SelectSeq(Tree(hdr), LAMBDA n : n[1] = "data")
                   IN  [i \in DOMAIN d |-> d[i][2]]

(* Every sector has one owner: within a file no sector is used twice, as     *)
(* index, data or header; no two files share one; and all of them are        *)
(* marked, so that no later Allocate can hand them out.  This holds through  *)
(* allocations that ran out of space and removals that leak.                 *)
OneOwner ==
  /\ \A f \in Present :
       LET s == <<directory[f]>> \o TreeSectors(Header(f))
       IN  IsInjective(s) /\ ToSet(s) \subseteq freeMap \ {0, 1}
  /\ \A f, g \in Present : f # g =>
       ({directory[f]} \union ToSet(TreeSectors(Header(f)))) \intersect
       ({directory[g]} \union ToSet(TreeSectors(Header(g)))) = {}

(* ByteToSector finds, for every byte of a file, the block that Allocate     *)
(* placed it in: in a file with all its blocks, byte b is in the block       *)
(* b / SectorSize of the index tree, at every depth.                         *)
ByteToSectorOK ==
  \A f \in Present :
    LET blocks == DataBlocks(Header(f))
    IN  Len(blocks) = Header(f).numSectors =>
          \A b \in 0 .. Header(f).numBytes - 1 :
            ByteToSector(disk, Header(f), b) = blocks[b \div SectorSize + 1]

RECURSIVE Needed(_)

(* The sectors a file of n bytes takes, apart from its header: its data and *)
(* its index, one sector for every entry of a header above the last level.  *)
Needed(n) ==
  IF n <= BYTES_1LEVEL THEN divRoundUp(n, SectorSize)
  ELSE LET span == Span(n)
           Entry(k) == 1 + Needed(IF n - k * span < span THEN n - k * span ELSE span)
       IN  FoldLeft(LAMBDA sum, k : sum + Entry(k - 1), 0, [k \in 1 .. divRoundUp(n, span) |-> k])

(* A file that fits, its index counted, is created, at every depth of the   *)
(* tree and down to the last free sector: Create succeeds, the file has all *)
(* its blocks, and no more sectors are marked than the file needs.          *)
CreatedComplete ==
  [][\A f \in Files, size \in Sizes :
       Create(f, size) /\ Cardinality(Sectors \ freeMap) > Needed(size) =>
         /\ ~aborted' /\ directory'[f] # Absent
         /\ Len(DataBlocks(Header(f))') * SectorSize >= size
         /\ Cardinality(freeMap') = Cardinality(freeMap) + Needed(size) + 1]_vars

(* The removal of a complete file of up to two levels succeeds and frees     *)
(* every sector of it except those of the index, which stay marked.          *)
RemovesComplete ==
  [][\A f \in Present :
       /\ RemoveFile(f)
       /\ Len(DataBlocks(Header(f))) = Header(f).numSectors /\ Header(f).numBytes <= BYTES_2LEVEL
       => /\ ~aborted'
          /\ freeMap' = freeMap \ ({directory[f]} \union ToSet(DataBlocks(Header(f))))]_vars
=============================================================================
