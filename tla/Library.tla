------------------------------ MODULE Library -------------------------------
(***************************************************************************)
(* The classes of lib/: bitmaps (lib/bitmap.cc), lists, sorted lists and   *)
(* hash tables, one of each, used one after the other as LibSelfTest       *)
(* (lib/libtest.cc) does, but with any calls in any order.  Each class's   *)
(* SelfTest is an operator: whether its assertions hold.                   *)
(***************************************************************************)
EXTENDS HashTable

Seqs == INSTANCE SequencesExt

CONSTANTS NumBits, BitsInWord, \* 200 and 32
          Entries              \* what the lists hold: <<what is compared, serial number>>

ASSUME BitsAssumption == BitsInWord \in Nat \ {0, 1, 2} /\ NumBits \in Nat /\ NumBits >= BitsInWord

VARIABLES subject, \* the object in use
          map,     \* Bitmap::map, its words from index 0
          marked,  \* the bits marked and not cleared since
          list, sortList,
          held     \* the entries of the list in use: front first in list, oldest
                   \* first in sortList

libVars == <<vars, subject, map, marked, list, sortList, held>>

-----------------------------------------------------------------------------
(* Bitmap. *)
Bits == 0 .. NumBits - 1
NewMap == [w \in 0 .. ((NumBits + BitsInWord - 1) \div BitsInWord) - 1 |-> 0]

Test(m, which) == (m[which \div BitsInWord] \div 2^(which % BitsInWord)) % 2 = 1
Mark(m, which) == IF Test(m, which) THEN m
                  ELSE [m EXCEPT ![which \div BitsInWord] = @ + 2^(which % BitsInWord)]
Clear(m, which) == IF ~Test(m, which) THEN m
                   ELSE [m EXCEPT ![which \div BitsInWord] = @ - 2^(which % BitsInWord)]

NumClear(m) == Cardinality({i \in Bits : ~Test(m, i)})
FindClear(m) == IF NumClear(m) = 0 THEN -1
                ELSE CHOOSE i \in Bits : ~Test(m, i) /\ \A j \in 0 .. i - 1 : Test(m, j)
FindAndSet(m) == IF FindClear(m) = -1 THEN m ELSE Mark(m, FindClear(m))

SelfTestBitmap(m) ==
  LET top == BitsInWord - 1
      m1 == Mark(FindAndSet(m), top)
      m2 == Clear(Clear(Clear(FindAndSet(m1), 0), 1), top)
      Marking[n \in 0 .. NumBits] == IF n = 0 THEN m2 ELSE Mark(Marking[n - 1], n - 1)
  IN /\ NumClear(m) = NumBits /\ FindClear(m) = 0
     /\ Test(m1, 0) /\ Test(m1, top) /\ FindClear(m1) = 1
     /\ FindClear(Marking[NumBits]) = -1

-----------------------------------------------------------------------------
(* The lists. *)
IntCompare(x, y) == IF x[1] < y[1] THEN -1 ELSE IF x[1] = y[1] THEN 0 ELSE 1
Sorted(l, e) == Insert(l, e, {x \in Entries : IntCompare(e, x) < 0})

SanityCheckSorted(l) ==
  SanityCheck(l) /\ \A n \in 1 .. l.numInList - 1 : IntCompare(Items(l)[n], Items(l)[n + 1]) <= 0

\* The virtual Append and SanityCheck, by the class of the list.
VirtualAppend(class, l, e) == IF class = "SortedList" THEN Sorted(l, e) ELSE Append_(l, e)
VirtualSanityCheck(class, l) == IF class = "SortedList" THEN SanityCheckSorted(l) ELSE SanityCheck(l)

\* List::SelfTest with the entries of p, each once: appended, then removed.
SelfTestList(class, l, p) ==
  LET Check(x) == VirtualSanityCheck(class, x)
      Filled[n \in 0 .. Len(p)] == IF n = 0 THEN l ELSE VirtualAppend(class, Filled[n - 1], p[n])
      Emptied[n \in 0 .. Len(p)] == IF n = 0 THEN Filled[Len(p)] ELSE Remove(Emptied[n - 1], p[n])
  IN [left |-> Emptied[Len(p)],
      passed |-> /\ Check(l) /\ IsEmpty(l) /\ l.first = NULL
                 /\ \A n \in DOMAIN p : IsInList(Filled[n], p[n]) /\ ~IsEmpty(Filled[n])
                 /\ Check(Filled[Len(p)])
                 /\ \A n \in DOMAIN p : ~IsInList(Emptied[n], p[n])
                 /\ IsEmpty(Emptied[Len(p)]) /\ Check(Emptied[Len(p)])]

\* SortedList::SelfTest: List's, where Append inserts; then the entries are inserted
\* and taken from the front, in order.
SelfTestSorted(l, p) ==
  LET base == SelfTestList("SortedList", l, p)
      Filled[n \in 0 .. Len(p)] == IF n = 0 THEN base.left ELSE Sorted(Filled[n - 1], p[n])
      Emptied[n \in 0 .. Len(p)] == IF n = 0 THEN Filled[Len(p)] ELSE RemoveFront(Emptied[n - 1])
      q == [n \in DOMAIN p |-> Front(Emptied[n - 1])]
  IN /\ base.passed
     /\ \A n \in DOMAIN p : IsInList(Filled[n], p[n])
     /\ SanityCheckSorted(Filled[Len(p)])
     /\ \A n \in DOMAIN p : ~IsInList(Emptied[n], q[n])
     /\ IsEmpty(Emptied[Len(p)]) /\ SanityCheckSorted(Emptied[Len(p)])
     /\ \A n \in 1 .. Len(p) - 1 : IntCompare(q[n], q[n + 1]) <= 0

\* HashTable::SelfTest of a table with count items: each inserted and found, then
\* removed.
SelfTestTable(bs, count, p) ==
  LET Filled[n \in 0 .. Len(p)] == IF n = 0 THEN bs ELSE Inserted(Filled[n - 1], count + n - 1, p[n])
      Emptied[n \in 0 .. Len(p)] == IF n = 0 THEN Filled[Len(p)] ELSE Removed(Emptied[n - 1], p[n])
  IN /\ SanityCheckTable(bs, count) /\ count = 0
     /\ \A n \in DOMAIN p : Find(Filled[n], p[n]) /\ Find(Emptied[n - 1], p[n])
     /\ SanityCheckTable(Emptied[Len(p)], 0)

-----------------------------------------------------------------------------
Rest == <<vars, subject>>
Contains(entry) == \E n \in DOMAIN held : held[n] = entry
Others(entry) == SelectSeq(held, LAMBDA e : e # entry)

BitmapCall ==
  /\ subject = "bitmap"
  /\ \/ \E i \in Bits : \/ map' = Mark(map, i) /\ marked' = marked \union {i}
                        \/ map' = Clear(map, i) /\ marked' = marked \ {i}
     \/ map' = FindAndSet(map) /\ marked' = marked \union ({FindClear(map)} \ {-1})
  /\ UNCHANGED <<Rest, list, sortList, held>>

ListCall ==
  /\ subject = "list"
  /\ \/ \E e \in Entries : ~Contains(e) /\ list' = Append_(list, e) /\ held' = Append(held, e)
     \/ \E e \in Entries : ~Contains(e) /\ list' = Prepend(list, e) /\ held' = <<e>> \o held
     \/ \E e \in Entries : Contains(e) /\ list' = Remove(list, e) /\ held' = Others(e)
     \/ ~IsEmpty(list) /\ list' = RemoveFront(list) /\ held' = Tail(held)
  /\ UNCHANGED <<Rest, map, marked, sortList>>

SortedListCall ==
  /\ subject = "sortList"
  /\ \/ \E e \in Entries : ~Contains(e) /\ sortList' = Sorted(sortList, e) /\ held' = Append(held, e)
     \/ \E e \in Entries : Contains(e) /\ sortList' = Remove(sortList, e) /\ held' = Others(e)
     \/ ~IsEmpty(sortList) /\ sortList' = RemoveFront(sortList) /\ held' = Others(Front(sortList))
  /\ UNCHANGED <<Rest, map, marked, list>>

HashTableCall == subject = "hashTable" /\ Next /\ UNCHANGED <<subject, map, marked, list, sortList, held>>

\* LibSelfTest goes to the next object when one is empty again.
Empty == marked = {} /\ held = <<>> /\ contents = {}
NextSubject ==
  /\ Empty /\ subject # "hashTable"
  /\ subject' = CASE subject = "bitmap" -> "list" [] subject = "list" -> "sortList" [] OTHER -> "hashTable"
  /\ UNCHANGED <<vars, map, marked, list, sortList, held>>

LibInit ==
  /\ Init /\ subject = "bitmap" /\ map = NewMap /\ marked = {}
  /\ list = NewList /\ sortList = NewList /\ held = <<>>

LibNext == BitmapCall \/ ListCall \/ SortedListCall \/ HashTableCall \/ NextSubject

LibSpec == LibInit /\ [][LibNext]_libVars

-----------------------------------------------------------------------------
\* An object that is empty again after any calls, a hash table that has grown
\* included, is as good as new: all the assertions of its SelfTest hold, whatever
\* the order of the test's values.
SelfTestsPass ==
  Empty =>
    /\ SelfTestBitmap(map)
    /\ \A p \in Seqs!SetToSeqs(Entries) :
         SelfTestList("List", list, p).passed /\ SelfTestSorted(sortList, p)
    /\ \A p \in Seqs!SetToSeqs(Keys) : SelfTestTable(buckets, numItems, p)

\* A bitmap is a set: the bits of its words, up to NumBits, are those marked and not
\* cleared since, the bits of the last word beyond them stay 0, and FindAndSet's
\* answer is the least of the clear ones.
BitmapIsSet ==
  /\ {i \in Bits : Test(map, i)} = marked
  /\ NumClear(map) = NumBits - Cardinality(marked)
  /\ (FindClear(map) = -1 <=> marked = Bits) /\ FindClear(map) \notin marked
  /\ map[NumBits \div BitsInWord] < 2^(NumBits % BitsInWord)

\* The pointers always form a legal list: a list is the sequence its calls make, and
\* a sorted list is sorted, with equal entries in the order they were inserted.
ListsOrdered ==
  /\ SanityCheck(list) /\ SanityCheckSorted(sortList)
  /\ subject = "list" => Items(list) = held
  /\ subject = "sortList" =>
       /\ Len(held) = sortList.numInList
       /\ \A i, j \in DOMAIN held : i < j =>
            LET At_(n) == CHOOSE k \in DOMAIN held : Items(sortList)[k] = held[n]
            IN At_(i) < At_(j) <=> IntCompare(held[i], held[j]) <= 0

\* Each object holds exactly what its calls left in it, in its order, and keeps its
\* pointers and counts sound, across any growth of the table.
ContentsExact == BitmapIsSet /\ ListsOrdered /\ TableSane /\ FindsExactly
=============================================================================
