----------------------------- MODULE HashTable ------------------------------
(***************************************************************************)
(* lib/hash.cc: a table of buckets, each a List, that grows when it is     *)
(* loaded beyond ResizeRatio items a bucket, and the HashIterator that     *)
(* steps through it.  An item is its own key (getKey) and hashes to itself *)
(* (HashInt of lib/libtest.cc).  contents is the set the table stands for. *)
(***************************************************************************)
EXTENDS List, Integers, FiniteSetsExt

CONSTANTS Keys,             \* the items
          InitialBuckets, ResizeRatio, IncreaseSizeBy, \* 4, 3 and 4 in the code
          MaxBuckets        \* bound: no growth beyond so many buckets

VARIABLES buckets,    \* HashTable::buckets, from index 0
          numItems,   \* HashTable::numItems
          contents,   \* the items inserted and not removed since
          iter        \* a HashIterator: its bucket, its element, and what it visited

vars == <<buckets, numItems, contents, iter>>

ASSUME SizesAssumption ==
  /\ Keys \subseteq Nat /\ InitialBuckets \in Nat \ {0}
  /\ ResizeRatio \in Nat \ {0} /\ IncreaseSizeBy \in Nat \ {0, 1}

-----------------------------------------------------------------------------
NumBuckets(bs) == Cardinality(DOMAIN bs)
HashValue(bs, key) == key % NumBuckets(bs)
InitBuckets(sz) == [b \in 0 .. sz - 1 |-> NewList]

\* FindInBucket and Find.
FindInBucket(bs, b, key) == IsInList(bs[b], key)
Find(bs, key) == FindInBucket(bs, HashValue(bs, key), key)

\* ReHash: bucket by bucket, front first, into a table IncreaseSizeBy times the size.
RECURSIVE Move(_, _)
Move(items, bs) ==
  IF items = <<>> THEN bs
  ELSE Move(Tail(items), [bs EXCEPT ![HashValue(bs, Head(items))] = Append_(@, Head(items))])

RECURSIVE AllItems(_, _)
AllItems(bs, b) == IF b = NumBuckets(bs) THEN <<>> ELSE Items(bs[b]) \o AllItems(bs, b + 1)

ReHash(bs) == Move(AllItems(bs, 0), InitBuckets(NumBuckets(bs) * IncreaseSizeBy))

Grown(bs, n) == IF n \div NumBuckets(bs) >= ResizeRatio THEN ReHash(bs) ELSE bs

\* The buckets of a table of n items after Insert, and after Remove.
Inserted(bs, n, key) == LET g == Grown(bs, n) IN [g EXCEPT ![HashValue(g, key)] = Append_(@, key)]
Removed(bs, key) == [bs EXCEPT ![HashValue(bs, key)] = Remove(@, key)]

\* HashTable::Insert and Remove; the assertions at their head are their guards.
\* The table is not changed under an iterator.
NoIterator(bs) == [bucket |-> NumBuckets(bs), element |-> NULL, visited |-> <<>>]

InsertItem_loses_on_growth(key) ==
  /\ iter.bucket = NumBuckets(buckets) /\ NumBuckets(Grown(buckets, numItems)) <= MaxBuckets
  /\ ~Find(buckets, key)
  /\ buckets' = IF Grown(buckets, numItems) # buckets THEN Grown(buckets, numItems)
                ELSE Inserted(buckets, numItems, key)
  /\ numItems' = numItems + 1
  /\ contents' = contents \cup {key}
  /\ iter' = NoIterator(buckets')

InsertItem(key) ==
  /\ iter.bucket = NumBuckets(buckets) /\ NumBuckets(Grown(buckets, numItems)) <= MaxBuckets
  /\ ~Find(buckets, key)
  /\ buckets' = Inserted(buckets, numItems, key)
  /\ numItems' = numItems + 1
  /\ contents' = contents \cup {key}
  /\ iter' = NoIterator(buckets')

RemoveItem(key) ==
  /\ iter.bucket = NumBuckets(buckets)
  /\ Find(buckets, key)
  /\ buckets' = Removed(buckets, key)
  /\ numItems' = numItems - 1
  /\ contents' = contents \ {key}
  /\ iter' = NoIterator(buckets')

\* HashIterator: FindNextFullBucket, the constructor, and Next after visiting Item.
FindNextFullBucket(b) ==
  LET full == {x \in DOMAIN buckets : x >= b /\ ~IsEmpty(buckets[x])}
  IN IF full = {} THEN NumBuckets(buckets) ELSE CHOOSE x \in full : \A y \in full : x <= y

At(b) == IF b < NumBuckets(buckets) THEN buckets[b].first ELSE NULL

StartIterator ==
  /\ iter.bucket = NumBuckets(buckets) /\ contents # {}
  /\ LET b == FindNextFullBucket(0) IN iter' = [bucket |-> b, element |-> At(b), visited |-> <<>>]
  /\ UNCHANGED <<buckets, numItems, contents>>

NextBucket_skips(b) == FindNextFullBucket(b + 2)
NextBucket(b) == FindNextFullBucket(b + 1)

IteratorNext ==
  /\ iter.bucket < NumBuckets(buckets)
  /\ LET cell == buckets[iter.bucket].heap[iter.element]
         b == IF cell.next # NULL THEN iter.bucket ELSE NextBucket(iter.bucket)
     IN iter' = [bucket |-> b, element |-> IF cell.next # NULL THEN cell.next ELSE At(b),
                 visited |-> Append(iter.visited, cell.item)]
  /\ UNCHANGED <<buckets, numItems, contents>>

Init ==
  /\ buckets = InitBuckets(InitialBuckets) /\ numItems = 0 /\ contents = {}
  /\ iter = NoIterator(buckets)

Next == (\E k \in Keys : InsertItem(k) \/ RemoveItem(k)) \/ StartIterator \/ IteratorNext

Spec == Init /\ [][Next]_vars

-----------------------------------------------------------------------------
\* HashTable::SanityCheck: every bucket is a legal list, every item is in the bucket
\* it hashes to, and the count is the number of items in the buckets.
SanityCheckTable(bs, n) ==
  /\ \A b \in DOMAIN bs :
       SanityCheck(bs[b]) /\ \A i \in DOMAIN Items(bs[b]) : HashValue(bs, Items(bs[b])[i]) = b
  /\ n = Len(AllItems(bs, 0))

\* SanityCheck's assertions hold after any calls: Insert, Remove and ReHash change
\* lists, pointers and counts separately.
TableSane == SanityCheckTable(buckets, numItems)

\* Find answers for exactly the items that were inserted and not removed, across
\* any number of ReHash calls.
FindsExactly == \A k \in Keys : Find(buckets, k) = (k \in contents)

\* An iterator that is done has visited every item of the table, each once.
IteratorComplete ==
  [][iter.bucket < NumBuckets(buckets) /\ iter'.bucket = NumBuckets(buckets)
       => /\ Len(iter'.visited) = numItems
          /\ {iter'.visited[n] : n \in DOMAIN iter'.visited} = contents]_vars
=============================================================================
