-------------------------------- MODULE List --------------------------------
(***************************************************************************)
(* lib/list.h and lib/list.cc: the singly linked List<T> and SortedList<T> *)
(* every queue of the kernel is made of.  A list is a record: the pointers *)
(* first and last, the count numInList, and the heap its ListElements live *)
(* in, a function from the elements allocated (1, 2, ...) to their fields. *)
(* The operations update pointers as the code does; Items is what the list *)
(* stands for.                                                             *)
(***************************************************************************)
EXTENDS Naturals, Sequences, FiniteSets, Functions, TLC

NULL == 0

\* List::List, and the element "new ListElement" returns.
NewList == [first |-> NULL, last |-> NULL, numInList |-> 0, heap |-> <<>>]
Fresh(l) == CHOOSE e \in 1 .. Cardinality(DOMAIN l.heap) + 1 : e \notin DOMAIN l.heap
Allocate(l, item, next) == Fresh(l) :> [item |-> item, next |-> next] @@ l.heap

IsEmpty(l) == l.numInList = 0
Front(l) == l.heap[l.first].item

\* The elements from e on, following next; a walk visits at most n of them and
\* stops at a pointer to no element.
RECURSIVE Walk(_, _, _)
Walk(l, e, n) ==
  IF n = 0 \/ e \notin DOMAIN l.heap THEN <<>>
  ELSE <<e>> \o Walk(l, l.heap[e].next, n - 1)

Elements(l) == Walk(l, l.first, Cardinality(DOMAIN l.heap))
Items(l) == LET es == Elements(l) IN [n \in DOMAIN es |-> l.heap[es[n]].item]

IsInList(l, item) == \E n \in DOMAIN Items(l) : Items(l)[n] = item

\* List::Append.  (Its argument is not in the list yet: the code asserts it.)
Append_(l, item) ==
  IF IsEmpty(l) THEN [l EXCEPT !.heap = Allocate(l, item, NULL), !.first = Fresh(l),
                               !.last = Fresh(l), !.numInList = @ + 1]
  ELSE [l EXCEPT !.heap = [Allocate(l, item, NULL) EXCEPT ![l.last].next = Fresh(l)],
                 !.last = Fresh(l), !.numInList = @ + 1]

\* List::Prepend.
Prepend(l, item) ==
  [l EXCEPT !.heap = Allocate(l, item, l.first), !.first = Fresh(l),
            !.last = IF IsEmpty(l) THEN Fresh(l) ELSE @, !.numInList = @ + 1]

Free(l, e) == Restrict(l.heap, DOMAIN l.heap \ {e})

RemoveFront_keeps_last(l) ==
  [l EXCEPT !.first = l.heap[l.first].next, !.numInList = @ - 1, !.heap = Free(l, l.first)]

\* List::RemoveFront, of a list that is not empty; Front(l) is what it returns.
RemoveFront(l) ==
  LET only == l.first = l.last
  IN [l EXCEPT !.first = IF only THEN NULL ELSE l.heap[l.first].next,
               !.last = IF only THEN NULL ELSE @,
               !.numInList = @ - 1, !.heap = Free(l, l.first)]

\* List::Remove's unlinking of ptr, which follows prev.
Unlink(l, prev, ptr) ==
  LET next == l.heap[ptr].next
  IN [l EXCEPT !.heap = [Free(l, ptr) EXCEPT ![prev].next = next],
               !.last = IF next = NULL THEN prev ELSE @, !.numInList = @ - 1]

\* List::Remove, of an item that is in the list.
Remove(l, item) ==
  IF item = Front(l) THEN RemoveFront(l)
  ELSE LET es == Elements(l)
           n == CHOOSE k \in 2 .. Len(es) : l.heap[es[k]].item = item
       IN Unlink(l, es[n - 1], es[n])

\* SortedList::Insert: before the first element that compares as bigger, hence
\* behind every element that compares as equal.  bigger holds the items of the list
\* that the list's compare function calls bigger.
Insert(l, item, bigger) ==
  LET es == Elements(l)
      places == {k \in DOMAIN es : l.heap[es[k]].item \in bigger}
      n == CHOOSE k \in places : \A j \in places : k <= j
  IN IF places = {} THEN Append_(l, item)
     ELSE IF n = 1 THEN [l EXCEPT !.heap = Allocate(l, item, l.first), !.first = Fresh(l),
                                  !.numInList = @ + 1]
     ELSE [l EXCEPT !.heap = [Allocate(l, item, es[n]) EXCEPT ![es[n - 1]].next = Fresh(l)],
                    !.numInList = @ + 1]

\* List::SanityCheck, and no element is leaked or reached twice: first leads to
\* last through numInList elements, which are all there are.
SanityCheck(l) ==
  LET es == Elements(l)
  IN /\ Len(es) = l.numInList
     /\ DOMAIN l.heap = {es[n] : n \in DOMAIN es}
     /\ IF es = <<>> THEN l.first = NULL /\ l.last = NULL
        ELSE l.last = es[Len(es)] /\ l.heap[l.last].next = NULL

=============================================================================
