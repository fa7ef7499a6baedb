------------------------------- MODULE MinHeap -------------------------------
(***************************************************************************)
(* The binary min-heap of src/kernel/min_heap.c: the arrays keys and vals  *)
(* are one sequence of entries [key, item], so index i of the code is      *)
(* index i + 1.  A sift loop is the sequence of its rounds: the state after *)
(* a round is the heap and the index node_ind, and a round of a loop that  *)
(* has ended changes nothing.                                              *)
(***************************************************************************)
EXTENDS Integers, Sequences

CONSTANT Items              \* what the heap stores beside each key

Heaps == Seq([key : Nat, item : Items])
Loops == [heap : Heaps, at : Nat]

Parent(i) == i \div 2
Swap(h, i, j) == [h EXCEPT ![i] = h[j], ![j] = h[i]]
Key(h, i) == h[i].key

\* A round of heap_fixup: the entry climbs while its parent's key is larger.
Up[s \in Loops] ==
  IF s.at = 1 \/ Key(s.heap, Parent(s.at)) <= Key(s.heap, s.at) THEN s
  ELSE [heap |-> Swap(s.heap, s.at, Parent(s.at)), at |-> Parent(s.at)]

\* heap_fixup, which has at most as many rounds as the index it starts at
HeapFixup(h, i) ==
  LET round[k \in 0..i] == IF k = 0 THEN [heap |-> h, at |-> i] ELSE Up[round[k - 1]]
  IN round[i].heap

\* The child heap_fixdown compares with: the right one only when strictly smaller.
SmallerChild(h, i) ==
  IF 2 * i + 1 <= Len(h) /\ Key(h, 2 * i + 1) < Key(h, 2 * i) THEN 2 * i + 1 ELSE 2 * i

\* A round of heap_fixdown: the entry sinks while its smaller child's key is smaller.
Down[s \in Loops] ==
  LET c == SmallerChild(s.heap, s.at) IN
  IF 2 * s.at > Len(s.heap) \/ Key(s.heap, s.at) <= Key(s.heap, c) THEN s
  ELSE [heap |-> Swap(s.heap, s.at, c), at |-> c]

\* heap_fixdown
HeapFixdown(h, i) ==
  LET round[k \in 0..Len(h)] == IF k = 0 THEN [heap |-> h, at |-> i] ELSE Down[round[k - 1]]
  IN round[Len(h)].heap

\* (mutant) the new entry stays at the end
InsertWithoutFixup(h, k, x) == Append(h, [key |-> k, item |-> x])

\* min_heap_insert of a heap that is not full
Insert(h, k, x) == HeapFixup(Append(h, [key |-> k, item |-> x]), Len(h) + 1)

\* min_heap_pop of a heap that is not empty: the last entry replaces the root.
Pop(h) ==
  IF Len(h) = 1 THEN <<>>
  ELSE HeapFixdown([SubSeq(h, 1, Len(h) - 1) EXCEPT ![1] = h[Len(h)]], 1)

\* No entry is smaller than its parent.
IsHeap(h) == \A i \in 2..Len(h) : Key(h, Parent(i)) <= Key(h, i)
=============================================================================
