------------------------------ MODULE NodeList ------------------------------
(***************************************************************************)
(* The list library of pagemanager/node.h as a state machine: one action   *)
(* per function, called by a client that keeps the one rule the functions  *)
(* do not check, never to add an item that a list still owns.              *)
(***************************************************************************)
EXTENDS NodeHeap

VARIABLES
  heap,   \* the fields of every cell
  ret     \* the item the last call returned, or NULL

vars == <<heap, ret>>

TypeOK == heap \in Heaps /\ ret \in Nodes \cup {NULL}

Init == heap = EmptyHeap /\ ret = NULL

(* The client's rule: the functions add a node without looking at it. *)
Addable(n) == heap.owner[n] = NULL

NodeListAddHead(l, n) ==
  /\ Addable(n)
  /\ heap' = AddHead(heap, l, n)
  /\ ret' = NULL

NodeListAddTail(l, n) ==
  /\ Addable(n)
  /\ heap' = AddTail(heap, l, n)
  /\ ret' = NULL

(* Any list may be named: a node of another list is left alone. *)
NodeListDeleteItem(l, n) ==
  /\ heap' = DeleteItem(heap, l, n)
  /\ ret' = NULL

NodeListTakeHead(l) ==
  /\ ret' = GetHead(heap, l)
  /\ heap' = IF IsEmpty(heap, l) THEN heap ELSE HeadTaken(heap, l)

NodeListTakeTail(l) ==
  /\ ret' = GetTail(heap, l)
  /\ heap' = IF IsEmpty(heap, l) THEN heap ELSE TailTaken(heap, l)

NodeListGetHead(l) == ret' = GetHead(heap, l) /\ UNCHANGED heap

NodeListGetTail(l) == ret' = GetTail(heap, l) /\ UNCHANGED heap

Next ==
  \E l \in Roots :
    \/ NodeListTakeHead(l)
    \/ NodeListTakeTail(l)
    \/ NodeListGetHead(l)
    \/ NodeListGetTail(l)
    \/ \E n \in Nodes : \/ NodeListAddHead(l, n)
                        \/ NodeListAddTail(l, n)
                        \/ NodeListDeleteItem(l, n)

Spec == Init /\ [][Next]_vars

-----------------------------------------------------------------------------
(* Every sequence of calls leaves every list a list: symmetric links, one  *)
(* ring per root through exactly the items that name it as their owner, no *)
(* dangling link in a removed item, and a length that counts the ring.     *)
ListsWellFormed == WellFormed(heap)

(* The pointer manipulation implements sequences: every function does to   *)
(* the ring of its list what its namesake does to a sequence, returns what *)
(* that returns, and leaves the other rings alone.                         *)
Abstract ==
  INSTANCE Lists WITH lists <- [l \in Roots |-> Contents(heap, l)]

ActsAsNamed(l) ==
  /\ NodeListTakeHead(l) => Abstract!TakeHead(l)
  /\ NodeListTakeTail(l) => Abstract!TakeTail(l)
  /\ NodeListGetHead(l) => Abstract!GetHead(l)
  /\ NodeListGetTail(l) => Abstract!GetTail(l)
  /\ \A n \in Nodes : /\ NodeListAddHead(l, n) => Abstract!AddHead(l, n)
                      /\ NodeListAddTail(l, n) => Abstract!AddTail(l, n)
                      /\ NodeListDeleteItem(l, n) => Abstract!Delete(l, n)

ImplementsLists == Abstract!Spec /\ [][\A l \in Roots : ActsAsNamed(l)]_vars
=============================================================================
