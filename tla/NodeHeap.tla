------------------------------ MODULE NodeHeap ------------------------------
(***************************************************************************)
(* The intrusive doubly linked list of pagemanager/node.h, as operators on *)
(* a heap of list cells.                                                   *)
(*                                                                         *)
(* A cell is either a node_item_t embedded in an element (Nodes) or the    *)
(* node_item_t "root" embedded in a node_list_t (Roots): a list is named   *)
(* by its root, and the ring of a list runs through that root.  The heap   *)
(* maps the fields of every cell, so that a list function applied to a     *)
(* node of another list has exactly the effect of the C code, whether or   *)
(* not the result is still a set of well formed rings.                     *)
(***************************************************************************)
EXTENDS Integers, FiniteSets, Sequences

CONSTANTS
  Nodes,   \* the embedded list items
  Roots,   \* the lists, each named by its root item
  NULL,    \* the null pointer
  LenMod   \* the values of the uint16_t "len" are 0 .. LenMod - 1

ASSUME CellAssumption ==
  /\ IsFiniteSet(Nodes)
  /\ Nodes \cap Roots = {}
  /\ NULL \notin Nodes \cup Roots

(* The counter can hold the number of items there are: with 2^16 values,   *)
(* fewer than 65536 items exist in the memory of the device.               *)
ASSUME LenAssumption == LenMod \in Nat /\ Cardinality(Nodes) < LenMod

Cells == Nodes \cup Roots

Heaps == [owner : [Nodes -> Roots \cup {NULL}],
          prev  : [Cells -> Cells \cup {NULL}],
          next  : [Cells -> Cells \cup {NULL}],
          len   : [Roots -> 0 .. LenMod - 1]]

-----------------------------------------------------------------------------
(* The list functions, as functions from heaps to heaps. *)

Inc(k) == (k + 1) % LenMod
Dec(k) == IF k = 0 THEN LenMod - 1 ELSE k - 1

(* Statically allocated items start zeroed; node_list_init closes each     *)
(* root's ring on itself.                                                  *)
EmptyHeap ==
  [owner |-> [n \in Nodes |-> NULL],
   prev  |-> [c \in Cells |-> IF c \in Roots THEN c ELSE NULL],
   next  |-> [c \in Cells |-> IF c \in Roots THEN c ELSE NULL],
   len   |-> [l \in Roots |-> 0]]

(* node_list_delete_item: without effect on a node another list owns. *)
Unlinked(h, l, n) ==
  [owner |-> [h.owner EXCEPT ![n] = NULL],
   prev  |-> [h.prev EXCEPT ![h.next[n]] = h.prev[n], ![n] = NULL],
   next  |-> [h.next EXCEPT ![h.prev[n]] = h.next[n], ![n] = NULL],
   len   |-> [h.len EXCEPT ![l] = Dec(@)]]

(* Slip: the owner is not looked at. *)
DeleteItemUnasked(h, l, n) == Unlinked(h, l, n)

DeleteItem(h, l, n) == IF h.owner[n] = l THEN Unlinked(h, l, n) ELSE h

(* node_list_add_head and node_list_add_tail write the links of the node   *)
(* whatever they were.                                                     *)
AddHead(h, l, n) ==
  [owner |-> [h.owner EXCEPT ![n] = l],
   prev  |-> [h.prev EXCEPT ![h.next[l]] = n, ![n] = l],
   next  |-> [h.next EXCEPT ![n] = h.next[l], ![l] = n],
   len   |-> [h.len EXCEPT ![l] = Inc(@)]]

AddTail(h, l, n) ==
  [owner |-> [h.owner EXCEPT ![n] = l],
   prev  |-> [h.prev EXCEPT ![n] = h.prev[l], ![l] = n],
   next  |-> [h.next EXCEPT ![h.prev[l]] = n, ![n] = l],
   len   |-> [h.len EXCEPT ![l] = Inc(@)]]

(* Slip: the length is not looked at. *)
GetHeadUnasked(h, l) == h.next[l]
GetTailUnasked(h, l) == h.prev[l]

(* node_list_get_head, node_list_get_tail: "len" decides, not the ring. *)
GetHead(h, l) == IF h.len[l] # 0 THEN h.next[l] ELSE NULL
GetTail(h, l) == IF h.len[l] # 0 THEN h.prev[l] ELSE NULL
IsEmpty(h, l) == h.len[l] = 0

(* The heap node_list_take_head and node_list_take_tail leave behind when  *)
(* the list is not empty (they return GetHead and GetTail).                *)
HeadTaken(h, l) ==
  LET head == h.next[l]
  IN  [owner |-> [h.owner EXCEPT ![head] = NULL],
       prev  |-> [h.prev EXCEPT ![h.next[head]] = l, ![head] = NULL],
       next  |-> [h.next EXCEPT ![l] = h.next[head], ![head] = NULL],
       len   |-> [h.len EXCEPT ![l] = Dec(@)]]

TailTaken(h, l) ==
  LET tail == h.prev[l]
  IN  [owner |-> [h.owner EXCEPT ![tail] = NULL],
       prev  |-> [h.prev EXCEPT ![l] = h.prev[tail], ![tail] = NULL],
       next  |-> [h.next EXCEPT ![h.prev[tail]] = l, ![tail] = NULL],
       len   |-> [h.len EXCEPT ![l] = Dec(@)]]

-----------------------------------------------------------------------------
(* Walking a list.  __list_for_each follows "next" from the root until it  *)
(* meets the root again: the cells it can meet are the least set that      *)
(* holds the root's successor and, with every cell but the root, the       *)
(* successor of that cell.                                                 *)

ClosedWalk(h, l, S) ==
  /\ h.next[l] \in S
  /\ \A c \in S \cap Cells : c # l => h.next[c] \in S

Walked(h, l) ==
  LET closed == {S \in SUBSET (Cells \cup {NULL}) : ClosedWalk(h, l, S)}
  IN  {c \in Cells \cup {NULL} : \A S \in closed : c \in S}

(* A walk from l looking for node n: it stops at n if it meets n; else it  *)
(* ends when it returns to the root; a null successor is dereferenced; and *)
(* a walk that does none of these never ends.                              *)
WalkResult(h, l, n) ==
  LET met == Walked(h, l)
  IN  CASE n \in met                                       -> "found"
        [] n \notin met /\ NULL \in met                    -> "crash"
        [] n \notin met /\ NULL \notin met /\ l \in met     -> "absent"
        [] OTHER                                           -> "hang"

(* The items a list owns. *)
Members(h, l) == {n \in Nodes : h.owner[n] = l}

(* The ring of a list read as a sequence: position 0 is the root, and so   *)
(* is the position after the last item.                                    *)
At(s, l, i) == IF i \in DOMAIN s THEN s[i] ELSE l

InRingOrder(h, l, s) ==
  /\ \A i, j \in DOMAIN s : s[i] = s[j] => i = j
  /\ \A i \in 0 .. Len(s) : h.next[At(s, l, i)] = At(s, l, i + 1)

RingOrders(h, l) ==
  {s \in [1 .. Cardinality(Members(h, l)) -> Members(h, l)] : InRingOrder(h, l, s)}

(* The elements of a list in ring order.  In well formed rings there is    *)
(* one such sequence.                                                      *)
Contents(h, l) == CHOOSE s \in RingOrders(h, l) : TRUE

-----------------------------------------------------------------------------
(* What a heap must satisfy for the lists to be lists. *)

(* Links are symmetric and stay within a list. *)
RingsLinked(h) ==
  \A l \in Roots : \A c \in Members(h, l) \cup {l} :
    /\ h.next[c] \in Members(h, l) \cup {l}
    /\ h.prev[c] \in Members(h, l) \cup {l}
    /\ h.prev[h.next[c]] = c
    /\ h.next[h.prev[c]] = c

(* A node outside every list points nowhere. *)
FreeDetached(h) ==
  \A n \in Nodes : h.owner[n] = NULL => h.prev[n] = NULL /\ h.next[n] = NULL

(* One ring per list: every member is met by a walk from the root. *)
RingsConnected(h) == \A l \in Roots : Members(h, l) \subseteq Walked(h, l)

LengthsExact(h) == \A l \in Roots : h.len[l] = Cardinality(Members(h, l))

WellFormed(h) ==
  RingsLinked(h) /\ FreeDetached(h) /\ RingsConnected(h) /\ LengthsExact(h)
=============================================================================
