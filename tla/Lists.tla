-------------------------------- MODULE Lists --------------------------------
(***************************************************************************)
(* What the list library of pagemanager/node.h promises its callers, with  *)
(* no pointer in sight: every list is a sequence of items, an item is in   *)
(* at most one list, deleting through the wrong list does nothing, and the *)
(* functions that return an item return the one at that end, or NULL.      *)
(***************************************************************************)
EXTENDS Naturals, Sequences, SequencesExt

CONSTANTS Nodes, Roots, NULL

VARIABLES
  lists,   \* [Roots -> Seq(Nodes)]
  ret      \* what the last call returned

vars == <<lists, ret>>

In(l, n) == n \in ToSet(lists[l])
Free(n)  == \A l \in Roots : ~ In(l, n)

Init ==
  /\ lists = [l \in Roots |-> <<>>]
  /\ ret = NULL

AddHead(l, n) ==
  /\ Free(n)
  /\ lists' = [lists EXCEPT ![l] = <<n>> \o @]
  /\ ret' = NULL

AddTail(l, n) ==
  /\ Free(n)
  /\ lists' = [lists EXCEPT ![l] = Append(@, n)]
  /\ ret' = NULL

Delete(l, n) ==
  /\ \/ ~ In(l, n) /\ UNCHANGED lists
     \/ \E i \in DOMAIN lists[l] :
          /\ lists[l][i] = n
          /\ lists' = [lists EXCEPT ![l] = RemoveAt(@, i)]
  /\ ret' = NULL

TakeHead(l) ==
  IF lists[l] = <<>>
  THEN ret' = NULL /\ UNCHANGED lists
  ELSE /\ ret' = Head(lists[l])
       /\ lists' = [lists EXCEPT ![l] = Tail(@)]

TakeTail(l) ==
  IF lists[l] = <<>>
  THEN ret' = NULL /\ UNCHANGED lists
  ELSE /\ ret' = Last(lists[l])
       /\ lists' = [lists EXCEPT ![l] = Front(@)]

GetHead(l) ==
  /\ ret' = IF lists[l] = <<>> THEN NULL ELSE Head(lists[l])
  /\ UNCHANGED lists

GetTail(l) ==
  /\ ret' = IF lists[l] = <<>> THEN NULL ELSE Last(lists[l])
  /\ UNCHANGED lists

Next ==
  \E l \in Roots :
    \/ TakeHead(l) \/ TakeTail(l) \/ GetHead(l) \/ GetTail(l)
    \/ \E n \in Nodes : AddHead(l, n) \/ AddTail(l, n) \/ Delete(l, n)

Spec == Init /\ [][Next]_vars
=============================================================================
