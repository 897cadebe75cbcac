--------------------------- MODULE PageNavigation ---------------------------
(***************************************************************************)
(* What the page manager promises the pages of the device: known pages are *)
(* off, on the stack, or parked in the backstage, each in one place; a     *)
(* page has a screen object exactly while it is on the stack or parked;    *)
(* one operation changes the navigation at a time, and the next one waits  *)
(* for its transition to settle.                                           *)
(***************************************************************************)
EXTENDS Naturals, Sequences, SequencesExt

CONSTANT Pages

VARIABLES
  stack,     \* bottom to top
  parked,    \* pages in the backstage
  off,       \* registered pages without a screen object
  leaving,   \* pages released at the end of the transition in progress
  moving     \* a transition is in progress

vars == <<stack, parked, off, leaving, moving>>

OnStack == ToSet(stack)

TakenOut(p, places) ==
  \E i \in places : stack[i] = p /\ stack' = RemoveAt(stack, i)

Init ==
  /\ stack = <<>> /\ parked = {} /\ off = {} /\ leaving = {}
  /\ moving = FALSE

Register(p) ==
  /\ p \notin OnStack \cup parked \cup off \cup leaving
  /\ off' = off \cup {p}
  /\ UNCHANGED <<stack, parked, leaving, moving>>

(* The pages of set gone leave the screen: at once, or in a transition     *)
(* that keeps them alive to its end.                                       *)
Release(gone, others) ==
  \/ moving' = TRUE  /\ leaving' = gone /\ off' = others
  \/ moving' = FALSE /\ leaving' = {}   /\ off' = others \cup gone

Push(p) ==
  /\ ~ moving /\ p \in off
  /\ stack' = Append(stack, p)
  /\ Release({}, off \ {p})
  /\ UNCHANGED parked

Replace(p) ==
  /\ ~ moving /\ p \in off \cup parked
  /\ stack' = Append(IF stack = <<>> THEN <<>> ELSE Front(stack), p)
  /\ parked' = parked \ {p}
  /\ Release(IF stack = <<>> THEN {} ELSE {Last(stack)}, off \ {p})

(* Any page of the stack may be taken out; only the top in a transition. *)
Pop(p) ==
  /\ ~ moving
  /\ TakenOut(p, DOMAIN stack)
  /\ Release({p}, off)
  /\ moving' => p = Last(stack)
  /\ UNCHANGED parked

Park(p) ==
  /\ ~ moving
  /\ TakenOut(p, DOMAIN stack)
  /\ parked' = parked \cup {p}
  /\ Release({}, off)
  /\ moving' => p = Last(stack)

(* Going home discards the backstage and then all between home and top. *)
DiscardParked(p) ==
  /\ ~ moving /\ p \in parked
  /\ parked' = parked \ {p}
  /\ off' = off \cup {p}
  /\ UNCHANGED <<stack, leaving, moving>>

DiscardMiddle(p) ==
  /\ ~ moving /\ parked = {}
  /\ TakenOut(p, 2 .. Len(stack) - 1)
  /\ off' = off \cup {p}
  /\ UNCHANGED <<parked, leaving, moving>>

Settle ==
  /\ moving
  /\ Release(leaving, off)
  /\ ~ moving'
  /\ UNCHANGED <<stack, parked>>

Next ==
  \/ \E p \in Pages : \/ Register(p) \/ Push(p) \/ Replace(p)
                      \/ Pop(p) \/ Park(p)
                      \/ DiscardParked(p) \/ DiscardMiddle(p)
  \/ Settle

Spec == Init /\ [][Next]_vars
=============================================================================
