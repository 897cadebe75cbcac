------------------------------ MODULE FileStore ------------------------------
(***************************************************************************)
(* What the file service promises: a file never changes in place, it comes *)
(* by an upload and goes by a deletion, and a request that fails leaves    *)
(* everything as it was.  A file is broken only if the power went while it *)
(* arrived or if the last of it did not fit on the card, which nobody is   *)
(* told.                                                                   *)
(***************************************************************************)
CONSTANT Names

VARIABLES store, reply

Put(n) ==
  /\ store[n] = "absent"
  /\ \E what \in {"whole", "broken"} : store' = [store EXCEPT ![n] = what]
  /\ reply' = "uploaded"

(* A deletion that was refused by the file system is reported all the same. *)
Remove(n) ==
  /\ store[n] # "absent"
  /\ store' = [store EXCEPT ![n] = "absent"] \/ UNCHANGED store
  /\ reply' = "deleted"

Read(n) ==
  /\ store[n] # "absent"
  /\ reply' = "sent"
  /\ UNCHANGED store

List == reply' = "listed" /\ UNCHANGED store

Refuse == reply' = "error" /\ UNCHANGED store

Cut ==
  /\ reply' = "none"
  /\ \/ UNCHANGED store
     \/ \E n \in Names :
          /\ store[n] = "absent"
          /\ store' = [store EXCEPT ![n] = "broken"]

Init ==
  /\ store \in [Names -> {"absent", "whole", "broken"}]
  /\ reply = "none"

Next == (\E n \in Names : Put(n) \/ Remove(n) \/ Read(n)) \/ List \/ Refuse \/ Cut

Spec == Init /\ [][Next]_<<store, reply>>
=============================================================================
