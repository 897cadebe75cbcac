----------------------------- MODULE MCNetwork -----------------------------
(* One pair the access point accepts and one it does not. *)
EXTENDS Network, TLC

CONSTANT Wrong
MCCreds == {Right, Wrong}
=============================================================================
