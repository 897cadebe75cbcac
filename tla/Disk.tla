-------------------------------- MODULE Disk --------------------------------
(***************************************************************************)
(* The file system of the SD card, as file_service.c and page_node_main.c  *)
(* use it.  A file is a number of pieces, the units in which data arrives, *)
(* is written and is sent.  Until it is closed its directory entry has     *)
(* length 0.  "whole" remembers that all that was announced was written.   *)
(***************************************************************************)
EXTENDS Naturals

CONSTANTS
  Names,   \* paths, in the order of the directory
  Dirs     \* the directories among them, none of them empty

ASSUME NameAssumption == Names \subseteq Nat \ {0} /\ Dirs \subseteq Names

VARIABLE disk    \* the directory entry of every path

Entries == [there : BOOLEAN, len : Nat, whole : BOOLEAN]
Absent  == [there |-> FALSE, len |-> 0, whole |-> FALSE]
Empty   == [there |-> TRUE, len |-> 0, whole |-> FALSE]
Whole(len) == [there |-> TRUE, len |-> len, whole |-> TRUE]
Broken(len) == [there |-> TRUE, len |-> len, whole |-> FALSE]

Exists(n) == disk[n].there                                       \* stat
ReadDir(pos) == {n \in Names : Exists(n) /\ n > pos}             \* what readdir has left
=============================================================================
