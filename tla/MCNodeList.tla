----------------------------- MODULE MCNodeList -----------------------------
(* NodeList with four items and two lists. *)
EXTENDS NodeList, TLC

CONSTANTS n1, n2, n3, n4, la, lb

MCNodes == {n1, n2, n3, n4}
MCRoots == {la, lb}
=============================================================================
