--------------------------- MODULE MCPageManager ---------------------------
(***************************************************************************)
(* PageManager with up to three pages.                                     *)
(***************************************************************************)
EXTENDS PageManager, TLC

CONSTANTS p1, p2, p3

MCNodes == {p1, p2, p3}
MCPair  == {p1, p2}
MCRoots == {Pool, Stack, Backstage}
MCNone  == {}
MCFirst  == {p1}
MCSecond == {p2}

(* One page with both transition callbacks, one with onAppearing alone,    *)
(* one with neither.                                                       *)
MCAppearing    == {p1, p3}
MCDisappearing == {p1}

(* The styles that leave no trace on a page's size and opacity, from and   *)
(* to the same side of the screen.                                         *)
MCTraceless == {"OVER", "PUSH", "FADE_IN"}

MCOver        == {"OVER"}
MCPlain       == {"NONE"}
=============================================================================
