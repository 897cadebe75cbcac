----------------------------- MODULE MCPagesApp -----------------------------
(* The three pages pages_init registers; page3 alone has onAppearing. *)
EXTENDS PagesApp, TLC

MCNodes     == {page1, page2, page3}
MCRoots     == {Pool, Stack, Backstage}
MCAppearing == {page3}
MCNone      == {}
MCStyles    == {"OVER"}
=============================================================================
