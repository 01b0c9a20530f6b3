--------------------------- MODULE MCBrowsrService ---------------------------
(***************************************************************************)
(* Three callers of one session for TLC, three URLs of which the first two   *)
(* redirect to the third, and room for two pages.                          *)
(***************************************************************************)
EXTENDS BrowsrService

CONSTANTS c1, c2, c3, l1, l2, l3, l4, l5

MCCalls == {c1, c2, c3}
MCLocks == {l1, l2, l3, l4, l5}
MCKeys == 1..3
MCPages == {[url |-> 1, final |-> 3], [url |-> 2, final |-> 3]}
=============================================================================
