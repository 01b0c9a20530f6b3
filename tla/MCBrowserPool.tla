--------------------------- MODULE MCBrowserPool ---------------------------
(***************************************************************************)
(* Four fetches and a drop_context: a search, which may be cancelled, two  *)
(* pages of one session and a page of another.  With three permits and two *)
(* contexts they queue for a permit, share a context, wait for one and     *)
(* evict one.                                                              *)
(***************************************************************************)
EXTENDS BrowserPool

MCFetches == {"f1", "f2", "f3", "f4"}
ThreeFetches == {"f1", "f2", "f3"}
MCDrops == {"d"}
MCArrivals == {[f1 |-> "search", f2 |-> "A", f3 |-> "A", f4 |-> "B", d |-> "A"]}
ThreeSessions == {[f1 |-> "search", f2 |-> "A", f3 |-> "B", d |-> "A"]}
=============================================================================
