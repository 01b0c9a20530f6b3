------------------------------ MODULE PageStore ------------------------------
(***************************************************************************)
(* What the page cache promises to those who read it: under a key it shows *)
(* the page that was stored there last, or nothing.  It may forget pages   *)
(* at any time, but a page it has forgotten comes back only when it is     *)
(* stored again.  PageCache and the rows of PageLoader implement this.     *)
(***************************************************************************)
CONSTANTS
  Keys,    \* normalised URLs
  Pages,
  KeysOf,  \* page -> the keys it is stored under
  NoPage

VARIABLE shown  \* key -> the page a get returns

Init == shown = [k \in Keys |-> NoPage]

Store(p) == shown' = [k \in Keys |-> IF k \in KeysOf[p] THEN p ELSE shown[k]]

Forget(ks) == shown' = [k \in Keys |-> IF k \in ks THEN NoPage ELSE shown[k]]

Next == (\E p \in Pages : Store(p)) \/ (\E ks \in SUBSET Keys : Forget(ks))

Spec == Init /\ [][Next]_shown
=============================================================================
