------------------------------ MODULE MCChunker ------------------------------
(***************************************************************************)
(* Pages of up to three lines of every sort, and of four lines of a few,   *)
(* for TLC, with a budget of 8 characters.                                 *)
(***************************************************************************)
EXTENDS Chunker

Plain(kind, n) == [is |-> kind, len |-> n, mark |-> 0, links |-> {}]
Fence(n, m) == [is |-> "fence", len |-> n, mark |-> m, links |-> {}]
Linked(kind, n, from, label, to) ==
  [is |-> kind, len |-> n, mark |-> 0, links |-> {[from |-> from, label |-> label, to |-> to]}]

MCFew == {Plain("text", 3), Plain("heading", 2), Plain("bar", 1), Linked("bar", 5, 2, 1, 4), Fence(1, 1)}
MCLines ==
  MCFew \cup
  {Plain("blank", 0), Plain("text", 11), Plain("heading", 6), Plain("bar", 9), Fence(2, 2), Fence(3, 1),
   Linked("text", 9, 4, 1, 8), Linked("text", 12, 1, 5, 9), Linked("heading", 11, 3, 2, 11),
   Plain("heading", 10), Linked("text", 7, 1, 1, 6)}

\* The lines put one below the other.
Page(sorts) ==
  LET from[l \in 1..Len(sorts)] == IF l = 1 THEN 1 ELSE from[l - 1] + sorts[l - 1].len + 1
  IN  [l \in 1..Len(sorts) |->
        [is |-> sorts[l].is, from |-> from[l], len |-> sorts[l].len, mark |-> sorts[l].mark,
         links |-> {[from |-> from[l] + g.from - 1, label |-> g.label, to |-> from[l] + g.to - 1] :
                     g \in sorts[l].links}]]

MCDocs == {Page(s) : s \in UNION {[1..n -> MCLines] : n \in 0..3} \cup [1..4 -> MCFew]}
=============================================================================
