---------------------------- MODULE ChunkerProofs ----------------------------
(***************************************************************************)
(* Proofs about the splitting, for all pages, budgets and gaps between     *)
(* blocks: no chunk exceeds the budget, no link is cut, a heading is left  *)
(* behind only where its text cannot follow it, and no text is lost,       *)
(* repeated or reordered.                                                  *)
(*                                                                         *)
(* The first invariant, Inv, says of every part that it fits and that a    *)
(* link in it is whole or only its label (Clean), and of what is left of a *)
(* piece that a cut which respects the links keeps it so (Rests).  The     *)
(* second, Ahead, says how far the first part of a block still has room    *)
(* behind the heading before it.  The third, Kept with Tidy and TooWide,   *)
(* says of every part of the ink, not only of all of it, that what is in   *)
(* chunks, in hand and still to come shows it as the page does: the markup *)
(* that is dropped later is then no exception to what was shown before.    *)
(***************************************************************************)
EXTENDS Chunker, SequenceTheorems, WellFoundedInduction, TLAPS

-----------------------------------------------------------------------------
(* Sets of integers                                                        *)

\* A non-empty set of natural numbers has a smallest element.
LEMMA SmallestNat ==
  ASSUME NEW S, S \subseteq Nat, S # {}
  PROVE  \E x \in S : \A y \in S : x <= y
<1> DEFINE Less == OpToRel(<, Nat)
<1>1. IsWellFoundedOn(Less, Nat)
  BY NatLessThanWellFounded
<1>2. \A x, y \in Nat : x < y => <<x, y>> \in Less
  BY DEF OpToRel
<1> HIDE DEF Less
<1>3. PICK x \in S : \A y \in S : ~ (<<y, x>> \in Less)
  BY <1>1, WFMin
<1>4. ASSUME NEW y \in S PROVE x <= y
  <2>1. ~ (y < x)
    BY <1>2, <1>3
  <2>2. x \in Nat /\ y \in Nat
    BY <1>3
  <2> QED
    BY <2>1, <2>2
<1> QED
  BY <1>3, <1>4

\* The least of a nonempty set of positions of a range.
LEMMA MinOfRange ==
  ASSUME NEW a \in Int, NEW b \in Int, NEW S, S \subseteq a..b, S # {}
  PROVE  Min(S) \in S
<1> DEFINE T == {n \in Nat : a + n \in S}
<1>1. T \subseteq Nat /\ T # {}
  <2>1. PICK x \in S : TRUE
    OBVIOUS
  <2>2. x - a \in T
    BY <2>1
  <2> QED
    BY <2>2
<1>2. PICK n \in T : \A m \in T : n <= m
  <2> HIDE DEF T
  <2> QED
    BY <1>1, SmallestNat
<1>3. a + n \in S /\ \A y \in S : a + n <= y
  <2>1. ASSUME NEW y \in S PROVE a + n <= y
    <3>1. y - a \in T
      BY <2>1
    <3> QED
      BY <1>2, <3>1
  <2> QED
    BY <1>2, <2>1
<1> QED
  BY <1>3 DEF Min

\* The greatest of a nonempty set of positions of a range.
LEMMA MaxOfRange ==
  ASSUME NEW a \in Int, NEW b \in Int, NEW S, S \subseteq a..b, S # {}
  PROVE  Max(S) \in S
<1> DEFINE T == {n \in Nat : b - n \in S}
<1>1. T \subseteq Nat /\ T # {}
  <2>1. PICK x \in S : TRUE
    OBVIOUS
  <2>2. b - x \in T
    BY <2>1
  <2> QED
    BY <2>2
<1>2. PICK n \in T : \A m \in T : n <= m
  <2> HIDE DEF T
  <2> QED
    BY <1>1, SmallestNat
<1>3. b - n \in S /\ \A y \in S : b - n >= y
  <2>1. ASSUME NEW y \in S PROVE b - n >= y
    <3>1. b - y \in T
      BY <2>1
    <3> QED
      BY <1>2, <3>1
  <2> QED
    BY <1>2, <2>1
<1> QED
  BY <1>3 DEF Max

-----------------------------------------------------------------------------
(* The block at a line that is not blank                                   *)

Kinds == {"blank", "text", "heading", "bar", "fence"}
Sorts == {"text", "heading", "bar", "fence"}

\* The numbers of a line, and that later lines lie behind it.
LEMMA LineTyped ==
  ASSUME lines \in Docs, NEW l \in 1..N
  PROVE  /\ N \in Nat /\ lines[l].is \in Kinds
         /\ lines[l].from \in Nat /\ lines[l].len \in Nat /\ lines[l].mark \in Nat
         /\ lines[l].links \subseteq [from : Nat, label : Nat \ {0}, to : Nat]
         /\ \A m \in 1..N : l < m => lines[l].from + lines[l].len < lines[m].from
<1>1. lines \in Seq(Lines)
  BY ChunkerAssumption DEF ChunkerAssumption
<1>2. N \in Nat /\ lines[l] \in Lines
  BY <1>1 DEF N
<1>3. /\ lines[l].is \in {"blank", "text", "heading", "bar", "fence"}
      /\ lines[l].from \in Nat /\ lines[l].len \in Nat /\ lines[l].mark \in Nat
      /\ lines[l].links \in SUBSET [from : Nat, label : Nat \ {0}, to : Nat]
  BY <1>2 DEF Lines
<1>4. \A m \in 1..N : l < m => lines[l].from + lines[l].len < lines[m].from
  BY ChunkerAssumption DEF ChunkerAssumption, N
<1> QED
  BY <1>2, <1>3, <1>4 DEF Kinds

\* A block ends on one of its lines.
LEMMA EndInPage ==
  ASSUME lines \in Docs, NEW b \in 1..N, lines[b].is # "blank"
  PROVE  End(b) \in b..N
<1>1. N \in Nat /\ b \in Int
  BY LineTyped
<1>2. CASE lines[b].is = "fence"
  <2>1. Closing(b) \subseteq b..N
    BY <1>1 DEF Closing
  <2>2. Closing(b) # {} => Min(Closing(b)) \in b..N
    BY <1>1, <2>1, MinOfRange
  <2> QED
    BY <1>1, <1>2, <2>2 DEF End
<1>3. CASE lines[b].is = "heading"
  BY <1>1, <1>3 DEF End
<1>4. CASE lines[b].is \notin {"fence", "heading"}
  <2>1. Same(b) \subseteq b..N /\ b \in Same(b)
    BY <1>1 DEF Same
  <2>2. Max(Same(b)) \in b..N
    BY <1>1, <2>1, MaxOfRange
  <2> QED
    BY <1>4, <2>2 DEF End
<1> QED
  BY <1>2, <1>3, <1>4

\* The characters from one position to another, in order.
LEMMA SpanTyped ==
  ASSUME NEW a \in Nat, NEW b \in Int
  PROVE  /\ Span(a, b) \in Seq(Nat)
         /\ Len(Span(a, b)) = IF b - a + 1 < 0 THEN 0 ELSE b - a + 1
         /\ \A i \in 1..Len(Span(a, b)) : Span(a, b)[i] = a + i - 1
<1> DEFINE n == IF b - a + 1 < 0 THEN 0 ELSE b - a + 1
<1>1. n \in Nat /\ 1..(b - a + 1) = 1..n
  OBVIOUS
<1>2. Span(a, b) = [i \in 1..n |-> a + i - 1]
  BY <1>1 DEF Span
<1>3. \A i \in 1..n : a + i - 1 \in Nat
  BY <1>1
<1>4. [i \in 1..n |-> a + i - 1] \in Seq(Nat) /\ Len([i \in 1..n |-> a + i - 1]) = n
  <2> HIDE DEF n
  <2> QED
    BY <1>1, <1>3
<1>5. Len(Span(a, b)) = n
  BY <1>2, <1>4
<1>6. \A i \in 1..n : Span(a, b)[i] = a + i - 1
  <2> HIDE DEF n
  <2> QED
    BY <1>2
<1> QED
  BY <1>2, <1>4, <1>5, <1>6

-----------------------------------------------------------------------------
(* Links                                                                   *)

LinksOf(ls) == UNION {ls[l].links : l \in 1..Len(ls)}
Has(s, g) == {c \in g.from..g.to : \E i \in 1..Len(s) : s[i] = c}
Label(g) == (g.from + 1)..(g.from + g.label)

\* Text in which a link is whole or is gone but for its label.
Clean(ls) ==
  {s \in Seq(Nat) : \A g \in LinksOf(ls) : Has(s, g) = g.from..g.to \/ Has(s, g) \subseteq Label(g)}

\* The positions from a to b begin and end outside the links.
Unbroken(ls, a, b) ==
  \A g \in LinksOf(ls) : (g.to < a \/ a <= g.from) /\ (g.to <= b \/ b < g.from)

\* The positions in s, in order: the first k are of the label of a link that did
\* not fit, the others follow that link and each other and cut no link.
Follows(ls, s, k, q, r) ==
  /\ k \in 0..Len(s) /\ q \in Int /\ r \in Int
  /\ \A i \in 1..k : s[i] = q + i
  /\ \A i \in (k + 1)..Len(s) : s[i] = r + i
  /\ k > 0 => \E g \in LinksOf(ls) : g.from <= q /\ q + k <= g.from + g.label /\ g.to <= r + k
  /\ Unbroken(ls, r + k + 1, r + Len(s))

\* What may be left of a piece.
Rests(ls) == {s \in Seq(Nat) : \E k, q, r \in Int : Follows(ls, s, k, q, r)}

\* The numbers of a link.
LEMMA LinkTyped ==
  ASSUME lines \in Docs, NEW g \in LinksOf(lines)
  PROVE  g.from \in Nat /\ g.to \in Nat /\ g.label \in Nat \ {0} /\ g.from + g.label < g.to
<1>1. PICK l \in 1..N : g \in lines[l].links
  BY DEF LinksOf, N
<1>2. lines[l].links \subseteq [from : Nat, label : Nat \ {0}, to : Nat]
  BY LineTyped
<1>3. g.from + g.label < g.to
  BY <1>1, ChunkerAssumption DEF ChunkerAssumption, N
<1> QED
  BY <1>1, <1>2, <1>3

\* A link lies in its line.
LEMMA LinkInLine ==
  ASSUME lines \in Docs, NEW l \in 1..N, NEW g \in lines[l].links
  PROVE  lines[l].from <= g.from /\ g.to <= To(l) /\ g \in LinksOf(lines)
<1>1. lines[l].from <= g.from /\ g.to < lines[l].from + lines[l].len
  BY ChunkerAssumption DEF ChunkerAssumption, N
<1>2. g \in LinksOf(lines)
  BY DEF LinksOf, N
<1>3. g.to \in Nat /\ lines[l].from \in Nat /\ lines[l].len \in Nat
  BY <1>2, LinkTyped, LineTyped
<1> QED
  BY <1>1, <1>2, <1>3 DEF To

\* Different links have no character in common.
LEMMA LinksApart ==
  ASSUME lines \in Docs, NEW g \in LinksOf(lines), NEW h \in LinksOf(lines)
  PROVE  g = h \/ g.to < h.from \/ h.to < g.from
<1>1. PICK l \in 1..N, m \in 1..N : g \in lines[l].links /\ h \in lines[m].links
  BY DEF LinksOf, N
<1>2. CASE l = m
  BY <1>1, <1>2, ChunkerAssumption DEF ChunkerAssumption, N
<1>3. ASSUME NEW x \in 1..N, NEW y \in 1..N, x < y, NEW u \in lines[x].links, NEW v \in lines[y].links
      PROVE  u.to < v.from
  <2>1. u.to <= To(x) /\ lines[y].from <= v.from /\ u \in LinksOf(lines) /\ v \in LinksOf(lines)
    BY LinkInLine
  <2>2. u.to \in Nat /\ v.from \in Nat
    BY <2>1, LinkTyped
  <2>3. lines[x].from \in Nat /\ lines[x].len \in Nat /\ lines[y].from \in Nat
        /\ lines[x].from + lines[x].len < lines[y].from
    BY <1>3, LineTyped
  <2> QED
    BY <2>1, <2>2, <2>3 DEF To
<1>4. l < m => g.to < h.from
  BY <1>1, <1>3
<1>5. m < l => h.to < g.from
  BY <1>1, <1>3
<1> QED
  BY <1>2, <1>4, <1>5

\* From the beginning of a line to the end of one no link is cut.
LEMMA LinesUnbroken ==
  ASSUME lines \in Docs, NEW b \in 1..N, NEW e \in 1..N, NEW y \in Int, b <= e,
         To(e) <= y, \A m \in 1..N : e < m => y < lines[m].from
  PROVE  Unbroken(lines, lines[b].from, y)
<1> SUFFICES ASSUME NEW g \in LinksOf(lines)
             PROVE  /\ g.to < lines[b].from \/ lines[b].from <= g.from
                    /\ g.to <= y \/ y < g.from
  BY DEF Unbroken
<1>1. PICK l \in 1..N : g \in lines[l].links
  BY DEF LinksOf, N
<1>2. g.from \in Nat /\ g.to \in Nat /\ lines[l].from <= g.from /\ g.to <= To(l)
  BY <1>1, LinkTyped, LinkInLine
<1>3. /\ lines[b].from \in Nat /\ lines[l].from \in Nat /\ lines[l].len \in Nat
      /\ lines[e].from \in Nat /\ lines[e].len \in Nat
      /\ l < b => lines[l].from + lines[l].len < lines[b].from
      /\ b < l => lines[b].from + lines[b].len < lines[l].from
      /\ l < e => lines[l].from + lines[l].len < lines[e].from
      /\ lines[b].len \in Nat
  BY LineTyped
<1>4. CASE l <= e
  <2>1. g.to <= y
    BY <1>2, <1>3, <1>4 DEF To
  <2>2. g.to < lines[b].from \/ lines[b].from <= g.from
    BY <1>2, <1>3 DEF To
  <2> QED
    BY <2>1, <2>2
<1>5. CASE e < l
  <2>1. y < g.from
    BY <1>2, <1>3, <1>5
  <2>2. lines[b].from <= g.from
    BY <1>2, <1>3, <1>5
  <2> QED
    BY <2>1, <2>2
<1> QED
  BY <1>4, <1>5

\* Positions one after the other that cut no link are clean, and may be cut.
LEMMA SpanClean ==
  ASSUME lines \in Docs, NEW a \in Nat, NEW b \in Int, a <= b + 1, Unbroken(lines, a, b)
  PROVE  Span(a, b) \in Clean(lines) /\ Span(a, b) \in Rests(lines)
<1> DEFINE s == Span(a, b)
<1>1. s \in Seq(Nat) /\ Len(s) = b - a + 1 /\ \A i \in 1..Len(s) : s[i] = a + i - 1
  <2>1. Len(s) = IF b - a + 1 < 0 THEN 0 ELSE b - a + 1
    BY SpanTyped
  <2>2. b - a + 1 >= 0
    OBVIOUS
  <2>3. s \in Seq(Nat) /\ \A i \in 1..Len(s) : s[i] = a + i - 1
    BY SpanTyped
  <2> QED
    BY <2>1, <2>2, <2>3
<1> HIDE DEF s
<1>2. ASSUME NEW g \in LinksOf(lines)
      PROVE  Has(s, g) = g.from..g.to \/ Has(s, g) \subseteq Label(g)
  <2>1. g.from \in Nat /\ g.to \in Nat
    BY LinkTyped
  <2>2. (g.to < a \/ a <= g.from) /\ (g.to <= b \/ b < g.from)
    BY DEF Unbroken
  <2>3. CASE g.to < a \/ b < g.from
    <3>1. PICK u, v \in Nat : u = g.from /\ v = g.to
      BY <2>1
    <3>2. v < a \/ b < u
      BY <2>3, <3>1, Zenon
    <3>3. ASSUME NEW i \in 1..Len(s) PROVE s[i] \notin u..v
      <4>1. s[i] = a + i - 1 /\ i \in 1..(b - a + 1)
        BY <1>1
      <4> QED
        BY <3>2, <4>1
    <3>4. Has(s, g) = {}
      BY <3>1, <3>3 DEF Has
    <3> QED
      BY <3>4
  <2>4. CASE a <= g.from /\ g.to <= b
    <3>1. ASSUME NEW c \in g.from..g.to PROVE \E i \in 1..Len(s) : s[i] = c
      <4>1. c - a + 1 \in 1..Len(s) /\ s[c - a + 1] = c
        BY <1>1, <2>1, <2>4
      <4> QED
        BY <4>1
    <3> QED
      BY <3>1 DEF Has
  <2> QED
    BY <2>2, <2>3, <2>4
<1>3. s \in Clean(lines)
  BY <1>1, <1>2 DEF Clean
<1>4. Follows(lines, s, 0, 0, a - 1)
  <2>1. a - 1 + 0 + 1 = a /\ a - 1 + Len(s) = b
    BY <1>1
  <2> QED
    BY <1>1, <2>1 DEF Follows
<1> QED
  BY <1>1, <1>3, <1>4 DEF Rests, s

\* Clean text after clean text is clean.
LEMMA CleanJoins ==
  ASSUME NEW ls, NEW s \in Clean(ls), NEW t \in Clean(ls)
  PROVE  s \o t \in Clean(ls)
<1>1. s \in Seq(Nat) /\ t \in Seq(Nat) /\ s \o t \in Seq(Nat) /\ Len(s \o t) = Len(s) + Len(t)
      /\ Len(s) \in Nat /\ Len(t) \in Nat
  BY ConcatProperties DEF Clean
<1>2. ASSUME NEW g \in LinksOf(ls)
      PROVE  Has(s \o t, g) = g.from..g.to \/ Has(s \o t, g) \subseteq Label(g)
  <2>1. ASSUME NEW c PROVE (\E i \in 1..Len(s \o t) : (s \o t)[i] = c)
                           <=> (\E i \in 1..Len(s) : s[i] = c) \/ (\E i \in 1..Len(t) : t[i] = c)
    <3>1. ASSUME NEW i \in 1..Len(s) PROVE i \in 1..Len(s \o t) /\ (s \o t)[i] = s[i]
      BY <1>1
    <3>2. ASSUME NEW i \in 1..Len(t) PROVE Len(s) + i \in 1..Len(s \o t) /\ (s \o t)[Len(s) + i] = t[i]
      BY <1>1
    <3>3. ASSUME NEW i \in 1..Len(s \o t), i > Len(s)
          PROVE  i - Len(s) \in 1..Len(t) /\ (s \o t)[i] = t[i - Len(s)]
      BY <1>1, <3>3
    <3>4. ASSUME NEW i \in 1..Len(s \o t), (s \o t)[i] = c
          PROVE  (\E j \in 1..Len(s) : s[j] = c) \/ (\E j \in 1..Len(t) : t[j] = c)
      <4>1. CASE i <= Len(s)
        BY <1>1, <3>1, <3>4, <4>1
      <4>2. CASE i > Len(s)
        BY <3>3, <3>4, <4>2
      <4> QED
        BY <1>1, <4>1, <4>2
    <3> QED
      BY <3>1, <3>2, <3>4
  <2>2. Has(s \o t, g) = Has(s, g) \cup Has(t, g)
    BY <2>1 DEF Has
  <2>3. Has(s, g) \subseteq g.from..g.to /\ Has(t, g) \subseteq g.from..g.to
    BY DEF Has
  <2>4. /\ Has(s, g) = g.from..g.to \/ Has(s, g) \subseteq Label(g)
        /\ Has(t, g) = g.from..g.to \/ Has(t, g) \subseteq Label(g)
    BY DEF Clean
  <2> QED
    BY <2>2, <2>3, <2>4
<1> QED
  BY <1>1, <1>2 DEF Clean

\* More text is longer.
LEMMA LongerJoined ==
  ASSUME NEW s \in Seq(Nat), NEW t \in Seq(Nat)
  PROVE  Len(t) > 0 => Len(s \o t) > 0
<1>1. Len(s \o t) = Len(s) + Len(t) /\ Len(s) \in Nat /\ Len(t) \in Nat
  BY ConcatProperties
<1> QED
  BY <1>1

\* The empty text is clean.
LEMMA EmptyClean == ASSUME NEW ls PROVE <<>> \in Clean(ls)
  BY DEF Clean, Has

-----------------------------------------------------------------------------
(* Blocks as parts and pieces                                              *)

\* The body of a block lies in its page.
LEMMA BodyInPage ==
  ASSUME lines \in Docs, NEW b \in 1..N, lines[b].is # "blank"
  PROVE  BodyStart(b) \in Int /\ BodyStart(b) >= b /\ BodyEnd(b) \in Int /\ BodyEnd(b) <= End(b)
<1>1. End(b) \in b..N /\ N \in Nat
  BY EndInPage, LineTyped
<1> QED
  BY <1>1 DEF BodyStart, BodyEnd

\* A line ends before the next one begins.
LEMMA ToBefore ==
  ASSUME lines \in Docs, NEW l \in 1..N
  PROVE  To(l) \in Int /\ \A m \in 1..N : l < m => To(l) < lines[m].from
<1>1. lines[l].from \in Nat /\ lines[l].len \in Nat /\ \A m \in 1..N : lines[m].from \in Nat
  BY LineTyped
<1> QED
  BY <1>1, LineTyped DEF To

\* Lines, one after the other, are clean.
LEMMA LinesClean ==
  ASSUME lines \in Docs, NEW b \in 1..N, NEW e \in 1..N, b <= e
  PROVE  /\ Span(lines[b].from, To(e)) \in Clean(lines)
         /\ Span(lines[b].from, To(e)) \in Rests(lines)
         /\ lines[b].len > 0 => Len(Span(lines[b].from, To(e))) > 0
<1>1. To(e) \in Int /\ \A m \in 1..N : e < m => To(e) < lines[m].from
  BY ToBefore
<1>2. /\ lines[b].from \in Nat /\ lines[b].len \in Nat /\ lines[e].from \in Nat /\ lines[e].len \in Nat
      /\ b < e => lines[b].from + lines[b].len < lines[e].from
  BY LineTyped
<1>3. lines[b].from <= To(e) + 1 /\ (lines[b].len > 0 => lines[b].from <= To(e))
  BY <1>2 DEF To
<1>4. Unbroken(lines, lines[b].from, To(e))
  BY <1>1, LinesUnbroken
<1>5. Span(lines[b].from, To(e)) \in Clean(lines) /\ Span(lines[b].from, To(e)) \in Rests(lines)
  BY <1>1, <1>2, <1>3, <1>4, SpanClean
<1>6. lines[b].len > 0 => Len(Span(lines[b].from, To(e))) > 0
  BY <1>1, <1>2, <1>3, SpanTyped
<1> QED
  BY <1>5, <1>6

\* A line with the line feed after it is clean.
LEMMA SentenceClean ==
  ASSUME lines \in Docs, NEW l \in 1..N, l + 1 \in 1..N
  PROVE  /\ Span(lines[l].from, lines[l + 1].from - 1) \in Clean(lines)
         /\ Span(lines[l].from, lines[l + 1].from - 1) \in Rests(lines)
         /\ Len(Span(lines[l].from, lines[l + 1].from - 1)) > 0
<1> DEFINE y == lines[l + 1].from - 1
<1>1. /\ lines[l].from \in Nat /\ lines[l].len \in Nat /\ lines[l + 1].from \in Nat
      /\ lines[l].from + lines[l].len < lines[l + 1].from
  BY LineTyped
<1>2. y \in Int /\ To(l) <= y /\ lines[l].from <= y /\ y - lines[l].from + 1 > 0
  BY <1>1 DEF To
<1>3. \A m \in 1..N : l < m => y < lines[m].from
  <2>1. \A m \in 1..N : lines[m].from \in Nat /\ lines[l + 1].len \in Nat
                        /\ (l + 1 < m => lines[l + 1].from + lines[l + 1].len < lines[m].from)
    BY LineTyped
  <2> QED
    BY <1>1, <2>1
<1> HIDE DEF y
<1>4. Unbroken(lines, lines[l].from, y)
  BY <1>2, <1>3, LinesUnbroken
<1>5. Span(lines[l].from, y) \in Clean(lines) /\ Span(lines[l].from, y) \in Rests(lines)
  BY <1>1, <1>2, <1>4, SpanClean
<1>6. Len(Span(lines[l].from, y)) > 0
  <2>1. Len(Span(lines[l].from, y)) = IF y - lines[l].from + 1 < 0 THEN 0 ELSE y - lines[l].from + 1
    BY <1>1, <1>2, SpanTyped
  <2> QED
    BY <1>1, <1>2, <2>1
<1> QED
  BY <1>5, <1>6 DEF y

\* Text ends in a line of its kind.
LEMMA EndIsText ==
  ASSUME lines \in Docs, NEW b \in 1..N, lines[b].is # "blank", Prose(b)
  PROVE  lines[End(b)].is = lines[b].is
<1>1. N \in Nat /\ b \in Int
  BY LineTyped
<1>2. CASE lines[b].is = "heading"
  BY <1>2 DEF End
<1>3. CASE lines[b].is = "text"
  <2>1. Same(b) \subseteq b..N /\ b \in Same(b)
    BY <1>1 DEF Same
  <2>2. Max(Same(b)) \in Same(b)
    BY <1>1, <2>1, MaxOfRange
  <2>3. End(b) = Max(Same(b))
    BY <1>3 DEF End
  <2>4. End(b) \in b..End(b)
    BY <1>1, <2>1, <2>2, <2>3
  <2> QED
    BY <2>2, <2>3, <2>4 DEF Same
<1> QED
  BY <1>2, <1>3 DEF Prose

\* A block as a part of a chunk.
LEMMA WholeTyped ==
  ASSUME lines \in Docs, NEW b \in 1..N, lines[b].is # "blank"
  PROVE  Whole(b) \in [kind : Sorts, block : 1..Len(lines), chars : Clean(lines), cost : Nat \ {0}]
<1>1. End(b) \in b..N /\ N \in Nat /\ End(b) \in 1..N
  BY EndInPage, LineTyped
<1>2. /\ lines[b].from \in Nat /\ lines[b].is \in Sorts
      /\ To(End(b)) \in Int /\ To(End(b)) - lines[b].from + 1 \in Nat \ {0}
  <2>1. /\ lines[b].from \in Nat /\ lines[b].len \in Nat /\ lines[b].is \in Sorts
        /\ lines[b].len > 0
        /\ b < End(b) => lines[b].from + lines[b].len < lines[End(b)].from
    <3>1. lines[b].len > 0
      BY ChunkerAssumption DEF ChunkerAssumption, N
    <3> QED
      BY <1>1, <3>1, LineTyped DEF Kinds, Sorts
  <2>2. lines[End(b)].from \in Nat /\ lines[End(b)].len \in Nat
    BY <1>1, LineTyped
  <2>3. End(b) = b \/ b < End(b)
    BY <1>1
  <2> QED
    BY <2>1, <2>2, <2>3 DEF To
<1>3. CASE Bare(b)
  <2>1. \A m \in 1..N : End(b) < m => To(End(b)) < lines[m].from
    BY <1>1, ToBefore
  <2>2. Unbroken(lines, lines[b].from, To(End(b)))
    BY <1>1, <1>2, <2>1, LinesUnbroken
  <2>3. Span(lines[b].from, To(End(b))) \in Clean(lines)
    BY <1>2, <2>2, SpanClean
  <2> QED
    BY <1>2, <1>3, <2>3 DEF Whole, N
<1>4. CASE ~ Bare(b)
  <2>1. BodyStart(b) \in 1..N /\ BodyEnd(b) \in 1..N /\ BodyStart(b) <= BodyEnd(b)
    BY <1>1, <1>4, BodyInPage DEF Bare
  <2>2. Span(lines[BodyStart(b)].from, To(BodyEnd(b))) \in Clean(lines)
    BY <2>1, LinesClean
  <2> QED
    BY <1>2, <1>4, <2>2 DEF Whole, N
<1> QED
  BY <1>3, <1>4

\* The pieces of a block, of which none is empty unless it is put into a frame.
LEMMA PiecesTyped ==
  ASSUME lines \in Docs, NEW b \in 1..N, lines[b].is # "blank"
  PROVE  /\ Len(Pieces(b)) \in Nat
         /\ \A i \in 1..Len(Pieces(b)) :
              /\ Pieces(b)[i] \in Clean(lines) /\ Pieces(b)[i] \in Rests(lines)
              /\ Framed(b) \/ Len(Pieces(b)[i]) > 0
<1>1. End(b) \in b..N /\ N \in Nat /\ End(b) \in 1..N
  BY EndInPage, LineTyped
<1>2. CASE Bare(b)
  <2>1. Pieces(b) = <<Span(lines[b].from, To(End(b)))>>
    BY <1>2 DEF Pieces
  <2>2. /\ Span(lines[b].from, To(End(b))) \in Clean(lines)
        /\ Span(lines[b].from, To(End(b))) \in Rests(lines)
        /\ lines[b].len > 0 => Len(Span(lines[b].from, To(End(b)))) > 0
    BY <1>1, LinesClean
  <2>3. lines[b].len > 0
    BY ChunkerAssumption DEF ChunkerAssumption, N
  <2>4. Len(Pieces(b)) = 1 /\ \A i \in 1..1 : Pieces(b)[i] = Span(lines[b].from, To(End(b)))
    BY <2>1
  <2> QED
    BY <2>2, <2>3, <2>4
<1>3. CASE ~ Bare(b)
  <2> DEFINE n == BodyEnd(b) - BodyStart(b) + 1
  <2>1. /\ n \in Nat
        /\ \A i \in 1..n : /\ BodyStart(b) + i - 1 \in 1..N /\ BodyStart(b) + i - 1 <= End(b)
                           /\ b <= BodyStart(b) + i - 1
    BY <1>1, <1>3, BodyInPage DEF Bare
  <2>2. ASSUME NEW l \in 1..N, l <= End(b), b <= l
        PROVE  /\ Line(b, l) \in Clean(lines) /\ Line(b, l) \in Rests(lines)
               /\ Framed(b) \/ Len(Line(b, l)) > 0
    <3>1. CASE Prose(b) /\ l < End(b)
      <4>1. l + 1 \in 1..N
        BY <1>1, <3>1
      <4>2. Line(b, l) = Span(lines[l].from, lines[l + 1].from - 1)
        BY <3>1 DEF Line
      <4> QED
        BY <4>1, <4>2, SentenceClean
    <3>2. CASE ~ (Prose(b) /\ l < End(b))
      <4>1. Line(b, l) = Span(lines[l].from, To(l))
        BY <3>2 DEF Line
      <4>2. /\ Line(b, l) \in Clean(lines) /\ Line(b, l) \in Rests(lines)
            /\ lines[l].len > 0 => Len(Line(b, l)) > 0
        BY <4>1, LinesClean
      <4>3. Framed(b) \/ (Prose(b) /\ l = End(b))
        BY <1>1, <1>3, <2>2, <3>2 DEF Framed
      <4>4. Prose(b) => lines[End(b)].is # "blank"
        BY <1>1, EndIsText
      <4>5. l = End(b) /\ Prose(b) => lines[l].len > 0
        BY <4>4, ChunkerAssumption DEF ChunkerAssumption, N
      <4> QED
        BY <4>2, <4>3, <4>5
    <3> QED
      BY <3>1, <3>2
  <2>3. Pieces(b) = [i \in 1..n |-> Line(b, BodyStart(b) + i - 1)]
    BY <1>3 DEF Pieces
  <2> HIDE DEF n
  <2>4. Len(Pieces(b)) = n /\ \A i \in 1..n : Pieces(b)[i] = Line(b, BodyStart(b) + i - 1)
    BY <2>1, <2>3
  <2> QED
    BY <2>1, <2>2, <2>4
<1> QED
  BY <1>2, <1>3

\* The fences or the header that are repeated around parts of a block.
LEMMA FrameTyped ==
  ASSUME lines \in Docs, NEW b \in 1..N, lines[b].is # "blank", Framed(b)
  PROVE  Frame(b) \in Nat
<1>1. End(b) \in b..N /\ N \in Nat
  BY EndInPage, LineTyped
<1>2. lines[b].len \in Nat /\ lines[b].mark \in Nat
  BY LineTyped
<1>3. CASE lines[b].is = "fence"
  BY <1>2, <1>3 DEF Frame
<1>4. CASE lines[b].is # "fence"
  <2>1. lines[b].is = "bar"
    BY <1>4, LineTyped DEF Framed, Prose, Kinds
  <2>2. b + 2 <= BodyEnd(b) /\ BodyEnd(b) \in Int /\ BodyEnd(b) <= End(b)
    BY <2>1, BodyInPage DEF Framed, Bare, BodyStart
  <2>3. b + 1 \in 1..N
    BY <1>1, <2>2
  <2>4. lines[b + 1].len \in Nat
    BY <2>3, LineTyped
  <2> QED
    BY <1>2, <1>4, <2>4 DEF Frame
<1> QED
  BY <1>3, <1>4

-----------------------------------------------------------------------------
(* The invariant                                                           *)

FitPart(ls) == [kind : Sorts, block : 1..Len(ls), chars : Clean(ls), cost : 1..Budget]
ShownChunk(ls) == [parts : Seq(FitPart(ls)), cost : 0..Budget]
Fill(ls) == [pieces : Nat, chars : Clean(ls)]

\* A chunk costs at least what its last part costs, so one that gives a heading to
\* the next chunk keeps a cost.
FitChunk(ls) ==
  {c \in ShownChunk(ls) :
     c.parts # <<>> => c.cost >= Last(c.parts).cost + IF Len(c.parts) > 1 THEN Gap ELSE 0}

\* While a block is placed or split, one starts at this line.
Located ==
  /\ lines \in Docs /\ at \in 1..(N + 1)
  /\ phase \in {"gather", "place", "pack", "cut", "done"}
  /\ phase \in {"place", "pack", "cut"} => AtBlock

\* The current chunk and each of its parts fit, so a heading that is moved to
\* the next chunk fits there.
Gathered == current \in FitChunk(lines) /\ chunks \in Seq(ShownChunk(lines))

\* The parts of a block fit and the part being packed would: a block is left with
\* no part in hand, so the part is measured with the frame of its own block.
Packed ==
  /\ parts \in Seq(FitPart(lines)) /\ fill \in Fill(lines) /\ piece \in Nat \ {0}
  /\ phase \notin {"pack", "cut"} => fill = NoFill /\ parts = <<>>
  /\ fill.pieces > 0 => Filled(fill).cost \in 1..Budget

\* What is left of a piece begins and ends outside the links, or in the label of
\* one that did not fit.  Only a block that has a frame is cut into framed parts.
InCut ==
  /\ rest \in Rests(lines) /\ wrap \in BOOLEAN /\ lead \in BOOLEAN /\ dropped \subseteq Nat
  /\ phase = "cut" /\ wrap => Framed(at)

Inv == Located /\ Gathered /\ Packed /\ InCut

\* The constants are natural numbers, and the budget is positive.
LEMMA Constants == Budget \in Nat \ {0} /\ Gap \in Nat
  BY ChunkerAssumption DEF ChunkerAssumption

\* The block at which the splitting has arrived.
LEMMA AtBlockTyped ==
  ASSUME Located, AtBlock
  PROVE  /\ at \in 1..N /\ lines \in Docs /\ lines[at].is # "blank" /\ N \in Nat
         /\ lines[at].is \in Sorts
<1>1. N \in Nat
  BY ChunkerAssumption DEF Located, N, ChunkerAssumption
<1>2. at \in 1..N
  BY <1>1 DEF Located, AtBlock
<1> QED
  BY <1>1, <1>2, LineTyped DEF Located, AtBlock, Kinds, Sorts

\* No part at all fits.
LEMMA EmptyFits == ASSUME NEW ls PROVE Empty \in FitChunk(ls)
  BY Constants DEF Empty, FitChunk, ShownChunk

\* Nothing is left of a piece when none has been cut.
LEMMA EmptyRests == ASSUME lines \in Docs PROVE <<>> \in Rests(lines)
<1>1. Unbroken(lines, 0, -1)
  BY LinkTyped DEF Unbroken
<1>2. Follows(lines, <<>>, 0, 0, -1)
  BY <1>1 DEF Follows
<1> QED
  BY <1>2 DEF Rests

\* The splitting begins with nothing gathered.
LEMMA SplitInit == Init => Inv
<1> SUFFICES ASSUME Init PROVE Inv
  OBVIOUS
<1>1. N \in Nat
  BY ChunkerAssumption DEF Init, N, ChunkerAssumption
<1>2. /\ <<>> \in Seq(FitPart(lines)) /\ <<>> \in Seq(ShownChunk(lines)) /\ <<>> \in Clean(lines)
      /\ <<>> \in Rests(lines)
  BY EmptyClean, EmptyRests DEF Init
<1>3. Located
  BY <1>1 DEF Init, Located
<1>4. Gathered
  BY <1>2, EmptyFits DEF Init, Gathered
<1>5. fill \in Fill(lines) /\ fill.pieces = 0
  BY <1>2 DEF Init, NoFill, Fill
<1>6. Packed
  BY <1>2, <1>5 DEF Init, Packed
<1>7. InCut
  BY <1>2 DEF Init, InCut
<1> QED
  BY <1>3, <1>4, <1>6, <1>7 DEF Inv

\* Joining costs at least what is joined.
LEMMA JoinedTyped ==
  ASSUME NEW a \in Nat, NEW b \in Nat
  PROVE  /\ Joined(a, b) \in Nat /\ Joined(a, b) >= b /\ Joined(0, b) = b
         /\ a > 0 => Joined(a, b) >= b + Gap
  BY Constants DEF Joined

\* What is added to a chunk with room for it still fits.
LEMMA AddFits ==
  ASSUME NEW ls, NEW c \in FitChunk(ls),
         NEW p \in [kind : Sorts, block : 1..Len(ls), chars : Clean(ls), cost : Nat \ {0}],
         Fits(Joined(c.cost, p.cost))
  PROVE  Add(c, p) \in FitChunk(ls)
<1>1. c.cost \in Nat /\ p.cost \in Nat \ {0} /\ c.parts \in Seq(FitPart(ls)) /\ Budget \in Nat
  BY Constants DEF FitChunk, ShownChunk
<1>2. Joined(c.cost, p.cost) \in 0..Budget /\ p.cost \in 1..Budget /\ p.cost <= Joined(c.cost, p.cost)
  <2>1. Joined(c.cost, p.cost) \in Nat /\ Joined(c.cost, p.cost) >= p.cost
    BY <1>1, JoinedTyped
  <2>2. Joined(c.cost, p.cost) <= Budget
    BY DEF Fits
  <2> QED
    BY <1>1, <2>1, <2>2
<1>3. p \in FitPart(ls)
  BY <1>2 DEF FitPart
<1> DEFINE q == Append(c.parts, p)
<1>4. q \in Seq(FitPart(ls)) /\ Last(q) = p /\ Len(q) = Len(c.parts) + 1
  BY <1>1, <1>3, AppendProperties DEF Last
<1>5. ASSUME Len(q) > 1 PROVE Joined(c.cost, p.cost) >= p.cost + Gap
  <2>1. c.parts # <<>> /\ Len(c.parts) \in 1..Len(c.parts)
    BY <1>1, <1>4, <1>5
  <2>2. Last(c.parts) \in FitPart(ls)
    BY <1>1, <2>1 DEF Last
  <2>3. Last(c.parts).cost \in 1..Budget
    BY <2>2 DEF FitPart
  <2>4. c.cost >= Last(c.parts).cost + IF Len(c.parts) > 1 THEN Gap ELSE 0
    BY <2>1 DEF FitChunk
  <2>5. c.cost > 0
    BY <1>1, <2>3, <2>4, Constants
  <2> QED
    BY <1>1, <2>5, JoinedTyped
<1>6. Add(c, p) = [parts |-> q, cost |-> Joined(c.cost, p.cost)]
  BY DEF Add
<1> HIDE DEF q
<1>7. Add(c, p) \in ShownChunk(ls)
  BY <1>2, <1>4, <1>6 DEF ShownChunk
<1>8. Add(c, p).cost >= Last(Add(c, p).parts).cost + IF Len(Add(c, p).parts) > 1 THEN Gap ELSE 0
  BY <1>1, <1>2, <1>4, <1>5, <1>6
<1> QED
  BY <1>7, <1>8 DEF FitChunk

\* A part alone in a chunk.
LEMMA AddToEmpty ==
  ASSUME NEW ls, NEW p \in FitPart(ls)
  PROVE  Add(Empty, p) \in FitChunk(ls)
<1>1. Empty \in FitChunk(ls) /\ Empty.cost = 0
  BY EmptyFits DEF Empty
<1>2. p \in [kind : Sorts, block : 1..Len(ls), chars : Clean(ls), cost : Nat \ {0}] /\ p.cost <= Budget
  BY Constants DEF FitPart
<1>3. Joined(0, p.cost) = p.cost
  BY <1>2, JoinedTyped
<1> QED
  BY <1>1, <1>2, <1>3, AddFits DEF Fits

\* A chunk that fits shows parts of the page.
LEMMA FitIsShown == ASSUME NEW ls PROVE FitChunk(ls) \subseteq ShownChunk(ls)
  BY DEF FitChunk

\* Moving the heading to the next chunk makes this one smaller.
LEMMA FlushFits ==
  ASSUME Gathered, Flush, UNCHANGED lines
  PROVE  Gathered'
<1>1. /\ current.parts \in Seq(FitPart(lines)) /\ current.cost \in 0..Budget
      /\ Budget \in Nat /\ Gap \in Nat
  BY Constants DEF Gathered, FitChunk, ShownChunk
<1>2. Empty \in FitChunk(lines)
  BY EmptyFits
<1>3. CASE Len(current.parts) > 1 /\ EndsInHeading(current)
  <2> DEFINE shown == [parts |-> Front(current.parts),
                       cost |-> current.cost - Gap - Last(current.parts).cost]
  <2>1. Len(current.parts) \in Nat /\ current.parts # <<>>
    BY <1>1, <1>3 DEF EndsInHeading
  <2>2. Last(current.parts) \in FitPart(lines)
    BY <1>1, <1>3, <2>1 DEF Last
  <2>3. Front(current.parts) \in Seq(FitPart(lines))
    BY <1>1, <2>1, SubSeqProperties DEF Front
  <2>4. current.cost - Gap - Last(current.parts).cost \in 0..Budget
    <3>1. current.cost >= Last(current.parts).cost + Gap
      BY <1>3, <2>1 DEF Gathered, FitChunk
    <3>2. Last(current.parts).cost \in 1..Budget
      BY <2>2 DEF FitPart
    <3> QED
      BY <1>1, <3>1, <3>2
  <2>5. shown \in ShownChunk(lines)
    BY <2>3, <2>4 DEF ShownChunk
  <2>6. chunks' = Append(chunks, shown) /\ current' = Add(Empty, Last(current.parts))
    BY <1>3, <2>1 DEF Flush
  <2> HIDE DEF shown
  <2>7. Add(Empty, Last(current.parts)) \in FitChunk(lines)
    BY <2>2, AddToEmpty
  <2>8. Append(chunks, shown) \in Seq(ShownChunk(lines))
    BY <2>5, AppendProperties DEF Gathered
  <2> QED
    BY <2>6, <2>7, <2>8 DEF Gathered
<1>4. CASE ~ (Len(current.parts) > 1 /\ EndsInHeading(current))
  <2>1. current' = Empty /\ (chunks' = chunks \/ chunks' = Append(chunks, current))
    BY <1>4 DEF Flush
  <2>2. current \in ShownChunk(lines)
    BY FitIsShown DEF Gathered
  <2>3. chunks' \in Seq(ShownChunk(lines))
    BY <2>1, <2>2, AppendProperties DEF Gathered
  <2> QED
    BY <1>2, <2>1, <2>3 DEF Gathered
<1> QED
  BY <1>3, <1>4

\* A part as it would be packed is a part, if it fits and is not empty.
LEMMA FilledTyped ==
  ASSUME Located, AtBlock, NEW f \in Fill(lines)
  PROVE  /\ Filled(f).cost \in Nat /\ Filled(f).cost >= Len(f.chars)
         /\ Framed(at) /\ f.pieces > 0 => Filled(f).cost > 0
         /\ Filled(f).cost \in 1..Budget => Filled(f) \in FitPart(lines)
<1>1. /\ at \in 1..N /\ lines \in Docs /\ lines[at].is # "blank"
      /\ lines[at].is \in Sorts
  BY AtBlockTyped
<1>2. f.pieces \in Nat /\ f.chars \in Clean(lines) /\ Len(f.chars) \in Nat
  <2>1. f.pieces \in Nat /\ f.chars \in Clean(lines)
    BY DEF Fill
  <2> QED
    BY <2>1 DEF Clean
<1>3. Framed(at) => Frame(at) \in Nat
  BY <1>1, FrameTyped
<1>4. /\ Filled(f).cost \in Nat /\ Filled(f).cost >= Len(f.chars)
      /\ Framed(at) /\ f.pieces > 0 => Filled(f).cost > 0
  BY <1>2, <1>3 DEF Filled
<1>5. ASSUME Filled(f).cost \in 1..Budget PROVE Filled(f) \in FitPart(lines)
  BY <1>1, <1>2, <1>5 DEF Filled, FitPart, N
<1> QED
  BY <1>4, <1>5

-----------------------------------------------------------------------------
(* Gathering blocks                                                        *)

\* A blank line is skipped.
LEMMA SkipBlankStep ==
  ASSUME Inv, SkipBlank
  PROVE  Inv'
<1>1. N \in Nat /\ N' = N
  BY ChunkerAssumption DEF Inv, Located, N, ChunkerAssumption, SkipBlank
<1>2. Located'
  BY <1>1 DEF Inv, Located, SkipBlank
<1>3. UNCHANGED <<lines, phase, current, chunks, parts, fill, piece, rest, wrap, lead, dropped>>
      /\ phase = "gather"
  BY DEF SkipBlank, packVars, cutVars
<1>4. Gathered'
  BY <1>3 DEF Inv, Gathered
<1>5. Packed' /\ InCut'
  BY <1>3 DEF Inv, Packed, InCut, NoFill
<1> QED
  BY <1>2, <1>4, <1>5 DEF Inv

\* A block that fits is gathered.
LEMMA GatherStep ==
  ASSUME Inv, Gather
  PROVE  Inv'
<1>1. /\ at \in 1..N /\ lines \in Docs /\ lines[at].is # "blank" /\ N \in Nat /\ N' = N
  BY AtBlockTyped DEF Inv, Gather, N
<1>2. Located'
  <2>1. End(at) \in at..N
    BY <1>1, EndInPage
  <2> QED
    BY <1>1, <2>1 DEF Inv, Located, Gather
<1>3. UNCHANGED <<lines, chunks, parts, fill, piece, rest, wrap, lead, dropped>>
      /\ phase \notin {"pack", "cut"} /\ phase' = "gather" /\ current' = Add(current, Whole(at))
  BY DEF Gather, packVars, cutVars
<1>4. Gathered'
  <2>1. Whole(at) \in [kind : Sorts, block : 1..Len(lines), chars : Clean(lines), cost : Nat \ {0}]
    BY <1>1, WholeTyped
  <2>2. current \in FitChunk(lines) /\ Fits(Joined(current.cost, Whole(at).cost))
    BY DEF Inv, Gathered, Gather, BlockFits
  <2>3. Add(current, Whole(at)) \in FitChunk(lines)
    BY <2>1, <2>2, AddFits
  <2> QED
    BY <1>3, <2>3 DEF Inv, Gathered
<1>5. Packed' /\ InCut'
  BY <1>3 DEF Inv, Packed, InCut, NoFill
<1> QED
  BY <1>2, <1>4, <1>5 DEF Inv

\* A full chunk is closed before the next block.
LEMMA MakeRoomStep ==
  ASSUME Inv, MakeRoom
  PROVE  Inv'
<1>1. UNCHANGED <<lines, at, parts, fill, piece, rest, wrap, lead, dropped>>
      /\ phase = "gather" /\ phase' = "place"
  BY DEF MakeRoom, packVars, cutVars
<1>2. Located'
  BY <1>1 DEF Inv, Located, MakeRoom, N, AtBlock
<1>3. Gathered'
  <2>1. CASE Flush
    BY <1>1, <2>1, FlushFits DEF Inv
  <2>2. CASE UNCHANGED <<current, chunks>>
    BY <1>1, <2>2 DEF Inv, Gathered
  <2> QED
    BY <2>1, <2>2 DEF MakeRoom
<1>4. Packed' /\ InCut'
  BY <1>1 DEF Inv, Packed, InCut, NoFill
<1> QED
  BY <1>2, <1>3, <1>4 DEF Inv

\* The last chunk is closed.
LEMMA FinishStep ==
  ASSUME Inv, Finish
  PROVE  Inv'
<1>1. UNCHANGED <<lines, at, parts, fill, piece, rest, wrap, lead, dropped>>
      /\ phase = "gather" /\ phase' = "done"
  BY DEF Finish, packVars, cutVars
<1>2. Located'
  BY <1>1 DEF Inv, Located, N
<1>3. Gathered'
  BY <1>1, FlushFits DEF Inv, Finish
<1>4. Packed' /\ InCut'
  BY <1>1 DEF Inv, Packed, InCut, NoFill
<1> QED
  BY <1>2, <1>3, <1>4 DEF Inv

-----------------------------------------------------------------------------
(* Splitting a block                                                       *)

\* While a block is split, what a part of it costs does not change.
LEMMA SameBlock ==
  ASSUME UNCHANGED <<lines, at>>
  PROVE  /\ N' = N /\ (AtBlock <=> AtBlock') /\ (Framed(at) <=> Framed(at)')
         /\ \A f : Filled(f) = Filled(f)'
  BY DEF N, AtBlock, Framed, Filled, Prose, Bare, BodyStart, BodyEnd, End, Closing, Same, Frame

\* A block above the budget is split.
LEMMA StartSplitStep ==
  ASSUME Inv, StartSplit
  PROVE  Inv'
<1>1. UNCHANGED <<lines, at, current, chunks, rest, wrap, lead, dropped>>
      /\ phase = "place" /\ phase' = "pack" /\ parts' = <<>> /\ fill' = NoFill /\ piece' = 1
  BY DEF StartSplit, cutVars
<1>2. Located'
  BY <1>1 DEF Inv, Located, N, AtBlock
<1>3. Gathered' /\ InCut'
  BY <1>1 DEF Inv, Gathered, InCut
<1>4. Packed'
  <2>1. NoFill \in Fill(lines)
    BY EmptyClean DEF NoFill, Fill
  <2>2. <<>> \in Seq(FitPart(lines))
    OBVIOUS
  <2> QED
    BY <1>1, <2>1, <2>2 DEF Packed, NoFill
<1> QED
  BY <1>2, <1>3, <1>4 DEF Inv

\* A piece of it is packed.
LEMMA PackStep ==
  ASSUME Inv, Pack
  PROVE  Inv'
<1>1. /\ Located /\ AtBlock /\ phase = "pack" /\ fill \in Fill(lines) /\ piece \in 1..Len(Pieces(at))
      /\ at \in 1..N /\ lines \in Docs /\ lines[at].is # "blank"
  <2>1. /\ Located /\ AtBlock /\ phase = "pack" /\ fill \in Fill(lines) /\ piece \in Nat \ {0}
        /\ piece <= Len(Pieces(at))
    BY DEF Inv, Located, Packed, Pack, Packing
  <2>2. at \in 1..N /\ lines \in Docs /\ lines[at].is # "blank"
    BY <2>1, AtBlockTyped
  <2> QED
    BY <2>1, <2>2, PiecesTyped
<1>2. UNCHANGED <<lines, at, phase, current, chunks, parts, rest, wrap, lead, dropped>>
      /\ fill' = Grown /\ piece' = piece + 1
  BY DEF Pack, cutVars
<1>3. /\ Pieces(at)[piece] \in Clean(lines)
      /\ Framed(at) \/ Len(Pieces(at)[piece]) > 0
  BY <1>1, PiecesTyped
<1>4. Grown \in Fill(lines) /\ Grown.pieces > 0 /\ Grown.chars = fill.chars \o Pieces(at)[piece]
  BY <1>1, <1>3, CleanJoins DEF Grown, Fill
<1>5. Filled(Grown).cost \in 1..Budget
  <2>1. /\ Filled(Grown).cost \in Nat /\ Filled(Grown).cost >= Len(Grown.chars)
        /\ Framed(at) => Filled(Grown).cost > 0
    BY <1>1, <1>4, FilledTyped
  <2>2. LeadCost \in Nat
    BY Constants DEF LeadCost, Inv, Gathered, FitChunk, ShownChunk
  <2>3. Framed(at) \/ Len(Grown.chars) > 0
    <3>1. fill.chars \in Seq(Nat) /\ Pieces(at)[piece] \in Seq(Nat)
      BY <1>1, <1>3 DEF Fill, Clean
    <3>2. Len(Pieces(at)[piece]) > 0 => Len(Grown.chars) > 0
      BY <1>4, <3>1, LongerJoined
    <3> QED
      BY <1>3, <3>2
  <2>4. LeadCost + Filled(Grown).cost <= Budget
    BY DEF Pack, PieceFits, Fits
  <2>5. Filled(Grown).cost > 0
    <3>1. Len(Grown.chars) \in Nat
      <4>1. Grown.chars \in Clean(lines)
        BY <1>4 DEF Fill
      <4>2. Grown.chars \in Seq(Nat)
        BY <4>1 DEF Clean
      <4> QED
        BY <4>2
    <3> QED
      BY <2>1, <2>3, <3>1
  <2> QED
    BY <2>1, <2>2, <2>4, <2>5, Constants
<1>6. Packed'
  <2>1. Filled(fill)' = Filled(Grown)
    BY <1>2 DEF Filled, Framed, Prose, Bare, BodyStart, BodyEnd, End, Closing, Same, N, Frame
  <2> QED
    BY <1>1, <1>2, <1>4, <1>5, <2>1 DEF Inv, Packed
<1>7. Located' /\ Gathered' /\ InCut'
  BY <1>1, <1>2 DEF Inv, Located, AtBlock, N, Gathered, InCut
<1> QED
  BY <1>6, <1>7 DEF Inv

\* A packed chunk is closed.
LEMMA EmitFillStep ==
  ASSUME Inv, EmitFill
  PROVE  Inv'
<1>1. Located /\ AtBlock /\ fill \in Fill(lines) /\ phase = "pack" /\ fill.pieces > 0
  BY DEF Inv, Located, Packed, EmitFill, Packing
<1>2. Filled(fill) \in FitPart(lines)
  BY <1>1, FilledTyped DEF Inv, Packed
<1>3. /\ UNCHANGED <<lines, at, phase, current, chunks, piece, rest, wrap, lead, dropped>>
      /\ parts' = Append(parts, Filled(fill)) /\ fill' = NoFill
  BY DEF EmitFill, cutVars
<1>4. Packed'
  <2>1. NoFill \in Fill(lines)
    BY EmptyClean DEF NoFill, Fill
  <2>2. parts' \in Seq(FitPart(lines))
    BY <1>2, <1>3, AppendProperties DEF Inv, Packed
  <2> QED
    BY <1>1, <1>3, <2>1, <2>2 DEF Inv, Packed, NoFill
<1>5. Located' /\ Gathered' /\ InCut'
  BY <1>1, <1>3 DEF Inv, Located, AtBlock, N, Gathered, InCut
<1> QED
  BY <1>4, <1>5 DEF Inv

\* A piece above the budget is cut.
LEMMA StartCutStep ==
  ASSUME Inv, StartCut
  PROVE  Inv'
<1>1. Located /\ AtBlock /\ phase = "pack" /\ piece \in Nat \ {0} /\ piece <= Len(Pieces(at))
  BY DEF Inv, Located, Packed, StartCut, Packing
<1>2. /\ UNCHANGED <<lines, at, current, chunks, parts, fill, piece, dropped>>
      /\ phase' = "cut" /\ rest' = Pieces(at)[piece] /\ wrap' = Framed(at) /\ lead' = Leads
  BY DEF StartCut, packVars
<1>3. rest' \in Rests(lines)
  <2>1. at \in 1..N /\ lines \in Docs /\ lines[at].is # "blank"
    BY <1>1, AtBlockTyped
  <2>2. piece \in 1..Len(Pieces(at))
    BY <1>1, <2>1, PiecesTyped
  <2> QED
    BY <1>2, <2>1, <2>2, PiecesTyped
<1>4. Framed(at)' <=> Framed(at)
  BY <1>2, SameBlock
<1>5. InCut'
  <2>1. wrap' \in BOOLEAN /\ lead' \in BOOLEAN
    BY <1>2 DEF Framed, Leads
  <2>2. dropped' \subseteq Nat
    BY <1>2 DEF Inv, InCut
  <2> QED
    BY <1>2, <1>3, <1>4, <2>1, <2>2 DEF InCut
<1>6. Packed'
  BY <1>1, <1>2, SameBlock DEF Inv, Packed
<1>7. Located' /\ Gathered'
  BY <1>1, <1>2 DEF Inv, Located, AtBlock, N, Gathered
<1> QED
  BY <1>5, <1>6, <1>7 DEF Inv

\* A cut of at most the room that the frame leaves is a part that fits.
LEMMA EmitFits ==
  ASSUME Inv, phase = "cut", NEW chars \in Clean(lines), Emit(chars), Len(chars) > 0,
         Len(chars) + (IF wrap THEN Frame(at) + 1 ELSE 0) <= Budget,
         UNCHANGED <<lines, at, phase, current, chunks, piece>>
  PROVE  Located' /\ Gathered' /\ Packed'
<1>1. /\ Located /\ AtBlock /\ fill \in Fill(lines) /\ lines[at].is \in Sorts
      /\ at \in 1..N /\ lines \in Docs /\ lines[at].is # "blank"
  BY AtBlockTyped DEF Inv, Located, Packed
<1>2. Located' /\ Gathered'
  BY <1>1 DEF Inv, Located, AtBlock, N, Gathered
<1>3. Len(chars) \in Nat \ {0} /\ (wrap => Frame(at) \in Nat)
  <2>1. Len(chars) \in Nat
    BY DEF Clean
  <2> QED
    BY <1>1, <2>1, FrameTyped DEF Inv, InCut
<1>4. CASE Prose(at)
  <2>1. fill.pieces > 0 => Filled(fill) \in FitPart(lines)
    BY <1>1, FilledTyped DEF Inv, Packed
  <2>2. /\ parts' \in {parts, Append(parts, Filled(fill))}
        /\ parts' # parts => fill.pieces > 0
        /\ fill' = [pieces |-> 1, chars |-> chars]
    BY <1>4 DEF Emit
  <2>3. parts' \in Seq(FitPart(lines))
    BY <2>1, <2>2, AppendProperties DEF Inv, Packed
  <2>4. fill' \in Fill(lines)
    BY <2>2 DEF Fill
  <2>5. Filled(fill') = [kind |-> lines[at].is, block |-> at, chars |-> chars, cost |-> Len(chars)]
    BY <1>3, <1>4, <2>2 DEF Filled, Framed
  <2>6. Len(chars) \in 1..Budget
    BY <1>3, Constants
  <2>7. Filled(fill)' = Filled(fill')
    BY DEF Filled, Framed, Prose, Bare, BodyStart, BodyEnd, End, Closing, Same, N, Frame
  <2>8. Filled(fill)'.cost \in 1..Budget
    BY <2>5, <2>6, <2>7
  <2>9. Packed'
    BY <2>3, <2>4, <2>8 DEF Inv, Packed
  <2> QED
    BY <1>2, <2>9
<1>5. CASE ~ Prose(at)
  <2> DEFINE part == [kind |-> lines[at].is, block |-> at, chars |-> chars,
                      cost |-> Len(chars) + IF wrap THEN Frame(at) + 1 ELSE 0]
  <2>1. part \in FitPart(lines)
    <3>1. part.cost \in 1..Budget
      BY <1>3, Constants
    <3> QED
      BY <1>1, <3>1 DEF FitPart, N
  <2>2. parts' = Append(parts, part) /\ fill' = fill
    BY <1>5 DEF Emit
  <2> HIDE DEF part
  <2>3. parts' \in Seq(FitPart(lines))
    BY <2>1, <2>2, AppendProperties DEF Inv, Packed
  <2>4. Packed'
    BY <2>2, <2>3, SameBlock DEF Inv, Packed
  <2> QED
    BY <1>2, <2>4
<1> QED
  BY <1>4, <1>5

\* The position before the first of some positions is not after the last.
LEMMA BeforeBreak ==
  ASSUME NEW r \in Int, NEW S, S \subseteq 1..r
  PROVE  /\ (IF S = {} THEN r ELSE Min(S) - 1) \in Int /\ (IF S = {} THEN r ELSE Min(S) - 1) <= r
         /\ S # {} => Min(S) \in S
<1>1. S # {} => Min(S) \in S
  <2>1. \A a \in Int : S \subseteq a..r /\ S # {} => Min(S) \in S
    BY MinOfRange
  <2>2. 1 \in Int
    OBVIOUS
  <2> QED
    BY <2>1, <2>2, Zenon
<1>2. S # {} => Min(S) \in 1..r
  BY <1>1
<1> QED
  BY <1>1, <1>2

\* What is reached is within the piece and the room for it.
LEMMA ReachTyped ==
  ASSUME Inv, phase = "cut"
  PROVE  /\ rest \in Seq(Nat) /\ Len(rest) \in Nat
         /\ Reach \in Int /\ Reach <= Len(rest)
         /\ Reach + (IF wrap THEN Frame(at) + 1 ELSE 0) <= Budget
<1>1. /\ Located /\ AtBlock
      /\ at \in 1..N /\ lines \in Docs /\ lines[at].is # "blank"
  BY AtBlockTyped DEF Inv, Located
<1>2. wrap => Frame(at) \in Nat
  BY <1>1, FrameTyped DEF Inv, InCut
<1>3. rest \in Seq(Nat) /\ Len(rest) \in Nat
  <2>1. rest \in Seq(Nat)
    BY DEF Inv, InCut, Rests
  <2> QED
    BY <2>1
<1>4. current.cost \in Nat /\ Gap \in Nat /\ Budget \in Nat
  BY Constants DEF Inv, Gathered, FitChunk, ShownChunk
<1> DEFINE head == IF lead THEN current.cost + Gap ELSE 0
           frame == IF wrap THEN Frame(at) + 1 ELSE 0
<1>5. head \in Nat /\ frame \in Nat
  BY <1>2, <1>4
<1>6. Reach = IF Budget - head - frame < Len(rest) THEN Budget - head - frame ELSE Len(rest)
  BY DEF Reach
<1> HIDE DEF head
<1>7. Reach \in Int /\ Reach <= Len(rest) /\ Reach + frame <= Budget
  <2> HIDE DEF frame
  <2> QED
    BY <1>3, <1>4, <1>5, <1>6
<1> QED
  BY <1>3, <1>7

\* No cut is longer than what is left of the piece or than the room for it.
LEMMA CutWithinReach ==
  ASSUME Inv, phase = "cut", CutAt > 0
  PROVE  /\ CutAt \in 1..Len(rest) /\ CutAt <= Reach
         /\ CutAt + (IF wrap THEN Frame(at) + 1 ELSE 0) <= Budget
<1>1. /\ Len(rest) \in Nat /\ Reach \in Int /\ Reach <= Len(rest)
      /\ Reach + (IF wrap THEN Frame(at) + 1 ELSE 0) <= Budget
  BY ReachTyped
<1>2. wrap => Frame(at) \in Nat
  <2>1. at \in 1..N /\ lines \in Docs /\ lines[at].is # "blank"
    BY AtBlockTyped DEF Inv, Located
  <2> QED
    BY <2>1, FrameTyped DEF Inv, InCut
<1>3. CutAt \in Int /\ CutAt <= Reach
  <2> DEFINE broken == {i \in 1..Reach : \E g \in LinkAt(i) : Reach < i + g.to - g.from}
  <2>1. broken \subseteq 1..Reach
    OBVIOUS
  <2>2. CutAt = IF broken = {} THEN Reach ELSE Min(broken) - 1
    BY DEF CutAt
  <2> HIDE DEF broken
  <2> QED
    BY <1>1, <2>1, <2>2, BeforeBreak
<1>4. Budget \in Nat
  BY Constants
<1> QED
  BY <1>1, <1>2, <1>3, <1>4

\* A cut behind the label of a link that did not fit is in no link: the first link
\* that would be cut goes to the next part as a whole.
LEMMA CutOutside ==
  ASSUME Inv, phase = "cut", CutAt > 0, NEW k \in Int, NEW q \in Int, NEW r \in Int, Follows(lines, rest, k, q, r),
         k < CutAt, NEW g \in LinksOf(lines), g.from <= r + CutAt
  PROVE  g.to <= r + CutAt
<1> SUFFICES ASSUME r + CutAt < g.to PROVE FALSE
  <2>1. g.to \in Nat /\ r \in Int /\ CutAt \in Int
    BY LinkTyped, CutWithinReach DEF Follows, Inv, Located
  <2> QED
    BY <2>1
<1>1. /\ Len(rest) \in Nat /\ Reach \in Int /\ Reach <= Len(rest) /\ CutAt \in 1..Len(rest)
      /\ k \in 0..Len(rest) /\ r \in Int /\ \A i \in (k + 1)..Len(rest) : rest[i] = r + i
  BY ReachTyped, CutWithinReach DEF Follows
<1>2. /\ lines \in Docs /\ g.from \in Nat /\ g.to \in Nat
      /\ g.to < r + k + 1 \/ r + k + 1 <= g.from
      /\ g.to <= r + Len(rest) \/ r + Len(rest) < g.from
  BY LinkTyped DEF Inv, Located, Follows, Unbroken
<1> DEFINE broken == {i \in 1..Reach : \E h \in LinkAt(i) : Reach < i + h.to - h.from}
<1>3. CutAt = IF broken = {} THEN Reach ELSE Min(broken) - 1
  BY DEF CutAt
<1>4. CASE broken = {}
  <2>1. CutAt = Reach
    BY <1>3, <1>4
  <2>2. PICK i, j \in Int : g.from = r + i /\ g.to = r + j
    <3>1. g.from - r \in Int /\ g.to - r \in Int /\ g.from = r + (g.from - r) /\ g.to = r + (g.to - r)
      BY <1>2
    <3> QED
      BY <3>1
  <2> HIDE DEF broken
  <2>3. i \in 1..Reach /\ i \in (k + 1)..Len(rest) /\ j \in (k + 1)..Len(rest) /\ Reach < j
    <3>1. /\ Len(rest) \in Nat /\ Reach \in Int /\ Reach <= Len(rest) /\ k \in 0..Len(rest) /\ k < Reach
          /\ r + j < r + k + 1 \/ r + k + 1 <= r + i
          /\ r + j <= r + Len(rest) \/ r + Len(rest) < r + i
          /\ r + Reach < r + j /\ r + i <= r + Reach
      BY <1>1, <1>2, <2>1, <2>2
    <3> QED
      BY <3>1
  <2>4. rest[i] = r + i /\ rest[j] = r + j
    BY <1>1, <2>3
  <2>5. rest[i] = g.from /\ rest[j] = g.to /\ i + g.to - g.from = j
    BY <2>2, <2>4
  <2>6. g \in Links
    BY DEF Links, LinksOf, N
  <2>7. j <= Len(rest)
    BY <1>1, <2>3
  <2>8. g \in LinkAt(i)
    BY <2>5, <2>6, <2>7 DEF LinkAt
  <2>9. i \in broken
    BY <2>3, <2>5, <2>8 DEF broken
  <2> QED
    BY <1>4, <2>9
<1>5. CASE broken # {}
  <2>1. broken \subseteq 1..Reach
    OBVIOUS
  <2>2. Min(broken) \in broken
    <3> HIDE DEF broken
    <3> QED
      BY <1>1, <1>5, <2>1, BeforeBreak
  <2>3. CutAt + 1 \in broken
    <3> HIDE DEF broken
    <3>1. Min(broken) \in 1..Reach
      BY <2>1, <2>2
    <3>2. CutAt + 1 = Min(broken)
      BY <1>1, <1>3, <1>5, <3>1
    <3> QED
      BY <2>2, <3>2
  <2>4. PICK h \in LinkAt(CutAt + 1) : TRUE
    BY <2>3
  <2>5. h \in LinksOf(lines) /\ h.from = rest[CutAt + 1]
    BY <2>4 DEF LinkAt, Links, LinksOf, N
  <2>6. CutAt + 1 \in 1..Reach
    BY <2>1, <2>3
  <2>7. h.from = r + CutAt + 1
    BY <1>1, <2>5, <2>6
  <2>8. /\ h.from \in Nat /\ h.to \in Nat /\ h.from < h.to
        /\ g = h \/ g.to < h.from \/ h.to < g.from
    <3>1. h.from \in Nat /\ h.to \in Nat /\ h.label \in Nat /\ h.from + h.label < h.to
      BY <1>2, <2>5, LinkTyped
    <3>2. g = h \/ g.to < h.from \/ h.to < g.from
      BY <1>2, <2>5, LinksApart
    <3> QED
      BY <3>1, <3>2
  <2>9. PICK a, b, x, y \in Nat : a = g.from /\ b = g.to /\ x = h.from /\ y = h.to
    BY <1>2, <2>8, Zenon
  <2>10. PICK z \in Int : z = r + CutAt
    BY <1>1
  <2>11. a <= z /\ z < b /\ x < y /\ (a = x \/ b < x \/ y < a)
    BY <2>8, <2>9, <2>10, Zenon
  <2>12. x = z + 1
    BY <2>7, <2>9, <2>10, Zenon
  <2>13. a \in Nat /\ b \in Nat /\ x \in Nat /\ y \in Nat
    BY <2>9, Zenon
  <2> QED
    BY <2>10, <2>11, <2>12, <2>13
<1> QED
  BY <1>4, <1>5

\* Some of what is left, from its beginning, is clean text if it is not cut off in
\* a link.
LEMMA HeadClean ==
  ASSUME lines \in Docs, NEW s \in Seq(Nat), NEW k \in Int, NEW q \in Int, NEW r \in Int, Follows(lines, s, k, q, r),
         NEW c \in 1..Len(s),
         \A g \in LinksOf(lines) : k < c /\ g.from <= r + c => g.to <= r + c
  PROVE  SubSeq(s, 1, c) \in Clean(lines) /\ Len(SubSeq(s, 1, c)) = c
<1>1. /\ k \in 0..Len(s) /\ q \in Int /\ r \in Int /\ Len(s) \in Nat
      /\ \A i \in 1..k : s[i] = q + i
      /\ \A i \in (k + 1)..Len(s) : s[i] = r + i
  BY DEF Follows
<1> DEFINE h == SubSeq(s, 1, c)
<1>2. h \in Seq(Nat) /\ Len(h) = c /\ \A i \in 1..c : h[i] = s[i]
  <2>1. \A i \in 1..c : s[i] \in Nat
    BY <1>1
  <2> QED
    BY <1>1, <2>1, SubSeqProperties
<1> HIDE DEF h
<1>3. ASSUME NEW g \in LinksOf(lines)
      PROVE  Has(h, g) = g.from..g.to \/ Has(h, g) \subseteq Label(g)
  <2>1. PICK u, v, n \in Nat : u = g.from /\ v = g.to /\ n = g.label
    BY LinkTyped
  <2>2. v < r + k + 1 \/ r + k + 1 <= u
    <3>1. g.to < r + k + 1 \/ r + k + 1 <= g.from
      BY DEF Follows, Unbroken
    <3> QED
      BY <2>1, <3>1, Zenon
  <2>3. k < c /\ u <= r + c => v <= r + c
    BY <2>1, Zenon
  <2>4. CASE k < c /\ r + k + 1 <= u /\ v <= r + c
    <3>1. ASSUME NEW x \in u..v PROVE \E i \in 1..Len(h) : h[i] = x
      <4>1. PICK i \in Int : i = x - r
        BY <2>1
      <4>2. i \in (k + 1)..Len(s) /\ i \in 1..c
        BY <1>1, <2>4, <4>1
      <4>3. h[i] = r + i
        BY <1>1, <1>2, <4>2
      <4>4. r + i = x
        BY <4>1
      <4> QED
        BY <1>2, <4>2, <4>3, <4>4, Zenon
    <3> QED
      BY <2>1, <3>1 DEF Has
  <2>5. CASE ~ (k < c /\ r + k + 1 <= u /\ v <= r + c)
    <3>1. ASSUME NEW i \in 1..c, h[i] \in u..v PROVE h[i] \in Label(g)
      <4>1. i <= k
        <5>1. SUFFICES ASSUME k < i PROVE FALSE
          BY <1>1
        <5>2. i \in (k + 1)..Len(s)
          BY <1>1, <5>1
        <5>3. h[i] = r + i
          BY <1>1, <1>2, <5>2, Zenon
        <5>4. u <= r + i /\ r + i <= v
          BY <3>1, <5>3
        <5>5. u \in Nat /\ v \in Nat
          BY <2>1, Zenon
        <5>6. k < c
          BY <1>1, <5>1
        <5>7. r + k + 1 <= v
          BY <1>1, <5>1, <5>4, <5>5
        <5>8. u <= r + c
          BY <1>1, <5>4, <5>5
        <5>9. ~ (v < r + k + 1)
          BY <1>1, <5>5, <5>7
        <5> QED
          BY <2>2, <2>3, <2>5, <5>6, <5>8, <5>9, Zenon
      <4>2. h[i] = q + i
        <5>1. i \in 1..k /\ h[i] = s[i]
          BY <1>1, <1>2, <4>1
        <5> QED
          BY <1>1, <5>1
      <4>3. PICK f \in LinksOf(lines) : f.from <= q /\ q + k <= f.from + f.label /\ f.to <= r + k
        BY <1>1, <4>1 DEF Follows
      <4>4. PICK a, b, m \in Nat : a = f.from /\ b = f.to /\ m = f.label /\ a + m < b
        BY LinkTyped
      <4>5. a <= q /\ q + k <= a + m
        BY <4>3, <4>4, Zenon
      <4>6. u <= q + i /\ q + i <= v
        BY <3>1, <4>2
      <4>7. a < q + i /\ q + i <= a + m
        BY <1>1, <4>1, <4>5
      <4>8. ~ (v < a \/ b < u)
        <5>1. PICK w \in Int : w = q + i
          BY <1>1
        <5>2. u <= w /\ w <= v /\ a < w /\ w <= a + m /\ a + m < b
          BY <4>4, <4>6, <4>7, <5>1, Zenon
        <5>3. u \in Nat /\ v \in Nat /\ a \in Nat /\ b \in Nat /\ m \in Nat /\ w \in Int
          BY <2>1, <4>4, <5>1, Zenon
        <5> QED
          BY <5>2, <5>3
      <4>9. f = g
        <5>1. f = g \/ f.to < g.from \/ g.to < f.from
          BY LinksApart
        <5> QED
          BY <2>1, <4>4, <4>8, <5>1, Zenon
      <4>10. q + i \in (a + 1)..(a + m)
        BY <4>7
      <4> QED
        BY <4>2, <4>4, <4>9, <4>10, Zenon DEF Label
    <3> QED
      BY <1>2, <2>1, <3>1 DEF Has
  <2> QED
    BY <2>4, <2>5
<1>4. h \in Clean(lines)
  BY <1>2, <1>3 DEF Clean
<1> QED
  BY <1>2, <1>4 DEF h

\* What is left behind such a cut is left of the piece.
LEMMA TailRests ==
  ASSUME lines \in Docs, NEW s \in Seq(Nat), NEW k \in Int, NEW q \in Int, NEW r \in Int, Follows(lines, s, k, q, r),
         NEW c \in 1..Len(s),
         \A g \in LinksOf(lines) : k < c /\ g.from <= r + c => g.to <= r + c
  PROVE  SubSeq(s, c + 1, Len(s)) \in Rests(lines)
<1>1. /\ k \in 0..Len(s) /\ q \in Int /\ r \in Int /\ Len(s) \in Nat
      /\ \A i \in 1..k : s[i] = q + i
      /\ \A i \in (k + 1)..Len(s) : s[i] = r + i
  BY DEF Follows
<1> DEFINE t == SubSeq(s, c + 1, Len(s))
<1>2. t \in Seq(Nat) /\ Len(t) = Len(s) - c /\ \A i \in 1..Len(t) : t[i] = s[c + i]
  <2>1. \A i \in (c + 1)..Len(s) : s[i] \in Nat
    BY <1>1
  <2>2. t \in Seq(Nat) /\ Len(t) = IF c + 1 <= Len(s) THEN Len(s) - (c + 1) + 1 ELSE 0
    BY <1>1, <2>1, SubSeqProperties
  <2>3. \A i \in 1..Len(t) : t[i] = s[c + 1 + i - 1]
    BY <1>1, <2>1, <2>2, SubSeqProperties
  <2>4. \A i \in 1..Len(t) : c + 1 + i - 1 = c + i
    BY <2>2
  <2> QED
    BY <1>1, <2>2, <2>3, <2>4
<1> HIDE DEF t
<1>3. CASE c <= k
  <2>1. Follows(lines, t, k - c, q + c, r + c)
    <3>1. k - c \in 0..Len(t) /\ q + c \in Int /\ r + c \in Int
      BY <1>1, <1>2, <1>3
    <3>2. ASSUME NEW i \in 1..(k - c) PROVE t[i] = q + c + i
      <4>1. i \in 1..Len(t) /\ c + i \in 1..k
        BY <1>1, <1>2, <1>3
      <4>2. t[i] = q + (c + i)
        BY <1>1, <1>2, <4>1
      <4> QED
        BY <4>2
    <3>3. ASSUME NEW i \in (k - c + 1)..Len(t) PROVE t[i] = r + c + i
      <4>1. i \in 1..Len(t) /\ c + i \in (k + 1)..Len(s)
        BY <1>1, <1>2, <1>3
      <4>2. t[i] = r + (c + i)
        BY <1>1, <1>2, <4>1
      <4> QED
        BY <4>2
    <3>4. k - c > 0 => \E g \in LinksOf(lines) : /\ g.from <= q + c
                                                 /\ q + c + (k - c) <= g.from + g.label
                                                 /\ g.to <= r + c + (k - c)
      <4>1. SUFFICES ASSUME k - c > 0
                     PROVE  \E g \in LinksOf(lines) : /\ g.from <= q + c
                                                      /\ q + c + (k - c) <= g.from + g.label
                                                      /\ g.to <= r + c + (k - c)
        OBVIOUS
      <4>2. PICK g \in LinksOf(lines) : g.from <= q /\ q + k <= g.from + g.label /\ g.to <= r + k
        BY <1>1, <4>1 DEF Follows
      <4>3. g.from \in Nat /\ g.to \in Nat /\ g.label \in Nat
        BY LinkTyped
      <4> QED
        BY <1>1, <4>2, <4>3
    <3>5. Unbroken(lines, r + c + (k - c) + 1, r + c + Len(t))
      <4>1. r + c + (k - c) + 1 = r + k + 1 /\ r + c + Len(t) = r + Len(s)
        BY <1>1, <1>2
      <4> QED
        BY <4>1 DEF Follows
    <3> QED
      BY <3>1, <3>2, <3>3, <3>4, <3>5 DEF Follows
  <2>2. k - c \in Int /\ q + c \in Int /\ r + c \in Int
    BY <1>1
  <2> QED
    BY <1>2, <2>1, <2>2 DEF Rests, t
<1>4. CASE k < c
  <2>1. Unbroken(lines, r + c + 1, r + c + Len(t))
    <3>1. ASSUME NEW g \in LinksOf(lines)
          PROVE  /\ g.to < r + c + 1 \/ r + c + 1 <= g.from
                 /\ g.to <= r + Len(s) \/ r + Len(s) < g.from
      <4>1. g.from \in Nat /\ g.to \in Nat
        BY LinkTyped
      <4>2. g.to <= r + Len(s) \/ r + Len(s) < g.from
        BY DEF Follows, Unbroken
      <4>3. g.from <= r + c => g.to <= r + c
        BY <1>4
      <4> QED
        BY <1>1, <1>4, <4>1, <4>2, <4>3
    <3>2. r + c + Len(t) = r + Len(s)
      BY <1>1, <1>2
    <3> QED
      BY <3>1, <3>2 DEF Unbroken
  <2>2. Follows(lines, t, 0, 0, r + c)
    <3>1. ASSUME NEW i \in 1..Len(t) PROVE t[i] = r + c + i
      <4>1. c + i \in (k + 1)..Len(s)
        BY <1>1, <1>2, <1>4
      <4>2. t[i] = r + (c + i)
        BY <1>1, <1>2, <4>1
      <4> QED
        BY <4>1, <4>2
    <3>2. r + c \in Int /\ r + c + 0 + 1 = r + c + 1 /\ Len(t) \in Nat
      BY <1>1, <1>2
    <3> QED
      BY <2>1, <3>1, <3>2 DEF Follows
  <2>3. r + c \in Int
    BY <1>1
  <2> QED
    BY <1>2, <2>2, <2>3 DEF Rests, t
<1> QED
  BY <1>1, <1>3, <1>4

\* A cut takes at most the room that is left.
LEMMA CutStep ==
  ASSUME Inv, Cut
  PROVE  Inv'
<1> DEFINE head == SubSeq(rest, 1, CutAt)
           tail == SubSeq(rest, CutAt + 1, Len(rest))
<1>1. /\ phase = "cut" /\ CutAt > 0 /\ Emit(head) /\ rest' = tail /\ lead' = FALSE
      /\ UNCHANGED <<lines, at, phase, current, chunks, piece, wrap, dropped>>
  BY DEF Cut
<1>2. /\ CutAt \in 1..Len(rest) /\ rest \in Seq(Nat) /\ lines \in Docs
      /\ CutAt + (IF wrap THEN Frame(at) + 1 ELSE 0) <= Budget
  BY <1>1, CutWithinReach, ReachTyped DEF Inv, Located
<1>3. PICK k, q, r \in Int : Follows(lines, rest, k, q, r)
  BY DEF Inv, InCut, Rests
<1>4. \A g \in LinksOf(lines) : k < CutAt /\ g.from <= r + CutAt => g.to <= r + CutAt
  BY <1>1, <1>3, CutOutside
<1>5. head \in Clean(lines) /\ Len(head) = CutAt
  BY <1>2, <1>3, <1>4, HeadClean
<1>6. tail \in Rests(lines)
  BY <1>2, <1>3, <1>4, TailRests
<1> HIDE DEF head, tail
<1>7. Located' /\ Gathered' /\ Packed'
  <2>1. Len(head) > 0 /\ Len(head) + (IF wrap THEN Frame(at) + 1 ELSE 0) <= Budget
    BY <1>2, <1>5
  <2> QED
    BY <1>1, <1>5, <2>1, EmitFits
<1>8. InCut'
  BY <1>1, <1>6, SameBlock DEF Inv, InCut
<1> QED
  BY <1>7, <1>8 DEF Inv

\* The frame around the parts is dropped when nothing fits into it.
LEMMA DropWrapperStep ==
  ASSUME Inv, DropWrapper
  PROVE  Inv'
<1>1. /\ UNCHANGED <<lines, at, phase, current, chunks, parts, fill, piece, rest, dropped>>
      /\ wrap' = FALSE /\ lead' = FALSE
  BY DEF DropWrapper, packVars
<1>2. Located' /\ Gathered'
  BY <1>1 DEF Inv, Located, AtBlock, N, Gathered
<1>3. Packed' /\ InCut'
  BY <1>1, SameBlock DEF Inv, Packed, InCut
<1> QED
  BY <1>2, <1>3 DEF Inv

\* A character of a label is clean.
LEMMA LabelClean ==
  ASSUME lines \in Docs, NEW g \in LinksOf(lines)
  PROVE  <<g.from + 1>> \in Clean(lines) /\ Len(<<g.from + 1>>) = 1
<1>1. g.from \in Nat /\ g.to \in Nat /\ g.label \in Nat \ {0} /\ g.from + g.label < g.to
  BY LinkTyped
<1> DEFINE s == <<g.from + 1>>
<1>2. s \in Seq(Nat) /\ Len(s) = 1 /\ s[1] = g.from + 1
  BY <1>1
<1> HIDE DEF s
<1>3. ASSUME NEW h \in LinksOf(lines) PROVE Has(s, h) \subseteq Label(h)
  <2>1. h.from \in Nat /\ h.to \in Nat /\ h.label \in Nat
    BY LinkTyped
  <2>2. g = h \/ g.to < h.from \/ h.to < g.from
    BY LinksApart
  <2>3. ASSUME g.from + 1 \in h.from..h.to PROVE g.from + 1 \in Label(h)
    <3>1. g = h
      BY <1>1, <2>1, <2>2, <2>3
    <3> QED
      BY <1>1, <3>1 DEF Label
  <2>4. \A i \in 1..Len(s) : s[i] = g.from + 1
    BY <1>2
  <2> QED
    BY <2>3, <2>4 DEF Has
<1> QED
  BY <1>2, <1>3 DEF Clean, s

\* The rest of a label of n characters, and what is left behind the link from u to v.
Splice(s, u, v, n) == Span(u + 2, u + n) \o SubSeq(s, v - u + 2, Len(s))

\* The z positions in s, in order, are those from u on, to v at least; m of them
\* are left of the label.
LinkLeads(s, u, v, m, z) ==
  /\ s \in Seq(Nat) /\ z = Len(s) /\ \A i \in 1..z : s[i] = u - 1 + i
  /\ u \in Nat /\ v \in Nat /\ m \in Nat /\ z \in Nat
  /\ u + m + 1 < v /\ 1 + v - u <= z

\* m positions of the label and the l that follow the link.
LabelLeft(t, u, v, m, l) ==
  /\ t \in Seq(Nat) /\ Len(t) = m + l
  /\ \A i \in 1..m : t[i] = u + 1 + i
  /\ \A i \in (m + 1)..(m + l) : t[i] = v - m + i

\* The text that KeepLabel leaves.
LEMMA Spliced ==
  ASSUME NEW s, NEW u, NEW v, NEW m, NEW z, LinkLeads(s, u, v, m, z)
  PROVE  LabelLeft(Splice(s, u, v, m + 1), u, v, m, z - (v - u + 1))
<1> DEFINE a == Span(u + 2, u + (m + 1))
           b == SubSeq(s, v - u + 2, Len(s))
           t == Splice(s, u, v, m + 1)
<1>0. t = a \o b
  BY DEF Splice
<1> HIDE DEF t
<1> USE DEF LinkLeads
<1>1. a \in Seq(Nat) /\ Len(a) = m /\ \A i \in 1..m : a[i] = u + 1 + i
  <2>1. PICK x \in Nat, y \in Int : x = u + 2 /\ y = u + (m + 1) /\ y - x + 1 = m
    <3>1. u + 2 \in Nat /\ u + (m + 1) \in Int /\ u + (m + 1) - (u + 2) + 1 = m
      OBVIOUS
    <3> QED
      BY <3>1
  <2>2. /\ a \in Seq(Nat) /\ Len(a) = IF y - x + 1 < 0 THEN 0 ELSE y - x + 1
        /\ \A i \in 1..Len(a) : a[i] = x + i - 1
    BY <2>1, SpanTyped
  <2> HIDE DEF a
  <2>3. Len(a) = m
    BY <2>1, <2>2
  <2>4. \A i \in 1..m : a[i] = u + 1 + i
    BY <2>1, <2>2, <2>3
  <2> QED
    BY <2>2, <2>3, <2>4
<1> DEFINE l == z - (v - u + 1)
<1>2. l \in Nat /\ b \in Seq(Nat) /\ Len(b) = l /\ \A i \in 1..l : b[i] = v + i
  <2>1. PICK x \in Int : x = v - u + 2
    OBVIOUS
  <2>2. l \in Nat /\ l = z - x + 1 /\ (x <= z \/ l = 0) /\ x >= 1
    BY <2>1
  <2>3. \A i \in x..z : s[i] \in Nat
    BY <2>2
  <2>4. /\ b \in Seq(Nat) /\ Len(b) = IF x <= z THEN z - x + 1 ELSE 0
        /\ \A i \in 1..(z - x + 1) : b[i] = s[x + i - 1]
    BY <2>1, <2>3, SubSeqProperties
  <2> HIDE DEF b, l
  <2>5. Len(b) = l
    BY <2>2, <2>4
  <2>6. ASSUME NEW i \in 1..l PROVE b[i] = v + i
    <3>1. x + i - 1 \in 1..z /\ i \in 1..(z - x + 1)
      BY <2>2
    <3>2. b[i] = u - 1 + (x + i - 1)
      BY <2>4, <3>1
    <3> QED
      BY <2>1, <2>2, <3>2
  <2> QED
    BY <2>2, <2>4, <2>5, <2>6
<1> HIDE DEF a, b, l
<1>3. /\ t \in Seq(Nat) /\ Len(t) = m + l
      /\ \A i \in 1..(m + l) : t[i] = IF i <= m THEN a[i] ELSE b[i - m]
  <2>1. a \in Seq(Nat) /\ b \in Seq(Nat)
    BY <1>1, <1>2
  <2>2. /\ t \in Seq(Nat) /\ Len(t) = Len(a) + Len(b)
        /\ \A i \in 1..(Len(a) + Len(b)) : t[i] = IF i <= Len(a) THEN a[i] ELSE b[i - Len(a)]
    BY <1>0, <2>1, ConcatProperties, Zenon
  <2>3. Len(a) = m /\ Len(b) = l
    BY <1>1, <1>2
  <2> HIDE DEF t
  <2> QED
    BY <2>2, <2>3, Zenon
<1>4. ASSUME NEW i \in 1..m PROVE t[i] = u + 1 + i
  <2>1. i \in 1..(m + l) /\ i <= m
    BY <1>2
  <2> QED
    BY <1>1, <1>3, <2>1
<1>5. ASSUME NEW i \in (m + 1)..(m + l) PROVE t[i] = v - m + i
  <2>1. i \in 1..(m + l) /\ ~ (i <= m) /\ i - m \in 1..l
    BY <1>2
  <2>2. t[i] = v + (i - m)
    BY <1>2, <1>3, <2>1
  <2> QED
    BY <2>2
<1> QED
  BY <1>3, <1>4, <1>5 DEF t, l, LabelLeft

\* A piece in which a link begins with the first character holds consecutive
\* positions.
LEMMA LinkStarts ==
  ASSUME lines \in Docs, NEW s \in Rests(lines), s # <<>>, NEW g \in LinksOf(lines), g.from = s[1],
         NEW k \in Int, NEW q \in Int, NEW r \in Int, Follows(lines, s, k, q, r)
  PROVE  k = 0 /\ g.from = r + 1 /\ \A i \in 1..Len(s) : s[i] = r + i
<1>1. g.from \in Nat /\ g.to \in Nat /\ g.label \in Nat \ {0} /\ g.from + g.label < g.to
  BY LinkTyped
<1>2. s \in Seq(Nat) /\ Len(s) \in Nat \ {0}
  BY DEF Rests
<1>4. /\ k \in 0..Len(s) /\ \A i \in 1..k : s[i] = q + i
      /\ \A i \in (k + 1)..Len(s) : s[i] = r + i
  BY DEF Follows
<1>5. k = 0
  <2>1. SUFFICES ASSUME k > 0 PROVE FALSE
    BY <1>4
  <2>2. PICK f \in LinksOf(lines) : f.from <= q /\ q + k <= f.from + f.label /\ f.to <= r + k
    BY <2>1 DEF Follows
  <2>3. f.from \in Nat /\ f.to \in Nat /\ f.label \in Nat /\ f.from + f.label < f.to
    BY LinkTyped
  <2>4. g = f \/ g.to < f.from \/ f.to < g.from
    BY LinksApart
  <2>5. g.from = q + 1
    BY <1>4, <2>1
  <2>6. f.from < q + 1 /\ q + 1 <= f.to
    <3>1. q + 1 <= f.from + f.label
      <4> DEFINE e == f.from + f.label
      <4>1. e \in Nat /\ q + k <= e
        BY <2>2, <2>3
      <4> HIDE DEF e
      <4>2. q + 1 <= e
        BY <2>1, <4>1
      <4> QED
        BY <4>2 DEF e
    <3> QED
      BY <2>2, <2>3, <3>1
  <2> QED
    BY <1>1, <2>3, <2>4, <2>5, <2>6
<1> QED
  BY <1>2, <1>4, <1>5

\* Behind the first character of the label of a link comes what is left of the
\* piece: the rest of the label and what follows the link.
LEMMA LabelRests ==
  ASSUME lines \in Docs, NEW s \in Rests(lines), s # <<>>, NEW g \in LinksOf(lines),
         g.from = s[1], 1 + g.to - g.from <= Len(s)
  PROVE  Splice(s, g.from, g.to, g.label) \in Rests(lines)
<1>1. g.from \in Nat /\ g.to \in Nat /\ g.label \in Nat \ {0} /\ g.from + g.label < g.to
  BY LinkTyped
<1>2. s \in Seq(Nat) /\ Len(s) \in Nat \ {0}
  BY DEF Rests
<1>3. PICK k, q, r \in Int : Follows(lines, s, k, q, r)
  BY DEF Rests
<1>6. g.from = r + 1 /\ \A i \in 1..Len(s) : s[i] = r + i
  BY <1>3, LinkStarts
<1>7. PICK u, v, m, z \in Nat : /\ u = g.from /\ v = g.to /\ g.label = m + 1 /\ z = Len(s)
                                /\ u + (m + 1) < v /\ 1 + v - u <= z /\ u = r + 1
  <2>1. PICK n \in Nat \ {0} : g.label = n
    BY <1>1
  <2>2. PICK m \in Nat : n = m + 1
    <3>1. n - 1 \in Nat /\ n = n - 1 + 1
      BY <2>1
    <3> QED
      BY <3>1
  <2> QED
    BY <1>1, <1>2, <1>6, <2>1, <2>2
<1> DEFINE t == Splice(s, u, v, m + 1)
           l == z - (v - u + 1)
<1>8. /\ t \in Seq(Nat) /\ Len(t) = m + l
      /\ \A i \in 1..m : t[i] = u + 1 + i
      /\ \A i \in (m + 1)..(m + l) : t[i] = v - m + i
  <2>1. \A i \in 1..z : s[i] = u - 1 + i
    BY <1>6, <1>7
  <2>2. u + m + 1 < v /\ 1 + v - u <= z /\ z = Len(s) /\ s \in Seq(Nat)
    BY <1>2, <1>7
  <2>3. LinkLeads(s, u, v, m, z)
    BY <1>7, <2>1, <2>2, Zenon DEF LinkLeads
  <2>4. LabelLeft(t, u, v, m, l)
    BY <2>3, Spliced, Zenon
  <2> HIDE DEF t, l
  <2> QED
    BY <2>4, Zenon DEF LabelLeft
<1>9. /\ u \in Nat /\ v \in Nat /\ m \in Nat /\ z \in Nat /\ r \in Int
      /\ 1 + v - u <= z /\ u = r + 1 /\ u <= v
  <2>1. /\ u \in Nat /\ v \in Nat /\ m \in Nat /\ z \in Nat /\ r \in Int
        /\ 1 + v - u <= z /\ u = r + 1 /\ u + (m + 1) < v
    BY <1>3, <1>7, Zenon
  <2>2. u <= v
    BY <2>1
  <2> QED
    BY <2>1, <2>2
<1>10. l \in Nat /\ v + l = r + z
  BY <1>9
<1> HIDE DEF t, l
<1>11. Follows(lines, t, m, u + 1, v - m)
  <2>1. m \in 0..Len(t) /\ u + 1 \in Int /\ v - m \in Int
    BY <1>8, <1>9, <1>10
  <2>2. \A i \in (m + 1)..Len(t) : t[i] = v - m + i
    BY <1>8, Zenon
  <2>3. \E f \in LinksOf(lines) : /\ f.from <= u + 1 /\ u + 1 + m <= f.from + f.label
                                  /\ f.to <= v - m + m
    <3>1. u <= u + 1 /\ u + 1 + m <= u + (m + 1) /\ v <= v - m + m
      BY <1>9
    <3> QED
      BY <1>7, <3>1, Zenon
  <2>4. Unbroken(lines, v - m + m + 1, v - m + Len(t))
    <3>1. v - m + m + 1 = v + 1 /\ v - m + Len(t) = r + z
      BY <1>8, <1>9, <1>10
    <3>2. ASSUME NEW f \in LinksOf(lines)
          PROVE  /\ f.to < v + 1 \/ v + 1 <= f.from
                 /\ f.to <= r + z \/ r + z < f.from
      <4>1. f.from \in Nat /\ f.to \in Nat
        BY LinkTyped
      <4>2. g = f \/ g.to < f.from \/ f.to < g.from
        BY LinksApart
      <4>3. f.to <= r + z \/ r + z < f.from
        BY <1>3, <1>7 DEF Follows, Unbroken
      <4>4. f.to < v + 1 \/ v + 1 <= f.from
        <5>1. PICK x, y \in Nat : x = f.from /\ y = f.to
          BY <4>1
        <5>2. v = y \/ v < x \/ y < u
          BY <1>7, <4>2, <5>1, Zenon
        <5>3. u <= v /\ u \in Nat /\ v \in Nat /\ x \in Nat /\ y \in Nat
          BY <1>9, <5>1, Zenon
        <5>4. y < v + 1 \/ v + 1 <= x
          BY <5>2, <5>3
        <5> QED
          BY <5>1, <5>4
      <4> QED
        BY <4>3, <4>4
    <3> QED
      BY <3>1, <3>2, Zenon DEF Unbroken
  <2> QED
    BY <1>8, <2>1, <2>2, <2>3, <2>4, Zenon DEF Follows
<1>12. m \in Int /\ u + 1 \in Int /\ v - m \in Int
  BY <1>9
<1>13. t \in Rests(lines)
  BY <1>8, <1>11, <1>12 DEF Rests
<1>14. Splice(s, g.from, g.to, g.label) = t
  BY <1>7, Zenon DEF t
<1> QED
  BY <1>13, <1>14

\* A link that is too large keeps its label.
LEMMA KeepLabelStep ==
  ASSUME Inv, KeepLabel
  PROVE  Inv'
<1>1. /\ phase = "cut" /\ ~ wrap /\ rest \in Rests(lines) /\ rest # <<>> /\ lines \in Docs
      /\ UNCHANGED <<lines, at, phase, current, chunks, piece, wrap, lead>>
  BY DEF KeepLabel, Inv, InCut, Located
<1>2. PICK g \in LinkAt(1) :
        /\ Emit(<<g.from + 1>>)
        /\ rest' = Span(g.from + 2, g.from + g.label) \o SubSeq(rest, g.to - g.from + 2, Len(rest))
        /\ dropped' = dropped \cup {g.from} \cup (g.from + g.label + 1)..g.to
  BY DEF KeepLabel
<1>3. g \in LinksOf(lines) /\ g.from = rest[1] /\ 1 + g.to - g.from <= Len(rest)
  BY DEF LinkAt, Links, LinksOf, N
<1>4. g.from \in Nat /\ g.to \in Nat /\ g.label \in Nat
  BY <1>1, <1>3, LinkTyped
<1>5. Located' /\ Gathered' /\ Packed'
  <2>1. <<g.from + 1>> \in Clean(lines) /\ Len(<<g.from + 1>>) = 1
    BY <1>1, <1>3, LabelClean
  <2>2. 1 + (IF wrap THEN Frame(at) + 1 ELSE 0) <= Budget
    BY <1>1, Constants
  <2> DEFINE c == <<g.from + 1>>
  <2>3. c \in Clean(lines) /\ Len(c) = 1 /\ Emit(c)
    BY <1>2, <2>1
  <2> HIDE DEF c
  <2>4. Len(c) > 0 /\ Len(c) + (IF wrap THEN Frame(at) + 1 ELSE 0) <= Budget
    BY <2>2, <2>3
  <2> QED
    BY <1>1, <2>3, <2>4, EmitFits
<1>6. rest' \in Rests(lines)
  <2>1. Splice(rest, g.from, g.to, g.label) \in Rests(lines)
    BY <1>1, <1>3, LabelRests
  <2> QED
    BY <1>2, <2>1 DEF Splice
<1>7. dropped' \subseteq Nat
  <2>1. (g.from + g.label + 1)..g.to \subseteq Nat
    BY <1>4
  <2>2. dropped \subseteq Nat
    BY DEF Inv, InCut
  <2> QED
    BY <1>2, <1>4, <2>1, <2>2
<1>8. InCut'
  BY <1>1, <1>6, <1>7 DEF Inv, InCut
<1> QED
  BY <1>5, <1>8 DEF Inv

\* A cut piece ends.
LEMMA CutDoneStep ==
  ASSUME Inv, CutDone
  PROVE  Inv'
<1>1. /\ UNCHANGED <<lines, at, current, chunks, parts, fill, rest, wrap, lead, dropped>>
      /\ phase = "cut" /\ phase' = "pack" /\ piece' = piece + 1
  BY DEF CutDone, cutVars
<1>2. Located' /\ Gathered' /\ InCut'
  BY <1>1 DEF Inv, Located, AtBlock, N, Gathered, InCut
<1>3. Packed'
  BY <1>1, SameBlock DEF Inv, Packed
<1> QED
  BY <1>2, <1>3 DEF Inv

\* The parts of a block fit, the last one too.
LEMMA AllPartsTyped ==
  ASSUME Inv, phase \in {"pack", "cut"}
  PROVE  AllParts \in Seq(FitPart(lines))
<1>1. Located /\ AtBlock /\ fill \in Fill(lines)
  BY DEF Inv, Located, Packed
<1>2. fill.pieces > 0 => Filled(fill) \in FitPart(lines)
  BY <1>1, FilledTyped DEF Inv, Packed
<1> QED
  BY <1>2, AppendProperties DEF AllParts, Inv, Packed

\* The parts of a block become chunks of their own; the first one joins the
\* heading before it only if it fits.
LEMMA DeliverStep ==
  ASSUME Inv, Deliver
  PROVE  Inv'
<1> DEFINE left == IF Joins THEN Tail(AllParts) ELSE AllParts
           first == IF Joins THEN <<Add(current, AllParts[1])>>
                    ELSE IF current.parts # <<>> THEN <<current>> ELSE <<>>
           alone == [i \in 1..(Len(left) - 1) |-> Add(Empty, left[i])]
<1>1. /\ Located /\ AtBlock /\ phase = "pack" /\ fill \in Fill(lines) /\ current \in FitChunk(lines)
      /\ at \in 1..N /\ lines \in Docs /\ lines[at].is # "blank" /\ N \in Nat
  BY AtBlockTyped DEF Inv, Located, Packed, Gathered, Deliver
<1>2. AllParts \in Seq(FitPart(lines))
  BY <1>1, AllPartsTyped
<1>3. Located'
  <2>1. End(at) \in at..N
    BY <1>1, EndInPage
  <2> QED
    BY <1>1, <2>1 DEF Located, Deliver, N
<1>4. Packed' /\ InCut'
  <2>1. /\ UNCHANGED <<lines, piece, rest, wrap, lead, dropped>>
        /\ phase' = "gather" /\ parts' = <<>> /\ fill' = NoFill
    BY DEF Deliver, cutVars
  <2>2. NoFill \in Fill(lines) /\ <<>> \in Seq(FitPart(lines)) /\ NoFill.pieces = 0
    BY EmptyClean DEF NoFill, Fill
  <2>3. Packed'
    BY <2>1, <2>2 DEF Inv, Packed
  <2>4. InCut'
    BY <2>1 DEF Inv, InCut
  <2> QED
    BY <2>3, <2>4
<1>5. CASE AllParts = <<>>
  <2>1. Gathered'
    BY <1>5 DEF Inv, Gathered, Deliver
  <2> QED
    BY <1>3, <1>4, <2>1 DEF Inv
<1>6. CASE AllParts # <<>>
  <2>1. AllParts[1] \in FitPart(lines) /\ Len(AllParts) \in Nat \ {0}
    BY <1>2, <1>6, EmptySeq
  <2>2. left \in Seq(FitPart(lines))
    BY <1>2, <1>6, HeadTailProperties
  <2>3. first \in Seq(ShownChunk(lines))
    <3>1. CASE Joins
      <4>1. AllParts[1] \in [kind : Sorts, block : 1..Len(lines), chars : Clean(lines), cost : Nat \ {0}]
        BY <2>1, Constants DEF FitPart
      <4>2. Add(current, AllParts[1]) \in ShownChunk(lines)
        BY <1>1, <3>1, <4>1, AddFits, FitIsShown DEF Joins
      <4> QED
        BY <3>1, <4>2
    <3>2. CASE ~ Joins
      <4>1. current \in ShownChunk(lines)
        BY <1>1, FitIsShown
      <4> QED
        BY <3>2, <4>1
    <3> QED
      BY <3>1, <3>2
  <2>4. alone \in Seq(ShownChunk(lines))
    <3> HIDE DEF left
    <3>1. \A i \in 1..Len(left) : Add(Empty, left[i]) \in ShownChunk(lines)
      BY <2>2, AddToEmpty, FitIsShown
    <3>2. CASE left = <<>>
      <4>1. 1..(Len(left) - 1) = 1..0
        BY <3>2
      <4>2. alone = [i \in 1..0 |-> Add(Empty, left[i])]
        BY <4>1
      <4>3. alone \in [1..0 -> ShownChunk(lines)]
        BY <4>2
      <4> HIDE DEF alone
      <4> QED
        BY <4>3
    <3>3. CASE left # <<>>
      <4>1. Len(left) - 1 \in Nat
        BY <2>2, <3>3, EmptySeq
      <4> QED
        BY <3>1, <4>1
    <3> QED
      BY <3>2, <3>3
  <2>5. chunks' = chunks \o first \o alone /\ UNCHANGED lines
    BY <1>6 DEF Deliver
  <2>6. current' = IF left = <<>> THEN Empty ELSE Add(Empty, Last(left))
    BY <1>6 DEF Deliver
  <2>7. current' \in FitChunk(lines)
    <3> HIDE DEF left
    <3>1. CASE left = <<>>
      BY <2>6, <3>1, EmptyFits
    <3>2. CASE left # <<>>
      <4>1. Last(left) \in FitPart(lines)
        BY <2>2, <3>2, EmptySeq DEF Last
      <4>2. Add(Empty, Last(left)) \in FitChunk(lines)
        BY <4>1, AddToEmpty
      <4> QED
        BY <2>6, <3>2, <4>2
    <3> QED
      BY <3>1, <3>2
  <2>8. chunks' \in Seq(ShownChunk(lines))
    <3> HIDE DEF first, alone
    <3>1. chunks \in Seq(ShownChunk(lines))
      BY DEF Inv, Gathered
    <3>2. chunks \o first \in Seq(ShownChunk(lines))
      BY <2>3, <3>1, ConcatProperties
    <3> QED
      BY <2>4, <2>5, <3>2, ConcatProperties
  <2>9. Gathered'
    BY <2>5, <2>7, <2>8 DEF Gathered
  <2> QED
    BY <1>3, <1>4, <2>9 DEF Inv
<1> QED
  BY <1>5, <1>6

-----------------------------------------------------------------------------
(* The budget, the types and the links                                     *)

\* The strengthening of ChunksFit, TypeOK and LinksWhole that every step
\* preserves.
THEOREM SplitCorrect == Spec => []Inv
<1>1. ASSUME Inv, Next PROVE Inv'
  BY <1>1, SkipBlankStep, GatherStep, MakeRoomStep, StartSplitStep, PackStep, EmitFillStep,
     StartCutStep, CutStep, DropWrapperStep, KeepLabelStep, CutDoneStep, DeliverStep, FinishStep
  DEF Next, SplitLarge
<1>2. ASSUME Inv, UNCHANGED vars PROVE Inv'
  <2>1. UNCHANGED <<lines, at, phase, current, chunks, parts, fill, piece, rest, wrap, lead, dropped>>
    BY <1>2 DEF vars, packVars, cutVars
  <2>2. Located' /\ Gathered'
    BY <1>2, <2>1 DEF Inv, Located, AtBlock, N, Gathered
  <2>3. Packed' /\ InCut'
    BY <1>2, <2>1, SameBlock DEF Inv, Packed, InCut
  <2> QED
    BY <2>2, <2>3 DEF Inv
<1> QED
  BY <1>1, <1>2, SplitInit, PTL DEF Spec

\* For every page and every budget, no part that a client is shown costs more
\* than the budget, with its heading, fences and header lines.
THEOREM SplitFits == Spec => []ChunksFit
<1>1. ASSUME Inv, NEW i \in 1..Len(chunks) PROVE chunks[i].cost <= Budget
  <2>1. chunks[i] \in ShownChunk(lines)
    BY <1>1 DEF Inv, Gathered
  <2> QED
    BY <2>1, Constants DEF ShownChunk
<1>2. Inv => ChunksFit
  BY <1>1 DEF ChunksFit
<1> QED
  BY <1>2, SplitCorrect, PTL

\* A part of a chunk that fits is a part.
LEMMA PartTyped == ASSUME NEW ls PROVE FitPart(ls) \subseteq Part /\ ShownChunk(ls) \subseteq Chunk
<1>1. FitPart(ls) \subseteq Part
  BY Constants DEF FitPart, Part, Clean, Sorts
<1>2. ASSUME NEW c \in ShownChunk(ls) PROVE c \in Chunk
  <2>1. c.parts \in Seq(FitPart(ls)) /\ c.cost \in Nat /\ c = [parts |-> c.parts, cost |-> c.cost]
    BY Constants DEF ShownChunk
  <2>2. c.parts \in Seq(Part)
    BY <1>1, <2>1
  <2> QED
    BY <2>1, <2>2 DEF Chunk
<1> QED
  BY <1>1, <1>2

\* The variables have their types: no chunk that gives its heading away has a
\* negative cost, and no position in a page is negative.
THEOREM SplitTyped == Spec => []TypeOK
<1>1. ASSUME Inv PROVE TypeOK
  <2>1. lines \in Seq(Lines) /\ at \in 1..(N + 1) /\ phase \in {"gather", "place", "pack", "cut", "done"}
    BY <1>1, ChunkerAssumption DEF Inv, Located, ChunkerAssumption
  <2>2. current \in Chunk
    BY <1>1, PartTyped, FitIsShown DEF Inv, Gathered
  <2>3. chunks \in Seq(Chunk)
    BY <1>1, PartTyped DEF Inv, Gathered
  <2>4. parts \in Seq(Part) /\ piece \in Nat \ {0}
    BY <1>1, PartTyped DEF Inv, Packed
  <2>5. fill \in [pieces : Nat, chars : Seq(Nat)]
    BY <1>1 DEF Inv, Packed, Fill, Clean
  <2>6. rest \in Seq(Nat) /\ wrap \in BOOLEAN /\ lead \in BOOLEAN /\ dropped \subseteq Nat
    BY <1>1 DEF Inv, InCut, Rests
  <2> QED
    BY <2>1, <2>2, <2>3, <2>4, <2>5, <2>6 DEF TypeOK
<1> QED
  BY <1>1, SplitCorrect, PTL

\* For every page and every budget, no link is cut: a part shows it whole, or
\* nothing of it but its label.
THEOREM SplitKeepsLinks == Spec => []LinksWhole
<1>1. ASSUME Inv PROVE LinksWhole
  <2>1. ASSUME NEW c \in ShownChunk(lines), NEW i \in 1..Len(c.parts)
        PROVE  c.parts[i].chars \in Clean(lines)
    <3>1. c.parts \in Seq(FitPart(lines))
      BY DEF ShownChunk
    <3>2. c.parts[i] \in FitPart(lines)
      BY <3>1
    <3> QED
      BY <3>2 DEF FitPart
  <2>2. current \in ShownChunk(lines) /\ \A i \in 1..Len(chunks) : chunks[i] \in ShownChunk(lines)
    BY <1>1, FitIsShown DEF Inv, Gathered
  <2>3. \A i \in 1..Len(parts) : parts[i].chars \in Clean(lines)
    <3>1. \A i \in 1..Len(parts) : parts[i] \in FitPart(lines)
      BY <1>1 DEF Inv, Packed
    <3> QED
      BY <3>1 DEF FitPart
  <2>4. fill.chars \in Clean(lines)
    BY <1>1 DEF Inv, Packed, Fill
  <2>5. {p.chars : p \in ShownParts} \cup {fill.chars} \subseteq Clean(lines)
    BY <2>1, <2>2, <2>3, <2>4 DEF ShownParts
  <2>6. Links = LinksOf(lines)
    BY DEF Links, LinksOf, N
  <2> QED
    BY <2>5, <2>6 DEF LinksWhole, Clean, Has, Label
<1> QED
  BY <1>1, SplitCorrect, PTL

-----------------------------------------------------------------------------
(* Headings                                                                *)

\* What HeadingsLead needs to know of the page: its links, and of every block
\* whether it has a body and is put into a frame, and what it costs.
Facts ==
  [links |-> Links,
   of |-> [b \in 1..N |-> [bare |-> Bare(b), framed |-> Framed(b), size |-> Whole(b).cost,
                           frame |-> IF Framed(b) THEN Frame(b) ELSE 0, len |-> lines[b].len]]]

LEMMA FactsStay == ASSUME UNCHANGED lines PROVE Facts' = Facts
BY DEF Facts, Links, N, Bare, Framed, Whole, Frame, Prose, BodyStart, BodyEnd, End, Closing, Same, To, Span

\* What they say of a block.
LEMMA FactsOf ==
  ASSUME lines \in Docs, NEW b \in 1..N, lines[b].is # "blank"
  PROVE  /\ Facts.links = Links /\ Facts.of[b].len = lines[b].len
         /\ (Facts.of[b].bare <=> Bare(b)) /\ (Facts.of[b].framed <=> Framed(b))
         /\ Facts.of[b].size = Whole(b).cost /\ Facts.of[b].size \in Nat
         /\ Framed(b) => Facts.of[b].frame = Frame(b)
         /\ Facts.of[b].frame \in Nat /\ Facts.of[b].framed \in BOOLEAN
<1>1. /\ Facts.links = Links
      /\ Facts.of[b] = [bare |-> Bare(b), framed |-> Framed(b), size |-> Whole(b).cost,
                        frame |-> IF Framed(b) THEN Frame(b) ELSE 0, len |-> lines[b].len]
  BY DEF Facts
<1>2. Whole(b).cost \in Nat
  BY WholeTyped
<1>3. Framed(b) => Frame(b) \in Nat
  BY FrameTyped
<1>4. Framed(b) \in BOOLEAN
  BY DEF Framed
<1> QED
  BY <1>1, <1>2, <1>3, <1>4

\* A sequence with an element more is not empty.
LEMMA AppendedTo ==
  ASSUME NEW S, NEW s \in Seq(S), NEW p
  PROVE  Append(s, p) # <<>>
<1>1. s \in Seq(S \cup {p}) /\ p \in S \cup {p}
  OBVIOUS
<1> QED
  BY <1>1, AppendProperties

\* A sequence that is not empty and has no two elements has one.
LEMMA OneOrNone ==
  ASSUME NEW S, NEW s \in Seq(S), ~ (Len(s) > 1)
  PROVE  s = <<>> \/ Len(s) = 1
<1>1. Len(s) \in Nat /\ (Len(s) = 0 => s = <<>>)
  BY EmptySeq
<1>2. PICK n \in Nat : n = Len(s)
  BY <1>1
<1>3. ~ (n > 1)
  BY <1>2, Zenon
<1>4. n = 0 \/ n = 1
  BY <1>2, <1>3
<1> QED
  BY <1>1, <1>2, <1>4, Zenon

\* Behind text of this cost nothing of these characters of block b fits.
Tight(F, cost, b, chars) ==
  LET room == Budget - cost - IF F.of[b].framed THEN F.of[b].frame + 1 ELSE 0
  IN  room < 1 \/ \E g \in F.links : Head(chars) = g.from /\ g.to - g.from >= room

\* What HeadingsLead says of a chunk c and the next one, d.
Led(F, c, d) ==
  EndsInHeading(c) /\ d.parts # <<>> =>
    LET q == Head(d.parts)
    IN  \/ Tight(F, c.cost + Gap, q.block, q.chars)
        \/ F.of[q.block].bare /\ c.cost + Gap + F.of[q.block].size > Budget
        \/ q.kind = "heading" /\ (q.block = Last(c.parts).block \/ q.cost = F.of[q.block].len)

\* It holds of the chunks in s, before d.
Chain(F, s, d) == \A i \in 1..Len(s) : Led(F, s[i], IF i < Len(s) THEN s[i + 1] ELSE d)

\* The first part of block b follows a heading with this cost: it fits with the
\* heading, or nothing could.
Leading(F, heading, b, chars, cost) == Fits(heading + Gap + cost) \/ Tight(F, heading + Gap, b, chars)

FillCost(F, b, f) == Len(f.chars) + IF F.of[b].framed THEN F.of[b].frame + f.pieces ELSE 0

\* A heading at the end is followed by its block until split is done.
HeadFree ==
  phase # "done" /\ current.parts = <<>> /\ chunks # <<>> => ~ EndsInHeading(Last(chunks))

\* A block that is placed or split is alone or behind a heading.
Waiting ==
  phase \in {"place", "pack", "cut"} =>
    current.parts = <<>> \/ (Len(current.parts) = 1 /\ EndsInHeading(current))

OfBlock == \A i \in 1..Len(parts) : parts[i].kind = lines[at].is /\ parts[i].block = at

\* Lines and rows are cut into parts of their own.
Unfilled == phase = "cut" /\ lines[at].is \notin {"text", "heading"} => fill.pieces = 0

\* The first part of a block is packed or cut with the heading as long as anything
\* can follow it.
FirstLed ==
  phase \in {"pack", "cut"} /\ ~ Facts.of[at].bare /\ current.parts # <<>> =>
    /\ parts # <<>> => Leading(Facts, current.cost, at, parts[1].chars, parts[1].cost)
    /\ parts = <<>> /\ fill.pieces > 0 =>
         Leading(Facts, current.cost, at, fill.chars, FillCost(Facts, at, fill))
    /\ phase = "cut" /\ parts = <<>> /\ fill.pieces = 0 /\ rest # <<>> =>
         (lead /\ (wrap <=> Facts.of[at].framed)) \/ Tight(Facts, current.cost + Gap, at, rest)

\* A block that is split does not fit behind the heading.
TooLong ==
  phase \in {"pack", "cut"} /\ current.parts # <<>> => ~ Fits(current.cost + Gap + Facts.of[at].size)

\* A heading that was gathered behind other blocks is whole.
LastWhole ==
  Len(current.parts) > 1 /\ EndsInHeading(current) =>
    Last(current.parts).cost = Facts.of[Last(current.parts).block].len

\* Of a heading that is cut, one part and n more characters are known, or more.
Divided(n) ==
  \/ parts = <<>> /\ fill.pieces = 1 /\ Len(fill.chars) + n = lines[at].len
  \/ parts # <<>> /\ fill.pieces > 0

Uncut == piece = 1 /\ parts = <<>> /\ fill.pieces = 0

\* A heading that does not fit behind the one before it is cut, from its first
\* character on, into more than one part, or into one that does not fit there.
HeadingCut ==
  phase \in {"pack", "cut"} /\ lines[at].is = "heading" /\ current.parts # <<>> =>
    /\ ~ Fits(current.cost + Gap + lines[at].len)
    /\ phase = "pack" => Uncut \/ (piece = 2 /\ Divided(0))
    /\ phase = "cut" =>
         \/ Uncut /\ rest # <<>> /\ Len(rest) = lines[at].len /\ Head(rest) = lines[at].from
         \/ piece = 1 /\ Divided(Len(rest))

\* The finished chunks and the current one.
Linked == Chain(Facts, chunks, current)

Ahead ==
  /\ Linked /\ HeadFree /\ Waiting /\ LastWhole
  /\ OfBlock /\ Unfilled /\ FirstLed /\ TooLong /\ HeadingCut

\* HeadingsLead speaks of the chunks followed by the current one.
LEMMA LeadIsChain ==
  ASSUME Inv
  PROVE  HeadingsLead <=> Chain(Facts, chunks, current)
<1>1. chunks \in Seq(ShownChunk(lines)) /\ Len(chunks) \in Nat
  <2>1. chunks \in Seq(ShownChunk(lines))
    BY DEF Inv, Gathered
  <2> QED
    BY <2>1
<1> DEFINE all == Append(chunks, current)
<1>2. \A i \in 1..Len(chunks) :
        all[i] = chunks[i] /\ all[i + 1] = IF i < Len(chunks) THEN chunks[i + 1] ELSE current
  BY <1>1
<1> HIDE DEF all
<1>3. ASSUME NEW i \in 1..Len(chunks)
      PROVE  Led(Facts, all[i], all[i + 1]) <=>
               (EndsInHeading(all[i]) /\ all[i + 1].parts # <<>> =>
                  LET heading == Last(all[i].parts)
                      next == Head(all[i + 1].parts)
                      behind == all[i].cost + Gap
                  IN  \/ NoRoom(behind, next)
                      \/ Bare(next.block) /\ behind + Whole(next.block).cost > Budget
                      \/ next.kind = "heading" /\ (next.block = heading.block \/ next.cost = lines[next.block].len))
  <2>1. SUFFICES ASSUME all[i + 1].parts # <<>>
                 PROVE  LET next == Head(all[i + 1].parts)
                        IN  /\ Facts.of[next.block].len = lines[next.block].len
                            /\ Facts.of[next.block].size = Whole(next.block).cost
                            /\ Facts.of[next.block].bare <=> Bare(next.block)
                            /\ \A cost : NoRoom(cost, next) <=> Tight(Facts, cost, next.block, next.chars)
    BY <2>1 DEF Led
  <2> DEFINE next == Head(all[i + 1].parts)
  <2>2. all[i + 1] \in ShownChunk(lines)
    <3>1. current \in ShownChunk(lines)
      BY FitIsShown DEF Inv, Gathered
    <3>2. i < Len(chunks) => chunks[i + 1] \in ShownChunk(lines)
      BY <1>1
    <3> QED
      BY <1>2, <3>1, <3>2
  <2>3. all[i + 1].parts \in Seq(FitPart(lines))
    BY <2>2 DEF ShownChunk
  <2>4. next \in FitPart(lines)
    BY <2>1, <2>3
  <2>5. next.block \in 1..N
    BY <2>4 DEF FitPart, N
  <2> HIDE DEF next
  <2> DEFINE b == next.block
  <2>6. Facts = [links |-> Links, of |-> Facts.of] /\ Facts.links = Links
        /\ Facts.of[b] = [bare |-> Bare(b), framed |-> Framed(b), size |-> Whole(b).cost,
                          frame |-> IF Framed(b) THEN Frame(b) ELSE 0, len |-> lines[b].len]
    BY <2>5 DEF Facts
  <2>8. /\ Facts.of[b].len = lines[b].len /\ Facts.of[b].size = Whole(b).cost
        /\ Facts.of[b].bare = Bare(b)
    BY <2>6
  <2>7. \A cost : NoRoom(cost, next) <=> Tight(Facts, cost, next.block, next.chars)
    <3>1. (IF Framed(b) THEN Frame(b) + 1 ELSE 0) = (IF Facts.of[b].framed THEN Facts.of[b].frame + 1 ELSE 0)
      BY <2>6
    <3> QED
      BY <2>6, <3>1 DEF NoRoom, Tight, Around
  <2> QED
    BY <2>7, <2>8 DEF next
<1>4. HeadingsLead <=> \A i \in 1..Len(chunks) : Led(Facts, all[i], all[i + 1])
  BY <1>3 DEF HeadingsLead, all
<1> QED
  BY <1>2, <1>4 DEF Chain

\* A chain that goes on with another.
LEMMA ChainJoins ==
  ASSUME NEW F, NEW S, NEW s \in Seq(S), NEW t \in Seq(S), NEW d,
         Chain(F, s, IF t = <<>> THEN d ELSE t[1]), Chain(F, t, d)
  PROVE  Chain(F, s \o t, d)
<1> DEFINE u == s \o t
<1>1. /\ Len(s) \in Nat /\ Len(t) \in Nat /\ Len(u) = Len(s) + Len(t)
      /\ \A i \in 1..Len(u) : u[i] = IF i <= Len(s) THEN s[i] ELSE t[i - Len(s)]
  BY ConcatProperties
<1>2. t = <<>> <=> Len(t) = 0
  BY EmptySeq
<1> HIDE DEF u
<1>3. ASSUME NEW i \in 1..Len(u)
      PROVE  Led(F, u[i], IF i < Len(u) THEN u[i + 1] ELSE d)
  <2>1. CASE i < Len(s)
    <3>1. i \in 1..Len(s) /\ u[i] = s[i] /\ i < Len(u) /\ i + 1 \in 1..Len(u) /\ i + 1 <= Len(s)
      BY <1>1, <2>1
    <3>2. u[i + 1] = s[i + 1]
      BY <1>1, <3>1
    <3>3. Led(F, s[i], s[i + 1])
      BY <2>1, <3>1 DEF Chain
    <3> QED
      BY <3>1, <3>2, <3>3
  <2>2. CASE i = Len(s)
    <3>1. i \in 1..Len(s) /\ u[i] = s[i] /\ ~ (i < Len(s))
      BY <1>1, <2>2
    <3>2. Led(F, s[i], IF t = <<>> THEN d ELSE t[1])
      BY <3>1 DEF Chain
    <3>3. CASE t = <<>>
      BY <1>1, <1>2, <2>2, <3>1, <3>2, <3>3
    <3>4. CASE t # <<>>
      <4>1. i < Len(u) /\ i + 1 \in 1..Len(u) /\ ~ (i + 1 <= Len(s)) /\ i + 1 - Len(s) = 1
        BY <1>1, <1>2, <2>2, <3>4
      <4>2. u[i + 1] = t[1]
        BY <1>1, <4>1
      <4> QED
        BY <3>1, <3>2, <3>4, <4>1, <4>2
    <3> QED
      BY <3>3, <3>4
  <2>3. CASE i > Len(s)
    <3> DEFINE j == i - Len(s)
    <3>1. j \in 1..Len(t) /\ (i < Len(u) <=> j < Len(t)) /\ ~ (i <= Len(s))
      BY <1>1, <2>3
    <3>2. u[i] = t[j]
      BY <1>1, <3>1
    <3>3. Led(F, t[j], IF j < Len(t) THEN t[j + 1] ELSE d)
      <4> HIDE DEF j
      <4> QED
        BY <3>1 DEF Chain
    <3>4. i < Len(u) => u[i + 1] = t[j + 1]
      <4>1. i < Len(u) => i + 1 \in 1..Len(u) /\ ~ (i + 1 <= Len(s)) /\ i + 1 - Len(s) = j + 1
        BY <1>1, <2>3
      <4> HIDE DEF j
      <4> QED
        BY <1>1, <4>1
    <3> HIDE DEF j
    <3> QED
      BY <3>1, <3>2, <3>3, <3>4
  <2> QED
    BY <1>1, <2>1, <2>2, <2>3
<1> QED
  BY <1>3 DEF Chain, u

\* A chunk alone before another.
LEMMA ChainOfOne ==
  ASSUME NEW F, NEW c, NEW d, Led(F, c, d)
  PROVE  Chain(F, <<c>>, d)
  BY DEF Chain

\* Whatever begins as the current chunk may follow the finished ones; when nothing
\* is gathered, anything may.
LEMMA ChainGoesOn ==
  ASSUME Inv, Ahead, phase # "done", NEW d,
         current.parts # <<>> => d.parts # <<>> /\ Head(d.parts) = Head(current.parts)
  PROVE  Chain(Facts, chunks, d)
<1>1. Chain(Facts, chunks, current)
  BY DEF Ahead, Linked
<1>2. chunks \in Seq(ShownChunk(lines)) /\ Len(chunks) \in Nat
  <2>1. chunks \in Seq(ShownChunk(lines))
    BY DEF Inv, Gathered
  <2> QED
    BY <2>1
<1>3. ASSUME NEW i \in 1..Len(chunks), ~ (i < Len(chunks)) PROVE Led(Facts, chunks[i], d)
  <2>1. i = Len(chunks) /\ chunks[i] = Last(chunks) /\ chunks # <<>>
    BY <1>2, <1>3 DEF Last
  <2>2. Led(Facts, chunks[i], current)
    BY <1>1, <1>3 DEF Chain
  <2>3. CASE current.parts = <<>>
    BY <2>1, <2>3 DEF Ahead, HeadFree, Led
  <2>4. CASE current.parts # <<>>
    BY <2>2, <2>4 DEF Led
  <2> QED
    BY <2>3, <2>4
<1> QED
  BY <1>1, <1>3 DEF Chain

\* Prose has no frame, and a part of it costs its characters.
LEMMA ProseBlock ==
  ASSUME Inv, AtBlock, Prose(at)
  PROVE  /\ at \in 1..N /\ ~ Framed(at) /\ ~ Bare(at) /\ lines[at].is \in {"text", "heading"}
         /\ \A f \in Fill(lines) :
              /\ Filled(f).kind = lines[at].is /\ Filled(f).chars = f.chars
              /\ Filled(f).cost = Len(f.chars)
<1>1. at \in 1..N /\ lines \in Docs /\ lines[at].is # "blank" /\ N \in Nat
  BY AtBlockTyped DEF Inv
<1>2. End(at) \in at..N
  BY <1>1, EndInPage
<1>3. lines[at].is \in {"text", "heading"} /\ ~ Framed(at)
  BY DEF Prose, Framed
<1>4. BodyStart(at) = at /\ BodyEnd(at) = End(at)
  BY <1>1, <1>3 DEF BodyStart, BodyEnd
<1>5. ~ Bare(at)
  BY <1>1, <1>2, <1>4 DEF Bare
<1>6. ASSUME NEW f \in Fill(lines)
      PROVE  /\ Filled(f).kind = lines[at].is /\ Filled(f).chars = f.chars
             /\ Filled(f).cost = Len(f.chars)
  <2>1. Len(f.chars) \in Nat
    <3>1. f.chars \in Seq(Nat)
      BY DEF Fill, Clean
    <3> QED
      BY <3>1
  <2> QED
    BY <1>3, <2>1 DEF Filled
<1> QED
  BY <1>1, <1>3, <1>5, <1>6

\* A heading is its only piece.
LEMMA HeadingBlock ==
  ASSUME Inv, AtBlock, lines[at].is = "heading"
  PROVE  /\ End(at) = at /\ Len(Pieces(at)) = 1 /\ Whole(at).cost = lines[at].len
         /\ lines[at].len \in Nat \ {0} /\ Whole(at).kind = "heading"
         /\ Len(Pieces(at)[1]) = lines[at].len /\ Pieces(at)[1] # <<>>
         /\ Head(Pieces(at)[1]) = lines[at].from
<1>1. /\ at \in 1..N /\ N \in Nat /\ lines \in Docs /\ lines[at].is # "blank"
      /\ Prose(at) /\ ~ Bare(at)
  BY AtBlockTyped, ProseBlock DEF Inv, Prose
<1>2. lines[at].from \in Nat /\ lines[at].len \in Nat \ {0}
  <2>1. lines[at].len > 0
    BY <1>1, ChunkerAssumption DEF ChunkerAssumption, N
  <2>2. lines[at].from \in Nat /\ lines[at].len \in Nat
    BY <1>1, LineTyped
  <2> QED
    BY <2>1, <2>2
<1>3. End(at) = at /\ BodyStart(at) = at /\ BodyEnd(at) = at
  BY <1>1 DEF End, BodyStart, BodyEnd
<1> DEFINE p == Span(lines[at].from, To(at))
<1>4. Line(at, at) = p
  BY <1>1, <1>3 DEF Line
<1>5. Pieces(at) = [i \in 1..1 |-> Line(at, at + i - 1)]
  <2>1. at - at + 1 = 1
    BY <1>1
  <2> QED
    BY <1>1, <1>3, <2>1 DEF Pieces
<1>6. Len(Pieces(at)) = 1 /\ Pieces(at)[1] = p
  <2>1. at + 1 - 1 = at
    BY <1>1
  <2> QED
    BY <1>4, <1>5, <2>1
<1>7. To(at) \in Int /\ To(at) - lines[at].from + 1 = lines[at].len
  BY <1>2 DEF To
<1>8. p \in Seq(Nat) /\ Len(p) = lines[at].len /\ p[1] = lines[at].from
  <2>1. /\ p \in Seq(Nat)
        /\ Len(p) = IF To(at) - lines[at].from + 1 < 0 THEN 0 ELSE To(at) - lines[at].from + 1
        /\ \A i \in 1..Len(p) : p[i] = lines[at].from + i - 1
    BY <1>2, <1>7, SpanTyped
  <2> HIDE DEF p
  <2>2. Len(p) = lines[at].len
    BY <1>2, <1>7, <2>1
  <2>3. p[1] = lines[at].from + 1 - 1
    BY <1>2, <2>1, <2>2
  <2> QED
    BY <1>2, <2>1, <2>2, <2>3
<1> HIDE DEF p
<1>9. p # <<>>
  BY <1>2, <1>8, EmptySeq
<1>11. Head(p) = p[1]
  BY <1>8, <1>9
<1>10. Whole(at).cost = lines[at].len /\ Whole(at).kind = "heading"
  BY <1>3, <1>7 DEF Whole
<1> QED
  BY <1>2, <1>3, <1>6, <1>8, <1>9, <1>10, <1>11

\* Where a cut takes nothing although something is reached, a link begins that is
\* longer than what is reached.
LEMMA NothingCut ==
  ASSUME Inv, phase = "cut", CutAt <= 0, Reach > 0
  PROVE  \E g \in LinkAt(1) : Reach < 1 + g.to - g.from
<1>1. Reach \in Int
  BY ReachTyped
<1> DEFINE broken == {i \in 1..Reach : \E g \in LinkAt(i) : Reach < i + g.to - g.from}
<1>2. CutAt = IF broken = {} THEN Reach ELSE Min(broken) - 1
  BY DEF CutAt
<1>3. broken # {} /\ Min(broken) \in broken
  <2>1. broken \subseteq 1..Reach
    OBVIOUS
  <2> HIDE DEF broken
  <2>2. broken # {}
    BY <1>1, <1>2
  <2> QED
    BY <1>1, <2>1, <2>2, BeforeBreak
<1>4. 1 \in broken
  <2>1. Min(broken) \in 1..Reach
    BY <1>3
  <2> HIDE DEF broken
  <2>2. Min(broken) = 1
    BY <1>1, <1>2, <1>3, <2>1
  <2> QED
    BY <1>3, <2>2
<1> QED
  BY <1>4

\* A chunk that ends in a heading and has more parts gives the heading away.
LEMMA FlushLeads ==
  ASSUME Inv, Ahead, phase = "gather", Flush, UNCHANGED lines
  PROVE  /\ Chain(Facts, chunks', current')
         /\ current'.parts = <<>> \/ (Len(current'.parts) = 1 /\ EndsInHeading(current'))
         /\ ~ (Len(current'.parts) > 1)
         /\ Len(current.parts) > 1 \/ ~ EndsInHeading(current) =>
              (current'.parts = <<>> /\ chunks' # <<>> => ~ EndsInHeading(Last(chunks')))
<1>1. /\ chunks \in Seq(ShownChunk(lines)) /\ current \in ShownChunk(lines)
      /\ current.parts \in Seq(FitPart(lines)) /\ Len(current.parts) \in Nat
  <2>1. chunks \in Seq(ShownChunk(lines)) /\ current \in ShownChunk(lines)
    BY FitIsShown DEF Inv, Gathered
  <2>2. current.parts \in Seq(FitPart(lines))
    BY <2>1 DEF ShownChunk
  <2> QED
    BY <2>1, <2>2
<1>2. Chain(Facts, chunks, current)
  BY DEF Ahead, Linked
<1>3. CASE current.parts = <<>>
  <2>1. chunks' = chunks /\ current' = Empty
    BY <1>3 DEF Flush
  <2>2. Chain(Facts, chunks, Empty)
    BY <1>3, ChainGoesOn
  <2>3. chunks # <<>> => ~ EndsInHeading(Last(chunks))
    BY <1>3 DEF Ahead, HeadFree
  <2> QED
    BY <2>1, <2>2, <2>3 DEF Empty
<1>4. CASE Len(current.parts) > 1 /\ EndsInHeading(current)
  <2> DEFINE shown == [parts |-> Front(current.parts),
                       cost |-> current.cost - Gap - Last(current.parts).cost]
             keep == Last(current.parts)
  <2>1. current.parts # <<>> /\ keep.kind = "heading"
    BY <1>4 DEF EndsInHeading
  <2>2. chunks' = Append(chunks, shown) /\ current' = Add(Empty, keep)
    BY <1>4, <2>1 DEF Flush
  <2>3. /\ current'.parts = <<keep>> /\ Len(current'.parts) = 1
        /\ Head(current'.parts) = keep /\ Last(current'.parts) = keep
    BY <2>2 DEF Add, Empty, Last
  <2>4. shown.parts # <<>> /\ Head(shown.parts) = Head(current.parts)
    <3> DEFINE f == Front(current.parts)
    <3>1. /\ Len(f) = Len(current.parts) - 1
          /\ \A i \in 1..Len(f) : f[i] = current.parts[i]
      <4>1. /\ 1 \in Int /\ Len(current.parts) - 1 \in Int
            /\ \A i \in 1..(Len(current.parts) - 1) : current.parts[i] \in FitPart(lines)
        BY <1>1
      <4>2. f = SubSeq(current.parts, 1, Len(current.parts) - 1)
        BY DEF Front
      <4> QED
        BY <1>1, <1>4, <4>1, <4>2, SubSeqProperties
    <3>2. f \in Seq(FitPart(lines))
      BY <1>1, <2>1, SubSeqProperties DEF Front
    <3> HIDE DEF f
    <3>3. Len(f) > 0 /\ f[1] = current.parts[1]
      BY <1>1, <1>4, <3>1
    <3>4. f # <<>> /\ Head(f) = f[1] /\ Head(current.parts) = current.parts[1]
      BY <1>1, <2>1, <3>2, <3>3
    <3>5. shown.parts = f
      BY DEF f
    <3> QED
      BY <3>3, <3>4, <3>5
  <2> HIDE DEF shown, keep
  <2>5. Chain(Facts, chunks, shown)
    BY <2>4, ChainGoesOn
  <2>6. Led(Facts, shown, current')
    <3>1. keep.cost = Facts.of[keep.block].len
      BY <1>4 DEF Ahead, LastWhole, keep
    <3> QED
      BY <2>1, <2>3, <3>1 DEF Led
  <2>7. Chain(Facts, <<shown>>, current')
    BY <2>6, ChainOfOne
  <2>8. Chain(Facts, chunks \o <<shown>>, current')
    <3>1. chunks \in Seq({shown} \cup ShownChunk(lines)) /\ <<shown>> \in Seq({shown} \cup ShownChunk(lines))
      BY <1>1
    <3>2. <<shown>> # <<>> /\ <<shown>>[1] = shown
      OBVIOUS
    <3>3. Chain(Facts, chunks, IF <<shown>> = <<>> THEN current' ELSE <<shown>>[1])
      BY <2>5, <3>2
    <3> QED
      BY <2>7, <3>1, <3>3, ChainJoins
  <2>9. Append(chunks, shown) = chunks \o <<shown>>
    BY <1>1
  <2> QED
    BY <2>1, <2>2, <2>3, <2>8, <2>9 DEF EndsInHeading
<1>5. CASE current.parts # <<>> /\ ~ (Len(current.parts) > 1 /\ EndsInHeading(current))
  <2>1. chunks' = Append(chunks, current) /\ current' = Empty
    BY <1>5 DEF Flush
  <2>2. Led(Facts, current, Empty)
    BY DEF Led, Empty
  <2>3. Chain(Facts, <<current>>, Empty)
    BY <2>2, ChainOfOne
  <2>4. Chain(Facts, chunks \o <<current>>, Empty)
    <3>1. <<current>> \in Seq(ShownChunk(lines)) /\ <<current>> # <<>> /\ <<current>>[1] = current
      BY <1>1
    <3>2. Chain(Facts, chunks, IF <<current>> = <<>> THEN Empty ELSE <<current>>[1])
      BY <1>2, <3>1
    <3> QED
      BY <1>1, <2>3, <3>1, <3>2, ChainJoins
  <2>5. Append(chunks, current) = chunks \o <<current>> /\ Last(Append(chunks, current)) = current
    BY <1>1, AppendProperties DEF Last
  <2> QED
    BY <1>5, <2>1, <2>4, <2>5 DEF Empty
<1> QED
  BY <1>3, <1>4, <1>5

\* What the invariant says of the parts in hand while a block is split.
LEMMA InHand ==
  ASSUME Inv, phase \in {"pack", "cut"}
  PROVE  /\ AtBlock /\ lines \in Docs /\ at \in 1..N /\ fill \in Fill(lines) /\ Len(fill.chars) \in Nat
         /\ parts \in Seq(FitPart(lines)) /\ Len(parts) \in Nat /\ piece \in Nat
         /\ current.parts # <<>> => current.cost \in Nat \ {0}
         /\ current.cost \in Nat /\ Budget \in Nat /\ Gap \in Nat
<1>1. /\ Located /\ AtBlock /\ lines \in Docs /\ at \in 1..N /\ fill \in Fill(lines)
      /\ parts \in Seq(FitPart(lines)) /\ piece \in Nat
  BY AtBlockTyped DEF Inv, Located, Packed
<1>2. Len(parts) \in Nat
  BY <1>1
<1>3. Len(fill.chars) \in Nat
  <2>1. fill.chars \in Seq(Nat)
    BY <1>1 DEF Fill, Clean
  <2> QED
    BY <2>1
<1>4. /\ current \in FitChunk(lines) /\ current.parts \in Seq(FitPart(lines))
      /\ current.cost \in Nat /\ Budget \in Nat /\ Gap \in Nat
  BY Constants DEF Inv, Gathered, FitChunk, ShownChunk
<1>5. ASSUME current.parts # <<>> PROVE current.cost \in Nat \ {0}
  <2>1. current.cost >= Last(current.parts).cost + IF Len(current.parts) > 1 THEN Gap ELSE 0
    BY <1>4, <1>5 DEF FitChunk
  <2>2. Last(current.parts) \in FitPart(lines)
    BY <1>4, <1>5, EmptySeq DEF Last
  <2>3. Last(current.parts).cost \in 1..Budget
    BY <2>2 DEF FitPart
  <2> QED
    BY <1>4, <2>1, <2>3
<1> QED
  BY <1>1, <1>2, <1>3, <1>4, <1>5

\* A step that moves no chunk.
LEMMA ChunksStay ==
  ASSUME Ahead, phase # "done", UNCHANGED <<lines, chunks, current>>
  PROVE  Linked' /\ HeadFree' /\ LastWhole'
BY FactsStay DEF Ahead, Linked, HeadFree, LastWhole, EndsInHeading

\* At the beginning there is no heading to lead.
LEMMA AheadInit == Init => Ahead
<1> SUFFICES ASSUME Init PROVE Ahead
  OBVIOUS
<1>1. Linked
  BY DEF Init, Linked, Chain
<1> QED
  BY <1>1 DEF Init, Ahead, HeadFree, Waiting, LastWhole, OfBlock, Unfilled, FirstLed, TooLong, HeadingCut, Empty

\* Nothing is led by an empty line.
LEMMA SkipBlankAhead ==
  ASSUME Inv, Ahead, SkipBlank
  PROVE  Ahead'
<1>1. /\ phase = "gather" /\ phase' = "gather"
      /\ UNCHANGED <<lines, current, chunks, parts>>
  BY DEF SkipBlank, packVars
<1>2. Linked' /\ HeadFree' /\ LastWhole'
  BY <1>1, ChunksStay
<1>3. parts' = <<>>
  BY <1>1 DEF Inv, Packed
<1> QED
  BY <1>1, <1>2, <1>3 DEF Ahead, Waiting, OfBlock, Unfilled, FirstLed, TooLong, HeadingCut

\* A block that fits goes behind the others.
LEMMA GatherAhead ==
  ASSUME Inv, Ahead, Gather
  PROVE  Ahead'
<1>1. /\ phase \in {"gather", "place"} /\ phase' = "gather"
      /\ current' = Add(current, Whole(at)) /\ UNCHANGED <<lines, chunks, parts>>
  BY DEF Gather, packVars
<1>2. parts' = <<>>
  BY <1>1 DEF Inv, Packed
<1>3. current.parts \in Seq(FitPart(lines))
  BY DEF Inv, Gathered, FitChunk, ShownChunk
<1>4. current'.parts = Append(current.parts, Whole(at))
  BY <1>1 DEF Add
<1>5. current'.parts # <<>> /\ (current.parts # <<>> => Head(current'.parts) = Head(current.parts))
  <2> DEFINE w == Whole(at)
             s == current.parts
  <2>1. s \in Seq(FitPart(lines) \cup {w}) /\ w \in FitPart(lines) \cup {w}
    BY <1>3
  <2> HIDE DEF w, s
  <2>2. /\ Append(s, w) # <<>> /\ Head(Append(s, w)) = Append(s, w)[1]
        /\ s # <<>> => Head(s) = s[1] /\ Append(s, w)[1] = s[1]
    BY <2>1
  <2> QED
    BY <1>4, <2>2 DEF s, w
<1>6. Chain(Facts, chunks, current')
  BY <1>1, <1>5, ChainGoesOn
<1>7. Linked' /\ HeadFree'
  BY <1>1, <1>5, <1>6, FactsStay DEF Linked, HeadFree
<1>8. LastWhole'
  <2>1. Last(current'.parts) = Whole(at)
    <3> DEFINE w == Whole(at)
               s == current.parts
    <3>1. s \in Seq(FitPart(lines) \cup {w}) /\ w \in FitPart(lines) \cup {w}
      BY <1>3
    <3> HIDE DEF w, s
    <3>2. Append(s, w)[Len(Append(s, w))] = w
      BY <3>1
    <3> QED
      BY <1>4, <3>2 DEF s, w, Last
  <2>2. ASSUME lines[at].is = "heading" PROVE Whole(at).cost = Facts.of[at].len
    <3>1. AtBlock /\ at \in 1..N /\ lines \in Docs /\ lines[at].is # "blank"
      BY AtBlockTyped DEF Gather, Inv, Located
    <3> QED
      BY <2>2, <3>1, HeadingBlock, FactsOf
  <2>3. Whole(at).kind = lines[at].is /\ Whole(at).block = at
    BY DEF Whole
  <2>4. Facts' = Facts
    BY <1>1, FactsStay
  <2>5. EndsInHeading(current)' => lines[at].is = "heading"
    BY <2>1, <2>3 DEF EndsInHeading
  <2> QED
    BY <2>1, <2>2, <2>3, <2>4, <2>5 DEF LastWhole
<1> QED
  BY <1>1, <1>2, <1>7, <1>8 DEF Ahead, Waiting, OfBlock, Unfilled, FirstLed, TooLong, HeadingCut

\* Room is made for a block: a heading at the end, or alone, waits for it.
LEMMA MakeRoomAhead ==
  ASSUME Inv, Ahead, MakeRoom
  PROVE  Ahead'
<1>1. phase = "gather" /\ phase' = "place" /\ UNCHANGED <<lines, at, parts>>
  BY DEF MakeRoom, packVars
<1>2. parts' = <<>>
  BY <1>1 DEF Inv, Packed
<1>3. CASE Len(current.parts) > 1 \/ (current.parts # <<>> /\ ~ EndsInHeading(current))
  <2>1. Flush
    BY <1>3 DEF MakeRoom
  <2>2. /\ Chain(Facts, chunks', current')
        /\ current'.parts = <<>> \/ (Len(current'.parts) = 1 /\ EndsInHeading(current'))
        /\ ~ (Len(current'.parts) > 1)
        /\ Len(current.parts) > 1 \/ ~ EndsInHeading(current) =>
             (current'.parts = <<>> /\ chunks' # <<>> => ~ EndsInHeading(Last(chunks')))
    BY <1>1, <2>1, FlushLeads
  <2> QED
    BY <1>1, <1>2, <1>3, <2>2, FactsStay
       DEF Ahead, Linked, HeadFree, Waiting, LastWhole, EndsInHeading, OfBlock, Unfilled, FirstLed, TooLong, HeadingCut
<1>4. CASE ~ (Len(current.parts) > 1 \/ (current.parts # <<>> /\ ~ EndsInHeading(current)))
  <2>1. UNCHANGED <<current, chunks>>
    BY <1>4 DEF MakeRoom
  <2>2. Linked' /\ HeadFree' /\ LastWhole'
    BY <1>1, <2>1, ChunksStay
  <2>3. current.parts = <<>> \/ (Len(current.parts) = 1 /\ EndsInHeading(current))
    <3>1. current.parts \in Seq(FitPart(lines))
      BY DEF Inv, Gathered, FitChunk, ShownChunk
    <3>2. current.parts = <<>> \/ Len(current.parts) = 1
      BY <1>4, <3>1, OneOrNone, Zenon
    <3> QED
      BY <1>4, <3>2, Zenon
  <2> QED
    BY <1>1, <1>2, <2>1, <2>2, <2>3
       DEF Ahead, Waiting, EndsInHeading, OfBlock, Unfilled, FirstLed, TooLong, HeadingCut
<1> QED
  BY <1>3, <1>4

\* When the page is at its end the rest is flushed; a heading may remain.
LEMMA FinishAhead ==
  ASSUME Inv, Ahead, Finish
  PROVE  Ahead'
<1>1. phase = "gather" /\ phase' = "done" /\ UNCHANGED <<lines, at, parts>> /\ Flush
  BY DEF Finish, packVars
<1>2. parts' = <<>>
  BY <1>1 DEF Inv, Packed
<1>3. Chain(Facts, chunks', current') /\ ~ (Len(current'.parts) > 1)
  BY <1>1, FlushLeads
<1> QED
  BY <1>1, <1>2, <1>3, FactsStay
  DEF Ahead, Linked, HeadFree, Waiting, LastWhole, OfBlock, Unfilled, FirstLed, TooLong, HeadingCut

\* A block that is split does not fit behind the heading before it.
LEMMA StartSplitAhead ==
  ASSUME Inv, Ahead, StartSplit
  PROVE  Ahead'
<1>1. /\ phase = "place" /\ phase' = "pack" /\ UNCHANGED <<lines, at, current, chunks>>
      /\ parts' = <<>> /\ fill' = NoFill /\ piece' = 1
  BY DEF StartSplit
<1>2. Linked' /\ HeadFree' /\ LastWhole'
  BY <1>1, ChunksStay
<1>3. Waiting' /\ OfBlock' /\ Unfilled'
  BY <1>1 DEF Ahead, Waiting, EndsInHeading, OfBlock, Unfilled
<1>4. FirstLed'
  BY <1>1 DEF FirstLed, NoFill
<1>5. AtBlock /\ at \in 1..N /\ lines \in Docs /\ lines[at].is # "blank"
  BY <1>1, AtBlockTyped DEF Inv, Located
<1>6. ASSUME current.parts # <<>>
      PROVE  ~ Fits(current.cost + Gap + Facts.of[at].size)
  <2>1. Facts.of[at].size = Whole(at).cost
    BY <1>5, FactsOf
  <2>2. ~ Fits(Joined(current.cost, Whole(at).cost))
    BY DEF StartSplit, BlockFits
  <2>3. current.cost # 0
    <3>1. current.cost >= Last(current.parts).cost + IF Len(current.parts) > 1 THEN Gap ELSE 0
      BY <1>6 DEF Inv, Gathered, FitChunk
    <3>2. current.parts \in Seq(FitPart(lines))
      BY DEF Inv, Gathered, FitChunk, ShownChunk
    <3>3. Last(current.parts) \in FitPart(lines)
      BY <1>6, <3>2, EmptySeq DEF Last
    <3>4. Last(current.parts).cost \in 1..Budget
      BY <3>3 DEF FitPart
    <3> QED
      BY <3>1, <3>4, Constants
  <2> QED
    BY <2>1, <2>2, <2>3 DEF Joined
<1>7. TooLong'
  BY <1>1, <1>6, FactsStay DEF TooLong
<1>8. HeadingCut'
  <2>1. lines[at].is = "heading" => Facts.of[at].size = lines[at].len
    BY <1>5, HeadingBlock, FactsOf
  <2> QED
    BY <1>1, <1>6, <2>1 DEF HeadingCut, Uncut, NoFill
<1> QED
  BY <1>2, <1>3, <1>4, <1>7, <1>8 DEF Ahead

\* A piece is packed with the heading if it fits with it.  A heading that fits
\* there is not split.
LEMMA PackAhead ==
  ASSUME Inv, Ahead, Pack
  PROVE  Ahead'
<1>1. /\ phase = "pack" /\ UNCHANGED <<lines, at, phase, current, chunks, parts>>
      /\ fill' = Grown /\ piece' = piece + 1 /\ piece <= Len(Pieces(at)) /\ PieceFits
  BY DEF Pack, Packing
<1>2. Linked' /\ HeadFree' /\ Waiting' /\ LastWhole' /\ OfBlock' /\ Unfilled' /\ TooLong'
  BY <1>1, ChunksStay, FactsStay DEF Ahead, Waiting, EndsInHeading, OfBlock, Unfilled, TooLong
<1>3. /\ AtBlock /\ lines \in Docs /\ at \in 1..N /\ fill \in Fill(lines) /\ Len(fill.chars) \in Nat
      /\ piece \in Nat \ {0} /\ current.cost \in Nat /\ Budget \in Nat /\ Gap \in Nat
      /\ lines[at].is # "blank"
  BY <1>1, InHand DEF Inv, Packed, AtBlock
<1>4. Grown \in Fill(lines) /\ Grown.chars = fill.chars \o Pieces(at)[piece]
      /\ Len(Grown.chars) >= Len(Pieces(at)[piece]) /\ Len(Grown.chars) \in Nat
  <2>1. piece \in 1..Len(Pieces(at))
    BY <1>1, <1>3, PiecesTyped
  <2>2. Pieces(at)[piece] \in Clean(lines)
    BY <1>3, <2>1, PiecesTyped
  <2>3. Grown \in Fill(lines) /\ Grown.chars = fill.chars \o Pieces(at)[piece]
    BY <1>3, <2>2, CleanJoins DEF Grown, Fill
  <2>4. fill.chars \in Seq(Nat) /\ Pieces(at)[piece] \in Seq(Nat)
    BY <1>3, <2>2 DEF Fill, Clean
  <2>5. /\ Len(fill.chars \o Pieces(at)[piece]) = Len(fill.chars) + Len(Pieces(at)[piece])
        /\ Len(Pieces(at)[piece]) \in Nat
    BY <2>4, ConcatProperties
  <2>6. PICK x, y \in Nat : x = Len(fill.chars) /\ y = Len(Pieces(at)[piece])
    BY <1>3, <2>5
  <2>7. Len(Grown.chars) = x + y
    BY <2>3, <2>5, <2>6
  <2>8. Len(Grown.chars) >= y /\ Len(Grown.chars) \in Nat
    BY <2>7
  <2> QED
    BY <2>3, <2>6, <2>8
<1>5. ASSUME ~ Facts.of[at].bare, parts = <<>>, current.parts # <<>>
      PROVE  Fits(current.cost + Gap + FillCost(Facts, at, Grown))
  <2>1. /\ ~ Bare(at) /\ (Facts.of[at].framed <=> Framed(at))
        /\ Framed(at) => Facts.of[at].frame = Frame(at)
    BY <1>3, <1>5, FactsOf
  <2>2. LeadCost = current.cost + Gap
    BY <1>5, <2>1 DEF LeadCost, Leads
  <2>3. FillCost(Facts, at, Grown) = Filled(Grown).cost
    BY <2>1 DEF FillCost, Filled
  <2> QED
    BY <1>1, <2>2, <2>3 DEF PieceFits
<1>6. FirstLed'
  <2>1. ASSUME ~ Facts.of[at].bare, current.parts # <<>>, parts # <<>>
        PROVE  Leading(Facts, current.cost, at, parts[1].chars, parts[1].cost)
    BY <1>1, <2>1 DEF Ahead, FirstLed
  <2>2. ASSUME ~ Facts.of[at].bare, current.parts # <<>>, parts = <<>>
        PROVE  Leading(Facts, current.cost, at, Grown.chars, FillCost(Facts, at, Grown))
    BY <1>5, <2>2 DEF Leading
  <2> QED
    BY <1>1, <2>1, <2>2, FactsStay DEF FirstLed
<1>7. ~ (lines[at].is = "heading" /\ current.parts # <<>>)
  <2>1. SUFFICES ASSUME lines[at].is = "heading", current.parts # <<>> PROVE FALSE
    OBVIOUS
  <2>2. /\ Len(Pieces(at)) = 1 /\ Len(Pieces(at)[1]) = lines[at].len /\ lines[at].len \in Nat
    BY <1>3, <2>1, HeadingBlock
  <2>3. /\ ~ Fits(current.cost + Gap + lines[at].len)
        /\ Uncut \/ piece = 2
    BY <1>1, <2>1 DEF Ahead, HeadingCut
  <2>4. piece = 1 /\ parts = <<>>
    BY <1>1, <2>2, <2>3 DEF Uncut
  <2>5. Fits(current.cost + Gap + Len(Grown.chars))
    <3>1. ~ Framed(at) /\ ~ Bare(at)
      BY <1>3, <2>1, ProseBlock DEF Prose
    <3>2. ~ Facts.of[at].framed /\ ~ Facts.of[at].bare
      BY <1>3, <3>1, FactsOf
    <3>3. FillCost(Facts, at, Grown) = Len(Grown.chars)
      BY <1>4, <3>2 DEF FillCost
    <3> QED
      BY <1>5, <2>1, <2>4, <3>2, <3>3
  <2>6. Len(Grown.chars) >= lines[at].len
    BY <1>4, <2>2, <2>4
  <2>7. PICK a, b, x, y \in Nat :
          a = current.cost /\ b = lines[at].len /\ x = Len(Grown.chars) /\ y = Gap
    BY <1>3, <1>4, <2>2
  <2>8. x >= b /\ a + y + x <= Budget /\ ~ (a + y + b <= Budget)
    BY <2>3, <2>5, <2>6, <2>7 DEF Fits
  <2> QED
    BY <1>3, <2>8
<1>8. HeadingCut'
  BY <1>1, <1>7 DEF HeadingCut
<1> QED
  BY <1>2, <1>6, <1>8 DEF Ahead

\* A part that is packed keeps what it has of the heading.
LEMMA FilledLeads ==
  ASSUME Inv, Ahead, phase \in {"pack", "cut"}, fill.pieces > 0,
         ~ Facts.of[at].bare, current.parts # <<>>
  PROVE  LET q == Append(parts, Filled(fill))
         IN  q # <<>> /\ Leading(Facts, current.cost, at, q[1].chars, q[1].cost)
<1> DEFINE p == Filled(fill)
           q == Append(parts, p)
<1>1. parts \in Seq(FitPart(lines)) /\ fill \in Fill(lines) /\ AtBlock
  BY InHand
<1>2. p.chars = fill.chars /\ p.cost = FillCost(Facts, at, fill)
  <2>1. at \in 1..N /\ lines \in Docs /\ lines[at].is # "blank"
    BY InHand DEF AtBlock
  <2>2. (Facts.of[at].framed <=> Framed(at)) /\ (Framed(at) => Facts.of[at].frame = Frame(at))
    BY <2>1, FactsOf
  <2> QED
    BY <2>2 DEF FillCost, Filled
<1>3. CASE parts = <<>>
  <2>1. q = <<p>> /\ q # <<>> /\ q[1] = p
    <3> HIDE DEF p
    <3> QED
      BY <1>3
  <2>2. Leading(Facts, current.cost, at, fill.chars, FillCost(Facts, at, fill))
    BY <1>3 DEF Ahead, FirstLed
  <2> HIDE DEF p, q
  <2>3. Leading(Facts, current.cost, at, q[1].chars, q[1].cost)
    BY <1>2, <2>1, <2>2
  <2> QED
    BY <2>1, <2>3 DEF p, q
<1>4. CASE parts # <<>>
  <2>1. q # <<>> /\ q[1] = parts[1]
    <3> HIDE DEF p
    <3>1. parts \in Seq(FitPart(lines) \cup {p})
      BY <1>1
    <3> QED
      BY <1>4, <3>1, EmptySeq
  <2>2. Leading(Facts, current.cost, at, parts[1].chars, parts[1].cost)
    BY <1>4 DEF Ahead, FirstLed
  <2> HIDE DEF p, q
  <2>3. Leading(Facts, current.cost, at, q[1].chars, q[1].cost)
    BY <2>1, <2>2
  <2> QED
    BY <2>1, <2>3 DEF p, q
<1> QED
  BY <1>3, <1>4

\* A part more of the same block.
LEMMA KindKept ==
  ASSUME NEW S, NEW s \in Seq(S), NEW p \in S, NEW k, NEW b, p.kind = k, p.block = b,
         \A i \in 1..Len(s) : s[i].kind = k /\ s[i].block = b
  PROVE  \A i \in 1..Len(Append(s, p)) : Append(s, p)[i].kind = k /\ Append(s, p)[i].block = b
<1>1. Len(Append(s, p)) = Len(s) + 1 /\ Len(s) \in Nat
  OBVIOUS
<1>2. ASSUME NEW i \in 1..Len(Append(s, p))
      PROVE  Append(s, p)[i].kind = k /\ Append(s, p)[i].block = b
  <2>1. CASE i = Len(s) + 1
    <3>1. Append(s, p)[i] = p
      BY <1>1, <2>1
    <3> QED
      BY <3>1
  <2>2. CASE i # Len(s) + 1
    <3>1. i \in 1..Len(s) /\ Append(s, p)[i] = s[i]
      BY <1>1, <2>2
    <3> QED
      BY <3>1
  <2> QED
    BY <2>1, <2>2
<1> QED
  BY <1>2

\* So does one that is closed.
LEMMA EmitFillAhead ==
  ASSUME Inv, Ahead, EmitFill
  PROVE  Ahead'
<1>1. /\ phase = "pack" /\ UNCHANGED <<lines, at, phase, current, chunks, piece>>
      /\ parts' = Append(parts, Filled(fill)) /\ fill' = NoFill /\ fill.pieces > 0
      /\ piece <= Len(Pieces(at))
  BY DEF EmitFill, Packing
<1>2. Linked' /\ HeadFree' /\ Waiting' /\ LastWhole' /\ Unfilled' /\ TooLong'
  BY <1>1, ChunksStay, FactsStay DEF Ahead, Waiting, EndsInHeading, Unfilled, TooLong
<1>3. /\ Filled(fill) \in FitPart(lines) /\ parts \in Seq(FitPart(lines)) /\ AtBlock
      /\ Filled(fill).kind = lines[at].is /\ Filled(fill).block = at
  <2>1. Located /\ AtBlock /\ fill \in Fill(lines) /\ parts \in Seq(FitPart(lines))
    BY <1>1, InHand DEF Inv
  <2>2. Filled(fill) \in FitPart(lines)
    BY <1>1, <2>1, FilledTyped DEF Inv, Packed
  <2>3. Filled(fill).kind = lines[at].is /\ Filled(fill).block = at
    BY DEF Filled
  <2> QED
    BY <2>1, <2>2, <2>3
<1>4. OfBlock'
  <2>1. \A i \in 1..Len(parts) : parts[i].kind = lines[at].is /\ parts[i].block = at
    BY DEF Ahead, OfBlock
  <2>2. \A i \in 1..Len(Append(parts, Filled(fill))) :
          /\ Append(parts, Filled(fill))[i].kind = lines[at].is
          /\ Append(parts, Filled(fill))[i].block = at
    BY <1>3, <2>1, KindKept
  <2> QED
    BY <1>1, <2>2 DEF OfBlock
<1>5. FirstLed'
  <2>1. ASSUME ~ Facts.of[at].bare, current.parts # <<>>
        PROVE  parts' # <<>> /\ Leading(Facts, current.cost, at, parts'[1].chars, parts'[1].cost)
    BY <1>1, <2>1, FilledLeads
  <2> QED
    BY <1>1, <2>1, FactsStay DEF FirstLed
<1>6. ~ (lines[at].is = "heading" /\ current.parts # <<>>)
  <2>1. SUFFICES ASSUME lines[at].is = "heading", current.parts # <<>> PROVE FALSE
    OBVIOUS
  <2>2. Len(Pieces(at)) = 1
    BY <1>3, <2>1, HeadingBlock
  <2>3. Uncut \/ piece = 2
    BY <1>1, <2>1 DEF Ahead, HeadingCut
  <2> QED
    BY <1>1, <2>2, <2>3 DEF Uncut
<1>7. HeadingCut'
  BY <1>1, <1>6 DEF HeadingCut
<1> QED
  BY <1>2, <1>4, <1>5, <1>7 DEF Ahead

\* The first piece of a block is cut with the heading before it, and a heading from
\* its first character on.
LEMMA StartCutAhead ==
  ASSUME Inv, Ahead, StartCut
  PROVE  Ahead'
<1>1. /\ phase = "pack" /\ phase' = "cut" /\ UNCHANGED <<lines, at, current, chunks, parts, fill, piece>>
      /\ rest' = Pieces(at)[piece] /\ lead' = Leads /\ piece <= Len(Pieces(at))
      /\ wrap' = Framed(at) /\ fill.pieces = 0
  BY DEF StartCut, Packing, packVars
<1>2. Linked' /\ HeadFree' /\ Waiting' /\ LastWhole' /\ OfBlock' /\ Unfilled' /\ TooLong'
  BY <1>1, ChunksStay, FactsStay DEF Ahead, Waiting, EndsInHeading, OfBlock, Unfilled, TooLong
<1>3. AtBlock /\ at \in 1..N /\ lines \in Docs /\ lines[at].is # "blank"
  BY <1>1, InHand DEF AtBlock
<1>4. FirstLed'
  <2>1. ASSUME ~ Facts.of[at].bare, current.parts # <<>>, parts = <<>>
        PROVE  lead' /\ (wrap' <=> Facts.of[at].framed)
    BY <1>1, <1>3, <2>1, FactsOf DEF Leads
  <2>2. ~ Facts.of[at].bare /\ current.parts # <<>> /\ parts # <<>> =>
          Leading(Facts, current.cost, at, parts[1].chars, parts[1].cost)
    BY <1>1 DEF Ahead, FirstLed
  <2> QED
    BY <1>1, <2>1, <2>2, FactsStay DEF FirstLed
<1>5. ASSUME lines[at].is = "heading", current.parts # <<>>
      PROVE  /\ ~ Fits(current.cost + Gap + lines[at].len) /\ Uncut
             /\ rest' # <<>> /\ Len(rest') = lines[at].len /\ Head(rest') = lines[at].from
  <2>1. /\ Len(Pieces(at)) = 1 /\ Len(Pieces(at)[1]) = lines[at].len /\ Pieces(at)[1] # <<>>
        /\ Head(Pieces(at)[1]) = lines[at].from
    BY <1>3, <1>5, HeadingBlock
  <2>2. ~ Fits(current.cost + Gap + lines[at].len) /\ (Uncut \/ piece = 2)
    BY <1>1, <1>5 DEF Ahead, HeadingCut
  <2>3. Uncut /\ piece = 1
    BY <1>1, <2>1, <2>2 DEF Uncut
  <2> QED
    BY <1>1, <2>1, <2>2, <2>3
<1>6. HeadingCut'
  BY <1>1, <1>5 DEF HeadingCut, Uncut
<1> QED
  BY <1>2, <1>4, <1>6 DEF Ahead

\* Part of a piece is emitted: with the heading what fits, and of a heading not all.
LEMMA EmitLeads ==
  ASSUME Inv, Ahead, phase = "cut", NEW c \in Seq(Nat), Emit(c),
         UNCHANGED <<lines, at, phase, current, chunks, piece>>,
         ~ Facts.of[at].bare /\ current.parts # <<>> /\ parts = <<>> /\ fill.pieces = 0 =>
           Leading(Facts, current.cost, at, c, Len(c) + IF wrap THEN Frame(at) + 1 ELSE 0),
         lines[at].is = "heading" /\ current.parts # <<>> /\ Uncut =>
           Len(c) + Len(rest') = lines[at].len
  PROVE  Ahead'
<1>1. Linked' /\ HeadFree' /\ Waiting' /\ LastWhole' /\ TooLong'
  BY ChunksStay, FactsStay DEF Ahead, Waiting, EndsInHeading, TooLong
<1>2. /\ AtBlock /\ Located /\ fill \in Fill(lines) /\ parts \in Seq(FitPart(lines))
      /\ lines[at].is \in Sorts /\ fill.pieces \in Nat
      /\ at \in 1..N /\ lines \in Docs /\ lines[at].is # "blank"
  BY InHand, AtBlockTyped DEF Inv, Fill, AtBlock
<1>3. \A i \in 1..Len(parts) : parts[i].kind = lines[at].is /\ parts[i].block = at
  BY DEF Ahead, OfBlock
<1>4. CASE Prose(at)
  <2>1. /\ parts' = IF fill.pieces > 0 THEN Append(parts, Filled(fill)) ELSE parts
        /\ fill' = [pieces |-> 1, chars |-> c]
    BY <1>4 DEF Emit
  <2>2. OfBlock'
    <3>1. CASE fill.pieces > 0
      <4>1. Filled(fill) \in FitPart(lines)
        BY <1>2, <3>1, FilledTyped DEF Inv, Packed
      <4>2. Filled(fill).kind = lines[at].is /\ Filled(fill).block = at
        BY DEF Filled
      <4>3. \A i \in 1..Len(Append(parts, Filled(fill))) :
              /\ Append(parts, Filled(fill))[i].kind = lines[at].is
              /\ Append(parts, Filled(fill))[i].block = at
        BY <1>2, <1>3, <4>1, <4>2, KindKept
      <4> QED
        BY <2>1, <3>1, <4>3 DEF OfBlock
    <3>2. CASE ~ (fill.pieces > 0)
      BY <1>3, <2>1, <3>2 DEF OfBlock
    <3> QED
      BY <3>1, <3>2
  <2>3. FirstLed'
    <3>1. ASSUME ~ Facts.of[at].bare, current.parts # <<>>, parts' # <<>>
          PROVE  Leading(Facts, current.cost, at, parts'[1].chars, parts'[1].cost)
      <4>1. CASE fill.pieces > 0
        <5>1. parts' = Append(parts, Filled(fill))
          BY <2>1, <4>1
        <5> QED
          BY <3>1, <4>1, <5>1, FilledLeads
      <4>2. CASE ~ (fill.pieces > 0)
        <5>1. parts' = parts
          BY <2>1, <4>2
        <5>2. Leading(Facts, current.cost, at, parts[1].chars, parts[1].cost)
          BY <3>1, <5>1 DEF Ahead, FirstLed
        <5> QED
          BY <5>1, <5>2
      <4> QED
        BY <4>1, <4>2
    <3>2. ASSUME ~ Facts.of[at].bare, current.parts # <<>>, parts' = <<>>
          PROVE  Leading(Facts, current.cost, at, c, FillCost(Facts, at, fill'))
      <4>1. parts = <<>> /\ fill.pieces = 0
        <5>1. ~ (fill.pieces > 0)
          <6>1. Append(parts, Filled(fill)) # <<>>
            BY <1>2, AppendedTo, Zenon
          <6> QED
            BY <2>1, <3>2, <6>1, Zenon
        <5> QED
          BY <1>2, <2>1, <3>2, <5>1
      <4>2. Leading(Facts, current.cost, at, c, Len(c) + IF wrap THEN Frame(at) + 1 ELSE 0)
        BY <3>2, <4>1
      <4>3. ~ Framed(at) /\ ~ wrap /\ ~ Facts.of[at].framed
        <5>1. ~ Framed(at)
          BY <1>4 DEF Framed
        <5> QED
          BY <1>2, <5>1, FactsOf DEF Inv, InCut
      <4>4. Len(c) + (IF wrap THEN Frame(at) + 1 ELSE 0) = FillCost(Facts, at, fill')
        BY <2>1, <4>3 DEF FillCost
      <4> QED
        BY <4>2, <4>4
    <3>3. fill'.chars = c /\ fill'.pieces = 1
      BY <2>1
    <3> QED
      BY <3>1, <3>2, <3>3, FactsStay DEF FirstLed
  <2>4. HeadingCut'
    <3>1. SUFFICES ASSUME lines[at].is = "heading", current.parts # <<>>
                   PROVE  /\ ~ Fits(current.cost + Gap + lines[at].len) /\ piece = 1
                          /\ \/ parts' = <<>> /\ Len(c) + Len(rest') = lines[at].len
                             \/ parts' # <<>>
      <4>1. fill'.chars = c /\ fill'.pieces = 1 /\ 1 > 0
        BY <2>1
      <4> QED
        BY <3>1, <4>1 DEF HeadingCut, Divided
    <3>2. /\ ~ Fits(current.cost + Gap + lines[at].len)
          /\ Uncut \/ (piece = 1 /\ Divided(Len(rest)))
      BY <3>1 DEF Ahead, HeadingCut
    <3>3. CASE Uncut
      <4>1. piece = 1 /\ parts' = <<>>
        BY <2>1, <3>3 DEF Uncut
      <4> QED
        BY <3>1, <3>2, <3>3, <4>1
    <3>4. CASE piece = 1 /\ Divided(Len(rest))
      <4>1. fill.pieces > 0
        BY <3>4 DEF Divided
      <4>2. parts' # <<>>
        <5>1. parts' = Append(parts, Filled(fill))
          BY <2>1, <4>1
        <5> QED
          BY <1>2, <5>1, AppendedTo, Zenon
      <4> QED
        BY <3>2, <3>4, <4>2
    <3> QED
      BY <3>2, <3>3, <3>4
  <2>5. Unfilled'
    BY <1>4 DEF Unfilled, Prose
  <2> QED
    BY <1>1, <2>2, <2>3, <2>4, <2>5 DEF Ahead
<1>5. CASE ~ Prose(at)
  <2> DEFINE part == [kind |-> lines[at].is, block |-> at, chars |-> c,
                      cost |-> Len(c) + IF wrap THEN Frame(at) + 1 ELSE 0]
  <2>1. parts' = Append(parts, part) /\ fill' = fill
    BY <1>5 DEF Emit
  <2>2. /\ part.kind = lines[at].is /\ part.block = at /\ part.chars = c
        /\ part.cost = Len(c) + IF wrap THEN Frame(at) + 1 ELSE 0
    OBVIOUS
  <2> HIDE DEF part
  <2>3. OfBlock'
    <3>1. parts \in Seq(FitPart(lines) \cup {part}) /\ part \in FitPart(lines) \cup {part}
      BY <1>2
    <3>2. \A i \in 1..Len(Append(parts, part)) :
            Append(parts, part)[i].kind = lines[at].is /\ Append(parts, part)[i].block = at
      BY <1>3, <2>2, <3>1, KindKept
    <3> QED
      BY <2>1, <3>2 DEF OfBlock
  <2>4. HeadingCut' /\ Unfilled' /\ fill.pieces = 0
    BY <1>5, <2>1 DEF Ahead, Unfilled, HeadingCut, Prose
  <2>5. FirstLed'
    <3>1. ASSUME ~ Facts.of[at].bare, current.parts # <<>>
          PROVE  Append(parts, part) # <<>> /\
                 Leading(Facts, current.cost, at, Append(parts, part)[1].chars, Append(parts, part)[1].cost)
      <4>1. CASE parts = <<>>
        <5>1. Append(parts, part) # <<>> /\ Append(parts, part)[1] = part
          BY <4>1
        <5>2. Leading(Facts, current.cost, at, part.chars, part.cost)
          BY <2>2, <2>4, <3>1, <4>1
        <5> QED
          BY <5>1, <5>2
      <4>2. CASE parts # <<>>
        <5>1. parts \in Seq(FitPart(lines) \cup {part})
          BY <1>2
        <5>2. Append(parts, part) # <<>> /\ Append(parts, part)[1] = parts[1]
          BY <4>2, <5>1, EmptySeq
        <5>3. Leading(Facts, current.cost, at, parts[1].chars, parts[1].cost)
          BY <3>1, <4>2 DEF Ahead, FirstLed
        <5> QED
          BY <5>2, <5>3
      <4> QED
        BY <4>1, <4>2
    <3> QED
      BY <2>1, <3>1, FactsStay DEF FirstLed
  <2> QED
    BY <1>1, <2>3, <2>4, <2>5 DEF Ahead
<1> QED
  BY <1>4, <1>5

\* A block is cut with its heading where the heading leaves room.
LEMMA CutAhead ==
  ASSUME Inv, Ahead, Cut
  PROVE  Ahead'
<1> DEFINE head == SubSeq(rest, 1, CutAt)
<1>1. /\ phase = "cut" /\ CutAt > 0 /\ Emit(head) /\ rest # <<>>
      /\ rest' = SubSeq(rest, CutAt + 1, Len(rest))
      /\ UNCHANGED <<lines, at, phase, current, chunks, piece, wrap, dropped>>
  BY DEF Cut
<1>2. CutAt \in 1..Len(rest) /\ CutAt <= Reach /\ rest \in Seq(Nat) /\ Len(rest) \in Nat /\ Reach \in Int
  BY <1>1, CutWithinReach, ReachTyped
<1>3. /\ head \in Seq(Nat) /\ Len(head) = CutAt /\ Head(head) = Head(rest)
      /\ Len(rest') = Len(rest) - CutAt
  <2> DEFINE s == rest
             n == CutAt
  <2>1. s \in Seq(Nat) /\ n \in 1..Len(s)
    BY <1>2
  <2>2. rest' = SubSeq(s, n + 1, Len(s))
    BY <1>1
  <2> HIDE DEF s, n
  <2>3. SubSeq(s, 1, n) \in Seq(Nat) /\ Len(SubSeq(s, 1, n)) = n /\ SubSeq(s, 1, n)[1] = s[1]
    <3>1. \A i \in 1..n : s[i] \in Nat
      BY <2>1
    <3> QED
      BY <2>1, <3>1, SubSeqProperties
  <2>4. Len(SubSeq(s, n + 1, Len(s))) = Len(s) - n
    <3>1. \A i \in (n + 1)..Len(s) : s[i] \in Nat
      BY <2>1
    <3>2. Len(SubSeq(s, n + 1, Len(s))) = IF n + 1 <= Len(s) THEN Len(s) - (n + 1) + 1 ELSE 0
      BY <2>1, <3>1, SubSeqProperties
    <3> QED
      BY <2>1, <3>2
  <2>5. s # <<>> /\ SubSeq(s, 1, n) # <<>>
    BY <2>1, <2>3
  <2>6. Head(SubSeq(s, 1, n)) = Head(s)
    BY <2>1, <2>3, <2>5
  <2> QED
    BY <2>2, <2>3, <2>4, <2>6 DEF s, n
<1> HIDE DEF head
<1> DEFINE around == IF wrap THEN Frame(at) + 1 ELSE 0
<1>4. ASSUME ~ Facts.of[at].bare, current.parts # <<>>, parts = <<>>, fill.pieces = 0
      PROVE  Leading(Facts, current.cost, at, head, Len(head) + around)
  <2>1. (lead /\ (wrap <=> Facts.of[at].framed)) \/ Tight(Facts, current.cost + Gap, at, rest)
    BY <1>1, <1>4 DEF Ahead, FirstLed
  <2>2. CASE lead
    <3>1. around \in Nat
      <4>1. at \in 1..N /\ lines \in Docs /\ lines[at].is # "blank" /\ (wrap => Framed(at))
        BY <1>1, InHand DEF AtBlock, Inv, InCut
      <4>2. wrap => Frame(at) \in Nat
        BY <4>1, FrameTyped
      <4> QED
        BY <4>2
    <3>2. current.cost \in Nat /\ Budget \in Nat /\ Gap \in Nat
      BY <1>1, InHand
    <3>3. Reach <= Budget - (current.cost + Gap) - around
      <4>1. Reach = IF Budget - (current.cost + Gap) - around < Len(rest)
                    THEN Budget - (current.cost + Gap) - around ELSE Len(rest)
        BY <2>2 DEF Reach
      <4> HIDE DEF around
      <4> QED
        BY <1>2, <3>1, <3>2, <4>1
    <3> HIDE DEF around
    <3>4. PICK a, b, w, x, y \in Int : a = current.cost + Gap /\ b = Budget /\ w = around
                                       /\ x = CutAt /\ y = Reach
      BY <1>2, <3>1, <3>2
    <3>5. a + (x + w) <= b
      <4>1. x <= y /\ y <= b - a - w
        BY <1>2, <3>3, <3>4, Zenon
      <4> QED
        BY <3>4, <4>1
    <3>6. Fits(current.cost + Gap + (Len(head) + around))
      BY <1>3, <3>4, <3>5, Zenon DEF Fits
    <3> QED
      BY <3>6 DEF Leading
  <2>3. CASE ~ lead
    BY <1>3, <2>1, <2>3 DEF Leading, Tight
  <2> QED
    BY <2>2, <2>3
<1>5. ASSUME lines[at].is = "heading", current.parts # <<>>, Uncut
      PROVE  Len(head) + Len(rest') = lines[at].len
  <2>1. Len(rest) = lines[at].len
    BY <1>1, <1>5 DEF Ahead, HeadingCut, Uncut, Divided
  <2> QED
    BY <1>2, <1>3, <2>1
<1> QED
  BY <1>1, <1>3, <1>4, <1>5, EmitLeads

\* The heading is left alone when nothing fits behind it.
LEMMA DropWrapperAhead ==
  ASSUME Inv, Ahead, DropWrapper
  PROVE  Ahead'
<1>1. /\ phase = "cut" /\ rest # <<>> /\ CutAt <= 0
      /\ UNCHANGED <<lines, at, phase, current, chunks, parts, fill, piece, rest>>
  BY DEF DropWrapper, packVars
<1>2. Linked' /\ HeadFree' /\ Waiting' /\ LastWhole' /\ OfBlock' /\ Unfilled' /\ TooLong' /\ HeadingCut'
  <2>1. HeadingCut'
    BY <1>1 DEF Ahead, HeadingCut, Uncut, Divided
  <2> QED
    BY <1>1, <2>1, ChunksStay, FactsStay DEF Ahead, Waiting, EndsInHeading, OfBlock, Unfilled, TooLong
<1>3. ASSUME lead, wrap <=> Facts.of[at].framed, current.parts # <<>>
      PROVE  Tight(Facts, current.cost + Gap, at, rest)
  <2>1. rest \in Seq(Nat) /\ Len(rest) \in Nat \ {0} /\ Reach \in Int /\ Head(rest) = rest[1]
    BY <1>1, ReachTyped, EmptySeq
  <2>2. at \in 1..N /\ lines \in Docs /\ lines[at].is # "blank"
    BY <1>1, InHand DEF AtBlock
  <2>3. /\ Facts.links = Links /\ (Facts.of[at].framed <=> Framed(at))
        /\ Framed(at) => Facts.of[at].frame = Frame(at)
        /\ Facts.of[at].frame \in Nat
    BY <2>2, FactsOf
  <2> DEFINE room == Budget - (current.cost + Gap) - IF Facts.of[at].framed THEN Facts.of[at].frame + 1 ELSE 0
  <2>4. (IF wrap THEN Frame(at) + 1 ELSE 0) = (IF Facts.of[at].framed THEN Facts.of[at].frame + 1 ELSE 0)
    BY <1>3, <2>3
  <2>5. Reach = IF room < Len(rest) THEN room ELSE Len(rest)
    BY <1>3, <2>4 DEF Reach
  <2>6. current.cost \in Nat /\ Budget \in Nat /\ Gap \in Nat
    BY <1>1, InHand
  <2>7. room \in Int
    BY <2>3, <2>6
  <2>8. room < 1 \/ \E g \in Facts.links : Head(rest) = g.from /\ g.to - g.from >= room
    <3> HIDE DEF room
    <3>1. CASE Reach > 0
      <4>1. PICK g \in LinkAt(1) : Reach < 1 + g.to - g.from
        BY <1>1, <3>1, NothingCut
      <4>2. g \in Links /\ g.from = rest[1] /\ 1 + g.to - g.from <= Len(rest)
        BY <4>1 DEF LinkAt
      <4>3. g.from \in Nat /\ g.to \in Nat
        <5>1. g \in LinksOf(lines)
          BY <4>2 DEF Links, LinksOf, N
        <5> QED
          BY <2>2, <5>1, LinkTyped
      <4>4. Reach = room
        BY <2>1, <2>5, <2>7, <4>1, <4>2, <4>3
      <4>5. g.to - g.from >= room
        BY <2>7, <4>1, <4>3, <4>4
      <4> QED
        BY <2>1, <2>3, <4>2, <4>5
    <3>2. CASE ~ (Reach > 0)
      BY <2>1, <2>5, <2>7, <3>2
    <3> QED
      BY <3>1, <3>2
  <2> QED
    BY <2>8 DEF Tight
<1>4. FirstLed'
  <2>1. ~ Facts.of[at].bare /\ current.parts # <<>> =>
          /\ parts # <<>> => Leading(Facts, current.cost, at, parts[1].chars, parts[1].cost)
          /\ parts = <<>> /\ fill.pieces > 0 =>
               Leading(Facts, current.cost, at, fill.chars, FillCost(Facts, at, fill))
          /\ parts = <<>> /\ fill.pieces = 0 =>
               (lead /\ (wrap <=> Facts.of[at].framed)) \/ Tight(Facts, current.cost + Gap, at, rest)
    BY <1>1 DEF Ahead, FirstLed
  <2> QED
    BY <1>1, <1>3, <2>1, FactsStay DEF FirstLed
<1> QED
  BY <1>2, <1>4 DEF Ahead

\* No heading begins with a link.
LEMMA HeadingHasMark ==
  ASSUME lines \in Docs, NEW l \in 1..N, lines[l].is = "heading", NEW g \in LinksOf(lines)
  PROVE  g.from # lines[l].from
<1>1. PICK m \in 1..N : g \in lines[m].links
  BY DEF LinksOf, N
<1>2. g.from \in Nat /\ g.to \in Nat /\ g.label \in Nat /\ g.from + g.label < g.to
  BY LinkTyped
<1>3. lines[m].from <= g.from /\ g.to <= To(m)
  BY <1>1, LinkInLine
<1>4. /\ lines[l].from \in Nat /\ lines[m].from \in Nat /\ lines[l].len \in Nat /\ lines[m].len \in Nat
      /\ l < m => lines[l].from + lines[l].len < lines[m].from
      /\ m < l => lines[m].from + lines[m].len < lines[l].from
      /\ N \in Nat
  BY LineTyped
<1>5. CASE m = l
  <2>1. lines[l].from < g.from
    BY <1>1, <1>5, ChunkerAssumption DEF ChunkerAssumption, N
  <2> QED
    BY <1>2, <1>4, <2>1
<1>6. CASE l < m
  BY <1>2, <1>3, <1>4, <1>6
<1>7. CASE m < l
  BY <1>2, <1>3, <1>4, <1>7 DEF To
<1> QED
  BY <1>4, <1>5, <1>6, <1>7

\* A label that is kept begins the part, and is not of a heading that nothing has
\* been cut from.
LEMMA KeepLabelAhead ==
  ASSUME Inv, Ahead, KeepLabel
  PROVE  Ahead'
<1>1. /\ phase = "cut" /\ rest # <<>> /\ ~ wrap /\ ~ lead
      /\ UNCHANGED <<lines, at, phase, current, chunks, piece>>
  BY DEF KeepLabel
<1>2. PICK g \in LinkAt(1) : Emit(<<g.from + 1>>)
  BY DEF KeepLabel
<1>3. g \in LinksOf(lines) /\ g.from = rest[1]
  BY <1>2 DEF LinkAt, Links, LinksOf, N
<1>4. lines \in Docs /\ at \in 1..N /\ lines[at].is # "blank"
  BY <1>1, InHand DEF AtBlock
<1> DEFINE c == <<g.from + 1>>
<1>5. c \in Seq(Nat) /\ Len(c) = 1 /\ Emit(c)
  <2>1. g.from \in Nat
    BY <1>3, <1>4, LinkTyped
  <2> QED
    BY <1>2, <2>1
<1> HIDE DEF c
<1>6. ASSUME ~ Facts.of[at].bare, current.parts # <<>>, parts = <<>>, fill.pieces = 0
      PROVE  Leading(Facts, current.cost, at, c, Len(c) + IF wrap THEN Frame(at) + 1 ELSE 0)
  <2>1. Tight(Facts, current.cost + Gap, at, rest)
    BY <1>1, <1>6 DEF Ahead, FirstLed
  <2>2. Facts.of[at].frame \in Nat
    BY <1>4, FactsOf
  <2>3. current.cost \in Nat /\ Budget \in Nat /\ Gap \in Nat
    BY <1>1, InHand
  <2> DEFINE room == Budget - (current.cost + Gap) - IF Facts.of[at].framed THEN Facts.of[at].frame + 1 ELSE 0
  <2>4. room \in Int /\ room <= Budget - (current.cost + Gap)
    BY <2>2, <2>3
  <2>5. CASE room < 1
    BY <2>5 DEF Leading, Tight
  <2>6. CASE ~ (room < 1)
    <3> HIDE DEF room
    <3>1. current.cost + Gap + 1 <= Budget
      BY <2>3, <2>4, <2>6
    <3>2. Len(c) + (IF wrap THEN Frame(at) + 1 ELSE 0) = 1
      BY <1>1, <1>5
    <3> QED
      BY <3>1, <3>2 DEF Leading, Fits
  <2> QED
    BY <2>5, <2>6
<1>7. ~ (lines[at].is = "heading" /\ current.parts # <<>> /\ Uncut)
  <2>1. SUFFICES ASSUME lines[at].is = "heading", current.parts # <<>>, Uncut PROVE FALSE
    OBVIOUS
  <2>2. Head(rest) = lines[at].from
    BY <1>1, <2>1 DEF Ahead, HeadingCut, Uncut, Divided
  <2>3. Head(rest) = rest[1]
    <3>1. rest \in Seq(Nat)
      BY DEF Inv, InCut, Rests
    <3> QED
      BY <1>1, <3>1
  <2> QED
    BY <1>3, <1>4, <2>1, <2>2, <2>3, HeadingHasMark
<1> QED
  BY <1>1, <1>5, <1>6, <1>7, EmitLeads

\* All of a heading is then in its parts.
LEMMA CutDoneAhead ==
  ASSUME Inv, Ahead, CutDone
  PROVE  Ahead'
<1>1. /\ phase = "cut" /\ phase' = "pack" /\ rest = <<>> /\ piece' = piece + 1
      /\ UNCHANGED <<lines, at, current, chunks, parts, fill>>
  BY DEF CutDone
<1>2. Linked' /\ HeadFree' /\ Waiting' /\ LastWhole' /\ OfBlock' /\ Unfilled' /\ TooLong'
  BY <1>1, ChunksStay, FactsStay DEF Ahead, Waiting, EndsInHeading, OfBlock, Unfilled, TooLong
<1>3. FirstLed'
  BY <1>1, FactsStay DEF Ahead, FirstLed
<1>4. ASSUME lines[at].is = "heading", current.parts # <<>>
      PROVE  ~ Fits(current.cost + Gap + lines[at].len) /\ piece = 1 /\ Divided(0)
  <2>1. Len(rest) = 0
    BY <1>1
  <2> QED
    BY <1>1, <1>4, <2>1 DEF Ahead, HeadingCut
<1>5. HeadingCut'
  BY <1>1, <1>4 DEF HeadingCut, Divided
<1> QED
  BY <1>2, <1>3, <1>5 DEF Ahead

Alone(s) == [i \in 1..(Len(s) - 1) |-> Add(Empty, s[i])]
LastAlone(s) == IF s = <<>> THEN Empty ELSE Add(Empty, Last(s))

\* A part alone in a chunk is its first and its last.
LEMMA OnePart ==
  ASSUME NEW p
  PROVE  LET c == Add(Empty, p)
         IN  c.parts = <<p>> /\ c.parts # <<>> /\ Head(c.parts) = p /\ Last(c.parts) = p
BY DEF Add, Empty, Last

\* Parts of one block, each alone in a chunk, may follow one another.
LEMMA AloneLed ==
  ASSUME NEW F, NEW ls, NEW k, NEW b, NEW s \in Seq(FitPart(ls)),
         \A i \in 1..Len(s) : s[i].kind = k /\ s[i].block = b
  PROVE  /\ Alone(s) \in Seq(ShownChunk(ls)) /\ Chain(F, Alone(s), LastAlone(s))
         /\ s = <<>> => Alone(s) = <<>> /\ LastAlone(s) = Empty
         /\ s # <<>> => /\ LastAlone(s).parts # <<>>
                        /\ (IF Alone(s) = <<>> THEN LastAlone(s) ELSE Alone(s)[1]) = Add(Empty, s[1])
<1>1. Len(s) \in Nat /\ (s = <<>> <=> Len(s) = 0) /\ \A i \in 1..Len(s) : s[i] \in FitPart(ls)
  BY EmptySeq
<1>2. \A i \in 1..Len(s) : Add(Empty, s[i]) \in ShownChunk(ls)
  BY <1>1, AddToEmpty, FitIsShown
<1>3. CASE s = <<>>
  <2>1. 1..(Len(s) - 1) = 1..0
    BY <1>3
  <2>2. Alone(s) = <<>> /\ <<>> \in Seq(ShownChunk(ls))
    <3>1. Alone(s) = [i \in 1..0 |-> Add(Empty, s[i])]
      BY <2>1 DEF Alone
    <3>2. Alone(s) \in [1..0 -> ShownChunk(ls)]
      BY <3>1
    <3>3. Alone(s) \in Seq(ShownChunk(ls)) /\ Len(Alone(s)) = 0
      BY <3>2
    <3> QED
      BY <3>3, EmptySeq
  <2>3. Chain(F, <<>>, LastAlone(s))
    BY DEF Chain
  <2>4. LastAlone(s) = Empty
    BY <1>3 DEF LastAlone
  <2> QED
    BY <1>3, <2>2, <2>3, <2>4
<1>4. CASE s # <<>>
  <2>1. PICK n \in Nat : Len(s) = n + 1
    <3>1. Len(s) - 1 \in Nat /\ Len(s) = Len(s) - 1 + 1
      BY <1>1, <1>4
    <3> QED
      BY <3>1
  <2>2. Len(s) - 1 = n /\ Alone(s) = [i \in 1..n |-> Add(Empty, s[i])]
    BY <2>1 DEF Alone
  <2>3. \A i \in 1..n : i \in 1..Len(s) /\ i + 1 \in 1..Len(s)
    BY <2>1
  <2>4. /\ Alone(s) \in Seq(ShownChunk(ls)) /\ Len(Alone(s)) = n
        /\ \A i \in 1..n : Alone(s)[i] = Add(Empty, s[i])
    <3> DEFINE a == [i \in 1..n |-> Add(Empty, s[i])]
    <3>1. \A i \in 1..n : Add(Empty, s[i]) \in ShownChunk(ls)
      BY <1>2, <2>3
    <3>2. a \in Seq(ShownChunk(ls)) /\ Len(a) = n
      BY <3>1
    <3>3. \A i \in 1..n : a[i] = Add(Empty, s[i])
      OBVIOUS
    <3> QED
      BY <2>2, <3>2, <3>3
  <2>5. LastAlone(s) = Add(Empty, s[n + 1])
    BY <1>4, <2>1 DEF LastAlone, Last
  <2>6. ASSUME NEW i \in 1..n
        PROVE  Led(F, Alone(s)[i], IF i < n THEN Alone(s)[i + 1] ELSE LastAlone(s))
    <3> DEFINE d == IF i < n THEN Alone(s)[i + 1] ELSE LastAlone(s)
    <3>1. d = Add(Empty, s[i + 1])
      <4>1. CASE i < n
        <5>1. i + 1 \in 1..n
          BY <4>1
        <5> QED
          BY <2>4, <4>1, <5>1
      <4>2. CASE ~ (i < n)
        <5>1. i = n
          BY <4>2
        <5> QED
          BY <2>5, <4>2, <5>1
      <4> QED
        BY <4>1, <4>2
    <3> HIDE DEF d
    <3>2. Head(d.parts).kind = k /\ Head(d.parts).block = b
      BY <2>3, <3>1, OnePart
    <3>3. /\ EndsInHeading(Alone(s)[i]) => k = "heading"
          /\ Last(Alone(s)[i].parts).block = b
      <4>1. Alone(s)[i] = Add(Empty, s[i]) /\ s[i].kind = k /\ s[i].block = b
        BY <2>3, <2>4
      <4>2. Last(Alone(s)[i].parts) = s[i]
        BY <4>1, OnePart
      <4> QED
        BY <4>1, <4>2 DEF EndsInHeading
    <3>4. Led(F, Alone(s)[i], d)
      BY <3>2, <3>3 DEF Led
    <3> QED
      BY <3>4 DEF d
  <2>7. Chain(F, Alone(s), LastAlone(s))
    BY <2>4, <2>6 DEF Chain
  <2>8. (IF Alone(s) = <<>> THEN LastAlone(s) ELSE Alone(s)[1]) = Add(Empty, s[1])
    <3>1. CASE n = 0
      <4>1. Alone(s) = <<>>
        BY <2>4, <3>1, EmptySeq
      <4> QED
        BY <2>5, <3>1, <4>1
    <3>2. CASE n # 0
      <4>1. 1 \in 1..n /\ Alone(s) # <<>>
        BY <2>4, <3>2, EmptySeq
      <4> QED
        BY <2>4, <4>1
    <3> QED
      BY <3>1, <3>2
  <2>9. LastAlone(s).parts # <<>>
    BY <2>5, OnePart
  <2> QED
    BY <1>4, <2>4, <2>7, <2>8, <2>9
<1> QED
  BY <1>3, <1>4

\* All parts of a block are of it.  The first one follows the heading before
\* the block if it can, and of a heading that joins another more is to come.
LEMMA PartsDelivered ==
  ASSUME Inv, Ahead, Deliver, AllParts # <<>>
  PROVE  /\ AllParts \in Seq(FitPart(lines)) /\ AllParts[1] \in FitPart(lines)
         /\ \A i \in 1..Len(AllParts) : AllParts[i].kind = lines[at].is /\ AllParts[i].block = at
         /\ ~ Joins /\ current.parts # <<>> => Led(Facts, current, Add(Empty, AllParts[1]))
         /\ Joins /\ lines[at].is = "heading" => Len(AllParts) > 1
<1>1. /\ phase = "pack" /\ piece > Len(Pieces(at)) /\ AtBlock /\ fill \in Fill(lines) /\ Located
      /\ parts \in Seq(FitPart(lines)) /\ Len(parts) \in Nat /\ fill.pieces \in Nat
      /\ current.parts # <<>> => current.cost \in Nat \ {0}
      /\ current.cost \in Nat /\ Budget \in Nat /\ Gap \in Nat /\ Len(fill.chars) \in Nat
  BY InHand DEF Deliver, Inv, Fill
<1>2. AllParts \in Seq(FitPart(lines))
  BY <1>1, AllPartsTyped
<1>3. AllParts[1] \in FitPart(lines)
  BY <1>2, EmptySeq
<1>4. \A i \in 1..Len(AllParts) : AllParts[i].kind = lines[at].is /\ AllParts[i].block = at
  <2>1. \A i \in 1..Len(parts) : parts[i].kind = lines[at].is /\ parts[i].block = at
    BY DEF Ahead, OfBlock
  <2>2. CASE fill.pieces > 0
    <3>1. Filled(fill) \in FitPart(lines)
      BY <1>1, <2>2, FilledTyped DEF Inv, Packed
    <3>2. Filled(fill).kind = lines[at].is /\ Filled(fill).block = at
      BY DEF Filled
    <3>3. \A i \in 1..Len(Append(parts, Filled(fill))) :
            /\ Append(parts, Filled(fill))[i].kind = lines[at].is
            /\ Append(parts, Filled(fill))[i].block = at
      BY <1>1, <2>1, <3>1, <3>2, KindKept
    <3> QED
      BY <2>2, <3>3 DEF AllParts
  <2>3. CASE ~ (fill.pieces > 0)
    BY <2>1, <2>3 DEF AllParts
  <2> QED
    BY <2>2, <2>3
<1>5. AllParts[1].block = at /\ AllParts[1].cost \in Nat
  <2>1. 1 \in 1..Len(AllParts)
    BY <1>2, EmptySeq
  <2>2. AllParts[1].cost \in 1..Budget
    BY <1>3 DEF FitPart
  <2> QED
    BY <1>4, <2>1, <2>2
<1>6. ASSUME ~ Joins, current.parts # <<>> PROVE Led(Facts, current, Add(Empty, AllParts[1]))
  <2>1. ~ Fits(current.cost + Gap + AllParts[1].cost)
    BY <1>1, <1>6 DEF Joins, Joined
  <2>2. ASSUME ~ Facts.of[at].bare
        PROVE  Leading(Facts, current.cost, at, AllParts[1].chars, AllParts[1].cost)
    <3>1. CASE fill.pieces > 0
      <4>1. AllParts = Append(parts, Filled(fill))
        BY <3>1 DEF AllParts
      <4> QED
        BY <1>1, <1>6, <2>2, <3>1, <4>1, FilledLeads
    <3>2. CASE ~ (fill.pieces > 0)
      <4>1. AllParts = parts /\ parts # <<>>
        BY <3>2 DEF AllParts
      <4>2. Leading(Facts, current.cost, at, parts[1].chars, parts[1].cost)
        BY <1>1, <1>6, <2>2, <4>1 DEF Ahead, FirstLed
      <4> QED
        BY <4>1, <4>2
    <3> QED
      BY <3>1, <3>2
  <2>3. Facts.of[at].bare => current.cost + Gap + Facts.of[at].size > Budget
    <3>1. ~ Fits(current.cost + Gap + Facts.of[at].size)
      BY <1>1, <1>6 DEF Ahead, TooLong
    <3>2. Facts.of[at].size \in Nat
      <4>1. at \in 1..N /\ lines \in Docs /\ lines[at].is # "blank"
        BY <1>1, InHand DEF AtBlock
      <4> QED
        BY <4>1, FactsOf
    <3> QED
      BY <1>1, <3>1, <3>2 DEF Fits
  <2>4. Head(Add(Empty, AllParts[1]).parts) = AllParts[1]
    BY OnePart
  <2> QED
    BY <1>5, <2>1, <2>2, <2>3, <2>4 DEF Led, Leading
<1>7. ASSUME Joins, lines[at].is = "heading" PROVE Len(AllParts) > 1
  <2>1. current.parts # <<>> /\ Fits(current.cost + Gap + AllParts[1].cost)
    BY <1>1, <1>7 DEF Joins, Joined
  <2>2. Len(Pieces(at)) = 1
    BY <1>1, <1>7, HeadingBlock
  <2>3. ~ Fits(current.cost + Gap + lines[at].len) /\ Divided(0)
    BY <1>1, <1>7, <2>1, <2>2 DEF Ahead, HeadingCut, Uncut
  <2>4. CASE parts # <<>> /\ fill.pieces > 0
    <3> DEFINE p == Filled(fill)
    <3>1. AllParts = Append(parts, p)
      BY <2>4 DEF AllParts
    <3> HIDE DEF p
    <3>2. Len(Append(parts, p)) = Len(parts) + 1 /\ Len(parts) # 0
      BY <1>1, <2>4, EmptySeq
    <3> QED
      BY <1>1, <3>1, <3>2
  <2>5. CASE parts = <<>> /\ fill.pieces = 1 /\ Len(fill.chars) + 0 = lines[at].len
    <3> DEFINE p == Filled(fill)
    <3>1. AllParts = Append(<<>>, p)
      BY <2>5 DEF AllParts
    <3>2. p.cost = Len(fill.chars)
      BY <1>1, <1>7, ProseBlock DEF Prose
    <3> HIDE DEF p
    <3>3. AllParts[1] = p
      BY <3>1
    <3>4. p.cost = lines[at].len
      BY <1>1, <2>5, <3>2
    <3> QED
      BY <2>1, <2>3, <3>3, <3>4
  <2> QED
    BY <2>3, <2>4, <2>5 DEF Divided
<1> QED
  BY <1>2, <1>3, <1>4, <1>6, <1>7

\* The parts of a block, delivered.
LEMMA DeliverAhead ==
  ASSUME Inv, Ahead, Deliver
  PROVE  Ahead'
<1>1. /\ phase = "pack" /\ phase' = "gather" /\ UNCHANGED lines /\ parts' = <<>>
  BY DEF Deliver
<1>2. Waiting' /\ OfBlock' /\ Unfilled' /\ FirstLed' /\ TooLong' /\ HeadingCut'
  BY <1>1 DEF Waiting, OfBlock, Unfilled, FirstLed, TooLong, HeadingCut
<1>3. CASE AllParts = <<>>
  <2>1. UNCHANGED <<lines, chunks, current>>
    BY <1>1, <1>3 DEF Deliver
  <2>2. Linked' /\ HeadFree' /\ LastWhole'
    BY <1>1, <2>1, ChunksStay
  <2> QED
    BY <1>2, <2>2 DEF Ahead
<1>4. CASE AllParts # <<>>
  <2> DEFINE left == IF Joins THEN Tail(AllParts) ELSE AllParts
             joined == Add(current, AllParts[1])
             first == IF Joins THEN <<joined>> ELSE IF current.parts # <<>> THEN <<current>> ELSE <<>>
             next == IF Alone(left) = <<>> THEN LastAlone(left) ELSE Alone(left)[1]
  <2>1. /\ AllParts \in Seq(FitPart(lines)) /\ AllParts[1] \in FitPart(lines)
        /\ \A i \in 1..Len(AllParts) : AllParts[i].kind = lines[at].is /\ AllParts[i].block = at
        /\ ~ Joins /\ current.parts # <<>> => Led(Facts, current, Add(Empty, AllParts[1]))
        /\ Joins /\ lines[at].is = "heading" => Len(AllParts) > 1
    BY <1>4, PartsDelivered
  <2>2. chunks' = (chunks \o first) \o Alone(left) /\ current' = LastAlone(left)
    BY <1>4 DEF Deliver, Alone, LastAlone
  <2>3. /\ left \in Seq(FitPart(lines))
        /\ \A i \in 1..Len(left) : left[i].kind = lines[at].is /\ left[i].block = at
    <3>1. CASE Joins
      <4>1. /\ Tail(AllParts) \in Seq(FitPart(lines)) /\ Len(Tail(AllParts)) = Len(AllParts) - 1
            /\ \A i \in 1..Len(Tail(AllParts)) : Tail(AllParts)[i] = AllParts[i + 1]
            /\ Len(AllParts) \in Nat
        BY <1>4, <2>1, HeadTailProperties
      <4>2. \A i \in 1..Len(Tail(AllParts)) : i + 1 \in 1..Len(AllParts)
        BY <4>1
      <4> QED
        BY <2>1, <3>1, <4>1, <4>2
    <3>2. CASE ~ Joins
      BY <2>1, <3>2
    <3> QED
      BY <3>1, <3>2
  <2>4. ~ Joins => left = AllParts
    OBVIOUS
  <2>5. left = <<>> => Joins /\ lines[at].is # "heading"
    <3>1. SUFFICES ASSUME left = <<>> PROVE Joins /\ lines[at].is # "heading"
      OBVIOUS
    <3>2. Joins
      BY <1>4, <3>1
    <3>3. Len(AllParts) = 1
      <4>1. Len(Tail(AllParts)) = Len(AllParts) - 1 /\ Len(AllParts) \in Nat
        BY <1>4, <2>1, HeadTailProperties
      <4>2. Tail(AllParts) = <<>>
        BY <3>1, <3>2
      <4>3. Len(Tail(AllParts)) = 0
        <5>1. Len(<<>>) = 0
          OBVIOUS
        <5> QED
          BY <4>2, <5>1, Zenon
      <4> QED
        BY <4>1, <4>3
    <3> QED
      BY <2>1, <3>2, <3>3
  <2>6. current.parts \in Seq(FitPart(lines)) /\ chunks \in Seq(ShownChunk(lines))
    BY DEF Inv, Gathered, FitChunk, ShownChunk
  <2>7. /\ joined.parts # <<>> /\ Last(joined.parts) = AllParts[1]
        /\ AllParts[1].kind = lines[at].is /\ AllParts[1].block = at
        /\ current.parts # <<>> => Head(joined.parts) = Head(current.parts)
    <3> DEFINE s == current.parts
               p == AllParts[1]
    <3>1. s \in Seq(FitPart(lines)) /\ p \in FitPart(lines) /\ joined.parts = Append(s, p)
      BY <2>1, <2>6 DEF Add
    <3>2. AllParts[1].kind = lines[at].is /\ AllParts[1].block = at
      <4>1. 1 \in 1..Len(AllParts)
        BY <1>4, <2>1, EmptySeq
      <4> QED
        BY <2>1, <4>1
    <3> HIDE DEF s, p, joined
    <3>3. /\ Append(s, p) # <<>> /\ Last(Append(s, p)) = p
          /\ s # <<>> => Head(Append(s, p)) = Head(s)
      <4>1. Len(Append(s, p)) = Len(s) + 1 /\ Append(s, p)[Len(s) + 1] = p /\ Append(s, p) # <<>>
        BY <3>1
      <4>2. s # <<>> => Head(Append(s, p)) = Head(s)
        <5>1. s # <<>> => Append(s, p)[1] = s[1] /\ Head(s) = s[1]
          BY <3>1, EmptySeq
        <5>2. Head(Append(s, p)) = Append(s, p)[1]
          BY <3>1, <4>1
        <5> QED
          BY <5>1, <5>2
      <4> QED
        BY <4>1, <4>2 DEF Last
    <3> QED
      BY <3>1, <3>2, <3>3 DEF s, p
  <2> HIDE DEF left, joined
  <2>8. /\ Alone(left) \in Seq(ShownChunk(lines)) /\ Chain(Facts, Alone(left), LastAlone(left))
        /\ left = <<>> => Alone(left) = <<>> /\ LastAlone(left) = Empty
        /\ left # <<>> => LastAlone(left).parts # <<>> /\ next = Add(Empty, left[1])
    BY <2>3, AloneLed
  <2>9. Led(Facts, joined, next)
    <3>1. EndsInHeading(joined) => lines[at].is = "heading" /\ Last(joined.parts).block = at
      BY <2>7 DEF EndsInHeading
    <3>2. lines[at].is = "heading" => Head(next.parts).kind = "heading" /\ Head(next.parts).block = at
      <4>1. SUFFICES ASSUME lines[at].is = "heading"
                     PROVE  Head(next.parts).kind = "heading" /\ Head(next.parts).block = at
        OBVIOUS
      <4>2. left # <<>>
        BY <2>5, <4>1
      <4>3. left[1].kind = "heading" /\ left[1].block = at
        BY <2>3, <4>1, <4>2, EmptySeq
      <4>4. next = Add(Empty, left[1])
        BY <2>8, <4>2
      <4> HIDE DEF next
      <4> QED
        BY <4>3, <4>4, OnePart
    <3> HIDE DEF next
    <3> QED
      BY <3>1, <3>2 DEF Led
  <2>10. ~ Joins /\ current.parts # <<>> => Led(Facts, current, next)
    BY <1>4, <2>1, <2>4, <2>8
  <2> DEFINE S == ShownChunk(lines) \cup {joined, current}
  <2>11. /\ chunks \in Seq(S) /\ first \in Seq(S) /\ Alone(left) \in Seq(S)
         /\ chunks \o first \in Seq(S)
    <3>1. joined \in S /\ current \in S /\ ShownChunk(lines) \subseteq S
      OBVIOUS
    <3> HIDE DEF S
    <3>2. chunks \in Seq(S) /\ Alone(left) \in Seq(S)
      BY <2>6, <2>8, <3>1
    <3>3. <<joined>> \in Seq(S) /\ <<current>> \in Seq(S) /\ <<>> \in Seq(S)
      BY <3>1
    <3>4. first \in Seq(S)
      BY <3>3
    <3> HIDE DEF first
    <3> QED
      BY <3>2, <3>4, ConcatProperties
  <2>12. Chain(Facts, chunks, IF first = <<>> THEN next ELSE first[1])
    <3> HIDE DEF next
    <3>1. CASE Joins
      <4>1. first = <<joined>> /\ first # <<>> /\ first[1] = joined
        BY <3>1
      <4>2. Chain(Facts, chunks, joined)
        BY <1>1, <2>7, ChainGoesOn
      <4> QED
        BY <4>1, <4>2
    <3>2. CASE ~ Joins /\ current.parts # <<>>
      <4>1. first = <<current>> /\ first # <<>> /\ first[1] = current
        BY <3>2
      <4>2. Chain(Facts, chunks, current)
        BY DEF Ahead, Linked
      <4> QED
        BY <4>1, <4>2
    <3>3. CASE ~ Joins /\ current.parts = <<>>
      <4>1. first = <<>>
        BY <3>3
      <4>2. Chain(Facts, chunks, next)
        BY <1>1, <3>3, ChainGoesOn
      <4> QED
        BY <4>1, <4>2
    <3> QED
      BY <3>1, <3>2, <3>3
  <2>13. Chain(Facts, first, next)
    <3>1. Chain(Facts, <<>>, next)
      BY DEF Chain
    <3>2. Chain(Facts, <<joined>>, next)
      BY <2>9, ChainOfOne
    <3>3. ~ Joins /\ current.parts # <<>> => Chain(Facts, <<current>>, next)
      BY <2>10, ChainOfOne
    <3> QED
      BY <3>1, <3>2, <3>3
  <2> HIDE DEF S, first, next
  <2>14. Chain(Facts, chunks \o first, next)
    BY <2>11, <2>12, <2>13, ChainJoins
  <2>15. Chain(Facts, (chunks \o first) \o Alone(left), LastAlone(left))
    <3>1. Chain(Facts, chunks \o first, IF Alone(left) = <<>> THEN LastAlone(left) ELSE Alone(left)[1])
      BY <2>14 DEF next
    <3> QED
      BY <2>8, <2>11, <3>1, ChainJoins
  <2>16. Linked'
    BY <1>1, <2>2, <2>15, FactsStay DEF Linked
  <2>17. HeadFree'
    <3>1. SUFFICES ASSUME current'.parts = <<>> PROVE ~ EndsInHeading(Last(chunks'))
      BY DEF HeadFree
    <3>2. left = <<>>
      BY <2>2, <2>8, <3>1
    <3>3. Joins /\ lines[at].is # "heading" /\ first = <<joined>> /\ Alone(left) = <<>>
      BY <2>5, <2>8, <3>2 DEF first
    <3>4. chunks' = (chunks \o <<joined>>) \o <<>>
      BY <2>2, <3>3
    <3>5. Last(chunks') = joined
      <4>1. chunks \in Seq(S) /\ <<joined>> \in Seq(S)
        BY <2>11, <3>3
      <4>2. (chunks \o <<joined>>) \o <<>> = chunks \o <<joined>>
        BY <4>1, ConcatProperties, ConcatEmptySeq
      <4>3. /\ Len(chunks \o <<joined>>) = Len(chunks) + 1
            /\ (chunks \o <<joined>>)[Len(chunks) + 1] = joined
        BY <4>1
      <4> QED
        BY <3>4, <4>2, <4>3 DEF Last
    <3> QED
      BY <2>7, <3>3, <3>5 DEF EndsInHeading
  <2>18. LastWhole'
    <3>1. ~ (Len(LastAlone(left).parts) > 1)
      <4>1. CASE left = <<>>
        BY <2>8, <4>1 DEF Empty
      <4>2. CASE left # <<>>
        <5>1. LastAlone(left).parts = <<Last(left)>>
          BY <4>2, OnePart DEF LastAlone
        <5> QED
          BY <5>1
      <4> QED
        BY <4>1, <4>2
    <3> QED
      BY <2>2, <3>1 DEF LastWhole
  <2> QED
    BY <1>2, <2>16, <2>17, <2>18 DEF Ahead
<1> QED
  BY <1>3, <1>4

\* For every page and every budget, a part ends in a heading only where nothing of
\* the block behind it, with the fences or the header it needs, could follow; where
\* that block has no body and does not fit; or before another part of a heading, the
\* same one or a whole one.
THEOREM SplitKeepsHeadings == Spec => []HeadingsLead
<1>1. ASSUME Inv, Ahead, Next PROVE Ahead'
  BY <1>1, SkipBlankAhead, GatherAhead, MakeRoomAhead, StartSplitAhead, PackAhead, EmitFillAhead,
     StartCutAhead, CutAhead, DropWrapperAhead, KeepLabelAhead, CutDoneAhead, DeliverAhead, FinishAhead
  DEF Next, SplitLarge
<1>2. ASSUME Ahead, UNCHANGED vars PROVE Ahead'
  BY <1>2, FactsStay DEF vars, packVars, cutVars, Ahead, Linked, HeadFree, Waiting, LastWhole, OfBlock,
                         Unfilled, FirstLed, TooLong, HeadingCut, Uncut, Divided, EndsInHeading
<1>3. Inv /\ Ahead => HeadingsLead
  BY LeadIsChain DEF Ahead, Linked
<1> QED
  BY <1>1, <1>2, <1>3, AheadInit, SplitCorrect, PTL DEF Spec

-----------------------------------------------------------------------------
(* Texts put together                                                      *)

Text == Seq(Nat)

\* What has been put together up to each of the texts of s.
Grows(s, f) ==
  \A i \in 1..Len(s) : f[i] \in Text /\ f[i] = IF i = 1 THEN s[1] ELSE f[i - 1] \o s[i]

\* Texts can be joined.
LEMMA TextsJoin == ASSUME NEW a \in Text, NEW b \in Text PROVE a \o b \in Text
  BY ConcatProperties DEF Text

\* They can be joined in any grouping.
LEMMA Regrouped ==
  ASSUME NEW a \in Text, NEW b \in Text, NEW c \in Text
  PROVE  (a \o b) \o c = a \o (b \o c)
<1>1. a \in Seq(Nat) /\ b \in Seq(Nat) /\ c \in Seq(Nat)
  BY DEF Text
<1> QED
  BY <1>1, ConcatAssociative, SMTT(30)

\* Nothing joined to a text.
LEMMA NoneJoined ==
  ASSUME NEW a \in Text
  PROVE  a \o <<>> = a /\ <<>> \o a = a /\ <<>> \in Text
  BY ConcatEmptySeq DEF Text

\* Texts can be put together one after the other.
LEMMA GrowsSomehow ==
  ASSUME NEW s \in Seq(Text)
  PROVE  \E f : f = [i \in 1..Len(s) |-> IF i = 1 THEN s[i] ELSE f[i - 1] \o s[i]] /\ Grows(s, f)
<1> DEFINE Some(n) == \E f \in [1..n -> Text] :
                        \A i \in 1..n : f[i] = IF i = 1 THEN s[i] ELSE f[i - 1] \o s[i]
           Bad == {n \in 0..Len(s) : ~ Some(n)}
<1>1. Len(s) \in Nat /\ \A i \in 1..Len(s) : s[i] \in Text
  OBVIOUS
<1>2. Bad = {}
  <2> SUFFICES ASSUME Bad # {} PROVE FALSE
    OBVIOUS
  <2>1. Bad \subseteq Nat
    BY <1>1
  <2> HIDE DEF Bad
  <2>2. PICK n \in Bad : \A m \in Bad : n <= m
    BY <2>1, SmallestNat
  <2>3. n \in 0..Len(s) /\ ~ Some(n)
    BY <2>2 DEF Bad
  <2>4. n # 0
    <3> SUFFICES ASSUME n = 0 PROVE Some(n)
      BY <2>3
    <3> DEFINE e == [i \in 1..n |-> <<>>]
    <3>1. e \in [1..n -> Text] /\ \A i \in 1..n : FALSE
      BY DEF Text
    <3> HIDE DEF e
    <3>2. \A i \in 1..n : e[i] = IF i = 1 THEN s[i] ELSE e[i - 1] \o s[i]
      BY <3>1
    <3> QED
      BY <3>1, <3>2
  <2>5. n - 1 \in 0..Len(s) /\ Some(n - 1)
    <3>1. n - 1 \in 0..Len(s) /\ ~ (n <= n - 1)
      BY <1>1, <2>3, <2>4
    <3> QED
      BY <2>2, <3>1 DEF Bad
  <2>6. PICK f \in [1..(n - 1) -> Text] :
          \A i \in 1..(n - 1) : f[i] = IF i = 1 THEN s[i] ELSE f[i - 1] \o s[i]
    BY <2>5
  <2> DEFINE g == [i \in 1..n |-> IF i = n THEN IF n = 1 THEN s[n] ELSE f[n - 1] \o s[n] ELSE f[i]]
  <2>7. g \in [1..n -> Text]
    <3>1. n # 1 => f[n - 1] \in Text
      BY <1>1, <2>3, <2>4, <2>6
    <3>2. s[n] \in Text
      BY <1>1, <2>3, <2>4
    <3>3. n # 1 => f[n - 1] \o s[n] \in Text
      BY <3>1, <3>2, ConcatProperties DEF Text
    <3>4. \A i \in 1..n : i # n => f[i] \in Text
      BY <1>1, <2>3, <2>6
    <3> QED
      BY <3>2, <3>3, <3>4
  <2>8. \A i \in 1..n : g[i] = IF i = 1 THEN s[i] ELSE g[i - 1] \o s[i]
    <3> SUFFICES ASSUME NEW i \in 1..n PROVE g[i] = IF i = 1 THEN s[i] ELSE g[i - 1] \o s[i]
      OBVIOUS
    <3>1. i = 1 \/ (i - 1 \in 1..(n - 1) /\ g[i - 1] = f[i - 1])
      BY <1>1, <2>3
    <3>2. CASE i = n
      <4>1. g[i] = IF i = 1 THEN s[i] ELSE f[i - 1] \o s[i]
        BY <3>2
      <4> QED
        BY <3>1, <4>1
    <3>3. CASE i # n
      <4>1. i \in 1..(n - 1) /\ g[i] = f[i]
        BY <1>1, <2>3, <3>3
      <4>2. f[i] = IF i = 1 THEN s[i] ELSE f[i - 1] \o s[i]
        BY <2>6, <4>1
      <4> QED
        BY <3>1, <4>1, <4>2
    <3> QED
      BY <3>2, <3>3
  <2>9. Some(n)
    <3> HIDE DEF g
    <3> QED
      BY <2>7, <2>8
  <2> QED
    BY <2>3, <2>9
<1>3. Some(Len(s))
  BY <1>1, <1>2, SMTT(30)
<1>4. PICK f \in [1..Len(s) -> Text] :
        \A i \in 1..Len(s) : f[i] = IF i = 1 THEN s[i] ELSE f[i - 1] \o s[i]
  BY <1>3
<1>5. f = [i \in 1..Len(s) |-> IF i = 1 THEN s[i] ELSE f[i - 1] \o s[i]]
  BY <1>4
<1>6. Grows(s, f)
  BY <1>4 DEF Grows
<1> QED
  BY <1>5, <1>6

\* There is only one result.
LEMMA GrowsOneWay ==
  ASSUME NEW s \in Seq(Text), NEW t \in Seq(Text), NEW f, NEW g, Grows(s, f), Grows(t, g),
         NEW k \in 1..Len(s), k <= Len(t), \A i \in 1..k : s[i] = t[i]
  PROVE  f[k] = g[k]
<1> DEFINE Bad == {i \in 1..k : f[i] # g[i]}
<1>1. Len(s) \in Nat /\ Len(t) \in Nat
  OBVIOUS
<1> SUFFICES ASSUME Bad # {} PROVE FALSE
  BY <1>1
<1>2. Bad \subseteq Nat
  BY <1>1
<1> HIDE DEF Bad
<1>3. PICK n \in Bad : \A m \in Bad : n <= m
  BY <1>2, SmallestNat
<1>4. n \in 1..k /\ f[n] # g[n]
  BY <1>3 DEF Bad
<1>5. n # 1
  BY <1>1, <1>4 DEF Grows
<1>6. f[n - 1] = g[n - 1]
  <2>1. n - 1 \in 1..k /\ ~ (n <= n - 1)
    BY <1>1, <1>4, <1>5
  <2> QED
    BY <1>3, <2>1 DEF Bad
<1>7. f[n] = f[n - 1] \o s[n] /\ g[n] = g[n - 1] \o t[n] /\ s[n] = t[n]
  <2>1. n \in 1..Len(s) /\ n \in 1..Len(t)
    BY <1>1, <1>4
  <2> QED
    BY <1>4, <1>5, <2>1 DEF Grows
<1> QED
  BY <1>4, <1>6, <1>7

\* All texts put together are the last of them.
LEMMA FlattenGrows ==
  ASSUME NEW s \in Seq(Text)
  PROVE  /\ FlattenSeq(s) \in Text
         /\ FlattenSeq(<<>>) = <<>>
         /\ s # <<>> => \E f : Grows(s, f) /\ FlattenSeq(s) = f[Len(s)]
<1>1. FlattenSeq(<<>>) = <<>>
  BY DEF FlattenSeq
<1>2. ASSUME s # <<>> PROVE \E f : Grows(s, f) /\ FlattenSeq(s) = f[Len(s)] /\ f[Len(s)] \in Text
  <2> DEFINE F == CHOOSE f : f = [i \in 1..Len(s) |-> IF i = 1 THEN s[i] ELSE f[i - 1] \o s[i]]
  <2>1. FlattenSeq(s) = F[Len(s)]
    BY <1>2 DEF FlattenSeq, Text
  <2>2. PICK g : g = [i \in 1..Len(s) |-> IF i = 1 THEN s[i] ELSE g[i - 1] \o s[i]] /\ Grows(s, g)
    BY GrowsSomehow
  <2>3. F = [i \in 1..Len(s) |-> IF i = 1 THEN s[i] ELSE F[i - 1] \o s[i]]
    BY <2>2
  <2>4. Len(s) \in Nat \ {0} /\ \A i \in 1..Len(s) : s[i] \in Text
    BY <1>2
  <2> HIDE DEF F
  <2>5. \A i \in 1..Len(s) : F[i] = g[i]
    <3> DEFINE Bad == {i \in 1..Len(s) : F[i] # g[i]}
    <3> SUFFICES ASSUME Bad # {} PROVE FALSE
      OBVIOUS
    <3>1. Bad \subseteq Nat
      OBVIOUS
    <3> HIDE DEF Bad
    <3>2. PICK n \in Bad : \A m \in Bad : n <= m
      BY <3>1, SmallestNat
    <3>3. n \in 1..Len(s) /\ F[n] # g[n]
      BY <3>2 DEF Bad
    <3>4. F[1] = s[1] /\ g[1] = s[1]
      BY <2>2, <2>3, <2>4
    <3>5. F[n - 1] = g[n - 1] /\ n # 1
      <4>1. n # 1
        BY <3>3, <3>4
      <4>2. n - 1 \in 1..Len(s) /\ ~ (n <= n - 1)
        BY <2>4, <3>3, <4>1
      <4> QED
        BY <3>2, <4>1, <4>2 DEF Bad
    <3>6. F[n] = F[n - 1] \o s[n] /\ g[n] = g[n - 1] \o s[n]
      BY <2>2, <2>3, <2>4, <3>3, <3>5
    <3> QED
      BY <3>3, <3>5, <3>6
  <2>6. F[Len(s)] = g[Len(s)] /\ g[Len(s)] \in Text
    <3>1. Len(s) \in 1..Len(s)
      BY <2>4
    <3> QED
      BY <2>2, <2>5, <3>1 DEF Grows
  <2> QED
    BY <2>1, <2>2, <2>6
<1>3. <<>> \in Text
  BY DEF Text
<1> QED
  BY <1>1, <1>2, <1>3

\* No text at all.
LEMMA FlattenNone == FlattenSeq(<<>>) = <<>>
  BY DEF FlattenSeq

\* One more text is put at the end.
LEMMA FlattenMore ==
  ASSUME NEW s \in Seq(Text), NEW x \in Text
  PROVE  FlattenSeq(Append(s, x)) = FlattenSeq(s) \o x
<1> DEFINE t == Append(s, x)
<1>1. t \in Seq(Text) /\ Len(t) = Len(s) + 1 /\ t # <<>> /\ t[Len(t)] = x
      /\ Len(s) \in Nat /\ \A i \in 1..Len(s) : t[i] = s[i]
  BY AppendProperties
<1> HIDE DEF t
<1>2. PICK g : Grows(t, g) /\ FlattenSeq(t) = g[Len(t)]
  BY <1>1, FlattenGrows
<1>3. CASE s = <<>>
  <2>1. Len(t) = 1
    BY <1>1, <1>3
  <2>2. g[1] = t[1]
    BY <2>1, <1>2 DEF Grows
  <2>3. FlattenSeq(s) = <<>>
    BY <1>3, FlattenGrows
  <2>4. <<>> \o x = x
    BY ConcatEmptySeq DEF Text
  <2> QED
    BY <1>1, <1>2, <2>1, <2>2, <2>3, <2>4 DEF t
<1>4. CASE s # <<>>
  <2>1. PICK f : Grows(s, f) /\ FlattenSeq(s) = f[Len(s)]
    BY <1>4, FlattenGrows
  <2>2. Len(s) \in 1..Len(s) /\ Len(s) <= Len(t)
    BY <1>1, <1>4
  <2>3. f[Len(s)] = g[Len(s)]
    BY <1>1, <1>2, <2>1, <2>2, GrowsOneWay
  <2>4. g[Len(t)] = g[Len(t) - 1] \o t[Len(t)]
    <3>1. Len(t) \in 1..Len(t) /\ Len(t) # 1
      BY <1>1, <2>2
    <3> QED
      BY <1>2, <3>1 DEF Grows
  <2>5. Len(t) - 1 = Len(s)
    BY <1>1
  <2> QED
    BY <1>1, <1>2, <2>1, <2>3, <2>4, <2>5 DEF t
<1> QED
  BY <1>3, <1>4

\* Two sequences of texts are put together one after the other.
LEMMA FlattenBoth ==
  ASSUME NEW s \in Seq(Text), NEW t \in Seq(Text)
  PROVE  FlattenSeq(s \o t) = FlattenSeq(s) \o FlattenSeq(t)
<1> DEFINE Good(u) == FlattenSeq(s \o u) = FlattenSeq(s) \o FlattenSeq(u)
           Bad == {n \in Nat : \E u \in Seq(Text) : Len(u) = n /\ ~ Good(u)}
<1> SUFFICES ASSUME ~ Good(t) PROVE FALSE
  OBVIOUS
<1>1. Bad \subseteq Nat /\ Bad # {}
  <2>1. Len(t) \in Nat
    OBVIOUS
  <2> QED
    BY <2>1
<1> HIDE DEF Bad
<1>2. PICK n \in Bad : \A m \in Bad : n <= m
  BY <1>1, SmallestNat
<1>3. PICK u \in Seq(Text) : Len(u) = n /\ ~ Good(u)
  BY <1>2 DEF Bad
<1>4. FlattenSeq(s) \in Text
  BY FlattenGrows
<1>5. u # <<>>
  <2>1. s \o <<>> = s /\ FlattenSeq(s) \o <<>> = FlattenSeq(s)
    BY <1>4, ConcatEmptySeq DEF Text
  <2>2. FlattenSeq(<<>>) = <<>>
    BY FlattenGrows
  <2> QED
    BY <1>3, <2>1, <2>2
<1>6. PICK v \in Seq(Text), x \in Text : u = Append(v, x)
  BY <1>5, SequenceEmptyOrAppend
<1>7. Good(v)
  <2>1. Len(v) \in Nat /\ n = Len(v) + 1
    BY <1>3, <1>6
  <2>2. Len(v) \notin Bad
    BY <1>2, <2>1
  <2> QED
    BY <2>1, <2>2 DEF Bad
<1>8. s \o u = Append(s \o v, x)
  BY <1>6, SMTT(30)
<1>9. s \o v \in Seq(Text) /\ FlattenSeq(v) \in Text
  BY FlattenGrows, ConcatProperties
<1>10. FlattenSeq(s \o u) = FlattenSeq(s \o v) \o x /\ FlattenSeq(u) = FlattenSeq(v) \o x
  BY <1>6, <1>8, <1>9, FlattenMore, ZenonT(30)
<1>11. (FlattenSeq(s) \o FlattenSeq(v)) \o x = FlattenSeq(s) \o (FlattenSeq(v) \o x)
  BY <1>4, <1>9, Regrouped
<1> QED
  BY <1>3, <1>7, <1>10, <1>11

\* A single text.
LEMMA FlattenOne ==
  ASSUME NEW x \in Text
  PROVE  FlattenSeq(<<x>>) = x
<1>1. FlattenSeq(Append(<<>>, x)) = FlattenSeq(<<>>) \o x
  <2>1. <<>> \in Seq(Text)
    OBVIOUS
  <2> QED
    BY <2>1, FlattenMore
<1>2. Append(<<>>, x) = <<x>>
  OBVIOUS
<1>3. <<>> \o x = x
  BY ConcatEmptySeq DEF Text
<1> QED
  BY <1>1, <1>2, <1>3, FlattenNone

\* The characters of s that are in C, each as a text.
Picks(C, s) == [i \in 1..Len(s) |-> IF s[i] \in C THEN <<s[i]>> ELSE <<>>]

\* What is chosen from a text is a text.
LEMMA OnlyTyped ==
  ASSUME NEW C, NEW s \in Text
  PROVE  Picks(C, s) \in Seq(Text) /\ Only(C, s) = FlattenSeq(Picks(C, s)) /\ Only(C, s) \in Text
<1>1. Len(s) \in Nat /\ \A i \in 1..Len(s) : s[i] \in Nat
  BY DEF Text
<1>2. \A i \in 1..Len(s) : (IF s[i] \in C THEN <<s[i]>> ELSE <<>>) \in Text
  BY <1>1 DEF Text
<1>3. Picks(C, s) \in Seq(Text)
  BY <1>1, <1>2, IsASeq DEF Picks
<1>4. Only(C, s) = FlattenSeq(Picks(C, s))
  BY DEF Only, Picks
<1> QED
  BY <1>3, <1>4, FlattenGrows

\* Choosing from two texts, one after the other.
LEMMA OnlyBoth ==
  ASSUME NEW C, NEW s \in Text, NEW t \in Text
  PROVE  Only(C, s \o t) = Only(C, s) \o Only(C, t)
<1>1. s \o t \in Text
  BY TextsJoin
<1>2. Picks(C, s \o t) = Picks(C, s) \o Picks(C, t)
  <2>1. /\ Len(s) \in Nat /\ Len(t) \in Nat /\ Len(s \o t) = Len(s) + Len(t)
        /\ \A i \in 1..(Len(s) + Len(t)) : (s \o t)[i] = IF i <= Len(s) THEN s[i] ELSE t[i - Len(s)]
    BY ConcatProperties DEF Text
  <2>2. /\ Picks(C, s) \in Seq(Text) /\ Picks(C, t) \in Seq(Text) /\ Picks(C, s \o t) \in Seq(Text)
        /\ Len(Picks(C, s)) = Len(s) /\ Len(Picks(C, t)) = Len(t)
        /\ Len(Picks(C, s \o t)) = Len(s) + Len(t)
    <3>1. Picks(C, s) \in Seq(Text) /\ Picks(C, t) \in Seq(Text) /\ Picks(C, s \o t) \in Seq(Text)
      BY <1>1, OnlyTyped
    <3> QED
      BY <2>1, <3>1 DEF Picks
  <2>3. /\ Picks(C, s) \o Picks(C, t) \in Seq(Text)
        /\ Len(Picks(C, s) \o Picks(C, t)) = Len(s) + Len(t)
        /\ \A i \in 1..(Len(s) + Len(t)) :
             (Picks(C, s) \o Picks(C, t))[i]
               = IF i <= Len(s) THEN Picks(C, s)[i] ELSE Picks(C, t)[i - Len(s)]
    <3> DEFINE p == Picks(C, s)
               q == Picks(C, t)
    <3>1. p \in Seq(Text) /\ q \in Seq(Text) /\ Len(p) = Len(s) /\ Len(q) = Len(t)
      BY <2>2
    <3> HIDE DEF p, q
    <3>2. /\ p \o q \in Seq(Text) /\ Len(p \o q) = Len(p) + Len(q)
          /\ \A i \in 1..(Len(p) + Len(q)) : (p \o q)[i] = IF i <= Len(p) THEN p[i] ELSE q[i - Len(p)]
      BY <3>1, ConcatProperties
    <3> QED
      BY <3>1, <3>2 DEF p, q
  <2>4. ASSUME NEW i \in 1..(Len(s) + Len(t))
        PROVE  Picks(C, s \o t)[i] = (Picks(C, s) \o Picks(C, t))[i]
    <3>1. CASE i <= Len(s)
      <4>1. i \in 1..Len(s) /\ i \in 1..Len(s \o t)
        BY <2>1, <3>1
      <4>2. Picks(C, s \o t)[i] = Picks(C, s)[i]
        BY <2>1, <3>1, <4>1 DEF Picks
      <4> QED
        BY <2>3, <3>1, <4>2
    <3>2. CASE ~ (i <= Len(s))
      <4>1. i - Len(s) \in 1..Len(t) /\ i \in 1..Len(s \o t)
        BY <2>1, <3>2
      <4>2. Picks(C, s \o t)[i] = Picks(C, t)[i - Len(s)]
        BY <2>1, <3>2, <4>1 DEF Picks
      <4> QED
        BY <2>3, <3>2, <4>2
    <3> QED
      BY <3>1, <3>2
  <2> QED
    BY <2>2, <2>3, <2>4, SeqEqual
<1>3. FlattenSeq(Picks(C, s) \o Picks(C, t)) = FlattenSeq(Picks(C, s)) \o FlattenSeq(Picks(C, t))
  BY OnlyTyped, FlattenBoth
<1> QED
  BY <1>1, <1>2, <1>3, OnlyTyped

\* Nothing is put together from empty texts.
LEMMA FlattenEmpties ==
  ASSUME NEW s \in Seq(Text), \A i \in 1..Len(s) : s[i] = <<>>
  PROVE  FlattenSeq(s) = <<>>
<1>1. CASE s = <<>>
  BY <1>1, FlattenNone
<1>2. CASE s # <<>>
  <2>1. PICK f : Grows(s, f) /\ FlattenSeq(s) = f[Len(s)]
    BY <1>2, FlattenGrows
  <2>2. Len(s) \in Nat \ {0}
    BY <1>2
  <2> DEFINE Bad == {i \in 1..Len(s) : f[i] # <<>>}
  <2> SUFFICES ASSUME Bad # {} PROVE FALSE
    BY <2>1, <2>2
  <2>3. Bad \subseteq Nat
    OBVIOUS
  <2> HIDE DEF Bad
  <2>4. PICK n \in Bad : \A m \in Bad : n <= m
    BY <2>3, SmallestNat
  <2>5. n \in 1..Len(s) /\ f[n] # <<>>
    BY <2>4 DEF Bad
  <2>6. f[n] = IF n = 1 THEN s[1] ELSE f[n - 1] \o s[n]
    BY <2>1, <2>5 DEF Grows
  <2>7. n # 1
    BY <2>2, <2>5, <2>6
  <2>8. f[n - 1] = <<>>
    <3>1. n - 1 \in 1..Len(s) /\ ~ (n <= n - 1)
      BY <2>2, <2>5, <2>7
    <3> QED
      BY <2>4, <3>1 DEF Bad
  <2>9. <<>> \o <<>> = <<>>
    OBVIOUS
  <2> QED
    BY <2>5, <2>6, <2>7, <2>8, <2>9
<1> QED
  BY <1>1, <1>2

\* Nothing is chosen from a text that has none of the characters.
LEMMA OnlyNothing ==
  ASSUME NEW C, NEW s \in Text, \A i \in 1..Len(s) : s[i] \notin C
  PROVE  Only(C, s) = <<>>
<1>1. \A i \in 1..Len(Picks(C, s)) : Picks(C, s)[i] = <<>>
  <2>1. Len(s) \in Nat
    BY DEF Text
  <2> QED
    BY <2>1 DEF Picks
<1> QED
  BY <1>1, OnlyTyped, FlattenEmpties

-----------------------------------------------------------------------------
(* The text of a page                                                      *)

\* What is shown and what is left of a piece is text.
LEMMA CleanIsText == ASSUME NEW ls PROVE Clean(ls) \subseteq Text /\ Rests(ls) \subseteq Text
  BY DEF Clean, Rests, Text

\* The pieces of a block are texts.
LEMMA PiecesAreTexts ==
  ASSUME lines \in Docs, NEW b \in 1..N, lines[b].is # "blank"
  PROVE  Pieces(b) \in Seq(Text) /\ FlattenSeq(Pieces(b)) \in Text
<1>1. Len(Pieces(b)) \in Nat /\ \A i \in 1..Len(Pieces(b)) : Pieces(b)[i] \in Text
  BY PiecesTyped, CleanIsText
<1>2. Pieces(b) = [i \in 1..Len(Pieces(b)) |-> Pieces(b)[i]]
  <2>1. CASE Bare(b)
    BY <2>1 DEF Pieces
  <2>2. CASE ~ Bare(b)
    <3> DEFINE n == BodyEnd(b) - BodyStart(b) + 1
    <3>1. n \in Nat
      BY <2>2, BodyInPage DEF Bare
    <3>2. Pieces(b) = [i \in 1..n |-> Line(b, BodyStart(b) + i - 1)]
      BY <2>2 DEF Pieces
    <3> HIDE DEF n
    <3>3. Len(Pieces(b)) = n
      BY <3>1, <3>2
    <3> QED
      BY <3>2, <3>3
  <2> QED
    BY <2>1, <2>2
<1>3. Pieces(b) \in Seq(Text)
  <2> DEFINE p == Pieces(b)
             n == Len(Pieces(b))
  <2>1. p = [i \in 1..n |-> p[i]] /\ n \in Nat /\ \A i \in 1..n : p[i] \in Text
    BY <1>1, <1>2
  <2> HIDE DEF p, n
  <2>2. p \in Seq(Text)
    BY <2>1, IsASeq
  <2> QED
    BY <2>2 DEF p
<1> QED
  BY <1>3, FlattenGrows

\* What the text from line b on is, given that of the later lines.
Onward(f, b) ==
  IF b = N + 1 THEN <<>>
  ELSE IF lines[b].is = "blank" THEN f[b + 1]
  ELSE FlattenSeq(Pieces(b)) \o f[End(b) + 1]

\* The text from any line on is that of its block and of the blocks after it.
LEMMA TextUnfolds ==
  ASSUME lines \in Docs
  PROVE  \A b \in 1..(N + 1) : TextFrom[b] \in Text /\ TextFrom[b] = Onward(TextFrom, b)
<1>0. N \in Nat
  BY ChunkerAssumption DEF N, ChunkerAssumption
<1> DEFINE Some(n) == \E f \in [(N + 1 - n)..(N + 1) -> Text] :
                        \A b \in (N + 1 - n)..(N + 1) : f[b] = Onward(f, b)
           Bad == {n \in 0..N : ~ Some(n)}
\* The step from the blocks behind line b to line b.
<1>1. ASSUME NEW n \in 0..N, n # 0, Some(n - 1) PROVE Some(n)
  <2> DEFINE b == N + 1 - n
  <2>1. b \in 1..N /\ N + 1 - (n - 1) = b + 1
    BY <1>0, <1>1
  <2>2. PICK f \in [(b + 1)..(N + 1) -> Text] : \A c \in (b + 1)..(N + 1) : f[c] = Onward(f, c)
    BY <1>1, <2>1
  <2> HIDE DEF b
  <2> DEFINE g == [c \in b..(N + 1) |-> IF c = b THEN Onward(f, b) ELSE f[c]]
  <2>3. Onward(f, b) \in Text
    <3>1. CASE lines[b].is = "blank"
      <4>1. f[b + 1] \in Text
        BY <1>0, <2>1, <2>2
      <4> QED
        BY <1>0, <2>1, <3>1, <4>1 DEF Onward
    <3>2. CASE lines[b].is # "blank"
      <4>1. f[End(b) + 1] \in Text
        <5>1. End(b) \in b..N
          BY <2>1, <3>2, EndInPage
        <5> QED
          BY <1>0, <2>1, <2>2, <5>1
      <4>2. FlattenSeq(Pieces(b)) \in Text
        BY <2>1, <3>2, PiecesAreTexts
      <4>3. FlattenSeq(Pieces(b)) \o f[End(b) + 1] \in Text
        BY <4>1, <4>2, TextsJoin
      <4> QED
        BY <1>0, <2>1, <3>2, <4>3 DEF Onward
    <3> QED
      BY <3>1, <3>2
  <2>4. g \in [b..(N + 1) -> Text]
    <3>1. \A c \in b..(N + 1) : c # b => f[c] \in Text
      BY <1>0, <2>1, <2>2
    <3> QED
      BY <2>3, <3>1
  <2>5. ASSUME NEW c \in b..(N + 1) PROVE g[c] = Onward(g, c)
    <3>1. g[c] = Onward(f, c)
      <4>1. c # b => c \in (b + 1)..(N + 1)
        BY <1>0, <2>1
      <4> QED
        BY <2>2, <4>1
    <3>2. Onward(f, c) = Onward(g, c)
      <4>1. CASE c = N + 1
        BY <4>1 DEF Onward
      <4>2. CASE c # N + 1 /\ lines[c].is = "blank"
        <5>1. c + 1 \in b..(N + 1) /\ c + 1 # b
          BY <1>0, <2>1, <4>2
        <5>2. g[c + 1] = f[c + 1]
          BY <5>1
        <5> HIDE DEF g
        <5> QED
          BY <4>2, <5>2 DEF Onward
      <4>3. CASE c # N + 1 /\ lines[c].is # "blank"
        <5>1. c \in 1..N
          BY <1>0, <2>1, <4>3
        <5>2. End(c) \in c..N
          BY <4>3, <5>1, EndInPage
        <5>3. End(c) + 1 \in b..(N + 1) /\ End(c) + 1 # b
          BY <1>0, <2>1, <5>1, <5>2
        <5>4. g[End(c) + 1] = f[End(c) + 1]
          BY <5>3
        <5> HIDE DEF g
        <5> QED
          BY <4>3, <5>4 DEF Onward
      <4> QED
        BY <4>1, <4>2, <4>3
    <3> QED
      BY <3>1, <3>2
  <2> HIDE DEF g
  <2>6. \E h \in [b..(N + 1) -> Text] : \A c \in b..(N + 1) : h[c] = Onward(h, c)
    BY <2>4, <2>5
  <2> QED
    BY <2>6 DEF b
<1>2. Some(0)
  <2> DEFINE e == [b \in (N + 1 - 0)..(N + 1) |-> <<>>]
  <2>1. e \in [(N + 1 - 0)..(N + 1) -> Text]
    BY NoneJoined DEF Text
  <2>2. \A b \in (N + 1 - 0)..(N + 1) : e[b] = Onward(e, b)
    BY <1>0 DEF Onward
  <2> HIDE DEF e
  <2> QED
    BY <2>1, <2>2
<1>3. Bad = {}
  <2> SUFFICES ASSUME Bad # {} PROVE FALSE
    OBVIOUS
  <2>1. Bad \subseteq Nat
    BY <1>0
  <2> HIDE DEF Bad
  <2>2. PICK n \in Bad : \A m \in Bad : n <= m
    BY <2>1, SmallestNat
  <2>3. n \in 0..N /\ ~ Some(n)
    BY <2>2 DEF Bad
  <2>4. n # 0
    BY <1>2, <2>3
  <2>5. Some(n - 1)
    <3>1. n - 1 \in 0..N /\ ~ (n <= n - 1)
      BY <1>0, <2>3, <2>4
    <3> QED
      BY <2>2, <3>1 DEF Bad
  <2> HIDE DEF Some
  <2> QED
    BY <1>1, <2>3, <2>4, <2>5
<1>4. PICK f \in [1..(N + 1) -> Text] : \A b \in 1..(N + 1) : f[b] = Onward(f, b)
  <2>1. Some(N)
    <3>1. N \in 0..N
      BY <1>0
    <3> HIDE DEF Some
    <3> QED
      BY <1>3, <3>1
  <2>2. N + 1 - N = 1
    BY <1>0
  <2> QED
    BY <2>1, <2>2
<1> HIDE DEF Some, Bad
<1> DEFINE F == CHOOSE from : from = [b \in 1..(N + 1) |->
                   IF b = N + 1 THEN <<>>
                   ELSE IF lines[b].is = "blank" THEN from[b + 1]
                   ELSE FlattenSeq(Pieces(b)) \o from[End(b) + 1]]
<1>5. TextFrom = F
  BY DEF TextFrom
<1>6. f = [b \in 1..(N + 1) |->
             IF b = N + 1 THEN <<>>
             ELSE IF lines[b].is = "blank" THEN f[b + 1]
             ELSE FlattenSeq(Pieces(b)) \o f[End(b) + 1]]
  BY <1>4 DEF Onward
<1>7. F = [b \in 1..(N + 1) |->
             IF b = N + 1 THEN <<>>
             ELSE IF lines[b].is = "blank" THEN F[b + 1]
             ELSE FlattenSeq(Pieces(b)) \o F[End(b) + 1]]
  BY <1>6
<1> HIDE DEF F
<1>8. \A b \in 1..(N + 1) : F[b] = Onward(F, b)
  BY <1>7 DEF Onward
\* There is one text only, so it is the one that was found.
<1> DEFINE Odd == {n \in 0..N : F[N + 1 - n] # f[N + 1 - n]}
<1>9. Odd = {}
  <2> SUFFICES ASSUME Odd # {} PROVE FALSE
    OBVIOUS
  <2>1. Odd \subseteq Nat
    BY <1>0
  <2> HIDE DEF Odd
  <2>2. PICK n \in Odd : \A m \in Odd : n <= m
    BY <2>1, SmallestNat
  <2> DEFINE b == N + 1 - n
  <2>3. n \in 0..N /\ b \in 1..(N + 1) /\ F[b] # f[b]
    BY <1>0, <2>2 DEF Odd
  <2>4. ASSUME NEW c \in (b + 1)..(N + 1) PROVE F[c] = f[c]
    <3>1. N + 1 - c \in 0..N /\ ~ (n <= N + 1 - c) /\ N + 1 - (N + 1 - c) = c
      BY <1>0, <2>3
    <3>2. N + 1 - c \notin Odd
      BY <2>2, <3>1
    <3> QED
      BY <3>1, <3>2 DEF Odd
  <2> HIDE DEF b
  <2>5. Onward(F, b) = Onward(f, b)
    <3>1. CASE b = N + 1
      BY <3>1 DEF Onward
    <3>2. CASE b # N + 1 /\ lines[b].is = "blank"
      <4>1. b + 1 \in (b + 1)..(N + 1)
        BY <1>0, <2>3, <3>2
      <4>2. F[b + 1] = f[b + 1]
        BY <2>4, <4>1
      <4> QED
        BY <3>2, <4>2 DEF Onward
    <3>3. CASE b # N + 1 /\ lines[b].is # "blank"
      <4>1. b \in 1..N
        BY <1>0, <2>3, <3>3
      <4>2. End(b) \in b..N
        BY <3>3, <4>1, EndInPage
      <4>3. End(b) + 1 \in (b + 1)..(N + 1)
        BY <1>0, <2>3, <4>2
      <4>4. F[End(b) + 1] = f[End(b) + 1]
        BY <2>4, <4>3
      <4> QED
        BY <3>3, <4>4 DEF Onward
    <3> QED
      BY <3>1, <3>2, <3>3
  <2> QED
    BY <1>4, <1>8, <2>3, <2>5
<1>10. ASSUME NEW b \in 1..(N + 1) PROVE F[b] = f[b] /\ f[b] \in Text
  <2>1. N + 1 - b \in 0..N /\ N + 1 - (N + 1 - b) = b
    BY <1>0
  <2> QED
    BY <1>4, <1>9, <2>1
<1> QED
  BY <1>5, <1>8, <1>10

-----------------------------------------------------------------------------
(* Line feeds between lines                                                *)

\* A row of positions is two rows, one after the other.
LEMMA SpanSplit ==
  ASSUME NEW a \in Nat, NEW b \in Int, NEW c \in Int, a <= b + 1, b <= c
  PROVE  Span(a, c) = Span(a, b) \o Span(b + 1, c) /\ Span(a, b) \in Text /\ Span(b + 1, c) \in Text
<1> DEFINE s == Span(a, b)
           t == Span(b + 1, c)
           u == Span(a, c)
<1>1. /\ s \in Seq(Nat) /\ Len(s) = b - a + 1 /\ \A i \in 1..Len(s) : s[i] = a + i - 1
      /\ u \in Seq(Nat) /\ Len(u) = c - a + 1 /\ \A i \in 1..Len(u) : u[i] = a + i - 1
  <2>1. /\ s \in Seq(Nat) /\ Len(s) = IF b - a + 1 < 0 THEN 0 ELSE b - a + 1
        /\ \A i \in 1..Len(s) : s[i] = a + i - 1
    BY SpanTyped
  <2>2. /\ u \in Seq(Nat) /\ Len(u) = IF c - a + 1 < 0 THEN 0 ELSE c - a + 1
        /\ \A i \in 1..Len(u) : u[i] = a + i - 1
    BY SpanTyped
  <2>3. ~ (b - a + 1 < 0) /\ ~ (c - a + 1 < 0)
    OBVIOUS
  <2> HIDE DEF s, u
  <2> QED
    BY <2>1, <2>2, <2>3
<1>2. t \in Seq(Nat) /\ Len(t) = c - b /\ \A i \in 1..Len(t) : t[i] = b + i
  <2>1. b + 1 \in Nat
    OBVIOUS
  <2>2. /\ t \in Seq(Nat) /\ Len(t) = IF c - (b + 1) + 1 < 0 THEN 0 ELSE c - (b + 1) + 1
        /\ \A i \in 1..Len(t) : t[i] = (b + 1) + i - 1
    BY <2>1, SpanTyped
  <2> HIDE DEF t
  <2> QED
    BY <2>2
<1> HIDE DEF s, t, u
<1>3. /\ s \o t \in Seq(Nat) /\ Len(s \o t) = Len(s) + Len(t)
      /\ \A i \in 1..(Len(s) + Len(t)) : (s \o t)[i] = IF i <= Len(s) THEN s[i] ELSE t[i - Len(s)]
  BY <1>1, <1>2, ConcatProperties
<1>4. Len(u) = Len(s \o t)
  BY <1>1, <1>2, <1>3
<1>5. ASSUME NEW i \in 1..Len(u) PROVE u[i] = (s \o t)[i]
  <2>1. i \in 1..(Len(s) + Len(t)) /\ u[i] = a + i - 1
    BY <1>1, <1>3, <1>4
  <2>2. CASE i <= Len(s)
    <3>1. i \in 1..Len(s)
      BY <2>1, <2>2
    <3> QED
      BY <1>1, <1>3, <2>1, <2>2, <3>1
  <2>3. CASE ~ (i <= Len(s))
    <3>1. i - Len(s) \in 1..Len(t)
      BY <1>1, <1>2, <2>1, <2>3
    <3>2. t[i - Len(s)] = b + (i - Len(s))
      BY <1>2, <3>1
    <3> QED
      BY <1>1, <1>3, <2>1, <2>3, <3>2, SMTT(30)
  <2> QED
    BY <2>2, <2>3
<1>6. u = s \o t
  BY <1>1, <1>3, <1>4, <1>5, SeqEqual
<1> QED
  BY <1>1, <1>2, <1>6 DEF s, t, u, Text

\* The same, given where the second row begins.
LEMMA SpanParts ==
  ASSUME NEW a \in Nat, NEW m \in Nat, NEW c \in Int, a <= m, m <= c + 1
  PROVE  Span(a, c) = Span(a, m - 1) \o Span(m, c) /\ Span(a, m - 1) \in Text /\ Span(m, c) \in Text
<1> DEFINE b == m - 1
<1>1. b \in Int /\ a <= b + 1 /\ b <= c /\ b + 1 = m
  OBVIOUS
<1> HIDE DEF b
<1>2. Span(a, c) = Span(a, b) \o Span(b + 1, c) /\ Span(a, b) \in Text /\ Span(b + 1, c) \in Text
  BY <1>1, SpanSplit
<1> QED
  BY <1>1, <1>2 DEF b

\* The line feeds between a line and the next are not ink.
LEMMA FeedsPlain ==
  ASSUME lines \in Docs, NEW l \in 1..N, l + 1 \in 1..N, NEW D, D \subseteq Ink
  PROVE  /\ Only(D, Span(To(l) + 1, lines[l + 1].from - 1)) = <<>>
         /\ To(l) + 1 \in Nat /\ lines[l].from <= To(l) + 1 /\ To(l) + 1 <= lines[l + 1].from
<1> DEFINE s == Span(To(l) + 1, lines[l + 1].from - 1)
<1>1. /\ lines[l].from \in Nat /\ lines[l].len \in Nat /\ lines[l + 1].from \in Nat
      /\ lines[l + 1].len \in Nat /\ l \in Int /\ l < l + 1
      /\ lines[l].from + lines[l].len < lines[l + 1].from
  BY LineTyped
<1>2. To(l) + 1 \in Nat /\ lines[l].from <= To(l) + 1 /\ To(l) + 1 <= lines[l + 1].from /\ To(l) \in Int
  BY <1>1 DEF To
<1>3. s \in Seq(Nat) /\ \A i \in 1..Len(s) : s[i] = To(l) + 1 + i - 1
      /\ Len(s) = IF lines[l + 1].from - 1 - (To(l) + 1) + 1 < 0 THEN 0
                  ELSE lines[l + 1].from - 1 - (To(l) + 1) + 1
  <2> DEFINE x == To(l) + 1
             y == lines[l + 1].from - 1
  <2>1. x \in Nat /\ y \in Int
    BY <1>1, <1>2
  <2> HIDE DEF x, y
  <2>2. /\ Span(x, y) \in Seq(Nat) /\ \A i \in 1..Len(Span(x, y)) : Span(x, y)[i] = x + i - 1
        /\ Len(Span(x, y)) = IF y - x + 1 < 0 THEN 0 ELSE y - x + 1
    BY <2>1, SpanTyped
  <2> QED
    BY <2>2 DEF x, y
<1>4. ASSUME NEW m \in 1..N PROVE To(m) <= To(l) \/ lines[l + 1].from <= lines[m].from
  <2>1. lines[m].from \in Nat /\ lines[m].len \in Nat /\ m \in Int
    BY LineTyped
  <2>2. m < l => To(m) < lines[l].from /\ To(m) \in Int
    BY ToBefore
  <2>3. l + 1 < m => lines[l + 1].from + lines[l + 1].len < lines[m].from
    BY LineTyped
  <2> QED
    BY <1>1, <1>2, <2>1, <2>2, <2>3
<1>5. ASSUME NEW i \in 1..Len(s) PROVE s[i] \notin D
  <2>1. s[i] \in Int /\ To(l) < s[i] /\ s[i] < lines[l + 1].from
    <3>1. s[i] = To(l) + 1 + i - 1 /\ i \in Int /\ 1 <= i /\ i <= Len(s) /\ Len(s) \in Nat
      BY <1>3
    <3> DEFINE x == To(l)
               y == lines[l + 1].from
    <3>2. x \in Int /\ y \in Nat /\ x + 1 <= y /\ s[i] = x + 1 + i - 1
      BY <1>1, <1>2, <3>1
    <3>3. Len(s) = IF y - 1 - (x + 1) + 1 < 0 THEN 0 ELSE y - 1 - (x + 1) + 1
      BY <1>3
    <3> HIDE DEF s, x, y
    <3>4. s[i] \in Int /\ x < s[i] /\ s[i] < y
      BY <3>1, <3>2, <3>3
    <3> QED
      BY <3>4 DEF x, y
  <2>2. ASSUME NEW m \in 1..N PROVE s[i] \notin lines[m].from..To(m)
    <3>1. lines[m].from \in Nat /\ To(m) \in Int
      BY LineTyped, ToBefore
    <3>2. To(m) <= To(l) \/ lines[l + 1].from <= lines[m].from
      BY <1>4
    <3> DEFINE e == s[i]
               x == To(l)
               y == lines[l + 1].from
               u == lines[m].from
               v == To(m)
    <3>3. /\ e \in Int /\ x \in Int /\ y \in Int /\ u \in Int /\ v \in Int /\ x < e /\ e < y
          /\ v <= x \/ y <= u
      BY <1>1, <1>2, <2>1, <3>1, <3>2
    <3> HIDE DEF e, x, y, u, v
    <3>4. e \notin u..v
      BY <3>3
    <3> QED
      BY <3>4 DEF e, u, v
  <2> QED
    BY <2>2 DEF Ink
<1>6. Only(D, s) = <<>>
  <2> HIDE DEF s
  <2> QED
    BY <1>3, <1>5, OnlyNothing DEF Text
<1> QED
  BY <1>2, <1>6

\* A line of a block shows what is written on it.
LEMMA LineShows ==
  ASSUME lines \in Docs, NEW b \in 1..N, lines[b].is # "blank", NEW l \in b..End(b),
         NEW D, D \subseteq Ink
  PROVE  Only(D, Line(b, l)) = Only(D, Span(lines[l].from, To(l))) /\ Span(lines[l].from, To(l)) \in Text
<1>1. l \in 1..N /\ End(b) \in b..N /\ N \in Nat
  BY EndInPage, LineTyped
<1>2. lines[l].from \in Nat /\ To(l) \in Int
  BY <1>1, LineTyped, ToBefore
<1>3. Span(lines[l].from, To(l)) \in Text
  BY <1>2, SpanTyped DEF Text
<1>4. CASE Prose(b) /\ l < End(b)
  <2>1. l + 1 \in 1..N
    BY <1>1, <1>4
  <2>2. /\ Only(D, Span(To(l) + 1, lines[l + 1].from - 1)) = <<>>
        /\ To(l) + 1 \in Nat /\ lines[l].from <= To(l) + 1 /\ To(l) + 1 <= lines[l + 1].from
    BY <1>1, <2>1, FeedsPlain
  <2>3. lines[l + 1].from \in Nat
    BY <2>1, LineTyped
  <2>4. /\ Span(lines[l].from, lines[l + 1].from - 1)
             = Span(lines[l].from, To(l)) \o Span(To(l) + 1, lines[l + 1].from - 1)
        /\ Span(To(l) + 1, lines[l + 1].from - 1) \in Text
    <3>1. lines[l + 1].from - 1 \in Int /\ To(l) <= lines[l + 1].from - 1
      BY <1>2, <2>2, <2>3
    <3> QED
      BY <1>2, <2>2, <3>1, SpanSplit
  <2>5. Only(D, Span(lines[l].from, lines[l + 1].from - 1))
          = Only(D, Span(lines[l].from, To(l))) \o <<>>
    BY <1>3, <2>2, <2>4, OnlyBoth
  <2>6. Only(D, Span(lines[l].from, To(l))) \in Text
    BY <1>3, OnlyTyped
  <2> QED
    BY <1>3, <1>4, <2>5, <2>6, NoneJoined DEF Line
<1>5. CASE ~ (Prose(b) /\ l < End(b))
  BY <1>3, <1>5 DEF Line
<1> QED
  BY <1>4, <1>5

\* The first pieces of a block show what is written from its first line to theirs.
LEMMA PiecesShow ==
  ASSUME lines \in Docs, NEW b \in 1..N, lines[b].is # "blank", ~ Bare(b), NEW D, D \subseteq Ink
  PROVE  \A k \in 1..Len(Pieces(b)) :
           Only(D, FlattenSeq(SubSeq(Pieces(b), 1, k)))
             = Only(D, Span(lines[BodyStart(b)].from, To(BodyStart(b) + k - 1)))
<1> DEFINE n == BodyEnd(b) - BodyStart(b) + 1
           P == Pieces(b)
           S == BodyStart(b)
<1>1. S \in Int /\ b <= S /\ BodyEnd(b) \in Int /\ BodyEnd(b) <= End(b) /\ End(b) \in b..N
      /\ N \in Nat /\ n \in Nat /\ n > 0
  BY BodyInPage, EndInPage, LineTyped DEF Bare
<1>2. P \in Seq(Text) /\ Len(P) = n /\ \A i \in 1..n : P[i] = Line(b, S + i - 1)
  <2>1. P = [i \in 1..n |-> Line(b, S + i - 1)]
    BY DEF Pieces
  <2>2. P \in Seq(Text)
    BY PiecesAreTexts
  <2> HIDE DEF n, P, S
  <2> QED
    BY <1>1, <2>1, <2>2
<1>3. \A i \in 1..n : S + i - 1 \in b..End(b) /\ S + i - 1 \in 1..N
  BY <1>1
<1> HIDE DEF P, S, n
<1> DEFINE Good(k) == Only(D, FlattenSeq(SubSeq(P, 1, k))) = Only(D, Span(lines[S].from, To(S + k - 1)))
           Bad == {k \in 1..n : ~ Good(k)}
<1>4. Good(1)
  <2>1. 1 \in 1..n /\ S + 1 - 1 = S
    BY <1>1
  <2>2. P[1] = Line(b, S) /\ S \in b..End(b) /\ P[1] \in Text
    BY <1>2, <1>3, <2>1
  <2>3. SubSeq(P, 1, 1) = <<P[1]>>
    <3>1. /\ SubSeq(P, 1, 1) \in Seq(Text) /\ Len(SubSeq(P, 1, 1)) = 1
          /\ SubSeq(P, 1, 1)[1] = P[1]
      BY <1>2, <2>1, <2>2, SubSeqProperties
    <3> DEFINE q == SubSeq(P, 1, 1)
    <3> HIDE DEF q
    <3>2. q = <<q[1]>>
      <4>1. q \in Seq(Text) /\ Len(q) = 1
        BY <3>1 DEF q
      <4>2. <<q[1]>> \in Seq(Text) /\ Len(<<q[1]>>) = 1 /\ <<q[1]>>[1] = q[1]
        BY <4>1
      <4>3. \A i \in 1..Len(q) : q[i] = <<q[1]>>[i]
        BY <4>1, <4>2
      <4> QED
        BY <4>1, <4>2, <4>3, SeqEqual
    <3> QED
      BY <3>1, <3>2 DEF q
  <2>4. FlattenSeq(SubSeq(P, 1, 1)) = P[1]
    BY <2>2, <2>3, FlattenOne
  <2> QED
    BY <2>1, <2>2, <2>4, LineShows
<1>5. ASSUME NEW k \in 1..n, k # 1, Good(k - 1) PROVE Good(k)
  <2> DEFINE l == S + k - 1
             a == lines[S].from
  <2>1. /\ l \in 1..N /\ l \in b..End(b) /\ l - 1 \in 1..N /\ (l - 1) + 1 = l /\ S \in 1..N
        /\ S + (k - 1) - 1 = l - 1 /\ S <= l - 1 /\ k - 1 \in 1..n /\ P[k] = Line(b, l) /\ P[k] \in Text
    <3>1. k - 1 \in 1..n /\ 1 \in 1..n /\ S + 1 - 1 = S /\ S + (k - 1) - 1 = l - 1
          /\ (l - 1) + 1 = l /\ S <= l - 1
      BY <1>1, <1>5
    <3>2. S + (k - 1) - 1 \in 1..N /\ S + 1 - 1 \in 1..N /\ l \in 1..N /\ l \in b..End(b)
      BY <1>3, <3>1
    <3>3. P[k] = Line(b, l) /\ P[k] \in Text
      BY <1>2
    <3> QED
      BY <3>1, <3>2, <3>3
  <2>2. /\ a \in Nat /\ lines[l - 1].from \in Nat /\ lines[l].from \in Nat /\ To(l - 1) \in Int
        /\ To(l) \in Int /\ lines[l - 1].len \in Nat /\ a <= lines[l - 1].from
        /\ lines[l].from <= To(l) + 1
    <3>1. S < l - 1 => lines[S].from + lines[S].len < lines[l - 1].from
      BY <2>1, LineTyped
    <3>2. /\ lines[S].from \in Nat /\ lines[S].len \in Nat /\ lines[l - 1].from \in Nat
          /\ lines[l - 1].len \in Nat /\ lines[l].from \in Nat /\ lines[l].len \in Nat
      BY <2>1, LineTyped
    <3>3. To(l - 1) \in Int /\ To(l) \in Int
      BY <2>1, ToBefore
    <3>4. S = l - 1 \/ S < l - 1
      BY <1>1, <2>1
    <3> QED
      BY <3>1, <3>2, <3>3, <3>4 DEF To
  <2> HIDE DEF l, a
  <2>3. /\ Only(D, Span(To(l - 1) + 1, lines[l].from - 1)) = <<>>
        /\ To(l - 1) + 1 \in Nat /\ lines[l - 1].from <= To(l - 1) + 1 /\ To(l - 1) + 1 <= lines[l].from
    <3>1. (l - 1) + 1 \in 1..N
      BY <2>1
    <3> QED
      BY <2>1, <3>1, FeedsPlain
  <2> DEFINE x == Span(a, To(l - 1))
             y == Span(To(l - 1) + 1, lines[l].from - 1)
             z == Span(lines[l].from, To(l))
  <2>4. Span(a, To(l)) = x \o Span(To(l - 1) + 1, To(l)) /\ x \in Text
    <3>1. a <= To(l - 1) + 1 /\ To(l - 1) <= To(l)
      BY <2>2, <2>3
    <3> QED
      BY <2>2, <3>1, SpanSplit
  <2>5. Span(To(l - 1) + 1, To(l)) = y \o z /\ y \in Text /\ z \in Text
    BY <2>2, <2>3, SpanParts
  <2> HIDE DEF x, y, z
  <2>6. Only(D, Span(a, To(l))) = Only(D, x) \o Only(D, z)
    <3>1. Only(D, Span(a, To(l))) = Only(D, x) \o (Only(D, y) \o Only(D, z))
      <4>1. y \o z \in Text
        BY <2>5, TextsJoin
      <4>2. Only(D, y \o z) = Only(D, y) \o Only(D, z)
        BY <2>5, OnlyBoth
      <4>3. Only(D, x \o (y \o z)) = Only(D, x) \o Only(D, y \o z)
        BY <2>4, <4>1, OnlyBoth
      <4> QED
        BY <2>4, <2>5, <4>2, <4>3
    <3>2. Only(D, y) = <<>>
      BY <2>3 DEF y
    <3>3. <<>> \o Only(D, z) = Only(D, z)
      BY <2>5, OnlyTyped, NoneJoined
    <3> QED
      BY <3>1, <3>2, <3>3
  <2>7. Only(D, P[k]) = Only(D, z)
    BY <2>1, LineShows DEF z
  <2>8. Only(D, FlattenSeq(SubSeq(P, 1, k - 1))) = Only(D, x)
    BY <1>5, <2>1 DEF x, a
  <2>9. SubSeq(P, 1, k) = Append(SubSeq(P, 1, k - 1), P[k]) /\ SubSeq(P, 1, k - 1) \in Seq(Text)
    <3>1. k \in 1..Len(P) /\ k - 1 \in 0..Len(P)
      BY <1>1, <1>2
    <3>2. SubSeq(P, 1, k - 1) \in Seq(Text)
      BY <1>2, <3>1, SubSeqProperties
    <3>3. SubSeq(P, 1, k) = SubSeq(P, 1, k - 1) \o <<P[k]>>
      BY <1>2, <3>1, SubSeqRecursiveSecond
    <3>4. Append(SubSeq(P, 1, k - 1), P[k]) = SubSeq(P, 1, k - 1) \o <<P[k]>>
      BY <2>1, <3>2, AppendIsConcat
    <3> QED
      BY <3>2, <3>3, <3>4
  <2>10. Only(D, FlattenSeq(SubSeq(P, 1, k)))
           = Only(D, FlattenSeq(SubSeq(P, 1, k - 1))) \o Only(D, P[k])
    <3>1. FlattenSeq(SubSeq(P, 1, k)) = FlattenSeq(SubSeq(P, 1, k - 1)) \o P[k]
      BY <2>1, <2>9, FlattenMore
    <3>2. FlattenSeq(SubSeq(P, 1, k - 1)) \in Text
      BY <2>9, FlattenGrows
    <3> QED
      BY <2>1, <3>1, <3>2, OnlyBoth
  <2> QED
    BY <2>6, <2>7, <2>8, <2>10 DEF l, a
<1>6. Bad = {}
  <2> SUFFICES ASSUME Bad # {} PROVE FALSE
    OBVIOUS
  <2>1. Bad \subseteq Nat
    OBVIOUS
  <2> HIDE DEF Bad
  <2>2. PICK k \in Bad : \A m \in Bad : k <= m
    BY <2>1, SmallestNat
  <2>3. k \in 1..n /\ ~ Good(k)
    BY <2>2 DEF Bad
  <2> HIDE DEF Good
  <2>4. k # 1
    BY <1>4, <2>3
  <2>5. Good(k - 1)
    <3>1. k - 1 \in 1..n /\ ~ (k <= k - 1)
      BY <1>1, <2>3, <2>4
    <3> QED
      BY <2>2, <3>1 DEF Bad
  <2> QED
    BY <1>5, <2>3, <2>4, <2>5
<1> HIDE DEF Good
<1>7. \A k \in 1..n : Good(k)
  BY <1>6
<1> QED
  BY <1>2, <1>7 DEF Good, P, S

\* A block put into a chunk as it is shows what its pieces show.
LEMMA WholeShows ==
  ASSUME lines \in Docs, NEW b \in 1..N, lines[b].is # "blank", NEW D, D \subseteq Ink
  PROVE  Only(D, Whole(b).chars) = Only(D, FlattenSeq(Pieces(b)))
<1>1. CASE Bare(b)
  <2> DEFINE s == Span(lines[b].from, To(End(b)))
  <2>1. Pieces(b) = <<s>> /\ Whole(b).chars = s
    BY <1>1 DEF Pieces, Whole
  <2>2. s \in Text
    <3>1. lines[b].from \in Nat /\ To(End(b)) \in Int
      <4>1. End(b) \in 1..N
        BY EndInPage, LineTyped
      <4> QED
        BY <4>1, LineTyped, ToBefore
    <3> QED
      BY <3>1, SpanTyped DEF Text
  <2> HIDE DEF s
  <2> QED
    BY <2>1, <2>2, FlattenOne
<1>2. CASE ~ Bare(b)
  <2> DEFINE n == BodyEnd(b) - BodyStart(b) + 1
  <2>1. n \in Nat \ {0} /\ BodyStart(b) + n - 1 = BodyEnd(b)
    BY <1>2, BodyInPage DEF Bare
  <2>2. Len(Pieces(b)) = n
    <3>1. Pieces(b) = [i \in 1..n |-> Line(b, BodyStart(b) + i - 1)]
      BY <1>2 DEF Pieces
    <3> HIDE DEF n
    <3> QED
      BY <2>1, <3>1
  <2> HIDE DEF n
  <2>3. Only(D, FlattenSeq(SubSeq(Pieces(b), 1, n)))
          = Only(D, Span(lines[BodyStart(b)].from, To(BodyStart(b) + n - 1)))
    <3>1. n \in 1..Len(Pieces(b))
      BY <2>1, <2>2
    <3> QED
      BY <1>2, <3>1, PiecesShow
  <2>4. SubSeq(Pieces(b), 1, n) = Pieces(b)
    BY <2>2, PiecesAreTexts, SubSeqFull
  <2>5. Whole(b).chars = Span(lines[BodyStart(b)].from, To(BodyEnd(b)))
    BY <1>2 DEF Whole
  <2> QED
    BY <2>1, <2>3, <2>4, <2>5
<1> QED
  BY <1>1, <1>2

-----------------------------------------------------------------------------
(* What parts and chunks say                                               *)

\* The texts of parts.
CharsIn(ps) == [i \in 1..Len(ps) |-> ps[i].chars]

LEMMA CharsTyped ==
  ASSUME NEW ls, NEW ps \in Seq(FitPart(ls))
  PROVE  CharsIn(ps) \in Seq(Text) /\ CharsOf(ps) = FlattenSeq(CharsIn(ps)) /\ CharsOf(ps) \in Text
         /\ Len(CharsIn(ps)) = Len(ps) /\ Len(ps) \in Nat
<1>1. Len(ps) \in Nat /\ \A i \in 1..Len(ps) : ps[i] \in FitPart(ls)
  OBVIOUS
<1>2. \A i \in 1..Len(ps) : ps[i].chars \in Text
  <2>1. \A p \in FitPart(ls) : p.chars \in Clean(ls)
    BY DEF FitPart
  <2> QED
    BY <1>1, <2>1, CleanIsText
<1>3. CharsIn(ps) \in Seq(Text) /\ Len(CharsIn(ps)) = Len(ps)
  BY <1>1, <1>2, IsASeq DEF CharsIn
<1> QED
  BY <1>1, <1>3, FlattenGrows DEF CharsOf, CharsIn

\* Parts, one after the other.
LEMMA CharsBoth ==
  ASSUME NEW ls, NEW ps \in Seq(FitPart(ls)), NEW qs \in Seq(FitPart(ls))
  PROVE  CharsOf(ps \o qs) = CharsOf(ps) \o CharsOf(qs)
<1>1. /\ ps \o qs \in Seq(FitPart(ls)) /\ Len(ps \o qs) = Len(ps) + Len(qs)
      /\ \A i \in 1..(Len(ps) + Len(qs)) : (ps \o qs)[i] = IF i <= Len(ps) THEN ps[i] ELSE qs[i - Len(ps)]
  BY ConcatProperties
<1>2. /\ CharsIn(ps) \in Seq(Text) /\ CharsIn(qs) \in Seq(Text) /\ CharsIn(ps \o qs) \in Seq(Text)
      /\ Len(CharsIn(ps)) = Len(ps) /\ Len(CharsIn(qs)) = Len(qs)
      /\ Len(CharsIn(ps \o qs)) = Len(ps) + Len(qs) /\ Len(ps) \in Nat /\ Len(qs) \in Nat
  BY <1>1, CharsTyped
<1> DEFINE x == CharsIn(ps)
           y == CharsIn(qs)
           z == CharsIn(ps \o qs)
<1>3. /\ x \in Seq(Text) /\ y \in Seq(Text) /\ z \in Seq(Text)
      /\ Len(x) = Len(ps) /\ Len(y) = Len(qs) /\ Len(z) = Len(x) + Len(y)
  BY <1>2
<1>4. ASSUME NEW i \in 1..(Len(x) + Len(y)) PROVE z[i] = IF i <= Len(x) THEN x[i] ELSE y[i - Len(x)]
  <2>1. i \in 1..Len(ps \o qs) /\ z[i] = (ps \o qs)[i].chars
    BY <1>1, <1>2 DEF CharsIn
  <2>2. CASE i <= Len(ps)
    <3>1. i \in 1..Len(ps) /\ (ps \o qs)[i] = ps[i]
      BY <1>1, <1>2, <2>2
    <3> QED
      BY <1>2, <2>1, <2>2, <3>1 DEF CharsIn
  <2>3. CASE ~ (i <= Len(ps))
    <3>1. i - Len(ps) \in 1..Len(qs) /\ (ps \o qs)[i] = qs[i - Len(ps)]
      BY <1>1, <1>2, <2>3
    <3> QED
      BY <1>2, <2>1, <2>3, <3>1 DEF CharsIn
  <2> QED
    BY <2>2, <2>3
<1> HIDE DEF x, y, z
<1>5. /\ x \o y \in Seq(Text) /\ Len(x \o y) = Len(x) + Len(y)
      /\ \A i \in 1..(Len(x) + Len(y)) : (x \o y)[i] = IF i <= Len(x) THEN x[i] ELSE y[i - Len(x)]
  BY <1>3, ConcatProperties
<1>6. z = x \o y
  <2>1. \A i \in 1..Len(z) : z[i] = (x \o y)[i]
    BY <1>3, <1>4, <1>5
  <2> QED
    BY <1>3, <1>5, <2>1, SeqEqual
<1>7. FlattenSeq(x \o y) = FlattenSeq(x) \o FlattenSeq(y)
  BY <1>3, FlattenBoth
<1>8. /\ CharsOf(ps) = FlattenSeq(x) /\ CharsOf(qs) = FlattenSeq(y)
      /\ CharsOf(ps \o qs) = FlattenSeq(z)
  <2>1. CharsOf(ps) = FlattenSeq(x)
    BY CharsTyped DEF x
  <2>2. CharsOf(qs) = FlattenSeq(y)
    BY CharsTyped DEF y
  <2>3. CharsOf(ps \o qs) = FlattenSeq(z)
    BY <1>1, CharsTyped DEF z
  <2> QED
    BY <2>1, <2>2, <2>3
<1> QED
  BY <1>6, <1>7, <1>8

\* No part, and a single one.
LEMMA CharsOfOne ==
  ASSUME NEW ls, NEW p \in FitPart(ls)
  PROVE  CharsOf(<<p>>) = p.chars /\ CharsOf(<<>>) = <<>> /\ p.chars \in Text
<1>1. p.chars \in Text
  BY CleanIsText DEF FitPart
<1>2. CharsOf(<<p>>) = FlattenSeq(<<p.chars>>)
  <2>1. [i \in 1..Len(<<p>>) |-> <<p>>[i].chars] = <<p.chars>>
    OBVIOUS
  <2> QED
    BY <2>1 DEF CharsOf
<1>3. CharsOf(<<>>) = FlattenSeq(<<>>)
  <2>1. [i \in 1..Len(<<>>) |-> <<>>[i].chars] = <<>>
    OBVIOUS
  <2> QED
    BY <2>1 DEF CharsOf
<1> QED
  BY <1>1, <1>2, <1>3, FlattenOne, FlattenNone

\* No part at all.
LEMMA CharsOfNone == CharsOf(<<>>) = <<>>
<1>1. [i \in 1..Len(<<>>) |-> <<>>[i].chars] = <<>>
  OBVIOUS
<1> QED
  BY <1>1, FlattenNone DEF CharsOf

\* One more part.
LEMMA CharsMore ==
  ASSUME NEW ls, NEW ps \in Seq(FitPart(ls)), NEW p \in FitPart(ls)
  PROVE  CharsOf(Append(ps, p)) = CharsOf(ps) \o p.chars
<1>1. <<p>> \in Seq(FitPart(ls)) /\ Append(ps, p) = ps \o <<p>>
  BY AppendIsConcat
<1> QED
  BY <1>1, CharsBoth, CharsOfOne

\* No chunk at all.
LEMMA StoryNone == Story(<<>>) = <<>>
<1>1. [i \in 1..Len(<<>>) |-> CharsOf(<<>>[i].parts)] = <<>>
  OBVIOUS
<1> QED
  BY <1>1, FlattenNone DEF Story

\* The texts of chunks.
ToldIn(cs) == [i \in 1..Len(cs) |-> CharsOf(cs[i].parts)]

LEMMA StoryTyped ==
  ASSUME NEW ls, NEW cs \in Seq(ShownChunk(ls))
  PROVE  ToldIn(cs) \in Seq(Text) /\ Story(cs) = FlattenSeq(ToldIn(cs)) /\ Story(cs) \in Text
         /\ Len(ToldIn(cs)) = Len(cs) /\ Len(cs) \in Nat
<1>1. Len(cs) \in Nat /\ \A i \in 1..Len(cs) : cs[i] \in ShownChunk(ls)
  OBVIOUS
<1>2. \A i \in 1..Len(cs) : CharsOf(cs[i].parts) \in Text
  <2>1. \A c \in ShownChunk(ls) : c.parts \in Seq(FitPart(ls))
    BY DEF ShownChunk
  <2> QED
    BY <1>1, <2>1, CharsTyped
<1>3. ToldIn(cs) \in Seq(Text) /\ Len(ToldIn(cs)) = Len(cs)
  BY <1>1, <1>2, IsASeq DEF ToldIn
<1> QED
  BY <1>1, <1>3, FlattenGrows DEF Story, ToldIn

\* One more chunk.
LEMMA StoryMore ==
  ASSUME NEW ls, NEW cs \in Seq(ShownChunk(ls)), NEW c \in ShownChunk(ls)
  PROVE  Story(Append(cs, c)) = Story(cs) \o CharsOf(c.parts)
<1> DEFINE ds == Append(cs, c)
           x == ToldIn(cs)
           z == ToldIn(ds)
           t == CharsOf(c.parts)
<1>1. /\ ds \in Seq(ShownChunk(ls)) /\ Len(ds) = Len(cs) + 1 /\ ds[Len(cs) + 1] = c
      /\ \A i \in 1..Len(cs) : ds[i] = cs[i]
  BY AppendProperties
<1> HIDE DEF ds
<1>2. t \in Text
  BY CharsTyped DEF ShownChunk
<1>3. /\ x \in Seq(Text) /\ z \in Seq(Text) /\ Len(x) = Len(cs) /\ Len(z) = Len(cs) + 1
      /\ Len(cs) \in Nat
  BY <1>1, StoryTyped
<1>4. \A i \in 1..Len(cs) : z[i] = x[i]
  BY <1>1, <1>3 DEF ToldIn
<1>5. z[Len(cs) + 1] = t
  BY <1>1, <1>3 DEF ToldIn
<1> HIDE DEF x, z, t
<1>6. /\ Append(x, t) \in Seq(Text) /\ Len(Append(x, t)) = Len(x) + 1 /\ Append(x, t)[Len(x) + 1] = t
      /\ \A i \in 1..Len(x) : Append(x, t)[i] = x[i]
  BY <1>2, <1>3, AppendProperties
<1>7. z = Append(x, t)
  <2>1. \A i \in 1..Len(z) : z[i] = Append(x, t)[i]
    <3> SUFFICES ASSUME NEW i \in 1..Len(z) PROVE z[i] = Append(x, t)[i]
      OBVIOUS
    <3>1. i \in 1..Len(cs) \/ i = Len(cs) + 1
      BY <1>3
    <3> QED
      BY <1>3, <1>4, <1>5, <1>6, <3>1
  <2> QED
    BY <1>3, <1>6, <2>1, SeqEqual
<1>8. FlattenSeq(z) = FlattenSeq(x) \o t
  BY <1>2, <1>3, <1>7, FlattenMore
<1> QED
  BY <1>1, <1>8, StoryTyped DEF x, z, t, ds

\* Chunks, one after the other.
LEMMA StoryBoth ==
  ASSUME NEW ls, NEW cs \in Seq(ShownChunk(ls)), NEW ds \in Seq(ShownChunk(ls))
  PROVE  Story(cs \o ds) = Story(cs) \o Story(ds)
<1> DEFINE Good(u) == Story(cs \o u) = Story(cs) \o Story(u)
           Bad == {n \in Nat : \E u \in Seq(ShownChunk(ls)) : Len(u) = n /\ ~ Good(u)}
<1> SUFFICES ASSUME ~ Good(ds) PROVE FALSE
  OBVIOUS
<1>1. Bad \subseteq Nat /\ Bad # {}
  <2>1. Len(ds) \in Nat
    OBVIOUS
  <2> QED
    BY <2>1
<1> HIDE DEF Bad
<1>2. PICK n \in Bad : \A m \in Bad : n <= m
  BY <1>1, SmallestNat
<1>3. PICK u \in Seq(ShownChunk(ls)) : Len(u) = n /\ ~ Good(u)
  BY <1>2 DEF Bad
<1>4. Story(cs) \in Text
  BY StoryTyped
<1>5. u # <<>>
  <2>1. cs \o <<>> = cs /\ Story(cs) \o <<>> = Story(cs)
    BY <1>4, ConcatEmptySeq, NoneJoined
  <2>2. Story(<<>>) = <<>>
    BY StoryNone
  <2> QED
    BY <1>3, <2>1, <2>2
<1>6. PICK v \in Seq(ShownChunk(ls)), c \in ShownChunk(ls) : u = Append(v, c)
  BY <1>5, SequenceEmptyOrAppend
<1>7. Good(v)
  <2>1. Len(v) \in Nat /\ n = Len(v) + 1
    BY <1>3, <1>6
  <2>2. Len(v) \notin Bad
    BY <1>2, <2>1
  <2> QED
    BY <2>1, <2>2 DEF Bad
<1>8. cs \o u = Append(cs \o v, c)
  BY <1>6, SMTT(30)
<1>9. cs \o v \in Seq(ShownChunk(ls)) /\ Story(v) \in Text /\ CharsOf(c.parts) \in Text
  <2>1. c.parts \in Seq(FitPart(ls))
    BY DEF ShownChunk
  <2> QED
    BY <2>1, StoryTyped, ConcatProperties, CharsTyped
<1>10. Story(cs \o u) = Story(cs \o v) \o CharsOf(c.parts) /\ Story(u) = Story(v) \o CharsOf(c.parts)
  BY <1>6, <1>8, <1>9, StoryMore
<1>11. (Story(cs) \o Story(v)) \o CharsOf(c.parts) = Story(cs) \o (Story(v) \o CharsOf(c.parts))
  BY <1>4, <1>9, Regrouped
<1> QED
  BY <1>3, <1>7, <1>10, <1>11

\* A chunk of its own for every part but the last, which is in the current chunk,
\* says what the parts say.
LEMMA AloneSays ==
  ASSUME NEW ls, NEW ps \in Seq(FitPart(ls))
  PROVE  Story(Alone(ps)) \o CharsOf(LastAlone(ps).parts) = CharsOf(ps)
         /\ Alone(ps) \in Seq(ShownChunk(ls)) /\ LastAlone(ps).parts \in Seq(FitPart(ls))
<1>1. CASE ps = <<>>
  <2>1. Alone(ps) = <<>> /\ LastAlone(ps).parts = <<>>
    <3>1. 1..(Len(ps) - 1) = 1..0
      BY <1>1
    <3>2. Alone(ps) = [i \in 1..0 |-> Add(Empty, ps[i])]
      BY <3>1 DEF Alone
    <3>3. Alone(ps) = <<>>
      BY <3>2
    <3> QED
      BY <1>1, <3>3 DEF LastAlone, Empty
  <2>2. Story(<<>>) = <<>>
    BY StoryNone
  <2>3. <<>> \o <<>> = <<>>
    OBVIOUS
  <2> QED
    <3>1. <<>> \in Seq(ShownChunk(ls)) /\ <<>> \in Seq(FitPart(ls))
      OBVIOUS
    <3> QED
      BY <1>1, <2>1, <2>2, <2>3, <3>1, CharsOfNone
<1>2. CASE ps # <<>>
  <2>1. PICK qs \in Seq(FitPart(ls)), p \in FitPart(ls) : ps = Append(qs, p)
    BY <1>2, SequenceEmptyOrAppend
  <2>2. Len(ps) = Len(qs) + 1 /\ Last(ps) = p /\ \A i \in 1..Len(qs) : ps[i] = qs[i]
        /\ Len(qs) \in Nat
    BY <2>1, AppendProperties DEF Last
  <2>3. LastAlone(ps).parts = <<p>>
    BY <1>2, <2>2, OnePart DEF LastAlone
  <2>4. Alone(ps) = [i \in 1..Len(qs) |-> Add(Empty, qs[i])]
    <3>1. 1..(Len(ps) - 1) = 1..Len(qs)
      BY <2>2
    <3> QED
      BY <2>2, <3>1 DEF Alone
  <2>5. Alone(ps) \in Seq(ShownChunk(ls)) /\ Len(Alone(ps)) = Len(qs)
    <3>1. \A i \in 1..Len(qs) : Add(Empty, qs[i]) \in ShownChunk(ls)
      BY AddToEmpty, FitIsShown
    <3> QED
      BY <2>2, <2>4, <3>1, IsASeq
  <2>6. ToldIn(Alone(ps)) = CharsIn(qs)
    <3>1. \A i \in 1..Len(qs) : CharsOf(Alone(ps)[i].parts) = qs[i].chars
      <4> SUFFICES ASSUME NEW i \in 1..Len(qs) PROVE CharsOf(Alone(ps)[i].parts) = qs[i].chars
        OBVIOUS
      <4>1. Alone(ps)[i].parts = <<qs[i]>> /\ qs[i] \in FitPart(ls)
        BY <2>4, OnePart
      <4> QED
        BY <4>1, CharsOfOne
    <3> QED
      BY <2>5, <3>1 DEF ToldIn, CharsIn
  <2>7. Story(Alone(ps)) = CharsOf(qs)
    BY <2>5, <2>6, StoryTyped, CharsTyped
  <2> QED
    <3>1. CharsOf(ps) = CharsOf(qs) \o p.chars
      BY <2>1, CharsMore
    <3>2. CharsOf(<<p>>) = p.chars /\ <<p>> \in Seq(FitPart(ls))
      BY CharsOfOne
    <3> QED
      BY <2>3, <2>5, <2>7, <3>1, <3>2
<1> QED
  BY <1>1, <1>2

-----------------------------------------------------------------------------
(* What is told stays the same                                             *)

\* While it is not cut, nothing is left of a piece, and a part that is begun has a
\* piece; only sentences go on filling the part they were cut into.
Tidy ==
  /\ phase # "cut" => rest = <<>>
  /\ fill.pieces = 0 => fill.chars = <<>>
  /\ phase = "cut" /\ ~ Prose(at) => fill.pieces = 0
  /\ phase = "cut" => piece <= Len(Pieces(at))
  /\ phase = "pack" => piece <= Len(Pieces(at)) + 1

\* Whatever of the ink one looks at, what is told of it is what is written, as long
\* as it is not markup that was left out.
Kept == \A D \in SUBSET (Ink \ dropped) : Only(D, Told) = Only(D, TextFrom[1])

\* What was left out is the markup of links that no part can hold.
TooWide == \A c \in dropped : \E g \in Links : c \in g.from..g.to /\ g.to - g.from >= Budget

\* The page and its text stay.
LEMMA SamePage ==
  ASSUME UNCHANGED lines
  PROVE  N' = N /\ TextFrom' = TextFrom /\ Ink' = Ink /\ Links' = Links
<1>1. TextFrom' = TextFrom
  BY DEF TextFrom, N, Pieces, Bare, BodyStart, BodyEnd, End, Closing, Same, Line, Prose, To, Span
<1>2. N' = N /\ Ink' = Ink /\ Links' = Links
  BY DEF N, Ink, To, Links
<1> QED
  BY <1>1, <1>2

\* So do the pieces of a block.
LEMMA SamePieces ==
  ASSUME UNCHANGED <<lines, at>>
  PROVE  /\ Pieces(at)' = Pieces(at) /\ End(at)' = End(at) /\ (Prose(at)' <=> Prose(at))
  BY DEF Pieces, N, Bare, BodyStart, BodyEnd, End, Closing, Same, Line, Prose, To, Span

\* The pieces from the i-th on.
PiecesFrom(i) == FlattenSeq(SubSeq(Pieces(at), i, Len(Pieces(at))))

LEMMA PiecesFromTyped ==
  ASSUME Located, AtBlock
  PROVE  /\ Len(Pieces(at)) \in Nat
         /\ PiecesFrom(1) = FlattenSeq(Pieces(at)) /\ PiecesFrom(Len(Pieces(at)) + 1) = <<>>
         /\ \A i \in 1..(Len(Pieces(at)) + 1) : PiecesFrom(i) \in Text
         /\ \A i \in 1..Len(Pieces(at)) :
              Pieces(at)[i] \in Text /\ PiecesFrom(i) = Pieces(at)[i] \o PiecesFrom(i + 1)
<1>1. at \in 1..N /\ lines \in Docs /\ lines[at].is # "blank" /\ N \in Nat
  BY AtBlockTyped
<1> DEFINE p == Pieces(at)
           n == Len(p)
<1>2. p \in Seq(Text) /\ n \in Nat /\ \A i \in 1..n : p[i] \in Text
  <2>1. p \in Seq(Text)
    BY <1>1, PiecesAreTexts
  <2> HIDE DEF p
  <2> QED
    BY <2>1
<1> HIDE DEF p
<1>3. ASSUME NEW i \in 1..(n + 1) PROVE SubSeq(p, i, n) \in Seq(Text)
  BY <1>2, SubSeqProperties
<1>4. ASSUME NEW i \in 1..n
      PROVE  FlattenSeq(SubSeq(p, i, n)) = p[i] \o FlattenSeq(SubSeq(p, i + 1, n))
  <2>1. SubSeq(p, i, n) = <<p[i]>> \o SubSeq(p, i + 1, n)
    BY <1>2, SubSeqRecursiveFirst
  <2>2. <<p[i]>> \in Seq(Text) /\ SubSeq(p, i + 1, n) \in Seq(Text)
    <3>1. i + 1 \in 1..(n + 1)
      BY <1>2
    <3> QED
      BY <1>2, <1>3, <3>1
  <2>3. FlattenSeq(<<p[i]>>) = p[i]
    BY <1>2, FlattenOne
  <2> QED
    BY <2>1, <2>2, <2>3, FlattenBoth
<1>5. SubSeq(p, 1, n) = p /\ SubSeq(p, n + 1, n) = <<>>
  <2>1. SubSeq(p, 1, n) = p
    BY <1>2, SubSeqFull
  <2>2. SubSeq(p, n + 1, n) = <<>>
    BY <1>2, SubSeqEmpty
  <2> QED
    BY <2>1, <2>2
<1>6. \A i \in 1..(n + 1) : FlattenSeq(SubSeq(p, i, n)) \in Text
  BY <1>3, FlattenGrows
<1> QED
  BY <1>2, <1>4, <1>5, <1>6, FlattenNone DEF PiecesFrom, p

\* What remains of the page while a block is split.
LEMMA RemainingSplit ==
  ASSUME Inv, Tidy, phase \in {"pack", "cut"}
  PROVE  /\ AtBlock /\ at \in 1..N /\ lines \in Docs /\ lines[at].is # "blank"
         /\ TextFrom[End(at) + 1] \in Text /\ rest \in Text
         /\ phase = "cut" => piece \in 1..Len(Pieces(at)) /\ PiecesFrom(piece + 1) \in Text
                             /\ Remaining = (rest \o PiecesFrom(piece + 1)) \o TextFrom[End(at) + 1]
         /\ phase = "pack" => piece \in 1..(Len(Pieces(at)) + 1) /\ PiecesFrom(piece) \in Text
                              /\ Remaining = PiecesFrom(piece) \o TextFrom[End(at) + 1]
<1>1. /\ Located /\ AtBlock /\ at \in 1..N /\ lines \in Docs /\ lines[at].is # "blank"
      /\ piece \in Nat \ {0} /\ N \in Nat
  BY AtBlockTyped DEF Inv, Located, Packed
<1>2. TextFrom[End(at) + 1] \in Text
  <2>1. End(at) + 1 \in 1..(N + 1)
    BY <1>1, EndInPage
  <2> QED
    BY <1>1, <2>1, TextUnfolds
<1>3. rest \in Text
  BY CleanIsText DEF Inv, InCut
<1>4. ASSUME phase = "cut"
      PROVE  /\ piece \in 1..Len(Pieces(at)) /\ PiecesFrom(piece + 1) \in Text
             /\ Remaining = (rest \o PiecesFrom(piece + 1)) \o TextFrom[End(at) + 1]
  <2>1. piece \in 1..Len(Pieces(at)) /\ piece + 1 \in 1..(Len(Pieces(at)) + 1)
    BY <1>1, <1>4, PiecesFromTyped DEF Tidy
  <2>2. PiecesFrom(piece + 1) \in Text
    BY <1>1, <2>1, PiecesFromTyped
  <2> QED
    BY <1>4, <2>1, <2>2 DEF Remaining, PiecesFrom
<1>5. ASSUME phase = "pack"
      PROVE  /\ piece \in 1..(Len(Pieces(at)) + 1) /\ PiecesFrom(piece) \in Text
             /\ Remaining = PiecesFrom(piece) \o TextFrom[End(at) + 1]
  <2>1. piece \in 1..(Len(Pieces(at)) + 1)
    BY <1>1, <1>5, PiecesFromTyped DEF Tidy
  <2>2. PiecesFrom(piece) \in Text
    BY <1>1, <2>1, PiecesFromTyped
  <2>3. Remaining = (rest \o PiecesFrom(piece)) \o TextFrom[End(at) + 1] /\ rest = <<>>
    BY <1>5 DEF Remaining, PiecesFrom, Tidy
  <2>4. <<>> \o PiecesFrom(piece) = PiecesFrom(piece)
    BY <2>2, NoneJoined
  <2> QED
    BY <2>1, <2>2, <2>3, <2>4
<1> QED
  BY <1>1, <1>2, <1>3, <1>4, <1>5

\* The text of the page from the block in hand on.
LEMMA TextOfBlock ==
  ASSUME Located, AtBlock
  PROVE  /\ TextFrom[at] = FlattenSeq(Pieces(at)) \o TextFrom[End(at) + 1]
         /\ FlattenSeq(Pieces(at)) \in Text /\ TextFrom[End(at) + 1] \in Text
<1>1. at \in 1..N /\ lines \in Docs /\ lines[at].is # "blank" /\ N \in Nat
  BY AtBlockTyped
<1>2. at # N + 1 /\ at \in 1..(N + 1) /\ End(at) + 1 \in 1..(N + 1)
  BY <1>1, EndInPage
<1> QED
  BY <1>1, <1>2, TextUnfolds, PiecesAreTexts DEF Onward

\* Everything told is text.
LEMMA ToldTyped ==
  ASSUME Inv, Tidy
  PROVE  /\ Story(chunks) \in Text /\ CharsOf(current.parts) \in Text
         /\ CharsOf(parts) \in Text /\ fill.chars \in Text /\ Remaining \in Text
         /\ Story(chunks) \o CharsOf(current.parts) \in Text
         /\ CharsOf(parts) \o fill.chars \in Text
<1>1. Story(chunks) \in Text
  BY StoryTyped DEF Inv, Gathered
<1>2. CharsOf(current.parts) \in Text
  <2>1. current.parts \in Seq(FitPart(lines))
    BY DEF Inv, Gathered, FitChunk, ShownChunk
  <2> QED
    BY <2>1, CharsTyped
<1>3. CharsOf(parts) \in Text
  BY CharsTyped DEF Inv, Packed
<1>4. fill.chars \in Text
  BY CleanIsText DEF Inv, Packed, Fill
<1>5. Remaining \in Text
  <2>1. CASE phase \in {"pack", "cut"}
    <3>1. CASE phase = "cut"
      <4>1. /\ rest \in Text /\ PiecesFrom(piece + 1) \in Text /\ TextFrom[End(at) + 1] \in Text
            /\ Remaining = (rest \o PiecesFrom(piece + 1)) \o TextFrom[End(at) + 1]
        BY <3>1, RemainingSplit
      <4>2. rest \o PiecesFrom(piece + 1) \in Text
        BY <4>1, TextsJoin
      <4> QED
        BY <4>1, <4>2, TextsJoin
    <3>2. CASE phase = "pack"
      <4>1. /\ PiecesFrom(piece) \in Text /\ TextFrom[End(at) + 1] \in Text
            /\ Remaining = PiecesFrom(piece) \o TextFrom[End(at) + 1]
        BY <3>2, RemainingSplit
      <4> QED
        BY <4>1, TextsJoin
    <3> QED
      BY <2>1, <3>1, <3>2
  <2>2. CASE phase \notin {"pack", "cut"}
    <3>1. at \in 1..(N + 1) /\ lines \in Docs
      BY DEF Inv, Located
    <3> QED
      BY <2>2, <3>1, TextUnfolds DEF Remaining
  <2> QED
    BY <2>1, <2>2
<1> QED
  BY <1>1, <1>2, <1>3, <1>4, <1>5, TextsJoin

\* Outside a split, nothing is in hand.
LEMMA NothingInHand ==
  ASSUME Inv, Tidy, phase \notin {"pack", "cut"}
  PROVE  parts = <<>> /\ fill = NoFill /\ CharsOf(parts) \o fill.chars = <<>> /\ Remaining = TextFrom[at]
<1>1. parts = <<>> /\ fill = NoFill /\ fill.chars = <<>>
  BY DEF Inv, Packed, NoFill
<1>2. <<>> \o <<>> = <<>>
  OBVIOUS
<1> QED
  BY <1>1, <1>2, CharsOfNone DEF Remaining

\* Choosing from three texts.
LEMMA OnlyThree ==
  ASSUME NEW D, NEW a \in Text, NEW b \in Text, NEW r \in Text
  PROVE  Only(D, (a \o b) \o r) = (Only(D, a) \o Only(D, b)) \o Only(D, r)
<1>1. a \o b \in Text
  BY TextsJoin
<1>2. Only(D, (a \o b) \o r) = Only(D, a \o b) \o Only(D, r)
  BY <1>1, OnlyBoth
<1>3. Only(D, a \o b) = Only(D, a) \o Only(D, b)
  BY OnlyBoth
<1> QED
  BY <1>2, <1>3

-----------------------------------------------------------------------------
(* What each step tells                                                    *)

\* What is added to a sequence is an element of it.
LEMMA AddedIn ==
  ASSUME NEW S, NEW s \in Seq(S), NEW p, Append(s, p) \in Seq(S)
  PROVE  p \in S
<1> DEFINE t == Append(s, p)
<1>1. s \in Seq(S \cup {p}) /\ p \in S \cup {p} /\ Len(s) \in Nat
  OBVIOUS
<1>2. Len(t) = Len(s) + 1 /\ t[Len(s) + 1] = p
  BY <1>1, AppendProperties
<1>3. t \in Seq(S)
  OBVIOUS
<1> HIDE DEF t
<1>4. Len(s) + 1 \in 1..Len(t)
  BY <1>1, <1>2
<1> QED
  BY <1>2, <1>3, <1>4

\* A blank line says nothing.
LEMMA SkipBlankText ==
  ASSUME Inv, Tidy, SkipBlank
  PROVE  Tidy' /\ Told' = Told
<1>1. /\ UNCHANGED <<lines, phase, current, chunks, parts, fill, piece, rest>> /\ at' = at + 1
      /\ phase = "gather" /\ at <= N /\ lines[at].is = "blank"
  BY DEF SkipBlank, packVars, cutVars
<1>2. Tidy'
  BY <1>1 DEF Tidy
<1>3. lines \in Docs /\ N \in Nat /\ at \in 1..N
  BY <1>1, ChunkerAssumption DEF Inv, Located, N, ChunkerAssumption
<1>4. TextFrom[at] = TextFrom[at + 1]
  <2>1. at \in 1..(N + 1) /\ at # N + 1
    BY <1>3
  <2> QED
    BY <1>1, <1>3, <2>1, TextUnfolds DEF Onward
<1>5. TextFrom' = TextFrom
  BY <1>1, SamePage
<1>6. Remaining = TextFrom[at] /\ Remaining' = TextFrom[at + 1]
  BY <1>1, <1>5 DEF Remaining
<1> QED
  BY <1>1, <1>2, <1>4, <1>6 DEF Told

\* A block that is gathered shows what its pieces show.
LEMMA GatherText ==
  ASSUME Inv, Tidy, Gather, Inv'
  PROVE  Tidy' /\ \A D \in SUBSET Ink : Only(D, Told') = Only(D, Told)
<1>1. /\ UNCHANGED <<lines, chunks, parts, fill, piece, rest>> /\ at' = End(at) + 1
      /\ phase \notin {"pack", "cut"} /\ phase' = "gather" /\ current' = Add(current, Whole(at))
      /\ AtBlock /\ Located
  BY DEF Gather, packVars, cutVars, Inv
<1>2. Tidy'
  BY <1>1 DEF Tidy
<1>3. lines \in Docs /\ at \in 1..N /\ lines[at].is # "blank"
  BY <1>1, AtBlockTyped
<1> DEFINE a == Story(chunks)
           c == CharsOf(current.parts)
           w == Whole(at).chars
           x == FlattenSeq(Pieces(at))
           r == TextFrom[End(at) + 1]
<1>4. a \in Text /\ c \in Text /\ x \in Text /\ r \in Text /\ TextFrom[at] = x \o r
  BY <1>1, ToldTyped, TextOfBlock
<1>5. w \in Text /\ CharsOf(current'.parts) = c \o w
  <2>1. Whole(at) \in [kind : Sorts, block : 1..Len(lines), chars : Clean(lines), cost : Nat \ {0}]
    BY <1>3, WholeTyped
  <2>2. w \in Text
    BY <2>1, CleanIsText
  <2>3. current'.parts = Append(current.parts, Whole(at))
    BY <1>1 DEF Add
  <2>4. current.parts \in Seq(FitPart(lines)) /\ current'.parts \in Seq(FitPart(lines))
    <3>1. current \in FitChunk(lines) /\ current' \in FitChunk(lines)
      BY <1>1 DEF Inv, Gathered
    <3> QED
      BY <3>1 DEF FitChunk, ShownChunk
  <2>5. Whole(at) \in FitPart(lines)
    BY <2>3, <2>4, AddedIn
  <2> QED
    BY <2>2, <2>3, <2>4, <2>5, CharsMore
<1>6. TextFrom' = TextFrom
  BY <1>1, SamePage
<1>7. Remaining = x \o r /\ Remaining' = r
  BY <1>1, <1>4, <1>6 DEF Remaining
<1>8. CharsOf(parts) \o fill.chars = <<>>
  BY <1>1, NothingInHand
<1>9. Told = ((a \o c) \o <<>>) \o (x \o r) /\ Told' = ((a \o (c \o w)) \o <<>>) \o r
  BY <1>1, <1>5, <1>7, <1>8 DEF Told
<1>10. ASSUME NEW D \in SUBSET Ink PROVE Only(D, w) = Only(D, x)
  BY <1>3, WholeShows
<1> HIDE DEF a, c, w, x, r
<1>11. Told = (a \o c) \o (x \o r) /\ Told' = ((a \o c) \o w) \o r
  <2>1. a \o c \in Text /\ c \o w \in Text
    BY <1>4, <1>5, TextsJoin
  <2>2. a \o (c \o w) \in Text
    BY <1>4, <2>1, TextsJoin
  <2>3. a \o (c \o w) = (a \o c) \o w
    BY <1>4, <1>5, Regrouped, SMTT(30)
  <2> QED
    BY <1>9, <2>1, <2>2, <2>3, NoneJoined
<1>12. ASSUME NEW D \in SUBSET Ink PROVE Only(D, Told') = Only(D, Told)
  <2>1. a \o c \in Text
    BY <1>4, TextsJoin
  <2>2. Told = ((a \o c) \o x) \o r
    BY <1>4, <1>11, <2>1, Regrouped
  <2> DEFINE e == a \o c
  <2>3. e \in Text /\ Told = (e \o x) \o r /\ Told' = (e \o w) \o r
    BY <1>11, <2>1, <2>2
  <2> HIDE DEF e
  <2>4. Only(D, (e \o x) \o r) = (Only(D, e) \o Only(D, x)) \o Only(D, r)
    <3>1. e \in Text /\ x \in Text /\ r \in Text
      BY <1>4, <2>3
    <3> QED
      BY <3>1, OnlyThree
  <2>5. Only(D, (e \o w) \o r) = (Only(D, e) \o Only(D, w)) \o Only(D, r)
    <3>1. e \in Text /\ w \in Text /\ r \in Text
      BY <1>4, <1>5, <2>3
    <3> QED
      BY <3>1, OnlyThree
  <2> QED
    BY <1>10, <2>3, <2>4, <2>5
<1> QED
  BY <1>2, <1>12

\* Closing a chunk says nothing: a heading that is given away is not lost.
LEMMA FlushText ==
  ASSUME Gathered, Flush
  PROVE  Story(chunks') \o CharsOf(current'.parts) = Story(chunks) \o CharsOf(current.parts)
<1>1. /\ current.parts \in Seq(FitPart(lines)) /\ current \in ShownChunk(lines)
      /\ chunks \in Seq(ShownChunk(lines)) /\ current.cost \in 0..Budget
      /\ Story(chunks) \in Text /\ CharsOf(current.parts) \in Text
  <2>1. current \in FitChunk(lines) /\ chunks \in Seq(ShownChunk(lines))
    BY DEF Gathered
  <2>2. current \in ShownChunk(lines)
    BY <2>1, FitIsShown
  <2>3. current.parts \in Seq(FitPart(lines)) /\ current.cost \in 0..Budget
    BY <2>2 DEF ShownChunk
  <2> QED
    BY <2>1, <2>2, <2>3, StoryTyped, CharsTyped
<1>2. CASE Len(current.parts) > 1 /\ EndsInHeading(current)
  <2> DEFINE shown == [parts |-> Front(current.parts),
                       cost |-> current.cost - Gap - Last(current.parts).cost]
  <2>1. current.parts # <<>>
    BY <1>2 DEF EndsInHeading
  <2>2. chunks' = Append(chunks, shown) /\ current' = Add(Empty, Last(current.parts))
    BY <1>2, <2>1 DEF Flush
  <2>3. PICK qs \in Seq(FitPart(lines)), p \in FitPart(lines) : current.parts = Append(qs, p)
    BY <1>1, <2>1, SequenceEmptyOrAppend
  <2>4. Last(current.parts) = p /\ Front(current.parts) = qs
    <3> DEFINE s == Append(qs, p)
    <3>1. s \in Seq(FitPart(lines)) /\ Len(s) = Len(qs) + 1 /\ s[Len(qs) + 1] = p
          /\ Len(qs) \in Nat /\ \A i \in 1..Len(qs) : s[i] = qs[i]
      BY AppendProperties
    <3> HIDE DEF s
    <3>2. SubSeq(s, 1, Len(s) - 1) = qs
      <4>1. Len(s) - 1 = Len(qs)
        BY <3>1
      <4>2. \A i \in 1..Len(qs) : s[i] \in FitPart(lines)
        BY <3>1
      <4>3. /\ SubSeq(s, 1, Len(qs)) \in Seq(FitPart(lines)) /\ Len(SubSeq(s, 1, Len(qs))) = Len(qs)
            /\ \A i \in 1..Len(qs) : SubSeq(s, 1, Len(qs))[i] = s[i]
        BY <3>1, <4>2, SubSeqProperties
      <4>4. \A i \in 1..Len(SubSeq(s, 1, Len(qs))) : SubSeq(s, 1, Len(qs))[i] = qs[i]
        BY <3>1, <4>3
      <4>5. SubSeq(s, 1, Len(qs)) = qs
        BY <4>3, <4>4, SeqEqual
      <4> QED
        BY <4>1, <4>5
    <3> QED
      BY <2>3, <3>1, <3>2 DEF s, Last, Front
  <2>5. CharsOf(current.parts) = CharsOf(qs) \o p.chars
    BY <2>3, CharsMore
  <2>6. Story(chunks') = Story(chunks) \o CharsOf(qs)
    <3> DEFINE c == [parts |-> qs, cost |-> 0]
    <3>1. c \in ShownChunk(lines)
      BY Constants DEF ShownChunk
    <3>2. Story(Append(chunks, c)) = Story(chunks) \o CharsOf(qs)
      BY <1>1, <3>1, StoryMore, SMTT(30)
    <3>3. ToldIn(Append(chunks, shown)) = ToldIn(Append(chunks, c))
      <4> DEFINE s == Append(chunks, shown)
                 t == Append(chunks, c)
                 S == ShownChunk(lines) \cup {shown, c}
      <4>1. chunks \in Seq(S) /\ shown \in S /\ c \in S
        BY <1>1
      <4> HIDE DEF S
      <4>2. /\ Len(s) = Len(chunks) + 1 /\ Len(t) = Len(chunks) + 1 /\ Len(chunks) \in Nat
            /\ s[Len(chunks) + 1] = shown /\ t[Len(chunks) + 1] = c
            /\ \A i \in 1..Len(chunks) : s[i] = chunks[i] /\ t[i] = chunks[i]
        BY <4>1, AppendProperties
      <4>3. shown.parts = c.parts
        BY <2>4
      <4> HIDE DEF s, t, shown, c
      <4>4. ASSUME NEW i \in 1..(Len(chunks) + 1) PROVE CharsOf(s[i].parts) = CharsOf(t[i].parts)
        <5>1. i \in 1..Len(chunks) \/ i = Len(chunks) + 1
          BY <4>2
        <5> QED
          BY <4>2, <4>3, <5>1
      <4>5. ToldIn(s) = ToldIn(t)
        BY <4>2, <4>4 DEF ToldIn
      <4> QED
        BY <4>5 DEF s, t
    <3>4. Story(Append(chunks, shown)) = Story(Append(chunks, c))
      BY <3>3 DEF Story, ToldIn
    <3> QED
      BY <2>2, <3>2, <3>4
  <2>7. CharsOf(current'.parts) = p.chars
    BY <2>2, <2>4, OnePart, CharsOfOne
  <2>8. CharsOf(qs) \in Text /\ p.chars \in Text
    BY CharsTyped, CharsOfOne
  <2>9. Story(chunks) \o (CharsOf(qs) \o p.chars) = (Story(chunks) \o CharsOf(qs)) \o p.chars
    <3> DEFINE x == p.chars
    <3>1. x \in Text
      BY <2>8
    <3> HIDE DEF x
    <3>2. (Story(chunks) \o CharsOf(qs)) \o x = Story(chunks) \o (CharsOf(qs) \o x)
      BY <1>1, <2>8, <3>1, Regrouped, ZenonT(30)
    <3> QED
      BY <3>2 DEF x
  <2> QED
    BY <2>5, <2>6, <2>7, <2>9
<1>3. CASE ~ (Len(current.parts) > 1 /\ EndsInHeading(current))
  <2>1. current' = Empty
    BY <1>3 DEF Flush
  <2>2. CharsOf(current'.parts) = <<>>
    BY <2>1, CharsOfNone DEF Empty
  <2>3. CASE current.parts = <<>>
    <3>1. chunks' = chunks
      BY <1>3, <2>3 DEF Flush
    <3> QED
      BY <2>2, <2>3, <3>1, CharsOfNone
  <2>4. CASE current.parts # <<>>
    <3>1. chunks' = Append(chunks, current)
      BY <1>3, <2>4 DEF Flush
    <3>2. Story(chunks') = Story(chunks) \o CharsOf(current.parts)
      BY <1>1, <3>1, StoryMore
    <3>3. Story(chunks) \o CharsOf(current.parts) \in Text
      BY <1>1, TextsJoin
    <3> QED
      BY <2>2, <3>2, <3>3, NoneJoined
  <2> QED
    BY <2>3, <2>4
<1> QED
  BY <1>2, <1>3

\* A full chunk is closed before the next block.
LEMMA MakeRoomText ==
  ASSUME Inv, Tidy, MakeRoom
  PROVE  Tidy' /\ Told' = Told
<1>1. /\ UNCHANGED <<lines, at, parts, fill, piece, rest>> /\ phase = "gather" /\ phase' = "place"
  BY DEF MakeRoom, packVars, cutVars
<1>2. Tidy'
  BY <1>1 DEF Tidy
<1>3. Story(chunks') \o CharsOf(current'.parts) = Story(chunks) \o CharsOf(current.parts)
  BY FlushText DEF MakeRoom, Inv
<1>4. Remaining' = Remaining
  BY <1>1, SamePage DEF Remaining
<1> QED
  BY <1>1, <1>2, <1>3, <1>4 DEF Told

\* The last chunk is closed.
LEMMA FinishText ==
  ASSUME Inv, Tidy, Finish
  PROVE  Tidy' /\ Told' = Told
<1>1. /\ UNCHANGED <<lines, at, parts, fill, piece, rest>> /\ phase = "gather" /\ phase' = "done"
  BY DEF Finish, packVars, cutVars
<1>2. Tidy'
  BY <1>1 DEF Tidy
<1>3. Story(chunks') \o CharsOf(current'.parts) = Story(chunks) \o CharsOf(current.parts)
  BY FlushText DEF Finish, Inv
<1>4. Remaining' = Remaining
  BY <1>1, SamePage DEF Remaining
<1> QED
  BY <1>1, <1>2, <1>3, <1>4 DEF Told

\* A block is split from its first piece on.
LEMMA StartSplitText ==
  ASSUME Inv, Tidy, StartSplit, Inv'
  PROVE  Tidy' /\ Told' = Told
<1>1. /\ UNCHANGED <<lines, at, current, chunks, rest>>
      /\ phase = "place" /\ phase' = "pack" /\ parts' = <<>> /\ fill' = NoFill /\ piece' = 1
      /\ Located /\ AtBlock
  BY DEF StartSplit, cutVars, Inv, Located
<1>2. Pieces(at)' = Pieces(at) /\ End(at)' = End(at) /\ Len(Pieces(at)) \in Nat
  BY <1>1, SamePieces, PiecesFromTyped
<1>3. Tidy'
  BY <1>1, <1>2 DEF Tidy, NoFill
<1>4. CharsOf(parts) \o fill.chars = CharsOf(parts') \o fill'.chars
  BY <1>1, NothingInHand
<1>5. Remaining' = Remaining
  <2>1. Remaining = FlattenSeq(Pieces(at)) \o TextFrom[End(at) + 1] /\ rest = <<>>
    BY <1>1, TextOfBlock, NothingInHand DEF Tidy
  <2>2. Remaining' = (rest \o PiecesFrom(1)) \o TextFrom[End(at) + 1]
    BY <1>1, <1>2, SamePage DEF Remaining, PiecesFrom
  <2>3. <<>> \o PiecesFrom(1) = PiecesFrom(1) /\ PiecesFrom(1) = FlattenSeq(Pieces(at))
    <3>1. PiecesFrom(1) = FlattenSeq(Pieces(at)) /\ PiecesFrom(1) \in Text
      BY <1>1, TextOfBlock, PiecesFromTyped
    <3> QED
      BY <3>1, NoneJoined
  <2> QED
    BY <2>1, <2>2, <2>3
<1> QED
  BY <1>1, <1>3, <1>4, <1>5 DEF Told

\* What is told when x goes from what remains to what is in hand.
LEMMA Advanced ==
  ASSUME Inv, Tidy, UNCHANGED <<current, chunks>>, NEW x \in Text, NEW r \in Text,
         Remaining = x \o r, Remaining' = r,
         CharsOf(parts') \o fill'.chars = (CharsOf(parts) \o fill.chars) \o x
  PROVE  Told' = Told
<1> DEFINE a == Story(chunks) \o CharsOf(current.parts)
           b == CharsOf(parts) \o fill.chars
<1>1. a \in Text /\ b \in Text
  BY ToldTyped
<1>2. Told = (a \o b) \o (x \o r) /\ Told' = (a \o (b \o x)) \o r
  BY DEF Told
<1> HIDE DEF a, b
<1>3. (a \o (b \o x)) \o r = (a \o b) \o (x \o r)
  <2>1. b \o x \in Text /\ a \o b \in Text
    BY <1>1, TextsJoin
  <2>2. a \o (b \o x) = (a \o b) \o x
    BY <1>1, Regrouped
  <2>3. ((a \o b) \o x) \o r = (a \o b) \o (x \o r)
    BY <2>1, Regrouped
  <2> QED
    BY <2>2, <2>3
<1> QED
  BY <1>2, <1>3

\* A piece is packed.
LEMMA PackText ==
  ASSUME Inv, Tidy, Pack
  PROVE  Tidy' /\ Told' = Told
<1>1. /\ UNCHANGED <<lines, at, phase, current, chunks, parts, rest>>
      /\ fill' = Grown /\ piece' = piece + 1 /\ phase = "pack" /\ piece <= Len(Pieces(at))
  BY DEF Pack, cutVars, Packing
<1>2. /\ AtBlock /\ at \in 1..N /\ Located /\ piece \in Nat \ {0} /\ fill.pieces \in Nat
      /\ Len(Pieces(at)) \in Nat /\ fill.chars \in Text /\ CharsOf(parts) \in Text
  <2>1. AtBlock /\ at \in 1..N /\ Located /\ piece \in Nat \ {0} /\ fill.pieces \in Nat
    BY <1>1, RemainingSplit DEF Inv, Packed, Fill
  <2> QED
    BY <2>1, PiecesFromTyped, ToldTyped
<1>3. Pieces(at)' = Pieces(at) /\ End(at)' = End(at) /\ piece \in 1..Len(Pieces(at))
  BY <1>1, <1>2, SamePieces
<1> DEFINE x == Pieces(at)[piece]
           t == TextFrom[End(at) + 1]
           q == PiecesFrom(piece + 1)
<1>4. x \in Text /\ q \in Text /\ t \in Text /\ PiecesFrom(piece) = x \o q
      /\ Remaining = PiecesFrom(piece) \o t /\ rest = <<>>
  <2>1. piece + 1 \in 1..(Len(Pieces(at)) + 1)
    BY <1>2, <1>3
  <2>2. x \in Text /\ q \in Text /\ PiecesFrom(piece) = x \o q
    BY <1>2, <1>3, <2>1, PiecesFromTyped
  <2> QED
    BY <1>1, <2>2, RemainingSplit DEF Tidy
<1>5. Remaining' = (rest \o q) \o t
  BY <1>1, <1>3, SamePage DEF Remaining, PiecesFrom
<1>6. fill' = [pieces |-> fill.pieces + 1, chars |-> fill.chars \o x]
  BY <1>1 DEF Grown
<1> HIDE DEF x, t, q
<1>7. Tidy'
  <2>1. piece' <= Len(Pieces(at)') + 1 /\ fill'.pieces # 0
    BY <1>1, <1>2, <1>3, <1>6
  <2> QED
    BY <1>1, <1>4, <2>1 DEF Tidy
<1>8. Remaining = x \o (q \o t) /\ Remaining' = q \o t /\ q \o t \in Text
  <2>1. (x \o q) \o t = x \o (q \o t)
    BY <1>4, Regrouped
  <2>2. q \o t \in Text /\ <<>> \o q = q
    BY <1>4, TextsJoin, NoneJoined
  <2> QED
    BY <1>4, <1>5, <2>1, <2>2
<1>9. CharsOf(parts') \o fill'.chars = (CharsOf(parts) \o fill.chars) \o x
  <2> DEFINE b == CharsOf(parts)
             f == fill.chars
  <2>1. b \in Text /\ f \in Text
    BY <1>2
  <2>2. CharsOf(parts') \o fill'.chars = b \o (f \o x)
    <3>1. parts' = parts /\ fill'.chars = fill.chars \o x
      BY <1>1, <1>6
    <3> QED
      BY <3>1
  <2> HIDE DEF b, f
  <2>3. (b \o f) \o x = b \o (f \o x)
    BY <1>4, <2>1, Regrouped, SMTT(30)
  <2> QED
    BY <2>2, <2>3 DEF b, f
<1>10. Told' = Told
  BY <1>1, <1>4, <1>8, <1>9, Advanced
<1> QED
  BY <1>7, <1>10

\* A part that is begun is closed.
LEMMA EmitFillText ==
  ASSUME Inv, Tidy, EmitFill
  PROVE  Tidy' /\ Told' = Told
<1>1. /\ UNCHANGED <<lines, at, phase, current, chunks, piece, rest>>
      /\ parts' = Append(parts, Filled(fill)) /\ fill' = NoFill /\ phase = "pack" /\ fill.pieces > 0
  BY DEF EmitFill, cutVars, Packing
<1>2. Pieces(at)' = Pieces(at) /\ End(at)' = End(at) /\ (Prose(at)' <=> Prose(at))
  BY <1>1, SamePieces
<1>3. Tidy'
  BY <1>1, <1>2 DEF Tidy, NoFill
<1>4. Remaining' = Remaining
  BY <1>1, <1>2, SamePage DEF Remaining
<1>5. CharsOf(parts') \o fill'.chars = CharsOf(parts) \o fill.chars
  <2>1. Filled(fill) \in FitPart(lines) /\ parts \in Seq(FitPart(lines))
    <3>1. Located /\ AtBlock /\ fill \in Fill(lines)
      BY <1>1 DEF Inv, Located, Packed
    <3> QED
      BY <1>1, <3>1, FilledTyped DEF Inv, Packed
  <2>2. CharsOf(parts') = CharsOf(parts) \o fill.chars
    <3>1. CharsOf(Append(parts, Filled(fill))) = CharsOf(parts) \o Filled(fill).chars
      BY <2>1, CharsMore
    <3> QED
      BY <1>1, <3>1 DEF Filled
  <2>3. CharsOf(parts) \o fill.chars \in Text
    BY ToldTyped
  <2> QED
    BY <1>1, <2>2, <2>3, NoneJoined DEF NoFill
<1> QED
  BY <1>1, <1>3, <1>4, <1>5 DEF Told

\* A piece that is to be cut is what is left of it.
LEMMA StartCutText ==
  ASSUME Inv, Tidy, StartCut
  PROVE  Tidy' /\ Told' = Told
<1>1. /\ UNCHANGED <<lines, at, current, chunks, parts, fill, piece>>
      /\ phase = "pack" /\ phase' = "cut" /\ rest' = Pieces(at)[piece] /\ piece <= Len(Pieces(at))
      /\ fill.pieces = 0 \/ ~ (fill.pieces > 0)
  BY DEF StartCut, packVars, Packing
<1>2. Pieces(at)' = Pieces(at) /\ End(at)' = End(at) /\ (Prose(at)' <=> Prose(at)) /\ fill.pieces = 0
  BY <1>1, SamePieces DEF StartCut
<1>3. Tidy'
  BY <1>1, <1>2 DEF Tidy
<1>4. Remaining' = Remaining
  <2>1. AtBlock /\ Located /\ Len(Pieces(at)) \in Nat /\ piece \in 1..(Len(Pieces(at)) + 1)
        /\ Remaining = PiecesFrom(piece) \o TextFrom[End(at) + 1]
    <3>1. AtBlock /\ Located
      BY <1>1 DEF Inv, Located
    <3> QED
      BY <1>1, <3>1, RemainingSplit, PiecesFromTyped
  <2>2. PiecesFrom(piece) = Pieces(at)[piece] \o PiecesFrom(piece + 1)
    <3>1. piece \in 1..Len(Pieces(at))
      BY <1>1, <2>1
    <3> QED
      BY <2>1, <3>1, PiecesFromTyped
  <2>3. Remaining' = (Pieces(at)[piece] \o PiecesFrom(piece + 1)) \o TextFrom[End(at) + 1]
    BY <1>1, <1>2, SamePage DEF Remaining, PiecesFrom
  <2> QED
    BY <2>1, <2>2, <2>3
<1> QED
  BY <1>1, <1>3, <1>4 DEF Told

\* Dropping the frame says nothing.
LEMMA DropWrapperText ==
  ASSUME Inv, Tidy, DropWrapper
  PROVE  Tidy' /\ Told' = Told
<1>1. UNCHANGED <<lines, at, phase, current, chunks, parts, fill, piece, rest>>
  BY DEF DropWrapper, packVars
<1>2. Pieces(at)' = Pieces(at) /\ End(at)' = End(at) /\ (Prose(at)' <=> Prose(at))
  BY <1>1, SamePieces
<1>3. Tidy'
  BY <1>1, <1>2 DEF Tidy
<1>4. Remaining' = Remaining
  BY <1>1, <1>2, SamePage DEF Remaining
<1> QED
  BY <1>1, <1>3, <1>4 DEF Told

\* Behind a piece that is cut comes the next.
LEMMA CutDoneText ==
  ASSUME Inv, Tidy, CutDone
  PROVE  Tidy' /\ Told' = Told
<1>1. /\ UNCHANGED <<lines, at, current, chunks, parts, fill, rest>>
      /\ phase = "cut" /\ phase' = "pack" /\ piece' = piece + 1 /\ rest = <<>>
  BY DEF CutDone, cutVars
<1>2. Pieces(at)' = Pieces(at) /\ End(at)' = End(at)
  BY <1>1, SamePieces
<1>3. piece \in 1..Len(Pieces(at)) /\ Len(Pieces(at)) \in Nat
  BY <1>1, RemainingSplit, PiecesFromTyped DEF Inv
<1>4. Tidy'
  <2>1. piece + 1 <= Len(Pieces(at)) + 1
    BY <1>3
  <2> QED
    BY <1>1, <1>2, <2>1 DEF Tidy
<1>5. Remaining' = Remaining
  BY <1>1, <1>2, SamePage DEF Remaining
<1> QED
  BY <1>1, <1>4, <1>5 DEF Told

\* What is cut off goes into the part in hand or is a part of its own.
LEMMA EmitText ==
  ASSUME Inv, Tidy, phase = "cut", NEW chars \in Text, Emit(chars), Inv', UNCHANGED <<lines, at>>
  PROVE  /\ CharsOf(parts') \o fill'.chars = (CharsOf(parts) \o fill.chars) \o chars
         /\ fill'.pieces = 0 => fill'.chars = <<>>
         /\ ~ Prose(at) => fill'.pieces = 0
<1>1. /\ parts \in Seq(FitPart(lines)) /\ parts' \in Seq(FitPart(lines)) /\ fill \in Fill(lines)
      /\ CharsOf(parts) \in Text /\ fill.chars \in Text /\ fill.pieces \in Nat
  <2>1. parts \in Seq(FitPart(lines)) /\ parts' \in Seq(FitPart(lines)) /\ fill \in Fill(lines)
    BY DEF Inv, Packed
  <2> QED
    BY <2>1, ToldTyped DEF Fill
<1>2. CASE Prose(at)
  <2>1. fill' = [pieces |-> 1, chars |-> chars]
    BY <1>2 DEF Emit
  <2>2. CharsOf(parts') = CharsOf(parts) \o fill.chars
    <3>1. CASE fill.pieces > 0
      <4>1. parts' = Append(parts, Filled(fill))
        BY <1>2, <3>1 DEF Emit
      <4>2. Filled(fill) \in FitPart(lines)
        BY <1>1, <4>1, AddedIn
      <4>3. CharsOf(parts') = CharsOf(parts) \o Filled(fill).chars
        BY <1>1, <4>1, <4>2, CharsMore
      <4> QED
        BY <4>3 DEF Filled
    <3>2. CASE ~ (fill.pieces > 0)
      <4>1. parts' = parts
        BY <1>2, <3>2 DEF Emit
      <4>2. fill.chars = <<>>
        BY <1>1, <3>2 DEF Tidy
      <4> QED
        BY <1>1, <4>1, <4>2, NoneJoined
    <3> QED
      BY <3>1, <3>2
  <2> QED
    BY <1>2, <2>1, <2>2
<1>3. CASE ~ Prose(at)
  <2> DEFINE part == [kind |-> lines[at].is, block |-> at, chars |-> chars,
                      cost |-> Len(chars) + IF wrap THEN Frame(at) + 1 ELSE 0]
  <2>1. parts' = Append(parts, part) /\ fill' = fill /\ part.chars = chars
    BY <1>3 DEF Emit
  <2> HIDE DEF part
  <2>2. fill.pieces = 0 /\ fill.chars = <<>>
    BY <1>3 DEF Tidy
  <2>3. part \in FitPart(lines)
    BY <1>1, <2>1, AddedIn
  <2>4. CharsOf(parts') = CharsOf(parts) \o chars
    BY <1>1, <2>1, <2>3, CharsMore
  <2>5. CharsOf(parts) \o chars \in Text
    BY <1>1, TextsJoin
  <2> QED
    BY <1>1, <2>1, <2>2, <2>4, <2>5, NoneJoined
<1> QED
  BY <1>2, <1>3

\* What is told when what remains shows x and then r, and x goes to what is in hand.
LEMMA HandedOver ==
  ASSUME Inv, Tidy, Inv', Tidy', UNCHANGED <<current, chunks>>, NEW D, NEW x \in Text,
         Only(D, Remaining) = Only(D, x) \o Only(D, Remaining'),
         CharsOf(parts') \o fill'.chars = (CharsOf(parts) \o fill.chars) \o x,
         Remaining' \in Text
  PROVE  Only(D, Told') = Only(D, Told)
<1> DEFINE a == Story(chunks) \o CharsOf(current.parts)
           b == CharsOf(parts) \o fill.chars
           r == Remaining'
           R == Remaining
<1>1. a \in Text /\ b \in Text /\ R \in Text /\ r \in Text /\ x \in Text
  BY ToldTyped
<1>2. Told = (a \o b) \o R /\ Told' = (a \o (b \o x)) \o r
  BY DEF Told
<1>3. Only(D, R) = Only(D, x) \o Only(D, r)
  OBVIOUS
<1> HIDE DEF a, b, r, R
<1>4. a \o b \in Text
  BY <1>1, TextsJoin
<1>5. a \o (b \o x) = (a \o b) \o x
  BY <1>1, Regrouped, ZenonT(30)
<1> DEFINE e == a \o b
<1>6. e \in Text /\ Told = e \o R /\ Told' = (e \o x) \o r
  BY <1>2, <1>4, <1>5
<1> HIDE DEF e
<1>7. Only(D, e \o R) = Only(D, e) \o Only(D, R)
  BY <1>1, <1>6, OnlyBoth
<1>8. Only(D, (e \o x) \o r) = (Only(D, e) \o Only(D, x)) \o Only(D, r)
  <2>1. e \in Text /\ x \in Text /\ r \in Text
    BY <1>1, <1>6
  <2> QED
    BY <2>1, OnlyThree
<1>9. Only(D, e) \in Text /\ Only(D, x) \in Text /\ Only(D, r) \in Text
  BY <1>1, <1>6, OnlyTyped
<1>10. (Only(D, e) \o Only(D, x)) \o Only(D, r) = Only(D, e) \o (Only(D, x) \o Only(D, r))
  BY <1>9, Regrouped, SMTT(30)
<1> QED
  BY <1>3, <1>6, <1>7, <1>8, <1>10

\* As much of a piece as fits is cut off.
LEMMA CutText ==
  ASSUME Inv, Tidy, Cut, Inv'
  PROVE  Tidy' /\ Told' = Told
<1> DEFINE h == SubSeq(rest, 1, CutAt)
           t == SubSeq(rest, CutAt + 1, Len(rest))
           q == PiecesFrom(piece + 1)
           e == TextFrom[End(at) + 1]
<1>1. /\ phase = "cut" /\ CutAt > 0 /\ Emit(h) /\ rest' = t
      /\ UNCHANGED <<lines, at, phase, current, chunks, piece>>
  BY DEF Cut
<1>2. CutAt \in 1..Len(rest) /\ rest \in Seq(Nat)
  BY <1>1, CutWithinReach, ReachTyped
<1>3. h \in Text /\ t \in Text /\ h \o t = rest
  <2> DEFINE c == CutAt
  <2>1. c \in 1..Len(rest) /\ Len(rest) \in Nat
    BY <1>2
  <2> HIDE DEF c
  <2>2. SubSeq(rest, 1, c) \in Seq(Nat) /\ SubSeq(rest, c + 1, Len(rest)) \in Seq(Nat)
    <3>1. /\ \A i \in 1..c : rest[i] \in Nat
          /\ \A i \in (c + 1)..Len(rest) : rest[i] \in Nat
      BY <1>2, <2>1
    <3> QED
      BY <2>1, <3>1, SubSeqProperties
  <2>3. SubSeq(rest, 1, c) \o SubSeq(rest, c + 1, Len(rest)) = SubSeq(rest, 1, Len(rest))
    <3>1. 1 \in 1..(Len(rest) + 1) /\ c \in (1 - 1)..Len(rest) /\ Len(rest) \in c..Len(rest)
      BY <2>1
    <3> QED
      BY <1>2, <3>1, ConcatAdjacentSubSeq
  <2>4. SubSeq(rest, 1, Len(rest)) = rest
    BY <1>2, SubSeqFull
  <2> QED
    BY <2>2, <2>3, <2>4 DEF c, Text
<1>4. Pieces(at)' = Pieces(at) /\ End(at)' = End(at) /\ (Prose(at)' <=> Prose(at))
  BY <1>1, SamePieces
<1>5. /\ CharsOf(parts') \o fill'.chars = (CharsOf(parts) \o fill.chars) \o h
      /\ fill'.pieces = 0 => fill'.chars = <<>>
      /\ ~ Prose(at) => fill'.pieces = 0
  BY <1>1, <1>3, EmitText
<1>6. Tidy'
  BY <1>1, <1>4, <1>5 DEF Tidy
<1>7. q \in Text /\ e \in Text /\ Remaining = (rest \o q) \o e
  BY <1>1, RemainingSplit
<1>8. Remaining' = (t \o q) \o e
  BY <1>1, <1>4, SamePage DEF Remaining, PiecesFrom
<1> HIDE DEF h, t, q, e
<1>9. Remaining = h \o ((t \o q) \o e) /\ (t \o q) \o e \in Text
  <2>1. h \in Text /\ t \in Text /\ q \in Text /\ e \in Text
    BY <1>3, <1>7
  <2>2. (h \o t) \o q = h \o (t \o q)
    BY <2>1, Regrouped
  <2>3. t \o q \in Text
    BY <2>1, TextsJoin
  <2>4. (h \o (t \o q)) \o e = h \o ((t \o q) \o e)
    BY <2>1, <2>3, Regrouped, SMTT(30)
  <2>5. (t \o q) \o e \in Text
    BY <2>1, <2>3, TextsJoin
  <2> QED
    BY <1>3, <1>7, <2>2, <2>4, <2>5
<1>10. Told' = Told
  BY <1>1, <1>3, <1>5, <1>8, <1>9, Advanced
<1> QED
  BY <1>6, <1>10

\* One that begins in such a way is a span.
LEMMA LinkSpans ==
  ASSUME lines \in Docs, NEW s \in Rests(lines), s # <<>>, NEW g \in LinksOf(lines), g.from = s[1]
  PROVE  s = Span(g.from, g.from + Len(s) - 1) /\ Len(s) \in Nat \ {0}
<1>1. s \in Seq(Nat) /\ Len(s) \in Nat \ {0}
  BY DEF Rests
<1>2. PICK k, q, r \in Int : Follows(lines, s, k, q, r)
  BY DEF Rests
<1>3. g.from = r + 1 /\ \A i \in 1..Len(s) : s[i] = r + i
  BY <1>2, LinkStarts
<1>4. PICK u \in Nat, z \in Nat \ {0} : u = g.from /\ z = Len(s)
  BY <1>1, LinkTyped
<1>5. u = r + 1 /\ \A i \in 1..z : s[i] = u + i - 1
  BY <1>2, <1>3, <1>4
<1> DEFINE t == Span(u, u + z - 1)
<1>6. t \in Seq(Nat) /\ Len(t) = z /\ \A i \in 1..z : t[i] = u + i - 1
  <2>1. PICK y \in Int : y = u + z - 1
    OBVIOUS
  <2>2. /\ t \in Seq(Nat) /\ Len(t) = IF y - u + 1 < 0 THEN 0 ELSE y - u + 1
        /\ \A i \in 1..Len(t) : t[i] = u + i - 1
    BY <2>1, SpanTyped
  <2> HIDE DEF t
  <2>3. Len(t) = z
    BY <2>1, <2>2
  <2> QED
    BY <2>2, <2>3
<1> HIDE DEF t
<1>7. s = t
  <2>1. \A i \in 1..Len(s) : s[i] = t[i]
    BY <1>4, <1>5, <1>6
  <2> QED
    BY <1>1, <1>4, <1>6, <2>1, SeqEqual
<1> QED
  BY <1>1, <1>4, <1>7 DEF t

\* The end of a span is a span.
LEMMA SpanTail ==
  ASSUME NEW a \in Nat, NEW c \in Nat, NEW m \in Nat, a <= m, m <= c + 1
  PROVE  SubSeq(Span(a, c), m - a + 1, Len(Span(a, c))) = Span(m, c)
<1> DEFINE s == Span(a, c)
           t == Span(m, c)
           p == m - a + 1
           u == SubSeq(s, p, Len(s))
<1>1. s \in Seq(Nat) /\ Len(s) = c - a + 1 /\ \A i \in 1..Len(s) : s[i] = a + i - 1
  <2>1. /\ s \in Seq(Nat) /\ Len(s) = IF c - a + 1 < 0 THEN 0 ELSE c - a + 1
        /\ \A i \in 1..Len(s) : s[i] = a + i - 1
    <3>1. c \in Int
      OBVIOUS
    <3> QED
      BY <3>1, SpanTyped, Zenon
  <2> HIDE DEF s
  <2> QED
    BY <2>1
<1>2. t \in Seq(Nat) /\ Len(t) = c - m + 1 /\ \A i \in 1..Len(t) : t[i] = m + i - 1
  <2>1. /\ t \in Seq(Nat) /\ Len(t) = IF c - m + 1 < 0 THEN 0 ELSE c - m + 1
        /\ \A i \in 1..Len(t) : t[i] = m + i - 1
    <3>1. c \in Int
      OBVIOUS
    <3> QED
      BY <3>1, SpanTyped, Zenon
  <2> HIDE DEF t
  <2> QED
    BY <2>1
<1> HIDE DEF s, t
<1>3. p \in Int /\ p >= 1 /\ Len(s) \in Int /\ p <= Len(s) + 1
  BY <1>1
<1>4. \A i \in p..Len(s) : s[i] \in Nat
  BY <1>1, <1>3
<1>5. /\ u \in Seq(Nat) /\ Len(u) = IF p <= Len(s) THEN Len(s) - p + 1 ELSE 0
      /\ \A i \in 1..(Len(s) - p + 1) : u[i] = s[p + i - 1]
  <2> HIDE DEF p
  <2> QED
    BY <1>3, <1>4, SubSeqProperties
<1> HIDE DEF u
<1>6. Len(u) = Len(t) /\ Len(s) - p + 1 = Len(t)
  BY <1>1, <1>2, <1>3, <1>5
<1>7. ASSUME NEW i \in 1..Len(t) PROVE u[i] = t[i]
  <2>1. p + i - 1 \in 1..Len(s) /\ u[i] = s[p + i - 1]
    BY <1>1, <1>2, <1>3, <1>5, <1>6
  <2> QED
    BY <1>1, <1>2, <2>1
<1>8. u = t
  <2>1. \A i \in 1..Len(u) : u[i] = t[i]
    BY <1>6, <1>7
  <2> QED
    BY <1>2, <1>5, <1>6, <2>1, SeqEqual
<1> QED
  BY <1>8 DEF u, s, t

\* One position.
LEMMA SpanOne ==
  ASSUME NEW a \in Nat
  PROVE  Span(a, a) = <<a>> /\ <<a>> \in Text
<1> DEFINE s == Span(a, a)
<1>1. /\ s \in Seq(Nat) /\ Len(s) = IF a - a + 1 < 0 THEN 0 ELSE a - a + 1
      /\ \A i \in 1..Len(s) : s[i] = a + i - 1
  <2>1. a \in Int
    OBVIOUS
  <2> QED
    BY <2>1, SpanTyped, Zenon
<1> HIDE DEF s
<1>2. Len(s) = 1 /\ s[1] = a
  BY <1>1
<1>3. s = <<a>>
  BY <1>1, <1>2
<1> QED
  BY <1>3 DEF s, Text

\* D holds nothing of the link from u to v but of its label, n characters long.
Unmarked(D, u, v, n) == u \notin D /\ \A c \in (u + n + 1)..v : c \notin D

\* A link of which the label is left shows the same, but for the markup.
LEMMA LabelShows ==
  ASSUME NEW u \in Nat, NEW v \in Nat, NEW n \in Nat, NEW w \in Nat, 1 <= n, u + n < v, v <= w,
         NEW D, Unmarked(D, u, v, n)
  PROVE  /\ Only(D, Span(u, w)) = Only(D, <<u + 1>>) \o Only(D, Span(u + 2, u + n) \o Span(v + 1, w))
         /\ <<u + 1>> \in Text /\ Span(u + 2, u + n) \o Span(v + 1, w) \in Text
<1> DEFINE p == u + 1
           q == u + 2
           r == u + n
           x == u + n + 1
           y == v + 1
           a == Span(u, u)
           b == <<u + 1>>
           c == Span(u + 2, u + n)
           d == Span(u + n + 1, v)
           e == Span(v + 1, w)
           f == Span(u + 1, w)
           g == Span(u + 2, w)
           h == Span(u + n + 1, w)
<1>0. /\ p \in Nat /\ q \in Nat /\ x \in Nat /\ y \in Nat /\ w \in Int
      /\ p - 1 = u /\ q - 1 = p /\ x - 1 = r /\ y - 1 = v
      /\ u <= p /\ p <= q /\ q <= x /\ x <= y
      /\ p <= w + 1 /\ q <= w + 1 /\ x <= w + 1 /\ y <= w + 1
  OBVIOUS
<1>1. Span(u, w) = a \o f /\ a \in Text /\ f \in Text
  <2> HIDE DEF p
  <2>1. Span(u, w) = Span(u, p - 1) \o Span(p, w) /\ Span(u, p - 1) \in Text /\ Span(p, w) \in Text
    <3>1. u \in Nat /\ p \in Nat /\ w \in Int /\ u <= p /\ p <= w + 1
      BY <1>0
    <3> QED
      BY <3>1, SpanParts, Zenon
  <2>2. Span(u, w) = Span(u, u) \o Span(p, w) /\ Span(u, u) \in Text /\ Span(p, w) \in Text
    BY <1>0, <2>1, Zenon
  <2> QED
    BY <2>2, Zenon DEF p
<1>2. f = b \o g /\ b \in Text /\ g \in Text
  <2> HIDE DEF p, q
  <2>1. Span(p, w) = Span(p, q - 1) \o Span(q, w) /\ Span(p, q - 1) \in Text /\ Span(q, w) \in Text
    <3>1. p \in Nat /\ q \in Nat /\ w \in Int /\ p <= q /\ q <= w + 1
      BY <1>0
    <3> QED
      BY <3>1, SpanParts, Zenon
  <2>2. Span(p, w) = Span(p, p) \o Span(q, w) /\ Span(q, w) \in Text
    BY <1>0, <2>1, Zenon
  <2>3. Span(p, p) = <<p>> /\ <<p>> \in Text
    BY <1>0, SpanOne
  <2>4. Span(p, w) = <<p>> \o Span(q, w) /\ <<p>> \in Text
    BY <2>2, <2>3, Zenon
  <2> QED
    BY <2>2, <2>4, Zenon DEF p, q
<1>3. g = c \o h /\ c \in Text /\ h \in Text
  <2> HIDE DEF q, r, x
  <2>1. Span(q, w) = Span(q, x - 1) \o Span(x, w) /\ Span(q, x - 1) \in Text /\ Span(x, w) \in Text
    BY <1>0, SpanParts
  <2>2. Span(q, w) = Span(q, r) \o Span(x, w) /\ Span(q, r) \in Text /\ Span(x, w) \in Text
    BY <1>0, <2>1, Zenon
  <2> QED
    BY <2>2, Zenon DEF q, r, x
<1>4. h = d \o e /\ d \in Text /\ e \in Text
  <2> HIDE DEF x, y
  <2>1. Span(x, w) = Span(x, y - 1) \o Span(y, w) /\ Span(x, y - 1) \in Text /\ Span(y, w) \in Text
    BY <1>0, SpanParts
  <2>2. Span(x, w) = Span(x, v) \o Span(y, w) /\ Span(x, v) \in Text /\ Span(y, w) \in Text
    BY <1>0, <2>1, Zenon
  <2> QED
    BY <2>2, Zenon DEF x, y
<1>5. Only(D, a) = <<>>
  <2>1. a = <<u>> /\ u \notin D
    BY SpanOne DEF Unmarked
  <2>2. \A i \in 1..Len(a) : a[i] \notin D
    BY <2>1
  <2> HIDE DEF a
  <2> QED
    BY <1>1, <2>2, OnlyNothing
<1>6. Only(D, d) = <<>>
  <2>1. x \in Nat /\ x = u + n + 1
    BY <1>0
  <2> HIDE DEF x
  <2>2. /\ Len(d) = IF v - x + 1 < 0 THEN 0 ELSE v - x + 1
        /\ \A i \in 1..Len(d) : d[i] = x + i - 1
    <3>1. v \in Int /\ d = Span(x, v)
      BY <2>1
    <3> QED
      BY <2>1, <3>1, SpanTyped, Zenon
  <2> HIDE DEF d
  <2>3. \A i \in 1..Len(d) : d[i] \in x..v
    BY <2>1, <2>2
  <2>4. \A i \in 1..Len(d) : d[i] \notin D
    BY <2>1, <2>3 DEF Unmarked
  <2> QED
    BY <1>4, <2>4, OnlyNothing
<1> HIDE DEF p, q, r, x, y, a, b, c, d, e, f, g, h
<1>7. Only(D, Span(u, w)) = <<>> \o Only(D, f) /\ Only(D, f) \in Text
  BY <1>1, <1>5, OnlyBoth, OnlyTyped
<1>8. Only(D, Span(u, w)) = Only(D, f)
  BY <1>7, NoneJoined
<1>9. Only(D, f) = Only(D, b) \o Only(D, g)
  BY <1>2, OnlyBoth
<1>10. Only(D, g) = Only(D, c) \o Only(D, h)
  BY <1>3, OnlyBoth
<1>11. Only(D, h) = <<>> \o Only(D, e) /\ Only(D, e) \in Text
  BY <1>4, <1>6, OnlyBoth, OnlyTyped, ZenonT(30)
<1>12. Only(D, h) = Only(D, e)
  BY <1>11, NoneJoined
<1>13. Only(D, c \o e) = Only(D, c) \o Only(D, e) /\ c \o e \in Text
  BY <1>3, <1>4, OnlyBoth, TextsJoin
<1> QED
  BY <1>2, <1>8, <1>9, <1>10, <1>12, <1>13 DEF b, c, e

\* A link of which only the label is kept is wider than a part.
LEMMA LinkTooWide ==
  ASSUME Inv, phase = "cut", rest # <<>>, CutAt <= 0, ~ wrap, ~ lead, NEW g \in LinkAt(1)
  PROVE  g \in Links /\ g.from \in Nat /\ g.to \in Nat /\ g.to - g.from >= Budget
<1>1. Reach \in Int /\ Len(rest) \in Nat \ {0} /\ Budget \in Nat \ {0}
  <2>1. rest \in Seq(Nat)
    BY ReachTyped
  <2> QED
    BY <2>1, ReachTyped, Constants
<1>2. Reach = IF Budget < Len(rest) THEN Budget ELSE Len(rest)
  <2>1. Reach = IF Budget - 0 - 0 < Len(rest) THEN Budget - 0 - 0 ELSE Len(rest)
    BY DEF Reach
  <2>2. Budget - 0 - 0 = Budget
    BY <1>1
  <2> QED
    BY <2>1, <2>2
<1>3. lines \in Docs
  BY DEF Inv, Located
<1> DEFINE broken == {i \in 1..Reach : \E h \in LinkAt(i) : Reach < i + h.to - h.from}
<1>4. CutAt = IF broken = {} THEN Reach ELSE Min(broken) - 1
  BY DEF CutAt
<1>5. broken # {} /\ Min(broken) \in broken
  <2>1. broken \subseteq 1..Reach /\ Reach > 0
    BY <1>1, <1>2
  <2> HIDE DEF broken
  <2>2. broken # {}
    BY <1>1, <1>4, <2>1
  <2> QED
    BY <1>1, <2>1, <2>2, BeforeBreak
<1>6. 1 \in broken
  <2>1. Min(broken) \in 1..Reach
    BY <1>5
  <2> HIDE DEF broken
  <2>2. Min(broken) = 1
    BY <1>1, <1>4, <1>5, <2>1
  <2> QED
    BY <1>5, <2>2
<1>7. PICK h \in LinkAt(1) : Reach < 1 + h.to - h.from
  BY <1>6
<1>8. /\ g \in LinksOf(lines) /\ h \in LinksOf(lines) /\ g \in Links
      /\ g.from = rest[1] /\ h.from = rest[1] /\ 1 + h.to - h.from <= Len(rest)
  BY DEF LinkAt, Links, LinksOf, N
<1>9. /\ g.from \in Nat /\ g.to \in Nat /\ g.from < g.to
      /\ h.from \in Nat /\ h.to \in Nat /\ h.from < h.to
  <2>1. \A f \in LinksOf(lines) : f.from \in Nat /\ f.to \in Nat /\ f.from < f.to
    <3> SUFFICES ASSUME NEW f \in LinksOf(lines) PROVE f.from \in Nat /\ f.to \in Nat /\ f.from < f.to
      OBVIOUS
    <3>1. f.from \in Nat /\ f.to \in Nat /\ f.label \in Nat \ {0} /\ f.from + f.label < f.to
      BY <1>3, LinkTyped
    <3> QED
      BY <3>1
  <2> QED
    BY <1>8, <2>1
<1>10. h = g
  BY <1>3, <1>8, <1>9, LinksApart
<1>11. Budget < 1 + g.to - g.from
  BY <1>1, <1>2, <1>7, <1>8, <1>9, <1>10
<1> QED
  BY <1>1, <1>8, <1>9, <1>11

\* A link that is too wide keeps its label: only its markup is not told.
LEMMA KeepLabelText ==
  ASSUME Inv, Tidy, KeepLabel, Inv'
  PROVE  /\ Tidy' /\ dropped \subseteq dropped'
         /\ \A D \in SUBSET (Ink \ dropped') : Only(D, Told') = Only(D, Told)
         /\ TooWide => TooWide'
<1>1. /\ phase = "cut" /\ ~ wrap /\ ~ lead /\ rest \in Rests(lines) /\ rest # <<>> /\ CutAt <= 0
      /\ lines \in Docs /\ rest \in Text
      /\ UNCHANGED <<lines, at, phase, current, chunks, piece>>
  BY CleanIsText DEF KeepLabel, Inv, InCut, Located
<1>2. PICK g \in LinkAt(1) :
        /\ Emit(<<g.from + 1>>)
        /\ rest' = Splice(rest, g.from, g.to, g.label)
        /\ dropped' = dropped \cup {g.from} \cup (g.from + g.label + 1)..g.to
  BY DEF KeepLabel, Splice
<1>3. g \in LinksOf(lines) /\ g.from = rest[1] /\ 1 + g.to - g.from <= Len(rest)
  BY DEF LinkAt, Links, LinksOf, N
<1>4. /\ g \in Links /\ g.from \in Nat /\ g.to \in Nat /\ g.label \in Nat \ {0}
      /\ g.from + g.label < g.to /\ g.to - g.from >= Budget
  BY <1>1, <1>3, LinkTooWide, LinkTyped
<1>5. PICK u, v, n, w \in Nat :
        /\ u = g.from /\ v = g.to /\ n = g.label /\ w = u + Len(rest) - 1
        /\ 1 <= n /\ u + n < v /\ v <= w
  <2>1. rest = Span(g.from, g.from + Len(rest) - 1) /\ Len(rest) \in Nat \ {0}
    BY <1>1, <1>3, LinkSpans
  <2>2. /\ g.from + Len(rest) - 1 \in Nat /\ 1 <= g.label /\ g.label \in Nat
        /\ g.to <= g.from + Len(rest) - 1
    BY <1>3, <1>4, <2>1
  <2> QED
    BY <1>4, <2>2
<1>16. 1 <= n /\ u + n < v /\ v <= w
  BY <1>5
<1>17. u <= v
  BY <1>16
<1>18. ASSUME NEW D, Unmarked(D, u, v, n)
       PROVE  /\ Only(D, Span(u, w)) = Only(D, <<u + 1>>) \o Only(D, Span(u + 2, u + n) \o Span(v + 1, w))
              /\ <<u + 1>> \in Text /\ Span(u + 2, u + n) \o Span(v + 1, w) \in Text
  BY <1>16, <1>18, LabelShows, Zenon
<1> DEFINE x == <<u + 1>>
           t == Span(u + 2, u + n) \o Span(v + 1, w)
           q == PiecesFrom(piece + 1)
           e == TextFrom[End(at) + 1]
<1>6. rest = Span(u, w) /\ rest' = t
  <2>1. rest = Span(u, w)
    BY <1>1, <1>3, <1>5, LinkSpans
  <2>2. rest' = Span(u + 2, u + n) \o SubSeq(rest, v - u + 2, Len(rest))
    BY <1>2, <1>5 DEF Splice
  <2>3. SubSeq(rest, v - u + 2, Len(rest)) = Span(v + 1, w)
    <3>1. PICK m \in Nat : m = v + 1 /\ u <= m /\ m <= w + 1 /\ m - u + 1 = v - u + 2
      <4>1. v + 1 \in Nat /\ u <= v + 1 /\ v + 1 <= w + 1 /\ v + 1 - u + 1 = v - u + 2
        BY <1>16, <1>17
      <4> QED
        BY <4>1
    <3>2. SubSeq(Span(u, w), m - u + 1, Len(Span(u, w))) = Span(m, w)
      BY <3>1, SpanTail
    <3> QED
      BY <2>1, <3>1, <3>2, Zenon
  <2> QED
    BY <2>1, <2>2, <2>3
<1>7. u + 1 \in Nat /\ x \in Text /\ t \in Text
  <2>1. /\ x \in Text /\ t \in Text
    <3> DEFINE D == {}
    <3>1. Unmarked(D, u, v, n)
      BY DEF Unmarked
    <3> HIDE DEF D
    <3> QED
      BY <1>16, <3>1, LabelShows, Zenon
  <2> QED
    BY <2>1
<1>8. ASSUME NEW D \in SUBSET (Ink \ dropped')
      PROVE  Only(D, rest) = Only(D, x) \o Only(D, t)
  <2>1. u \in dropped' /\ (u + n + 1)..v \subseteq dropped'
    BY <1>2, <1>5
  <2>2. Unmarked(D, u, v, n)
    BY <2>1 DEF Unmarked
  <2>3. Only(D, Span(u, w)) = Only(D, x) \o Only(D, t)
    BY <1>18, <2>2
  <2> QED
    BY <1>6, <2>3
<1>9. Pieces(at)' = Pieces(at) /\ End(at)' = End(at) /\ (Prose(at)' <=> Prose(at))
  BY <1>1, SamePieces
<1>10. /\ CharsOf(parts') \o fill'.chars = (CharsOf(parts) \o fill.chars) \o x
       /\ fill'.pieces = 0 => fill'.chars = <<>>
       /\ ~ Prose(at) => fill'.pieces = 0
  <2>1. Emit(x)
    BY <1>2, <1>5
  <2> HIDE DEF x
  <2> QED
    BY <1>1, <1>7, <2>1, EmitText
<1>11. Tidy'
  BY <1>1, <1>9, <1>10 DEF Tidy
<1>12. q \in Text /\ e \in Text /\ Remaining = (rest \o q) \o e
  BY <1>1, RemainingSplit
<1>13. Remaining' = (t \o q) \o e
  <2>1. Remaining' = (rest' \o q) \o e
    BY <1>1, <1>9, SamePage DEF Remaining, PiecesFrom
  <2> QED
    BY <1>6, <2>1
<1> HIDE DEF x, t, q, e
<1>14. ASSUME NEW D \in SUBSET (Ink \ dropped')
       PROVE  Only(D, Told') = Only(D, Told)
  <2>1. Only(D, Remaining) = (Only(D, rest) \o Only(D, q)) \o Only(D, e)
    BY <1>1, <1>12, OnlyThree
  <2>2. Only(D, Remaining') = (Only(D, t) \o Only(D, q)) \o Only(D, e)
    BY <1>7, <1>12, <1>13, OnlyThree, ZenonT(30)
  <2> DEFINE X == Only(D, x)
             T == Only(D, t)
             Q == Only(D, q)
             E == Only(D, e)
  <2>3. X \in Text /\ T \in Text /\ Q \in Text /\ E \in Text
    BY <1>7, <1>12, OnlyTyped
  <2>4. Only(D, Remaining) = ((X \o T) \o Q) \o E /\ Only(D, Remaining') = (T \o Q) \o E
    BY <1>8, <2>1, <2>2
  <2> HIDE DEF X, T, Q, E
  <2>5. (X \o T) \o Q = X \o (T \o Q)
    BY <2>3, Regrouped, SMTT(30)
  <2>6. T \o Q \in Text
    BY <2>3, TextsJoin
  <2>7. (X \o (T \o Q)) \o E = X \o ((T \o Q) \o E)
    BY <2>3, <2>6, Regrouped, SMTT(30)
  <2>8. Only(D, Remaining) = Only(D, x) \o Only(D, Remaining')
    BY <2>4, <2>5, <2>7 DEF X
  <2>9. Remaining' \in Text
    <3>1. t \o q \in Text
      BY <1>7, <1>12, TextsJoin
    <3> QED
      BY <1>12, <1>13, <3>1, TextsJoin
  <2> QED
    BY <1>1, <1>7, <1>10, <1>11, <2>8, <2>9, HandedOver
<1>15. TooWide => TooWide'
  <2> SUFFICES ASSUME TooWide, NEW c \in dropped'
               PROVE  \E h \in Links : c \in h.from..h.to /\ h.to - h.from >= Budget
    BY <1>1, SamePage DEF TooWide
  <2>1. CASE c \in dropped
    BY <2>1 DEF TooWide
  <2>2. CASE c \notin dropped
    <3>1. c \in g.from..g.to
      BY <1>2, <1>4, <2>2
    <3> QED
      BY <1>4, <3>1
  <2> QED
    BY <2>1, <2>2
<1> QED
  BY <1>2, <1>11, <1>14, <1>15

\* The parts of a block say what was packed, the part begun included.
LEMMA AllPartsSay ==
  ASSUME Inv, Tidy, phase \in {"pack", "cut"}
  PROVE  CharsOf(AllParts) = CharsOf(parts) \o fill.chars /\ AllParts \in Seq(FitPart(lines))
<1>1. AllParts \in Seq(FitPart(lines)) /\ parts \in Seq(FitPart(lines)) /\ CharsOf(parts) \in Text
      /\ fill.pieces \in Nat
  BY AllPartsTyped, ToldTyped DEF Inv, Packed, Fill
<1>2. CASE fill.pieces > 0
  <2>1. Filled(fill) \in FitPart(lines)
    <3>1. Located /\ AtBlock /\ fill \in Fill(lines)
      BY DEF Inv, Located, Packed
    <3> QED
      BY <1>2, <3>1, FilledTyped DEF Inv, Packed
  <2>2. CharsOf(Append(parts, Filled(fill))) = CharsOf(parts) \o Filled(fill).chars
    BY <1>1, <2>1, CharsMore
  <2> QED
    BY <1>1, <1>2, <2>2 DEF AllParts, Filled
<1>3. CASE ~ (fill.pieces > 0)
  <2>1. AllParts = parts /\ fill.chars = <<>>
    BY <1>1, <1>3 DEF AllParts, Tidy
  <2> QED
    BY <1>1, <2>1, NoneJoined
<1> QED
  BY <1>2, <1>3

\* What is put behind the chunks, each part alone, is said behind them.
LEMMA LeftSays ==
  ASSUME NEW ls, NEW cs \in Seq(ShownChunk(ls)), NEW ps \in Seq(FitPart(ls))
  PROVE  Story(cs \o Alone(ps)) \o CharsOf(LastAlone(ps).parts) = Story(cs) \o CharsOf(ps)
<1>1. /\ Story(Alone(ps)) \o CharsOf(LastAlone(ps).parts) = CharsOf(ps)
      /\ Alone(ps) \in Seq(ShownChunk(ls)) /\ LastAlone(ps).parts \in Seq(FitPart(ls))
  BY AloneSays
<1>2. Story(cs \o Alone(ps)) = Story(cs) \o Story(Alone(ps))
  BY <1>1, StoryBoth
<1> DEFINE a == Story(cs)
           b == Story(Alone(ps))
           c == CharsOf(LastAlone(ps).parts)
<1>3. a \in Text /\ b \in Text /\ c \in Text
  BY <1>1, StoryTyped, CharsTyped
<1> HIDE DEF a, b, c
<1>4. (a \o b) \o c = a \o (b \o c)
  BY <1>3, Regrouped
<1> QED
  BY <1>1, <1>2, <1>4 DEF a, b, c

\* The first part joins the heading before it, or comes behind it.
LEMMA PartsSay ==
  ASSUME Inv, Tidy, Deliver, AllParts # <<>>
  PROVE  Story(chunks') \o CharsOf(current'.parts)
           = (Story(chunks) \o CharsOf(current.parts)) \o CharsOf(AllParts)
<1> DEFINE a == Story(chunks)
           c == CharsOf(current.parts)
           p == AllParts[1]
           t == Tail(AllParts)
<1>1. /\ phase = "pack" /\ AllParts \in Seq(FitPart(lines)) /\ chunks \in Seq(ShownChunk(lines))
      /\ current \in FitChunk(lines) /\ current \in ShownChunk(lines)
      /\ current.parts \in Seq(FitPart(lines)) /\ a \in Text /\ c \in Text
  <2>1. phase = "pack" /\ current \in FitChunk(lines) /\ chunks \in Seq(ShownChunk(lines))
    BY DEF Deliver, Inv, Gathered
  <2>2. current \in ShownChunk(lines)
    BY <2>1, FitIsShown
  <2>3. AllParts \in Seq(FitPart(lines))
    BY <2>1, AllPartsTyped
  <2> QED
    BY <2>1, <2>2, <2>3, ToldTyped DEF ShownChunk
<1>2. CASE Joins
  <2> DEFINE joined == Add(current, p)
             h == chunks \o <<joined>>
  <2>1. chunks' = h \o Alone(t) /\ current' = LastAlone(t)
    BY <1>2 DEF Deliver, Alone, LastAlone
  <2>2. p \in FitPart(lines) /\ t \in Seq(FitPart(lines)) /\ AllParts = <<p>> \o t
    <3>1. AllParts[1] \in FitPart(lines) /\ Tail(AllParts) \in Seq(FitPart(lines))
      BY <1>1, EmptySeq, HeadTailProperties
    <3>2. AllParts = <<Head(AllParts)>> \o Tail(AllParts) /\ Head(AllParts) = AllParts[1]
      <4> DEFINE s == AllParts
      <4>1. s \in Seq(FitPart(lines)) /\ s # <<>>
        BY <1>1
      <4> HIDE DEF s
      <4>2. s = <<Head(s)>> \o Tail(s) /\ Head(s) = s[1]
        BY <4>1
      <4> QED
        BY <4>2 DEF s
    <3> QED
      BY <3>1, <3>2
  <2>3. joined \in ShownChunk(lines) /\ joined.parts = Append(current.parts, p)
    <3>1. p \in [kind : Sorts, block : 1..Len(lines), chars : Clean(lines), cost : Nat \ {0}]
      BY <2>2, Constants DEF FitPart
    <3>2. Add(current, p) \in ShownChunk(lines)
      BY <1>1, <1>2, <3>1, AddFits, FitIsShown DEF Joins
    <3> QED
      BY <3>2 DEF Add
  <2>4. CharsOf(joined.parts) = c \o p.chars /\ CharsOf(AllParts) = p.chars \o CharsOf(t)
        /\ p.chars \in Text /\ CharsOf(t) \in Text
    <3>1. CharsOf(<<p>>) = p.chars /\ <<p>> \in Seq(FitPart(lines)) /\ p.chars \in Text
      BY <2>2, CharsOfOne
    <3> QED
      BY <1>1, <2>2, <2>3, <3>1, CharsMore, CharsBoth, CharsTyped
  <2> HIDE DEF joined, p, t
  <2>5. h \in Seq(ShownChunk(lines)) /\ Story(h) = a \o CharsOf(joined.parts)
    <3>1. <<joined>> \in Seq(ShownChunk(lines)) /\ h = Append(chunks, joined)
      BY <1>1, <2>3, AppendIsConcat
    <3>2. Story(Append(chunks, joined)) = Story(chunks) \o CharsOf(joined.parts)
      BY <1>1, <2>3, StoryMore
    <3>3. Append(chunks, joined) \in Seq(ShownChunk(lines))
      BY <1>1, <2>3, AppendProperties
    <3> QED
      BY <3>1, <3>2, <3>3
  <2> HIDE DEF h
  <2>6. Story(chunks') \o CharsOf(current'.parts) = Story(h) \o CharsOf(t)
    BY <2>1, <2>2, <2>5, LeftSays
  <2> DEFINE x == p.chars
             y == CharsOf(t)
  <2>7. /\ a \in Text /\ c \in Text /\ x \in Text /\ y \in Text
        /\ Story(chunks') \o CharsOf(current'.parts) = (a \o (c \o x)) \o y
        /\ CharsOf(AllParts) = x \o y
    BY <1>1, <2>4, <2>5, <2>6
  <2> HIDE DEF a, c, x, y
  <2>8. (a \o (c \o x)) \o y = (a \o c) \o (x \o y)
    <3>1. a \in Text /\ c \in Text /\ x \in Text /\ y \in Text
      BY <2>7
    <3>2. a \o c \in Text
      BY <3>1, TextsJoin
    <3>3. a \o (c \o x) = (a \o c) \o x
      BY <3>1, Regrouped
    <3>4. ((a \o c) \o x) \o y = (a \o c) \o (x \o y)
      BY <3>1, <3>2, Regrouped
    <3> QED
      BY <3>3, <3>4
  <2> QED
    BY <2>7, <2>8 DEF a, c
<1>3. CASE ~ Joins
  <2> DEFINE first == IF current.parts # <<>> THEN <<current>> ELSE <<>>
             h == chunks \o first
  <2>1. chunks' = h \o Alone(AllParts) /\ current' = LastAlone(AllParts)
    BY <1>3 DEF Deliver, Alone, LastAlone
  <2>2. h \in Seq(ShownChunk(lines)) /\ Story(h) = a \o c
    <3>1. CASE current.parts # <<>>
      <4>1. <<current>> \in Seq(ShownChunk(lines)) /\ h = Append(chunks, current)
        BY <1>1, <3>1, AppendIsConcat
      <4>2. Story(Append(chunks, current)) = Story(chunks) \o CharsOf(current.parts)
        BY <1>1, StoryMore
      <4>3. Append(chunks, current) \in Seq(ShownChunk(lines))
        BY <1>1, AppendProperties
      <4> QED
        BY <4>1, <4>2, <4>3
    <3>2. CASE current.parts = <<>>
      <4>1. h = chunks
        BY <1>1, <3>2
      <4>2. c = <<>>
        BY <3>2, CharsOfNone
      <4> QED
        BY <1>1, <4>1, <4>2, NoneJoined
    <3> QED
      BY <3>1, <3>2
  <2> HIDE DEF h
  <2> QED
    BY <1>1, <2>1, <2>2, LeftSays, ZenonT(30)
<1> QED
  BY <1>2, <1>3

\* The parts of a block become chunks in their order.
LEMMA DeliverText ==
  ASSUME Inv, Tidy, Deliver
  PROVE  Tidy' /\ Told' = Told
<1>1. /\ phase = "pack" /\ phase' = "gather" /\ piece > Len(Pieces(at)) /\ parts' = <<>> /\ fill' = NoFill
      /\ at' = End(at) + 1 /\ UNCHANGED <<lines, rest>> /\ Located /\ AtBlock
  BY DEF Deliver, cutVars, Inv, Located
<1>2. Tidy'
  BY <1>1 DEF Tidy, NoFill
<1>3. Remaining' = Remaining /\ Remaining \in Text
  <2>1. /\ piece \in 1..(Len(Pieces(at)) + 1) /\ TextFrom[End(at) + 1] \in Text
        /\ Remaining = PiecesFrom(piece) \o TextFrom[End(at) + 1] /\ Len(Pieces(at)) \in Nat
        /\ PiecesFrom(Len(Pieces(at)) + 1) = <<>>
    <3>1. /\ piece \in 1..(Len(Pieces(at)) + 1) /\ TextFrom[End(at) + 1] \in Text
          /\ Remaining = PiecesFrom(piece) \o TextFrom[End(at) + 1]
      BY <1>1, RemainingSplit
    <3> QED
      BY <1>1, <3>1, PiecesFromTyped
  <2>2. piece = Len(Pieces(at)) + 1
    BY <1>1, <2>1
  <2>3. Remaining = TextFrom[End(at) + 1]
    BY <2>1, <2>2, NoneJoined
  <2>4. Remaining' = TextFrom[End(at) + 1]
    BY <1>1, SamePage DEF Remaining
  <2> QED
    BY <2>1, <2>3, <2>4
<1> DEFINE e == Story(chunks) \o CharsOf(current.parts)
           b == CharsOf(AllParts)
<1>4. b = CharsOf(parts) \o fill.chars /\ e \in Text /\ b \in Text
  BY <1>1, AllPartsSay, ToldTyped
<1>5. Story(chunks') \o CharsOf(current'.parts) = e \o b
  <2>1. CASE AllParts = <<>>
    <3>1. chunks' = chunks /\ current' = current
      BY <2>1 DEF Deliver
    <3>2. b = <<>>
      BY <2>1, CharsOfNone
    <3> QED
      BY <1>4, <3>1, <3>2, NoneJoined
  <2>2. CASE AllParts # <<>>
    BY <2>2, PartsSay
  <2> QED
    BY <2>1, <2>2
<1>6. CharsOf(parts') \o fill'.chars = <<>>
  <2>1. <<>> \o <<>> = <<>>
    OBVIOUS
  <2> QED
    BY <1>1, <2>1, CharsOfNone DEF NoFill
<1>7. Told = (e \o b) \o Remaining /\ Told' = ((e \o b) \o <<>>) \o Remaining
  BY <1>3, <1>4, <1>5, <1>6 DEF Told
<1> HIDE DEF e, b
<1>8. (e \o b) \o <<>> = e \o b
  <2>1. e \o b \in Text
    BY <1>4, TextsJoin
  <2> QED
    BY <2>1, NoneJoined
<1> QED
  BY <1>2, <1>7, <1>8

\* In the beginning everything remains to be told.
LEMMA ToldInit == Init => Tidy /\ Kept /\ TooWide
<1> SUFFICES ASSUME Init PROVE Tidy /\ Kept /\ TooWide
  OBVIOUS
<1>1. /\ lines \in Docs /\ at = 1 /\ phase = "gather" /\ current.parts = <<>> /\ chunks = <<>>
      /\ parts = <<>> /\ fill.chars = <<>> /\ rest = <<>> /\ dropped = {}
  BY DEF Init, Empty, NoFill
<1>2. Tidy
  BY <1>1 DEF Tidy
<1>3. Told = TextFrom[1]
  <2>1. Story(<<>>) = <<>>
    BY StoryNone
  <2>2. Remaining = TextFrom[1] /\ TextFrom[1] \in Text
    <3>1. 1 \in 1..(N + 1)
      BY <1>1, ChunkerAssumption DEF N, ChunkerAssumption
    <3> QED
      BY <1>1, <3>1, TextUnfolds DEF Remaining
  <2>3. <<>> \o <<>> = <<>>
    OBVIOUS
  <2>4. Told = <<>> \o TextFrom[1]
    BY <1>1, <2>1, <2>2, <2>3, CharsOfNone DEF Told
  <2> QED
    BY <2>2, <2>4, NoneJoined
<1>4. Kept
  BY <1>3 DEF Kept
<1>5. TooWide
  BY <1>1 DEF TooWide
<1> QED
  BY <1>2, <1>4, <1>5

\* What a step tells of what it does not leave out is what was told of it.
LEMMA ToldStep ==
  ASSUME Inv, Tidy, Next, Inv'
  PROVE  /\ Tidy' /\ dropped \subseteq dropped'
         /\ \A D \in SUBSET (Ink \ dropped') : Only(D, Told') = Only(D, Told)
         /\ TooWide => TooWide'
<1>1. CASE KeepLabel
  BY <1>1, KeepLabelText
<1>2. CASE ~ KeepLabel
  <2>1. dropped' = dropped /\ UNCHANGED lines
    BY <1>2 DEF Next, SplitLarge, SkipBlank, Gather, MakeRoom, StartSplit, Pack, EmitFill, StartCut, Cut,
                DropWrapper, CutDone, Deliver, Finish, cutVars, packVars
  <2>2. Tidy' /\ \A D \in SUBSET Ink : Only(D, Told') = Only(D, Told)
    <3>1. CASE Gather
      BY <3>1, GatherText
    <3>2. CASE ~ Gather
      <4>1. Tidy' /\ Told' = Told
        BY <1>2, <3>2, SkipBlankText, MakeRoomText, StartSplitText, PackText, EmitFillText, StartCutText,
           CutText, DropWrapperText, CutDoneText, DeliverText, FinishText
        DEF Next, SplitLarge
      <4> QED
        BY <4>1
    <3> QED
      BY <3>1, <3>2
  <2>3. TooWide => TooWide'
    BY <2>1, SamePage DEF TooWide
  <2> QED
    BY <2>1, <2>2, <2>3
<1> QED
  BY <1>1, <1>2

\* For every page and every budget, the text in the bodies of its blocks is not
\* lost, repeated or reordered: what is in the chunks, in hand and still to come
\* shows all of it, but for the markup of links that are wider than a part.  Fences
\* and table headers are outside TextFrom: parts repeat them or leave them out,
\* where HeadersKept says (chunk.py:102, 121-143).
THEOREM SplitKeepsText == Spec => []TextKept
<1> DEFINE K == Tidy /\ Kept /\ TooWide
<1>1. Init => K
  BY ToldInit
<1>2. ASSUME Inv, K, [Next]_vars, Inv' PROVE K'
  <2>1. CASE Next
    <3>1. /\ Tidy' /\ dropped \subseteq dropped'
          /\ \A D \in SUBSET (Ink \ dropped') : Only(D, Told') = Only(D, Told)
          /\ TooWide'
      BY <1>2, <2>1, ToldStep
    <3>2. UNCHANGED lines
      BY <2>1 DEF Next, SplitLarge, SkipBlank, Gather, MakeRoom, StartSplit, Pack, EmitFill, StartCut,
                  Cut, DropWrapper, KeepLabel, CutDone, Deliver, Finish
    <3>3. Ink' = Ink /\ TextFrom' = TextFrom
      BY <3>2, SamePage
    <3>4. Kept'
      <4> SUFFICES ASSUME NEW D \in SUBSET (Ink' \ dropped')
                   PROVE  Only(D, Told') = Only(D, TextFrom'[1])
        BY DEF Kept
      <4>1. D \in SUBSET (Ink \ dropped') /\ D \in SUBSET (Ink \ dropped)
        BY <3>1, <3>3
      <4>2. Only(D, Told) = Only(D, TextFrom[1])
        BY <1>2, <4>1 DEF Kept
      <4> QED
        BY <3>1, <3>3, <4>1, <4>2
    <3> QED
      BY <3>1, <3>4
  <2>2. CASE UNCHANGED vars
    <3>1. UNCHANGED <<lines, at, phase, current, chunks, parts, fill, piece, rest, dropped>>
      BY <2>2 DEF vars, packVars, cutVars
    <3>2. /\ Pieces(at)' = Pieces(at) /\ End(at)' = End(at) /\ (Prose(at)' <=> Prose(at))
          /\ TextFrom' = TextFrom /\ Ink' = Ink /\ Links' = Links
      BY <3>1, SamePage, SamePieces
    <3>3. Tidy'
      BY <1>2, <3>1, <3>2 DEF Tidy
    <3>4. Told' = Told
      <4>1. Remaining' = Remaining
        BY <3>1, <3>2 DEF Remaining
      <4> QED
        BY <3>1, <4>1 DEF Told
    <3>5. Kept' /\ TooWide'
      BY <1>2, <3>1, <3>2, <3>4 DEF Kept, TooWide
    <3> QED
      BY <3>3, <3>5
  <2> QED
    BY <1>2, <2>1, <2>2
<1>3. K => TextKept
  <2> SUFFICES ASSUME K PROVE TextKept
    OBVIOUS
  <2>1. Only(Ink \ dropped, Told) = Only(Ink \ dropped, TextFrom[1])
    BY DEF Kept
  <2> QED
    BY <2>1 DEF TextKept, Visible, TooWide
<1> QED
  BY <1>1, <1>2, <1>3, SplitCorrect, PTL DEF Spec

\* What docs/DESIGN.md:793 promises of the end, as far as the code keeps it: when
\* split is done, the chunks show the whole page, but for one heading at most,
\* the one after other blocks that the last flush has kept for a next chunk.
AllButHeading ==
  phase = "done" =>
    /\ current.parts = <<>> \/ (Len(current.parts) = 1 /\ EndsInHeading(current))
    /\ Visible(Story(chunks) \o CharsOf(current.parts)) = Visible(TextFrom[1])

\* Split is done behind the last line, and keeps no more than a heading.
Ended ==
  phase = "done" =>
    /\ at > N
    /\ current.parts = <<>> \/ (Len(current.parts) = 1 /\ EndsInHeading(current))

\* Nothing is done after the end.
LEMMA EndedStep ==
  ASSUME Inv, Ended, [Next]_vars
  PROVE  Ended'
<1>1. CASE Finish
  <2>1. at > N /\ UNCHANGED <<lines, at>> /\ Flush
    BY <1>1 DEF Finish
  <2>2. N' = N
    BY <2>1, SamePage
  <2>3. \/ current' = Empty
        \/ Len(current.parts) > 1 /\ EndsInHeading(current) /\ current' = Add(Empty, Last(current.parts))
    BY <2>1 DEF Flush
  <2>4. CASE current' = Empty
    BY <2>1, <2>2, <2>4 DEF Ended, Empty
  <2>5. CASE EndsInHeading(current) /\ current' = Add(Empty, Last(current.parts))
    <3>1. current'.parts = <<Last(current.parts)>>
      BY <2>5 DEF Add, Empty
    <3>2. Last(current.parts).kind = "heading"
      BY <2>5 DEF EndsInHeading
    <3>3. Len(current'.parts) = 1 /\ current'.parts # <<>> /\ Last(current'.parts) = Last(current.parts)
      BY <3>1 DEF Last
    <3> QED
      BY <2>1, <2>2, <3>2, <3>3 DEF Ended, EndsInHeading
  <2> QED
    BY <2>3, <2>4, <2>5
<1>2. CASE Next /\ ~ Finish
  <2>1. SkipBlank \/ Gather \/ MakeRoom \/ SplitLarge
    BY <1>2 DEF Next
  <2>2. ASSUME SkipBlank \/ Gather \/ MakeRoom PROVE phase' # "done"
    BY <2>2 DEF SkipBlank, Gather, MakeRoom
  <2>3. ASSUME StartSplit \/ Pack \/ EmitFill \/ StartCut PROVE phase' # "done"
    BY <2>3 DEF StartSplit, Pack, EmitFill, StartCut, Packing
  <2>4. ASSUME Cut \/ DropWrapper \/ KeepLabel \/ CutDone PROVE phase' # "done"
    BY <2>4 DEF Cut, DropWrapper, KeepLabel, CutDone
  <2>5. ASSUME Deliver PROVE phase' # "done"
    BY <2>5 DEF Deliver
  <2> QED
    BY <2>1, <2>2, <2>3, <2>4, <2>5 DEF SplitLarge, Ended
<1>3. CASE UNCHANGED vars
  <2>1. UNCHANGED <<lines, at, phase, current>>
    BY <1>3 DEF vars
  <2>2. N' = N
    BY <2>1, SamePage
  <2> QED
    BY <2>1, <2>2 DEF Ended, EndsInHeading
<1> QED
  BY <1>1, <1>2, <1>3

\* Of the bodies of the blocks at most one heading, the one that the run chunks_lost
\* finds, is not in the chunks when split is done (chunk.py:260-270, 310-311).
\* Fences and table headers are not part of this: see HeadersKept.
THEOREM SplitDelivers == Spec => []AllButHeading
<1>1. Init => Ended
  BY DEF Init, Ended
<1>2. Inv /\ Ended /\ [Next]_vars => Ended'
  BY EndedStep
<1>3. ASSUME Inv, TextKept, Ended PROVE AllButHeading
  <2> SUFFICES ASSUME phase = "done" PROVE AllButHeading
    BY DEF AllButHeading
  <2>1. at = N + 1 /\ N + 1 \in 1..(N + 1) /\ lines \in Docs
    <3>1. at \in 1..(N + 1) /\ lines \in Docs /\ N \in Nat
      BY <1>3, ChunkerAssumption DEF Inv, Located, N, ChunkerAssumption
    <3>2. at > N
      BY <1>3 DEF Ended
    <3> QED
      BY <3>1, <3>2
  <2>2. Remaining = <<>>
    <3>1. TextFrom[N + 1] = Onward(TextFrom, N + 1)
      BY <2>1, TextUnfolds
    <3>2. Remaining = TextFrom[N + 1]
      BY <2>1 DEF Remaining
    <3> QED
      BY <3>1, <3>2 DEF Onward
  <2>3. CharsOf(parts) \o fill.chars = <<>>
    <3>1. parts = <<>> /\ fill = NoFill
      BY <1>3 DEF Inv, Packed
    <3>2. fill.chars = <<>> /\ <<>> \o <<>> = <<>>
      BY <3>1 DEF NoFill
    <3> QED
      BY <3>1, <3>2, CharsOfNone
  <2>4. Story(chunks) \o CharsOf(current.parts) \in Text
    <3>1. Story(chunks) \in Text
      BY <1>3, StoryTyped DEF Inv, Gathered
    <3>2. current.parts \in Seq(FitPart(lines))
      BY <1>3 DEF Inv, Gathered, FitChunk, ShownChunk
    <3> QED
      BY <3>1, <3>2, CharsTyped, TextsJoin
  <2> DEFINE told == Story(chunks) \o CharsOf(current.parts)
  <2>5. Told = told
    <3>1. Told = (told \o <<>>) \o <<>>
      BY <2>2, <2>3 DEF Told
    <3> HIDE DEF told
    <3>2. told \in Text
      BY <2>4 DEF told
    <3>3. told \o <<>> = told
      BY <3>2, NoneJoined
    <3> QED
      BY <3>1, <3>3
  <2>6. Visible(told) = Visible(TextFrom[1])
    BY <1>3, <2>5 DEF TextKept
  <2> QED
    BY <1>3, <2>6 DEF AllButHeading, Ended
<1> QED
  BY <1>1, <1>2, <1>3, SplitCorrect, SplitKeepsText, PTL DEF Spec
=============================================================================
