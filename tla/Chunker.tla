------------------------------- MODULE Chunker -------------------------------
(***************************************************************************)
(* Splitting a page into parts: Chunker.split of browsr/chunk.py.          *)
(*                                                                         *)
(* A page is a sequence of lines, taken block by block.  Blocks that fit   *)
(* are gathered in the current chunk; one that does not is packed piece by *)
(* piece (a row, a line of code, a sentence), and a piece that is too long *)
(* by itself is cut.  One step per iteration of the loops of split,        *)
(* _split_para, _split_code, _split_table and _hard_split.                 *)
(*                                                                         *)
(* A character is its position in the page and costs 1, and costs add up,  *)
(* as with cost_fn = len.  The service passes another cost: the estimate   *)
(* of the JSON text with every placeholder widened (service.py:251-257),   *)
(* which is neither additive nor monotone inside a placeholder.            *)
(* A line of prose is a sentence, with the line feed after it.  A          *)
(* placeholder [label](@Ln) is a link of its line; links do not overlap,   *)
(* and only prose can begin with one: a heading, a fence or a row begins   *)
(* with its mark.                                                          *)
(***************************************************************************)
EXTENDS Integers, Sequences, FiniteSets, SequencesExt

CONSTANTS
  Docs,    \* pages to consider
  Budget,  \* max_tokens - envelope_reserve
  Gap      \* cost of the blank line between two blocks

Lines ==
  [is : {"blank", "text", "heading", "bar", "fence"}, from : Nat \ {0}, len : Nat, mark : Nat,
   links : SUBSET [from : Nat, label : Nat \ {0}, to : Nat]]

ASSUME ChunkerAssumption ==
  /\ \A d \in Docs :
       /\ d \in Seq(Lines)
       /\ \A k, l \in 1..Len(d) : k < l => d[k].from + d[k].len < d[l].from
       /\ \A k \in 1..Len(d) : d[k].is # "blank" => d[k].len > 0
       /\ \A k \in 1..Len(d) : \A g \in d[k].links :
            /\ d[k].from <= g.from /\ g.from + g.label < g.to /\ g.to < d[k].from + d[k].len
            /\ d[k].is # "text" => d[k].from < g.from
            /\ \A h \in d[k].links : g = h \/ g.to < h.from \/ h.to < g.from
  /\ Budget \in Nat \ {0} /\ Gap \in Nat

VARIABLES
  lines,    \* the page
  at,       \* the line at which the next block starts
  phase,    \* "gather", "place", "pack", "cut" or "done"
  current,  \* the blocks gathered for the next chunk
  chunks,   \* the finished chunks
  parts,    \* parts of the block being split
  fill,     \* the part being packed
  piece,    \* the piece of the block being packed
  rest,     \* what is left of a piece being cut
  wrap,     \* cut pieces are put between fences or under the header of the table
  lead,     \* the heading before the block has to fit with the next part
  dropped   \* history: link markup that was left out

packVars == <<parts, fill, piece>>
cutVars == <<rest, wrap, lead, dropped>>
vars == <<lines, at, phase, current, chunks, packVars, cutVars>>

Empty == [parts |-> <<>>, cost |-> 0]
NoFill == [pieces |-> 0, chars |-> <<>>]

Init ==
  /\ lines \in Docs
  /\ at = 1 /\ phase = "gather"
  /\ current = Empty /\ chunks = <<>>
  /\ parts = <<>> /\ fill = NoFill /\ piece = 1
  /\ rest = <<>> /\ wrap = FALSE /\ lead = FALSE /\ dropped = {}

-----------------------------------------------------------------------------
(* The block that starts at line b                                         *)

N == Len(lines)
To(l) == lines[l].from + lines[l].len - 1
Span(first, last) == [i \in 1..(last - first + 1) |-> first + i - 1]

\* A fence is closed by one of at least its length with nothing after it.
Closing(b) ==
  {l \in (b + 1)..N : lines[l].is = "fence" /\ lines[l].mark >= lines[b].mark
                      /\ lines[l].len = lines[l].mark}

Same(b) == {l \in b..N : \A k \in b..l : lines[k].is = lines[b].is}

\* The last line of the block.
End(b) ==
  CASE lines[b].is = "fence" -> IF Closing(b) = {} THEN N ELSE Min(Closing(b))
    [] lines[b].is = "heading" -> b
    [] OTHER -> Max(Same(b))

Prose(b) == lines[b].is \in {"text", "heading"}

\* The lines without the fences, if the last is written as the first, or
\* without the header of the table.
BodyStart(b) == b + (IF lines[b].is = "fence" THEN 1 ELSE IF lines[b].is = "bar" THEN 2 ELSE 0)
BodyEnd(b) ==
  IF lines[b].is = "fence" /\ End(b) \in Closing(b) /\ lines[End(b)].mark = lines[b].mark
  THEN End(b) - 1 ELSE End(b)

Bare(b) == BodyStart(b) > BodyEnd(b)
Framed(b) == ~ Prose(b) /\ ~ Bare(b)

Line(b, l) == Span(lines[l].from, IF Prose(b) /\ l < End(b) THEN lines[l + 1].from - 1 ELSE To(l))

Pieces(b) ==
  IF Bare(b) THEN <<Span(lines[b].from, To(End(b)))>>
  ELSE [i \in 1..(BodyEnd(b) - BodyStart(b) + 1) |-> Line(b, BodyStart(b) + i - 1)]

\* Opening and closing fence, or header and separator line of the table.
Frame(b) ==
  IF lines[b].is = "fence" THEN lines[b].len + 1 + lines[b].mark
  ELSE lines[b].len + 1 + lines[b + 1].len

\* What a part of the block costs besides its text.
Around(b) == IF Framed(b) THEN Frame(b) + 1 ELSE 0

Whole(b) ==
  [kind |-> lines[b].is, block |-> b,
   chars |-> IF Bare(b) THEN Span(lines[b].from, To(End(b)))
             ELSE Span(lines[BodyStart(b)].from, To(BodyEnd(b))),
   cost |-> To(End(b)) - lines[b].from + 1]

-----------------------------------------------------------------------------
(* Chunks                                                                  *)

Joined(a, b) == IF a = 0 THEN b ELSE a + Gap + b
Add(c, p) == [parts |-> Append(c.parts, p), cost |-> Joined(c.cost, p.cost)]
Fits(cost) == cost <= Budget

EndsInHeading(c) == c.parts # <<>> /\ Last(c.parts).kind = "heading"

\* Mutant: flush does not give the heading to the next chunk but loses it.
FlushForgetting ==
  LET keep == Len(current.parts) > 1 /\ EndsInHeading(current)
      shown == [parts |-> Front(current.parts), cost |-> current.cost - Gap - Last(current.parts).cost]
  IN  /\ chunks' = IF current.parts = <<>> THEN chunks
                   ELSE Append(chunks, IF keep THEN shown ELSE current)
      /\ current' = Empty

\* flush: a heading at the end stays for the next chunk.
Flush ==
  LET keep == Len(current.parts) > 1 /\ EndsInHeading(current)
      shown == [parts |-> Front(current.parts), cost |-> current.cost - Gap - Last(current.parts).cost]
  IN  /\ chunks' = IF current.parts = <<>> THEN chunks
                   ELSE Append(chunks, IF keep THEN shown ELSE current)
      /\ current' = IF keep THEN Add(Empty, Last(current.parts)) ELSE Empty

\* Mutant: the line after an empty line is skipped too.
SkipTwo ==
  /\ phase = "gather" /\ at <= N /\ lines[at].is = "blank"
  /\ at' = at + 2
  /\ UNCHANGED <<lines, phase, current, chunks, packVars, cutVars>>

SkipBlank ==
  /\ phase = "gather" /\ at <= N /\ lines[at].is = "blank"
  /\ at' = at + 1
  /\ UNCHANGED <<lines, phase, current, chunks, packVars, cutVars>>

AtBlock == at <= N /\ lines[at].is # "blank"
BlockFits == Fits(Joined(current.cost, Whole(at).cost))
HeadingBreak == lines[at].is = "heading" /\ current.parts # <<>> /\ 2 * current.cost >= Budget

Gather ==
  /\ AtBlock /\ BlockFits
  /\ phase = "place" \/ (phase = "gather" /\ ~ HeadingBreak)
  /\ current' = Add(current, Whole(at))
  /\ at' = End(at) + 1
  /\ phase' = "gather"
  /\ UNCHANGED <<lines, chunks, packVars, cutVars>>

\* A heading that is alone in the current chunk waits for its block.
MakeRoom ==
  /\ phase = "gather" /\ AtBlock /\ (~ BlockFits \/ HeadingBreak)
  /\ IF Len(current.parts) > 1 \/ (current.parts # <<>> /\ ~ EndsInHeading(current))
     THEN Flush ELSE UNCHANGED <<current, chunks>>
  /\ phase' = "place"
  /\ UNCHANGED <<lines, at, packVars, cutVars>>

-----------------------------------------------------------------------------
(* Splitting a block                                                       *)

StartSplit ==
  /\ phase = "place" /\ ~ BlockFits
  /\ phase' = "pack"
  /\ parts' = <<>> /\ fill' = NoFill /\ piece' = 1
  /\ UNCHANGED <<lines, at, current, chunks, cutVars>>

\* Mutant: only the first part gets the fences or the header of the table.
FilledOnce(f) ==
  [kind |-> lines[at].is, block |-> at, chars |-> f.chars,
   cost |-> Len(f.chars) + IF Framed(at) /\ parts = <<>> THEN Frame(at) + f.pieces ELSE 0]

Filled(f) ==
  [kind |-> lines[at].is, block |-> at, chars |-> f.chars,
   cost |-> Len(f.chars) + IF Framed(at) THEN Frame(at) + f.pieces ELSE 0]

Leads == parts = <<>> /\ current.parts # <<>> /\ ~ Bare(at)
\* Mutant: the heading is not counted with the first part.
LeadCostOfNone == 0
LeadCost == IF Leads THEN current.cost + Gap ELSE 0
Packing == phase = "pack" /\ piece <= Len(Pieces(at))
Grown == [pieces |-> fill.pieces + 1, chars |-> fill.chars \o Pieces(at)[piece]]
PieceFits == Fits(LeadCost + Filled(Grown).cost)

Pack ==
  /\ Packing /\ PieceFits
  /\ fill' = Grown
  /\ piece' = piece + 1
  /\ UNCHANGED <<lines, at, phase, current, chunks, parts, cutVars>>

EmitFill ==
  /\ Packing /\ ~ PieceFits /\ fill.pieces > 0
  /\ parts' = Append(parts, Filled(fill))
  /\ fill' = NoFill
  /\ UNCHANGED <<lines, at, phase, current, chunks, piece, cutVars>>

StartCut ==
  /\ Packing /\ ~ PieceFits /\ fill.pieces = 0
  /\ phase' = "cut"
  /\ rest' = Pieces(at)[piece]
  /\ wrap' = Framed(at)
  /\ lead' = Leads
  /\ UNCHANGED <<lines, at, current, chunks, packVars, dropped>>

Links == UNION {lines[l].links : l \in 1..N}
LinkAt(i) ==
  {g \in Links : /\ g.from = rest[i] /\ i + g.to - g.from <= Len(rest)
                 /\ rest[i + g.to - g.from] = g.to}

\* As much of rest as fits.
Reach ==
  LET room == Budget - (IF lead THEN current.cost + Gap ELSE 0)
                     - (IF wrap THEN Frame(at) + 1 ELSE 0)
  IN  IF room < Len(rest) THEN room ELSE Len(rest)

\* Mutant: links are cut like text.
CutAnywhere == Reach

\* No cut inside a link: it goes to the next part as a whole.
CutAt ==
  LET broken == {i \in 1..Reach : \E g \in LinkAt(i) : Reach < i + g.to - g.from}
  IN  IF broken = {} THEN Reach ELSE Min(broken) - 1

\* Sentences go on filling the last fragment; lines and rows do not.
Emit(chars) ==
  IF Prose(at)
  THEN /\ parts' = IF fill.pieces > 0 THEN Append(parts, Filled(fill)) ELSE parts
       /\ fill' = [pieces |-> 1, chars |-> chars]
  ELSE /\ parts' = Append(parts, [kind |-> lines[at].is, block |-> at, chars |-> chars,
                                  cost |-> Len(chars) + IF wrap THEN Frame(at) + 1 ELSE 0])
       /\ UNCHANGED fill

Cut ==
  /\ phase = "cut" /\ rest # <<>> /\ CutAt > 0
  /\ Emit(SubSeq(rest, 1, CutAt))
  /\ rest' = SubSeq(rest, CutAt + 1, Len(rest))
  /\ lead' = FALSE
  /\ UNCHANGED <<lines, at, phase, current, chunks, piece, wrap, dropped>>

\* Mutant: the wrapper is kept although nothing fits into it.
KeepWrapper ==
  /\ phase = "cut" /\ rest # <<>> /\ CutAt <= 0 /\ (wrap \/ lead)
  /\ UNCHANGED vars

\* Nothing fits: plain text, and no longer with the heading.
DropWrapper ==
  /\ phase = "cut" /\ rest # <<>> /\ CutAt <= 0 /\ (wrap \/ lead)
  /\ wrap' = FALSE /\ lead' = FALSE
  /\ UNCHANGED <<lines, at, phase, current, chunks, packVars, rest, dropped>>

\* A link that is too large for a part keeps its label only; one character goes out.
KeepLabel ==
  /\ phase = "cut" /\ rest # <<>> /\ CutAt <= 0 /\ ~ wrap /\ ~ lead
  /\ \E g \in LinkAt(1) :
       /\ Emit(<<g.from + 1>>)
       /\ rest' = Span(g.from + 2, g.from + g.label)
                  \o SubSeq(rest, g.to - g.from + 2, Len(rest))
       /\ dropped' = dropped \cup {g.from} \cup (g.from + g.label + 1)..g.to
  /\ UNCHANGED <<lines, at, phase, current, chunks, piece, wrap, lead>>

CutDone ==
  /\ phase = "cut" /\ rest = <<>>
  /\ phase' = "pack"
  /\ piece' = piece + 1
  /\ UNCHANGED <<lines, at, current, chunks, parts, fill, cutVars>>

AllParts == IF fill.pieces > 0 THEN Append(parts, Filled(fill)) ELSE parts

\* Mutant: the first part joins the heading in any case.
JoinsAlways == current.parts # <<>>
Joins == current.parts # <<>> /\ Fits(Joined(current.cost, AllParts[1].cost))

\* The first part joins the heading if it can; the last one may be continued.
Deliver ==
  LET left == IF Joins THEN Tail(AllParts) ELSE AllParts
      first == IF Joins THEN <<Add(current, AllParts[1])>>
               ELSE IF current.parts # <<>> THEN <<current>> ELSE <<>>
  IN  /\ phase = "pack" /\ piece > Len(Pieces(at))
      /\ IF AllParts = <<>> THEN UNCHANGED <<current, chunks>>
         ELSE /\ chunks' = chunks \o first \o [i \in 1..(Len(left) - 1) |-> Add(Empty, left[i])]
              /\ current' = IF left = <<>> THEN Empty ELSE Add(Empty, Last(left))
      /\ parts' = <<>> /\ fill' = NoFill
      /\ at' = End(at) + 1
      /\ phase' = "gather"
      /\ UNCHANGED <<lines, piece, cutVars>>

Finish ==
  /\ phase = "gather" /\ at > N
  /\ Flush
  /\ phase' = "done"
  /\ UNCHANGED <<lines, at, packVars, cutVars>>

-----------------------------------------------------------------------------

SplitLarge ==
  \/ StartSplit \/ Pack \/ EmitFill \/ StartCut \/ Cut \/ DropWrapper \/ KeepLabel
  \/ CutDone \/ Deliver

Next == SkipBlank \/ Gather \/ MakeRoom \/ SplitLarge \/ Finish

Spec == Init /\ [][Next]_vars

\* split runs in one thread and does not wait for anything.
FairSpec == Spec /\ WF_vars(Next)

-----------------------------------------------------------------------------

Part == [kind : {"text", "heading", "bar", "fence"}, block : Nat, chars : Seq(Nat), cost : Nat]
Chunk == [parts : Seq(Part), cost : Nat]

TypeOK ==
  /\ lines \in Seq(Lines) /\ at \in 1..(N + 1)
  /\ phase \in {"gather", "place", "pack", "cut", "done"}
  /\ current \in Chunk /\ chunks \in Seq(Chunk)
  /\ parts \in Seq(Part)
  /\ fill \in [pieces : Nat, chars : Seq(Nat)] /\ piece \in Nat \ {0}
  /\ rest \in Seq(Nat) /\ wrap \in BOOLEAN /\ lead \in BOOLEAN
  /\ dropped \subseteq Nat

\* No part that a client is shown is larger than the budget, with its heading,
\* fences and header lines (docs/SPEC.md:13; chunk.py:96-97 and every split).
ChunksFit == \A i \in 1..Len(chunks) : chunks[i].cost <= Budget

CharsOf(ps) == FlattenSeq([i \in 1..Len(ps) |-> ps[i].chars])

\* The text in the bodies of the blocks that start at line b or later: fences and
\* table headers are repeated, or left out (HeadersKept).
TextFrom ==
  LET from[b \in 1..(N + 1)] ==
        IF b = N + 1 THEN <<>>
        ELSE IF lines[b].is = "blank" THEN from[b + 1]
        ELSE FlattenSeq(Pieces(b)) \o from[End(b) + 1]
  IN  from

Remaining ==
  IF phase \in {"pack", "cut"}
  THEN rest \o FlattenSeq(SubSeq(Pieces(at), IF phase = "cut" THEN piece + 1 ELSE piece,
                                 Len(Pieces(at)))) \o TextFrom[End(at) + 1]
  ELSE TextFrom[at]

\* What of s is in C.
Only(C, s) == FlattenSeq([i \in 1..Len(s) |-> IF s[i] \in C THEN <<s[i]>> ELSE <<>>])

\* The characters to be found again: not the line feeds between lines.
Ink == UNION {lines[l].from..To(l) : l \in 1..N}
Visible(s) == Only(Ink \ dropped, s)

Story(cs) == FlattenSeq([i \in 1..Len(cs) |-> CharsOf(cs[i].parts)])

\* What has been put into chunks, what is in hand and what remains.
Told == (Story(chunks) \o CharsOf(current.parts)) \o (CharsOf(parts) \o fill.chars) \o Remaining

\* No text of the body of a block is lost, repeated or reordered: what has been put
\* into chunks, what is in hand and what remains are the bodies of the page, but
\* for the markup of links wider than a part (chunk.py:102, 121-143).
TextKept ==
  /\ Visible(Told) = Visible(TextFrom[1])
  /\ \A c \in dropped : \E g \in Links : c \in g.from..g.to /\ g.to - g.from >= Budget

ShownParts ==
  {current.parts[i] : i \in 1..Len(current.parts)} \cup {parts[i] : i \in 1..Len(parts)}
  \cup UNION {{chunks[i].parts[j] : j \in 1..Len(chunks[i].parts)} : i \in 1..Len(chunks)}

\* The heading that the first text in the body of block b may wait behind.
HeadingBefore(b) ==
  {h \in 1..(b - 1) : lines[h].is = "heading" /\ \A k \in (h + 1)..(b - 1) : lines[k].is = "blank"}

FirstInBody(b, l) == \A k \in BodyStart(b)..(l - 1) : lines[k].len = 0

\* The frame of block b leaves no room for a character or a link of its line l,
\* alone or with the heading before it.
Cramped(b, l) ==
  \E before \in {0} \cup (IF FirstInBody(b, l) THEN {lines[h].len + Gap : h \in HeadingBefore(b)} ELSE {}) :
    LET room == Budget - before - Around(b)
    IN  room < 1 \/ \E g \in lines[l].links : g.to - g.from >= room

\* Every part of a fenced block has its fences and every part of a table its header,
\* unless the line it shows could not be cut behind them.
HeadersKept ==
  \A p \in ShownParts : Framed(p.block) /\ p.cost = Len(p.chars) =>
    \E l \in BodyStart(p.block)..BodyEnd(p.block) :
      Head(p.chars) \in lines[l].from..To(l) /\ Cramped(p.block, l)

\* A link is never cut: a part shows it whole, or nothing of it but its label
\* (chunk.py:121-130, tests/unit/test_chunk.py:53-60).
LinksWhole ==
  \A s \in {p.chars : p \in ShownParts} \cup {fill.chars} : \A g \in Links :
    LET has == {c \in g.from..g.to : \E i \in 1..Len(s) : s[i] = c}
    IN  has = g.from..g.to \/ has \subseteq (g.from + 1)..(g.from + g.label)

\* Behind text of this cost not a character of p fits, or not the link it begins with.
NoRoom(cost, p) ==
  LET room == Budget - cost - Around(p.block)
  IN  room < 1 \/ \E g \in Links : Head(p.chars) = g.from /\ g.to - g.from >= room

\* The next block begins in the chunk after a heading only if nothing of it could
\* follow the heading, with the fences or the header it needs; a block without a
\* body is not cut for a heading, and a heading kept for the next chunk leaves the
\* one before it (chunk.py:260-270, 287-309, docs/DESIGN.md:1208).
HeadingsLead ==
  LET all == Append(chunks, current)
  IN  \A i \in 1..Len(chunks) :
        EndsInHeading(all[i]) /\ all[i + 1].parts # <<>> =>
          LET heading == Last(all[i].parts)
              next == Head(all[i + 1].parts)
              behind == all[i].cost + Gap
          IN  \/ NoRoom(behind, next)
              \/ Bare(next.block) /\ behind + Whole(next.block).cost > Budget
              \/ next.kind = "heading" /\ (next.block = heading.block \/ next.cost = lines[next.block].len)

\* Cutting always makes progress, whatever the page and the budget: the loop of
\* _hard_split ends and with it split (chunk.py:107-146).
SplitEnds == <>(phase = "done")

\* docs/DESIGN.md:793: a heading at the end of the current chunk goes to the
\* next one, so when split is done everything is in a chunk.
AllDelivered == phase = "done" => current.parts = <<>>
=============================================================================
