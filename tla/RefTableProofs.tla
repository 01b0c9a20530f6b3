--------------------------- MODULE RefTableProofs ---------------------------
(***************************************************************************)
(* Proofs about the numbering table, for every set of URLs and every       *)
(* capacity.                                                               *)
(*                                                                         *)
(* The inductive invariant says that the live numbers are an interval that *)
(* ends just below `next`, with room bounds on its length.  That is what   *)
(* makes the first EvictCount keys of the OrderedDict the oldest numbers,  *)
(* and what makes a number that was just allocated survive the eviction    *)
(* its own allocation caused.                                              *)
(***************************************************************************)
EXTENDS RefTable, FiniteSetTheorems, TLAPS

LiveInterval ==
  \E lo \in 1..next :
    /\ Live = lo..(next - 1)
    /\ next - lo <= MaxEntries
    /\ lo = 1 \/ next - lo >= MaxEntries + 1 - EvictCount

TableInv ==
  /\ TableTypeOK
  /\ LiveInterval
  /\ IndexesLive
  /\ PartIndexFaithful

-----------------------------------------------------------------------------

\* A batch is never empty and never larger than the table: config.py and
\* RefTable.__init__ demand a positive capacity.
LEMMA EvictCountBounds == EvictCount \in Nat /\ 1 <= EvictCount /\ EvictCount <= MaxEntries
  BY TableAssumption DEF EvictCount, TableAssumption

\* The head of an interval of numbers, taken by counting smaller members.
LEMMA OldestOfInterval ==
  ASSUME NEW lo \in Nat \ {0}, NEW hi \in Nat, EvictCount <= hi - lo + 1
  PROVE  Oldest(lo..hi) = lo..(lo + EvictCount - 1)
<1>1. ASSUME NEW r \in lo..hi
      PROVE  Cardinality({s \in lo..hi : s < r}) = r - lo
  <2>1. {s \in lo..hi : s < r} = lo..(r - 1)
    OBVIOUS
  <2>2. Cardinality(lo..(r - 1)) = IF lo > r - 1 THEN 0 ELSE (r - 1) - lo + 1
    BY FS_Interval
  <2>3. r - lo = IF lo > r - 1 THEN 0 ELSE (r - 1) - lo + 1
    OBVIOUS
  <2> QED
    BY <2>1, <2>2, <2>3
<1>2. Oldest(lo..hi) = {r \in lo..hi : r - lo < EvictCount}
  BY <1>1 DEF Oldest
<1>3. {r \in lo..hi : r - lo < EvictCount} = lo..(lo + EvictCount - 1)
  BY EvictCountBounds
<1> QED
  BY <1>2, <1>3

\* What an allocation drops: nothing, or the head of the interval of live
\* numbers, and never the number that is being allocated.
LEMMA GonePrefix ==
  ASSUME TableTypeOK, LiveInterval
  PROVE  \E lo \in 1..next, new \in 1..next :
           /\ Live = lo..(next - 1)
           /\ lo <= new
           /\ Gone = lo..(new - 1)
           /\ next + 1 - new <= MaxEntries
           /\ new = 1 \/ next + 1 - new >= MaxEntries + 1 - EvictCount
<1> USE EvictCountBounds, TableAssumption DEF TableAssumption
<1>1. PICK lo \in 1..next :
        /\ Live = lo..(next - 1)
        /\ next - lo <= MaxEntries
        /\ lo = 1 \/ next - lo >= MaxEntries + 1 - EvictCount
  BY DEF LiveInterval
<1>2. next \in Nat \ {0}
  BY DEF TableTypeOK
<1>3. Live \cup {next} = lo..next
  BY <1>1, <1>2
<1>4. Cardinality(lo..next) = next - lo + 1
  BY <1>2, FS_Interval
<1>5. CASE next - lo + 1 <= MaxEntries
  <2>1. Gone = {}
    BY <1>3, <1>4, <1>5 DEF Gone
  <2>2. Gone = lo..(lo - 1)
    BY <2>1, <1>2
  <2> QED
    BY <1>1, <1>2, <1>5, <2>2
<1>6. CASE ~(next - lo + 1 <= MaxEntries)
  <2>1. Gone = Oldest(lo..next)
    BY <1>3, <1>4, <1>6 DEF Gone
  <2>2. Oldest(lo..next) = lo..(lo + EvictCount - 1)
    <3>1. EvictCount <= next - lo + 1
      BY <1>2, <1>6
    <3> QED
      BY <1>2, <3>1, OldestOfInterval
  <2>3. next - lo = MaxEntries
    BY <1>1, <1>2, <1>6
  <2> DEFINE new == lo + EvictCount
  <2>4. new \in 1..next /\ lo <= new /\ next + 1 - new <= MaxEntries
    BY <1>2, <2>3
  <2>5. next + 1 - new >= MaxEntries + 1 - EvictCount
    BY <1>2, <2>3
  <2>6. Gone = lo..(new - 1)
    BY <2>1, <2>2
  <2> HIDE DEF new
  <2> QED
    BY <1>1, <2>4, <2>5, <2>6
<1> QED
  BY <1>5, <1>6

-----------------------------------------------------------------------------

\* Allocation in one view: the new number is live, everything else that is
\* live was live before with the same entry, and the live numbers are still
\* an interval.
LEMMA AllocateEffect ==
  ASSUME TableTypeOK, LiveInterval,
         NEW entry \in Entry, NEW urlIndex, Allocate(entry, urlIndex)
  PROVE  /\ next \notin Gone
         /\ Live' = (Live \cup {next}) \ Gone
         /\ byId' = [r \in Live' |-> IF r = next THEN entry ELSE byId[r]]
         /\ next' = next + 1
         /\ url' = [k \in {l \in DOMAIN urlIndex : urlIndex[l] \notin Gone} |-> urlIndex[k]]
         /\ LiveInterval'
<1>1. PICK lo \in 1..next, new \in 1..next :
        /\ Live = lo..(next - 1)
        /\ lo <= new
        /\ Gone = lo..(new - 1)
        /\ next + 1 - new <= MaxEntries
        /\ new = 1 \/ next + 1 - new >= MaxEntries + 1 - EvictCount
  BY GonePrefix
<1>2. next \in Nat \ {0}
  BY DEF TableTypeOK
<1>3. next \notin Gone
  BY <1>1, <1>2
<1>4. byId' = [r \in (Live \cup {next}) \ Gone |-> IF r = next THEN entry ELSE byId[r]]
  <2>1. Put(byId, next, entry) = [r \in Live \cup {next} |-> IF r = next THEN entry ELSE byId[r]]
    BY DEF Put, Live
  <2>2. byId' = RestrictDomain(Put(byId, next, entry), LAMBDA r : r \notin Gone)
    BY DEF Allocate
  <2> QED
    BY <2>1, <2>2 DEF RestrictDomain, Restrict
<1>5. Live' = (Live \cup {next}) \ Gone
  BY <1>4 DEF Live
<1>6. next' = next + 1
  BY DEF Allocate
<1>7. url' = [k \in {l \in DOMAIN urlIndex : urlIndex[l] \notin Gone} |-> urlIndex[k]]
  BY DEF Allocate, Surviving, RestrictValues, Restrict
<1>8. LiveInterval'
  <2>1. Live' = new..(next' - 1)
    BY <1>1, <1>2, <1>5, <1>6
  <2>2. /\ new \in 1..next'
        /\ next' - new <= MaxEntries
        /\ new = 1 \/ next' - new >= MaxEntries + 1 - EvictCount
    BY <1>1, <1>2, <1>6
  <2> QED
    BY <2>1, <2>2 DEF LiveInterval
<1> QED
  BY <1>3, <1>4, <1>5, <1>6, <1>7, <1>8

\* The first clause of for_url changes nothing, the second keeps TableInv.
LEMMA ForUrlInv ==
  ASSUME TableInv, NEW u \in Urls, ForUrl(u)
  PROVE  TableInv' /\ UrlNumber(u) \in Live'
<1> USE TableAssumption DEF TableAssumption
<1>1. CASE KeyOf[u] \in DOMAIN url
  <2>1. UNCHANGED tableVars
    BY <1>1 DEF ForUrl
  <2> QED
    BY <1>1, <2>1 DEF TableInv, TableTypeOK, LiveInterval, IndexesLive, PartIndexFaithful,
      tableVars, Live, UrlNumber
<1>2. CASE KeyOf[u] \notin DOMAIN url
  <2> DEFINE entry == [url |-> u, part |-> 1]
             urlIndex == Put(url, KeyOf[u], next)
  <2>1. entry \in Entry
    BY DEF Entry
  <2>2. Allocate(entry, urlIndex) /\ part' = Surviving(part)
    BY <1>2 DEF ForUrl
  <2>3. /\ next \notin Gone
        /\ Live' = (Live \cup {next}) \ Gone
        /\ byId' = [r \in Live' |-> IF r = next THEN entry ELSE byId[r]]
        /\ next' = next + 1
        /\ url' = [k \in {l \in DOMAIN urlIndex : urlIndex[l] \notin Gone} |-> urlIndex[k]]
        /\ LiveInterval'
    <3> HIDE DEF entry, urlIndex
    <3> QED
      BY <2>1, <2>2, AllocateEffect DEF TableInv
  <2>4. urlIndex = [k \in DOMAIN url \cup {KeyOf[u]} |->
                     IF k = KeyOf[u] THEN next ELSE url[k]]
    BY DEF Put
  <2>5. part' = [k \in {l \in DOMAIN part : part[l] \notin Gone} |-> part[k]]
    BY <2>2 DEF Surviving, RestrictValues, Restrict
  <2>6. next \in Nat \ {0} /\ Live \subseteq Nat \ {0}
    BY DEF TableInv, TableTypeOK
  <2>7. next \notin Live
    BY <2>6 DEF TableInv, LiveInterval
  <2>8. KeyOf[u] \in Keys
    OBVIOUS
  <2> HIDE DEF entry, urlIndex
  <2>9. TableTypeOK'
    <3>1. (Live \cup {next}) \ Gone \subseteq Nat \ {0}
      BY <2>6
    <3>2. next' \in Nat \ {0} /\ Live' \subseteq Nat \ {0}
      BY <2>3, <2>6, <3>1
    <3>3. byId' \in [Live' -> Entry]
      BY <2>1, <2>3 DEF TableInv, TableTypeOK
    <3>4. DOMAIN url' \subseteq Keys /\ url' \in [DOMAIN url' -> Nat \ {0}]
      BY <2>3, <2>4, <2>6, <2>8 DEF TableInv, TableTypeOK
    <3>5. /\ DOMAIN part' \subseteq Keys \X (2..LastPart)
          /\ part' \in [DOMAIN part' -> Nat \ {0}]
      BY <2>5 DEF TableInv, TableTypeOK
    <3> QED
      BY <3>2, <3>3, <3>4, <3>5 DEF TableTypeOK, Live
  <2>10. IndexesLive'
    BY <2>3, <2>4, <2>5 DEF TableInv, IndexesLive, Live
  <2>11. PartIndexFaithful'
    BY <2>3, <2>5, <2>7 DEF TableInv, IndexesLive, PartIndexFaithful, Live
  <2>12. UrlNumber(u) \in Live'
    BY <1>2, <2>3 DEF UrlNumber
  <2> QED
    BY <2>3, <2>9, <2>10, <2>11, <2>12 DEF TableInv
<1> QED
  BY <1>1, <1>2

LEMMA AliasInv ==
  ASSUME TableInv, NEW u \in Urls, NEW ref \in Live, Alias(u, ref)
  PROVE  TableInv'
<1> USE TableAssumption DEF TableAssumption
<1>1. url' = [k \in DOMAIN url \cup {KeyOf[u]} |-> IF k = KeyOf[u] THEN ref ELSE url[k]]
  BY DEF Alias, Put
<1>2. UNCHANGED <<next, byId, part>>
  BY DEF Alias
<1> QED
  BY <1>1, <1>2 DEF TableInv, TableTypeOK, LiveInterval, IndexesLive, PartIndexFaithful,
    Live

\* A continuation number: the part index is extended after the eviction, and
\* the fresh number is not among the evicted ones.
LEMMA ForPartInv ==
  ASSUME TableInv, NEW u \in Urls, NEW p \in 2..LastPart, ForPart(u, p)
  PROVE  /\ TableInv'
         /\ PartNumber(u, p) \in Live'
         /\ KeyOf[byId'[PartNumber(u, p)].url] = KeyOf[u]
         /\ byId'[PartNumber(u, p)].part = p
<1> USE TableAssumption DEF TableAssumption
<1> DEFINE key == <<KeyOf[u], p>>
<1>1. CASE key \in DOMAIN part
  <2>1. UNCHANGED tableVars
    BY <1>1 DEF ForPart
  <2>2. TableInv' /\ part[key] \in Live'
    BY <1>1, <2>1 DEF TableInv, TableTypeOK, LiveInterval, IndexesLive, PartIndexFaithful,
      tableVars, Live
  <2>3. KeyOf[byId[part[key]].url] = key[1] /\ byId[part[key]].part = key[2]
    BY <1>1 DEF TableInv, IndexesLive, PartIndexFaithful
  <2>4. PartNumber(u, p) = part[key] /\ byId' = byId
    BY <1>1, <2>1 DEF PartNumber, tableVars
  <2> QED
    BY <2>2, <2>3, <2>4
<1>2. CASE key \notin DOMAIN part
  <2> DEFINE entry == [url |-> u, part |-> p]
  <2>1. entry \in Entry
    BY DEF Entry
  <2>2. Allocate(entry, url) /\ part' = Put(Surviving(part), key, next)
    BY <1>2 DEF ForPart
  <2>3. /\ next \notin Gone
        /\ Live' = (Live \cup {next}) \ Gone
        /\ byId' = [r \in Live' |-> IF r = next THEN entry ELSE byId[r]]
        /\ next' = next + 1
        /\ url' = [k \in {l \in DOMAIN url : url[l] \notin Gone} |-> url[k]]
        /\ LiveInterval'
    <3> HIDE DEF entry
    <3> QED
      BY <2>1, <2>2, AllocateEffect DEF TableInv
  <2>4. part' = [k \in {l \in DOMAIN part : part[l] \notin Gone} \cup {key} |->
                  IF k = key THEN next ELSE part[k]]
    <3>1. Surviving(part) = [k \in {l \in DOMAIN part : part[l] \notin Gone} |-> part[k]]
      BY DEF Surviving, RestrictValues, Restrict
    <3> QED
      BY <2>2, <3>1 DEF Put
  <2>5. next \in Nat \ {0} /\ Live \subseteq Nat \ {0}
    BY DEF TableInv, TableTypeOK
  <2>6. next \notin Live
    BY <2>5 DEF TableInv, LiveInterval
  <2>7. key \in Keys \X (2..LastPart) /\ key[1] = KeyOf[u] /\ key[2] = p
    OBVIOUS
  <2>8. entry.url = u /\ entry.part = p
    OBVIOUS
  <2>9. PartNumber(u, p) = next /\ next \in Live' /\ byId'[next] = entry
    BY <1>2, <2>3 DEF PartNumber
  <2> HIDE DEF entry, key
  <2>10. TableTypeOK'
    <3>1. (Live \cup {next}) \ Gone \subseteq Nat \ {0}
      BY <2>5
    <3>2. next' \in Nat \ {0} /\ Live' \subseteq Nat \ {0}
      BY <2>3, <2>5, <3>1
    <3>3. byId' \in [Live' -> Entry]
      BY <2>1, <2>3 DEF TableInv, TableTypeOK
    <3>4. DOMAIN url' \subseteq Keys /\ url' \in [DOMAIN url' -> Nat \ {0}]
      BY <2>3 DEF TableInv, TableTypeOK
    <3>5. /\ DOMAIN part' \subseteq Keys \X (2..LastPart)
          /\ part' \in [DOMAIN part' -> Nat \ {0}]
      BY <2>4, <2>5, <2>7 DEF TableInv, TableTypeOK
    <3> QED
      BY <3>2, <3>3, <3>4, <3>5 DEF TableTypeOK, Live
  <2>11. IndexesLive'
    BY <2>3, <2>4 DEF TableInv, IndexesLive, Live
  <2>12. PartIndexFaithful'
    BY <2>3, <2>4, <2>6, <2>7, <2>8 DEF TableInv, IndexesLive, PartIndexFaithful, Live
  <2> QED
    BY <2>3, <2>8, <2>9, <2>10, <2>11, <2>12 DEF TableInv
<1> QED
  BY <1>1, <1>2

-----------------------------------------------------------------------------

LEMMA InitInv == TableInit => TableInv
<1> SUFFICES ASSUME TableInit PROVE TableInv
  OBVIOUS
<1>1. LiveInterval
  <2>1. Live = 1..0 /\ next = 1
    BY DEF TableInit, Live
  <2> QED
    BY <2>1, TableAssumption DEF LiveInterval, TableAssumption
<1> QED
  BY <1>1 DEF TableInit, TableInv, TableTypeOK, IndexesLive, PartIndexFaithful, Live, Entry

LEMMA NextInv == TableInv /\ [TableNext]_tableVars => TableInv'
<1> SUFFICES ASSUME TableInv, [TableNext]_tableVars PROVE TableInv'
  OBVIOUS
<1>1. CASE UNCHANGED tableVars
  BY <1>1 DEF TableInv, TableTypeOK, LiveInterval, IndexesLive, PartIndexFaithful,
    tableVars, Live
<1>2. ASSUME NEW u \in Urls, ForUrl(u) PROVE TableInv'
  BY <1>2, ForUrlInv
<1>3. ASSUME NEW u \in Urls, NEW ref \in Live, Alias(u, ref) PROVE TableInv'
  BY <1>3, AliasInv
<1>4. ASSUME NEW u \in Urls, NEW p \in 2..LastPart, ForPart(u, p) PROVE TableInv'
  BY <1>4, ForPartInv
<1> QED
  BY <1>1, <1>2, <1>3, <1>4 DEF TableNext

\* The interval shape of the live numbers is an invariant of the table.
THEOREM TableCorrect == TableSpec => []TableInv
  BY InitInv, NextInv, PTL DEF TableSpec

\* Type correctness of the table (refs.py:14-17).
THEOREM TableTyped == TableSpec => []TableTypeOK
  BY TableCorrect, PTL DEF TableInv

\* No index entry outlives the number it leads to (refs.py:62-64).
THEOREM TableIndexesLive == TableSpec => []IndexesLive
  BY TableCorrect, PTL DEF TableInv

\* A continuation number opens the page and part it was made for
\* (refs.py:33-42).
THEOREM TablePartsFaithful == TableSpec => []PartIndexFaithful
  BY TableCorrect, PTL DEF TableInv

LEMMA IntervalIsRecent == TableInv => RecentNumbersLive
<1> SUFFICES ASSUME TableInv PROVE RecentNumbersLive
  OBVIOUS
<1>1. PICK lo \in 1..next :
        /\ Live = lo..(next - 1)
        /\ lo = 1 \/ next - lo >= MaxEntries + 1 - EvictCount
  BY DEF TableInv, LiveInterval
<1>2. next \in Nat \ {0}
  BY DEF TableInv, TableTypeOK
<1> QED
  BY <1>1, <1>2, EvictCountBounds, TableAssumption DEF RecentNumbersLive, TableAssumption

\* Evictions are oldest first and spare at least the last MaxEntries + 1 -
\* EvictCount numbers (refs.py:55-64).
THEOREM TableKeepsRecent == TableSpec => []RecentNumbersLive
  BY TableCorrect, IntervalIsRecent, PTL

LEMMA IntervalIsBounded == TableInv => TableBounded
<1> SUFFICES ASSUME TableInv PROVE TableBounded
  OBVIOUS
<1>1. PICK lo \in 1..next : Live = lo..(next - 1) /\ next - lo <= MaxEntries
  BY DEF TableInv, LiveInterval
<1>2. next \in Nat \ {0}
  BY DEF TableInv, TableTypeOK
<1>3. Cardinality(lo..(next - 1)) = IF lo > next - 1 THEN 0 ELSE (next - 1) - lo + 1
  BY <1>2, FS_Interval
<1> QED
  BY <1>1, <1>2, <1>3, TableAssumption DEF TableBounded, TableAssumption

\* The table respects session.max_refs (refs.py:57).
THEOREM TableWithinCapacity == TableSpec => []TableBounded
  BY TableCorrect, IntervalIsBounded, PTL

-----------------------------------------------------------------------------

MeaningKept ==
  /\ next' >= next
  /\ \A r \in DOMAIN byId' :
       r < next \/ r \in DOMAIN byId => r \in DOMAIN byId /\ byId'[r] = byId[r]

LEMMA AllocateKeepsMeaning ==
  ASSUME TableInv, NEW entry \in Entry, NEW urlIndex, Allocate(entry, urlIndex)
  PROVE  MeaningKept
<1>1. /\ Live' = (Live \cup {next}) \ Gone
      /\ byId' = [r \in Live' |-> IF r = next THEN entry ELSE byId[r]]
      /\ next' = next + 1
  BY AllocateEffect DEF TableInv
<1>2. next \in Nat \ {0} /\ Live \subseteq Nat
  BY DEF TableInv, TableTypeOK
<1>3. next \notin Live
  BY <1>2 DEF TableInv, LiveInterval
<1>4. ASSUME NEW r \in Live', r < next \/ r \in Live
      PROVE  r \in Live /\ byId'[r] = byId[r]
  BY <1>1, <1>2, <1>3, <1>4
<1> QED
  BY <1>1, <1>2, <1>4 DEF MeaningKept, Live

LEMMA StepKeepsMeaning == TableInv /\ [TableNext]_tableVars => MeaningKept \/ UNCHANGED tableVars
<1> SUFFICES ASSUME TableInv, TableNext PROVE MeaningKept \/ UNCHANGED tableVars
  OBVIOUS
<1>1. ASSUME NEW u \in Urls, ForUrl(u) PROVE MeaningKept \/ UNCHANGED tableVars
  <2>1. [url |-> u, part |-> 1] \in Entry
    BY TableAssumption DEF Entry, TableAssumption
  <2> QED
    BY <1>1, <2>1, AllocateKeepsMeaning DEF ForUrl
<1>2. ASSUME NEW u \in Urls, NEW ref \in Live, Alias(u, ref) PROVE MeaningKept
  BY <1>2 DEF Alias, MeaningKept, TableInv, TableTypeOK
<1>3. ASSUME NEW u \in Urls, NEW p \in 2..LastPart, ForPart(u, p)
      PROVE  MeaningKept \/ UNCHANGED tableVars
  <2>1. [url |-> u, part |-> p] \in Entry
    BY TableAssumption DEF Entry, TableAssumption
  <2> QED
    BY <1>3, <2>1, AllocateKeepsMeaning DEF ForPart
<1> QED
  BY <1>1, <1>2, <1>3 DEF TableNext

\* A number never comes to mean something else and is never issued twice
\* (refs.py:47-54).
THEOREM TableNumbersKeepMeaning == TableSpec => NumbersKeepMeaning
<1>1. TableInv /\ [TableNext]_tableVars
        => [/\ next' >= next
            /\ \A r \in DOMAIN byId' :
                 r < next \/ r \in DOMAIN byId
                   => r \in DOMAIN byId /\ byId'[r] = byId[r]]_tableVars
  BY StepKeepsMeaning DEF MeaningKept
<1> QED
  BY <1>1, TableCorrect, PTL DEF TableSpec, NumbersKeepMeaning
=============================================================================
