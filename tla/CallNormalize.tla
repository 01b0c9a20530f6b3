---------------------------- MODULE CallNormalize ----------------------------
(***************************************************************************)
(* What a tool call means: browsr/normalize.py.  An agent calls a tool by  *)
(* one of many names with an argument of almost any shape; normalize makes *)
(* a search or an open of it and notes whether it had to correct anything. *)
(*                                                                         *)
(* A JSON value is a record with a type: "text", "number" (its integer     *)
(* part n), "list" (items), "dict" (at: key -> value), "json" (a string    *)
(* that holds the JSON value) or "other" (null, a Boolean, NaN).           *)
(*                                                                         *)
(* A text says what its characters are, once they are stripped: digits     *)
(* that stand for n, with or without zeros in front, a URL, a host without *)
(* its scheme, with or without a path, words, or nothing; whether it was   *)
(* in brackets, whether in blanks or quotes (dressed), whether its blanks  *)
(* are irregular or it is longer than 400 (messy), and what it ends with:  *)
(* "mark" is one of .,;:  and "paren" a ")" that nothing opens.            *)
(***************************************************************************)
EXTENDS Integers, Sequences

CONSTANTS
  IdLimit,   \* numbers have at most seven digits: 10000000
  MaxTurns   \* lists and dicts that are looked into: 32

ASSUME NormalizeAssumption == IdLimit \in Nat \ {0} /\ MaxTurns \in Nat \ {0}

ToolAliases ==
  [web_search |-> "search", search_web |-> "search", google |-> "search", fetch |-> "open",
   browse |-> "open", open_url |-> "open", visit |-> "open", read |-> "open", get |-> "open"]

Primary == [search |-> "query", open |-> "url", web |-> "input"]

ValueKeys ==
  <<"query", "q", "keyword", "keywords", "text", "input", "search", "url", "link", "href", "uri",
    "target", "id", "ref", "page">>

Dict(key, value) == [type |-> "dict", at |-> [k \in {key} |-> value]]

BadInput == [action |-> "bad_input", kind |-> "none", payload |-> "none", corrected |-> FALSE]

-----------------------------------------------------------------------------
(* _coerce_args, _pick and _value                                          *)

\* What has been found in the arguments so far.
Found(value, corrected) == [value |-> value, corrected |-> corrected, state |-> "going"]
NotFound == [Found("none", FALSE) EXCEPT !.state = "bad"]

CoerceArgs(tool, raw) ==
  LET decoded == IF raw.type = "json" THEN raw.value ELSE raw
  IN  IF decoded.type = "dict" THEN Found(decoded, FALSE) ELSE Found(Dict(Primary[tool], decoded), TRUE)

\* The value of the tool's own key, of the first key that is listed, or the only one.
Pick(args, tool) ==
  LET listed == {i \in DOMAIN ValueKeys : ValueKeys[i] \in DOMAIN args}
      first == CHOOSE i \in listed : \A j \in listed : i <= j
  IN  CASE Primary[tool] \in DOMAIN args -> Found(args[Primary[tool]], FALSE)
        [] Primary[tool] \notin DOMAIN args /\ listed # {} -> Found(args[ValueKeys[first]], TRUE)
        [] OTHER ->
             IF \E k \in DOMAIN args : DOMAIN args = {k}
             THEN Found(args[CHOOSE k \in DOMAIN args : TRUE], TRUE)
             ELSE NotFound

Corrected(found, also) == [found EXCEPT !.corrected = @ \/ also]

\* The first element of a list, then the value of a dict.
Turn(found, tool) ==
  LET listed == found.value.type = "list"
      value == IF listed /\ found.value.items # <<>> THEN found.value.items[1] ELSE found.value
  IN  CASE found.state # "going" -> found
        [] found.state = "going" /\ listed /\ found.value.items = <<>> -> NotFound
        [] OTHER ->
             CASE value.type = "dict" -> Corrected(Pick(value.at, tool), found.corrected \/ listed)
               [] value.type = "list" -> Found(value, TRUE)
               [] OTHER -> [Found(value, found.corrected \/ listed) EXCEPT !.state = "done"]

Unwrap(found, tool) ==
  LET after[n \in 0..MaxTurns] == IF n = 0 THEN found ELSE Turn(after[n - 1], tool)
  IN  after[MaxTurns]

\* A number is read as its digits.
Digits(n) ==
  [body |-> IF n >= 0 THEN "digits" ELSE "words", n |-> n, zeros |-> FALSE, bracket |-> FALSE,
   dressed |-> FALSE, messy |-> FALSE, path |-> FALSE, tail |-> <<>>]

\* The stripped text of a value, if it has one.
Value(found) ==
  LET text == IF found.value.type = "number" THEN Digits(found.value.n) ELSE found.value.text
  IN  IF found.state # "done" \/ found.value.type \notin {"text", "number"} THEN NotFound
      ELSE IF text.body = "empty" THEN NotFound
      ELSE Found([text EXCEPT !.dressed = FALSE],
                 found.corrected \/ text.dressed \/ found.value.type = "number")

-----------------------------------------------------------------------------
(* normalize                                                               *)

\* At most seven digits, the zeros in front included.
Short(text) == text.body = "digits" /\ (IF text.zeros THEN 10 * text.n ELSE text.n) < IdLimit

\* Mutant: the brackets must be of one pair.
IsIdPaired(text) == Short(text) /\ text.tail = <<>>

\* A ")" behind the digits is taken for a bracket.
IsId(text) == Short(text) /\ (text.tail = <<>> \/ (~ text.bracket /\ text.tail = <<"paren">>))

\* clean_url: the marks at the end, then one ")".
CleanTail(tail) ==
  LET kept == {i \in DOMAIN tail : tail[i] = "paren"}
      last == CHOOSE i \in kept : \A j \in kept : j <= i
  IN  IF kept = {} THEN <<>> ELSE SubSeq(tail, 1, last - 1)

IsUrl(text) ==
  \/ text.body = "url"
  \/ text.body = "host" /\ (CleanTail(text.tail) = <<>> \/ text.path)

\* What a text is, and whether it was written otherwise.
Kind(text) ==
  CASE IsId(text) ->
         [kind |-> "id", payload |-> text.n, corrected |-> text.bracket \/ text.zeros \/ text.tail # <<>>]
    [] ~ IsId(text) /\ IsUrl(text) ->
         [kind |-> "url", payload |-> <<text.body, CleanTail(text.tail)>>,
          corrected |-> text.body = "host" \/ text.tail # <<>>]
    [] OTHER -> [kind |-> "text", payload |-> text.body, corrected |-> text.messy]

\* The tool decides nothing but whether a call counts as corrected.
Decide(tool, what, corrected) ==
  [action |-> IF what.kind = "text" THEN "search" ELSE "open",
   kind |-> what.kind, payload |-> what.payload,
   corrected |-> \/ corrected
                 \/ tool = "search" /\ what.kind # "text"
                 \/ tool = "open" /\ what.kind = "text"]

Tool(name) == IF name \in DOMAIN ToolAliases THEN ToolAliases[name] ELSE name

Normalize(name, raw) ==
  LET tool == Tool(name)
      args == CoerceArgs(tool, raw)
      picked == Corrected(Pick(args.value.at, tool), args.corrected)
      value == Value(IF picked.state = "going" THEN Unwrap(picked, tool) ELSE picked)
      what == Kind(value.value)
  IN  IF tool \notin DOMAIN Primary \/ value.state = "bad" THEN BadInput
      ELSE Decide(tool, what, name \in DOMAIN ToolAliases \/ value.corrected \/ what.corrected)

-----------------------------------------------------------------------------
(* How an agent may write a number                                         *)

Text(text) == [type |-> "text", text |-> text]

\* A string of digits is also JSON, which makes no difference to what it means.
Around == {<<FALSE, <<>>>>, <<TRUE, <<>>>>, <<FALSE, <<"paren">>>>}
Spelt(n, zeros, dressed, around) ==
  Text([Digits(n) EXCEPT !.zeros = zeros, !.dressed = dressed, !.bracket = around[1], !.tail = around[2]])

Written(n) ==
  {[type |-> "number", n |-> n]} \cup {Spelt(n, z, d, a) : z \in BOOLEAN, d \in BOOLEAN, a \in Around}

\* Under whatever key, first in a list, or as a string of JSON.
Given(n) ==
  LET values == Written(n) \cup {[type |-> "list", items |-> <<v>>] : v \in Written(n)}
      dicts == {Dict(k, v) : k \in {"url", "query", "input", "id", "ref", "number"}, v \in values}
      decoded == [type |-> "number", n |-> n]
  IN  values \cup dicts \cup {[type |-> "json", value |-> v] : v \in dicts \cup {decoded}}

Opens(n) ==
  \A name \in DOMAIN ToolAliases \cup DOMAIN Primary : \A raw \in Given(n) :
    LET call == Normalize(name, raw)
    IN  /\ call.action = "open" /\ call.kind = "id" /\ call.payload = n
        /\ name = "open" /\ raw = Dict("url", Text(Digits(n))) => ~ call.corrected

\* A URL, copied with the punctuation of the sentence around it, opens; words are
\* searched for.
Sentence == {<<>>, <<"mark">>, <<"mark", "mark">>, <<"paren">>, <<"paren", "mark">>}

UrlsOpen ==
  \A name \in DOMAIN ToolAliases \cup DOMAIN Primary :
    \A tail \in Sentence, body \in {"url", "host"}, d \in BOOLEAN :
      LET text == [Digits(0) EXCEPT !.body = body, !.dressed = d, !.tail = tail]
          call == Normalize(name, Text(text))
      IN  call.action = "open" /\ call.payload = <<body, <<>>>>

WordsSearch ==
  \A name \in DOMAIN ToolAliases \cup DOMAIN Primary, messy \in BOOLEAN :
    LET call == Normalize(name, Dict("q", Text([Digits(-1) EXCEPT !.messy = messy])))
    IN  call.action = "search" /\ call.corrected
=============================================================================
