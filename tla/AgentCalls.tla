----------------------------- MODULE AgentCalls -----------------------------
(***************************************************************************)
(* An agent calls a session with what the session has shown it: the        *)
(* numbers of SessionRefs, read by CallNormalize.                          *)
(***************************************************************************)
EXTENDS SessionRefs, CallNormalize

\* Every number that a response shows opens its entry, under whichever name of a
\* tool and key it is given, as a number or a string, in brackets or quotes, in
\* a list or as JSON; so do URLs with punctuation behind them (docs/SPEC.md 3.3;
\* normalize.py:50-183).
Understood == {n \in 1..MaxRef : Opens(n)}
ShownNumbersOpen ==
  /\ \A n \in (reply.shown \cup {reply.next, reply.alt}) \ {0} : n \in Understood
  /\ UrlsOpen /\ WordsSearch
=============================================================================
