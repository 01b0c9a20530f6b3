--------------------------- MODULE MCSessionRefs ---------------------------
(***************************************************************************)
(* A small session for TLC: three spellings of two URLs and pages of up to *)
(* two parts, so that four different things compete for a table of         *)
(* MaxEntries numbers that overflows several times within MaxRef numbers.  *)
(***************************************************************************)
EXTENDS AgentCalls

MCUrls == {"a", "a#x", "b"}
MCKeys == {"a", "b"}
MCKeyOf == [u \in MCUrls |-> IF u = "a#x" THEN "a" ELSE u]
=============================================================================
