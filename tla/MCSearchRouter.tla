--------------------------- MODULE MCSearchRouter ---------------------------
(***************************************************************************)
(* Two callers and two backends; a rest lasts longer than the longest      *)
(* sleep for a slot.                                                       *)
(***************************************************************************)
EXTENDS SearchRouter

MCBackends == <<"ddg", "mojeek">>
MCInterval == [b \in {"ddg", "mojeek"} |-> IF b = "ddg" THEN 2 ELSE 1]
=============================================================================
