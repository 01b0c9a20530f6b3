-------------------------- MODULE MCSessionService --------------------------
(***************************************************************************)
(* Four callers for TLC, with one session (an MCP server on stdio) or two *)
(* (REST or MCP over HTTP).                                                *)
(***************************************************************************)
EXTENDS SessionService, TLC

CONSTANTS c1, c2, c3, c4, l1, l2, l3, l4, l5, l6

MCCalls == {c1, c2, c3, c4}
MCLocks == {l1, l2, l3, l4, l5, l6}
=============================================================================
