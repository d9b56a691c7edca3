------------------------------ MODULE MCPacing ------------------------------
(* Small instances of Pacing for TLC: two calls per three ticks, three a day. *)
EXTENDS Pacing
=============================================================================
