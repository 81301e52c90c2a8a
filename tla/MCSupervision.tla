---------------------------- MODULE MCSupervision ----------------------------
(* Small instances of Supervision for TLC. *)
EXTENDS Supervision

CONSTANTS p1, p2

MCPids == {p1, p2}
==============================================================================
