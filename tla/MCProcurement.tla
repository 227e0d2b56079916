--------------------------- MODULE MCProcurement ---------------------------
(* Small instances of Procurement for TLC.                                 *)
EXTENDS Procurement
=============================================================================
