----------------------------- MODULE MCPqExchange -----------------------------
(***************************************************************************)
(* PqExchange for TLC: at most MaxFresh KEM operations, the only unbounded *)
(* counter (epochs stop at MaxU64 by the code's own guard).                *)
(***************************************************************************)
EXTENDS PqExchange

CONSTANT MaxFresh

FreshBound == fresh <= MaxFresh
=============================================================================
