---------------------------- MODULE MCReceiveStore ----------------------------
(***************************************************************************)
(* ReceiveStore for TLC: a file of two full chunks and a short one, and a  *)
(* message of one chunk, competing for one handle.                         *)
(***************************************************************************)
EXTENDS ReceiveStore

MCRoots == {"file", "note"}

MCLayout == [r \in MCRoots |-> IF r = "file" THEN <<2, 2, 1>> ELSE <<1>>]
=============================================================================
