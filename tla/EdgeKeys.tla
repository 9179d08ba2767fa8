------------------------------ MODULE EdgeKeys ------------------------------
(***************************************************************************)
(* The keys of one edge, seen from three sides: the ratchet that the       *)
(* chunks of both ends advance (Ratchet), the counters of the cover cells  *)
(* (CoverCells), and the row that keeps the ratchet across connections and *)
(* restarts (EdgePersistence).  Each side abstracts from the other two, so *)
(* a behaviour follows one of them.                                        *)
(***************************************************************************)
EXTENDS Ratchet, CoverCells, EdgePersistence

VARIABLE side       \* the side that the behaviour follows

keyVars == <<vars, cellVars, rowVars, side>>

KeysInit == Init /\ CellsInit /\ RowInit /\ side \in {"chunks", "cells", "row"}

KeysNext ==
    \/ side = "chunks" /\ Next /\ UNCHANGED <<cellVars, rowVars, side>>
    \/ side = "cells" /\ CellsNext /\ UNCHANGED <<vars, rowVars, side>>
    \/ side = "row" /\ RowNext /\ UNCHANGED <<vars, cellVars, side>>

KeysSpec == KeysInit /\ [][KeysNext]_keyVars /\ RowFairness
=============================================================================
