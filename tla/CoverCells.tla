----------------------------- MODULE CoverCells ------------------------------
(***************************************************************************)
(* The cover cells of one direction of an edge.  The sender numbers them   *)
(* when it seals them, under the PQ epoch of the moment; they travel on    *)
(* several lanes and arrive in any order, and the receiver accepts each    *)
(* number once, by a window of numbers behind the highest it has seen.     *)
(* The epochs of the two ends move on their own.                           *)
(***************************************************************************)
EXTENDS Integers

CONSTANTS
    Window,   \* REPLAY_WINDOW
    MaxCells, \* cells that are sealed
    MaxEpoch  \* healings

ASSUME CellsAssumption == Window \in Nat \ {0} /\ MaxCells \in Nat /\ MaxEpoch \in Nat

VARIABLES
    counter,   \* outboundCounter
    sealEpoch, \* the sender's epoch
    openEpoch, \* the receiver's epoch
    cells,     \* every cell sealed: its number and epoch
    highest,   \* inboundHighestCounter, -1 for null
    seen,      \* inboundSeenCounters
    accepted   \* the cells that took effect

cellVars == <<counter, sealEpoch, openEpoch, cells, highest, seen, accepted>>

Cell == [n : Nat, epoch : Nat]

CellsTypeOK ==
    /\ counter \in Nat /\ sealEpoch \in Nat /\ openEpoch \in Nat
    /\ cells \subseteq Cell /\ accepted \subseteq cells
    /\ highest \in Nat \cup {-1} /\ seen \subseteq Nat

CellsInit ==
    /\ counter = 0 /\ sealEpoch = 0 /\ openEpoch = 0 /\ cells = {}
    /\ highest = -1 /\ seen = {} /\ accepted = {}

\* seal: a number is never given twice, whatever becomes of the cell.
SealCell ==
    /\ counter < MaxCells /\ counter' = counter + 1
    /\ cells' = cells \cup {[n |-> counter, epoch |-> sealEpoch]}
    /\ UNCHANGED <<sealEpoch, openEpoch, highest, seen, accepted>>

\* currentMessageContext of either end moves to the next epoch, the sender's
\* first or the receiver's.
Heal ==
    /\ \/ sealEpoch < MaxEpoch /\ sealEpoch <= openEpoch /\ sealEpoch' = sealEpoch + 1 /\ UNCHANGED openEpoch
       \/ openEpoch < MaxEpoch /\ openEpoch <= sealEpoch /\ openEpoch' = openEpoch + 1 /\ UNCHANGED sealEpoch
    /\ UNCHANGED <<counter, cells, highest, seen, accepted>>

\* openCoverCell: the cell authenticates under the epoch of the receiver only.
Opens(c) == c.epoch = openEpoch

\* admitInboundCounter.
Behind_Faulty(n) == highest >= n   \* cells are taken to arrive in order
Behind(n) == highest # -1 /\ highest >= Window /\ n <= highest - Window
Admits(n) == ~Behind(n) /\ n \notin seen
\* The floor is one too high.
Remembered_Faulty(n) ==
    IF n > highest /\ n >= Window THEN {s \in seen \cup {n} : s > n - Window + 1} ELSE seen \cup {n}
Remembered(n) == IF n > highest /\ n >= Window THEN {s \in seen \cup {n} : s > n - Window} ELSE seen \cup {n}

\* processInboundCoverCell of a cell that arrives, for the first time or again;
\* one that is refused changes nothing.
AcceptCell(c) ==
    /\ c \in cells /\ Opens(c) /\ Admits(c.n)
    /\ seen' = Remembered(c.n) /\ highest' = IF c.n > highest THEN c.n ELSE highest
    /\ accepted' = accepted \cup {c}
    /\ UNCHANGED <<counter, sealEpoch, openEpoch, cells>>

CellsNext == SealCell \/ Heal \/ \E c \in cells : AcceptCell(c)

CellsSpec == CellsInit /\ [][CellsNext]_cellVars
-----------------------------------------------------------------------------
\* "any counter is accepted at most once": a cell that took effect is refused
\* from then on, however far the window has moved and whatever it forgot.
CellsActOnce == \A c \in accepted : ~Admits(c.n)

\* Only two things lose a cell that arrives: its receiver is in another epoch,
\* or it is at least a window behind one that came earlier.
OnlyLateCellsAreRefused == \A c \in cells \ accepted : Admits(c.n) \/ c.n <= highest - Window
=============================================================================
