--------------------------- MODULE EdgePersistence ---------------------------
(***************************************************************************)
(* Write-ahead persistence of the ratchet of one stable (room, identity)   *)
(* edge, handlers/ratchetPersist.ts, over the worker's ratchetSessions row *)
(* (db/db.worker.ts).  Connections 1 .. NConns to the same peer replace    *)
(* each other; each runs one handshake, seeds one ratchet and then derives *)
(* message keys.  Two locks: the mutation lock of a connection and the     *)
(* persistence lock of the edge, a FIFO.  A worker call is three steps:    *)
(* it is posted, the row changes, the answer arrives.                      *)
(*                                                                         *)
(* A ratchet is its sending index: deriving the message key n moves it     *)
(* from n to n + 1.  A receive step, a retired receive key and a PQ        *)
(* checkpoint are the same transaction on other fields of the same row.    *)
(* A crash may stop the process in any state and leaves the row of that    *)
(* state, so what a restart may find is what the invariants say of row.    *)
(***************************************************************************)
EXTENDS Integers, Sequences

CONSTANTS
    NConns,           \* connections to the peer over time
    MaxSends,         \* message keys each connection asks for
    MaxFaults,        \* worker writes that answer with an error
    MaxDeleteFaults   \* worker deletes that fail

ASSUME RowAssumption ==
    NConns \in Nat /\ MaxSends \in Nat /\ MaxFaults \in Nat /\ MaxDeleteFaults \in Nat

VARIABLES
    owner,   \* the connection whose token owns the edge, 0 for none
    open,    \* open[c]: connection c exists and is not torn down
    seed,    \* seed[c]: how far the handshake seed of c got
    live,    \* live[c]: the index of the live ratchet, -1 for none
    want,    \* want[c]: message keys still to be asked for
    mut,     \* mut[c]: the mutation that holds c's mutation lock
    plock,   \* the holders and waiters of the persistence lock, in order
    io,      \* the worker call of the holder
    row,     \* the durable row
    used,    \* the message keys handed to a caller
    faults,  \* writes answered with an error
    lost     \* deletes that failed

rowVars == <<owner, open, seed, live, want, mut, plock, io, row, used, faults, lost>>

Conns == 1 .. NConns

\* A row, and a message key, is an index of the ratchet some connection seeded.
Indices == [conn : Conns, n : Nat]

NoRow == [conn |-> 0, n |-> 0]

\* A mutation holds a candidate cloned from the live ratchet at index n.
Mutations == [stage : {"idle", "waiting", "durable"}, n : Nat]

Tickets == [conn : Conns, kind : {"seed", "mutate"}]

RowTypeOK ==
    /\ owner \in 0 .. NConns /\ open \in [Conns -> BOOLEAN]
    /\ seed \in [Conns -> {"none", "claimed", "queued", "up", "failed"}]
    /\ live \in [Conns -> Nat \union {-1}] /\ want \in [Conns -> 0 .. MaxSends]
    /\ mut \in [Conns -> Mutations]
    /\ plock \in Seq(Tickets)
    /\ io \in {"idle", "posted", "ok", "error", "rollback"}
    /\ row \in Indices \union {NoRow} /\ used \subseteq Indices
    /\ faults \in 0 .. MaxFaults /\ lost \in 0 .. MaxDeleteFaults

NoMutation == [stage |-> "idle", n |-> 0]

RowInit ==
    /\ owner = 0 /\ open = [c \in Conns |-> FALSE]
    /\ seed = [c \in Conns |-> "none"] /\ live = [c \in Conns |-> -1]
    /\ want = [c \in Conns |-> MaxSends]
    /\ mut = [c \in Conns |-> NoMutation]
    /\ plock = << >> /\ io = "idle" /\ row = NoRow /\ used = {}
    /\ faults = 0 /\ lost = 0

Holder == Head(plock)

Holds(c, kind) == plock # << >> /\ Holder = [conn |-> c, kind |-> kind]

Wait(c, kind) == plock' = Append(plock, [conn |-> c, kind |-> kind])

Release == plock' = Tail(plock) /\ io' = "idle"

-----------------------------------------------------------------------------
(***************************************************************************)
(* A new connection claims the edge at once, before any handshake; the     *)
(* connections it replaces are torn down first.                            *)
(***************************************************************************)
Claim(c) ==
    /\ seed[c] = "none" /\ \A d \in Conns : ~open[d] /\ (d < c => seed[d] # "none")
    /\ owner' = c
    /\ open' = [open EXCEPT ![c] = TRUE]
    /\ seed' = [seed EXCEPT ![c] = "claimed"]
    /\ UNCHANGED <<live, want, mut, plock, io, row, used, faults, lost>>

\* Teardown: the ratchet is wiped and the gate rejected.
Close(c) ==
    /\ open[c]
    /\ open' = [open EXCEPT ![c] = FALSE]
    /\ live' = [live EXCEPT ![c] = -1]
    /\ UNCHANGED <<owner, seed, want, mut, plock, io, row, used, faults, lost>>

HandshakeDone_Faulty(c) ==
    /\ seed[c] = "claimed"
    /\ owner' = c /\ seed' = [seed EXCEPT ![c] = "queued"] /\ Wait(c, "seed")
    /\ UNCHANGED <<open, live, want, mut, io, row, used, faults, lost>>

\* The handshake fails, or its root goes to the row unless c lost the edge; a
\* connection torn down meanwhile still holds its (rejected) gate lease.
HandshakeDone(c) ==
    /\ seed[c] = "claimed"
    /\ \/ owner = c /\ seed' = [seed EXCEPT ![c] = "queued"] /\ Wait(c, "seed")
       \/ seed' = [seed EXCEPT ![c] = "failed"] /\ UNCHANGED plock
    /\ UNCHANGED <<owner, open, live, want, mut, io, row, used, faults, lost>>

SeedGranted(c) ==
    /\ Holds(c, "seed") /\ io = "idle"
    /\ IF owner = c
       THEN io' = "posted" /\ UNCHANGED <<plock, seed>>
       ELSE Release /\ seed' = [seed EXCEPT ![c] = "failed"]
    /\ UNCHANGED <<owner, open, live, want, mut, row, used, faults, lost>>

\* Owner and gate are checked again; then the seed is activated, or rolled back.
SeedAnswered(c) ==
    /\ Holds(c, "seed") /\ io \in {"ok", "error"}
    /\ IF io = "ok" /\ owner = c /\ open[c]
       THEN /\ live' = [live EXCEPT ![c] = 0]
            /\ seed' = [seed EXCEPT ![c] = "up"]
            /\ Release
       ELSE /\ io' = "rollback"
            /\ UNCHANGED <<live, seed, plock>>
    /\ UNCHANGED <<owner, open, want, mut, row, used, faults, lost>>

\* The worker deletes the row; a failed delete is only logged.
SeedRollback(c) ==
    /\ Holds(c, "seed") /\ io = "rollback"
    /\ \/ row' = NoRow /\ UNCHANGED lost
       \/ lost < MaxDeleteFaults /\ lost' = lost + 1 /\ UNCHANGED row
    /\ seed' = [seed EXCEPT ![c] = "failed"]
    /\ Release
    /\ UNCHANGED <<owner, open, live, want, mut, used, faults>>

-----------------------------------------------------------------------------
(***************************************************************************)
(* One message key: clone, step, persist, adopt.                           *)
(***************************************************************************)
Mutate(c) ==
    /\ mut[c].stage = "idle" /\ want[c] > 0 /\ live[c] >= 0
    /\ mut' = [mut EXCEPT ![c] = [stage |-> "waiting", n |-> live[c]]]
    /\ want' = [want EXCEPT ![c] = @ - 1]
    /\ Wait(c, "mutate")
    /\ UNCHANGED <<owner, open, seed, live, io, row, used, faults, lost>>

MutationGranted_Faulty(c) ==
    /\ Holds(c, "mutate") /\ io = "idle"
    /\ owner = c /\ live[c] >= 0
    /\ io' = "posted"
    /\ UNCHANGED <<owner, open, seed, live, want, mut, plock, row, used, faults, lost>>

\* With the lock: still the owner, and still the ratchet that was cloned.
MutationGranted(c) ==
    /\ Holds(c, "mutate") /\ io = "idle"
    /\ IF owner = c /\ live[c] >= 0
       THEN io' = "posted" /\ UNCHANGED <<plock, mut>>
       ELSE Release /\ mut' = [mut EXCEPT ![c] = NoMutation]
    /\ UNCHANGED <<owner, open, seed, live, want, row, used, faults, lost>>

MutationAnswered(c) ==
    /\ Holds(c, "mutate") /\ io \in {"ok", "error"}
    /\ mut' = [mut EXCEPT ![c] = IF io = "ok" /\ owner = c
                                 THEN [@ EXCEPT !.stage = "durable"]
                                 ELSE NoMutation]
    /\ Release
    /\ UNCHANGED <<owner, open, seed, live, want, row, used, faults, lost>>

\* The lock is released; adopt unless the connection was torn down meanwhile.
Adopt(c) ==
    /\ mut[c].stage = "durable"
    /\ IF live[c] >= 0
       THEN /\ live' = [live EXCEPT ![c] = mut[c].n + 1]
            /\ used' = used \union {[conn |-> c, n |-> mut[c].n]}
       ELSE UNCHANGED <<live, used>>
    /\ mut' = [mut EXCEPT ![c] = NoMutation]
    /\ UNCHANGED <<owner, open, seed, want, plock, io, row, faults, lost>>

-----------------------------------------------------------------------------
Candidate_Faulty ==
    [conn |-> Holder.conn,
     n |-> IF Holder.kind = "seed" THEN 0 ELSE mut[Holder.conn].n]

\* What the holder of the persistence lock writes: the successor, never the live index.
Candidate ==
    [conn |-> Holder.conn,
     n |-> IF Holder.kind = "seed" THEN 0 ELSE mut[Holder.conn].n + 1]

(***************************************************************************)
(* The worker's side of a write.  An error may come before the row is put  *)
(* or after it (the rollback guard's bookkeeping follows the put).         *)
(***************************************************************************)
WorkerPut ==
    /\ io = "posted"
    /\ \/ row' = Candidate /\ io' = "ok" /\ UNCHANGED faults
       \/ /\ faults < MaxFaults /\ faults' = faults + 1
          /\ row' \in {row, Candidate} /\ io' = "error"
    /\ UNCHANGED <<owner, open, seed, live, want, mut, plock, used, lost>>

Seeding(c) ==
    HandshakeDone(c) \/ SeedGranted(c) \/ SeedAnswered(c) \/ SeedRollback(c)

Mutating(c) == MutationGranted(c) \/ MutationAnswered(c) \/ Adopt(c)

RowNext ==
    \/ \E c \in Conns : Claim(c) \/ Close(c) \/ Seeding(c) \/ Mutate(c) \/ Mutating(c)
    \/ WorkerPut

\* The event loop runs every continuation and the worker answers every call.
RowFairness ==
    /\ WF_rowVars(WorkerPut)
    /\ \A c \in Conns : WF_rowVars(Seeding(c)) /\ WF_rowVars(Mutating(c))

RowSpec == RowInit /\ [][RowNext]_rowVars /\ RowFairness

-----------------------------------------------------------------------------
(***************************************************************************)
(* "... can never reuse a message key after restart": whatever row a       *)
(* restart finds, its ratchet has moved past every key handed out from it. *)
(***************************************************************************)
NoKeyReuseAfterRestart ==
    \A k \in used : row.conn = k.conn => row.n > k.n

(***************************************************************************)
(* No message key is handed to two callers, with concurrent sends, failed  *)
(* writes and replaced connections.                                        *)
(***************************************************************************)
KeyHandedOnce ==
    [][\A c \in Conns :
         Adopt(c) /\ live[c] >= 0 => [conn |-> c, n |-> mut[c].n] \notin used]_rowVars

(***************************************************************************)
(* The ratchet the owner uses is never ahead of its row: a live ratchet of *)
(* the owning connection finds its own session in the row, at its index or *)
(* past it.                                                                *)
(***************************************************************************)
OwnerIsDurable ==
    \A c \in Conns : owner = c /\ live[c] >= 0 => row.conn = c /\ row.n >= live[c]

(***************************************************************************)
(* "... the edge-wide write lock ensures any already-running old write     *)
(* finishes before the replacement seed is written last": a row of a       *)
(* connection is never overwritten by one of a connection it replaced.     *)
(***************************************************************************)
ReplacementWritesLast ==
    [][row.conn # 0 /\ row'.conn # 0 => row'.conn >= row.conn]_rowVars

(***************************************************************************)
(* "This prevents a never-established root from being restored later":     *)
(* between worker calls, and unless the worker lost a delete, the row is   *)
(* of a session that was activated.                                        *)
(***************************************************************************)
RowWasEstablished ==
    io = "idle" /\ row # NoRow /\ lost = 0 => seed[row.conn] = "up"

(***************************************************************************)
(* Every mutation ends and leaves its locks: neither lock is kept by a     *)
(* caller that failed.                                                     *)
(***************************************************************************)
MutationsEnd == \A c \in Conns : mut[c].stage = "waiting" ~> mut[c].stage = "idle"

\* Every finished handshake settles: activated, or failed and rolled back.
SeedsSettle == \A c \in Conns : seed[c] = "queued" ~> seed[c] \in {"up", "failed"}

-----------------------------------------------------------------------------
(***************************************************************************)
(* The parts of the inductive invariant.  Connections claim the edge in    *)
(* order, and only the last one that did is open or has a live ratchet; a  *)
(* ratchet, a mutation and a key need an activated seed.                   *)
(***************************************************************************)
Claimed ==
    /\ \A c \in Conns : seed[c] # "none" <=> c <= owner
    /\ \A c \in Conns : open[c] => owner = c
    /\ \A c \in Conns : live[c] >= 0 => open[c] /\ seed[c] = "up"
    /\ \A c \in Conns : mut[c].stage # "idle" => seed[c] = "up"
    /\ \A k \in used : seed[k.conn] = "up"

\* The queue of the persistence lock: a ticket for each seed and each mutation
\* that waits, those of a replaced connection first, and none of it once its
\* replacement is up.
Queued ==
    /\ \A i \in DOMAIN plock :
          /\ plock[i].kind = "seed" => seed[plock[i].conn] = "queued"
          /\ plock[i].kind = "mutate" => mut[plock[i].conn].stage = "waiting"
    /\ \A i, j \in DOMAIN plock :
          /\ plock[i] = plock[j] => i = j
          /\ i < j => plock[i].conn <= plock[j].conn
    /\ \A c \in Conns, i \in DOMAIN plock : live[c] >= 0 => plock[i].conn = c

\* The worker call: whose it is, and what it has done to the row.
Called ==
    /\ row.conn <= owner
    /\ io # "idle" => plock # << >> /\ row.conn <= Holder.conn
    /\ io = "ok" => row = Candidate
    /\ io = "rollback" => Holder.kind = "seed"
    /\ row # NoRow /\ lost = 0 =>
         \/ seed[row.conn] = "up"
         \/ io # "idle" /\ Holder = [conn |-> row.conn, kind |-> "seed"]

\* The indices: a mutation is of the live ratchet, past every key handed out;
\* a durable one has its successor in the row.
Ahead ==
    \A c \in Conns :
        /\ mut[c].stage # "idle" /\ live[c] >= 0 => live[c] = mut[c].n
        /\ mut[c].stage = "durable" /\ row.conn = c => row.n > mut[c].n
        /\ \A k \in used : k.conn = c =>
             /\ mut[c].stage # "idle" => k.n < mut[c].n
             /\ live[c] >= 0 => k.n < live[c]

(***************************************************************************)
(* The inductive invariant behind NoKeyReuseAfterRestart, KeyHandedOnce,   *)
(* OwnerIsDurable, ReplacementWritesLast and RowWasEstablished.            *)
(***************************************************************************)
DurableInv ==
    /\ RowTypeOK /\ Claimed /\ Queued /\ Called /\ Ahead
    /\ NoKeyReuseAfterRestart /\ OwnerIsDurable
=============================================================================
