------------------------------ MODULE PqHealing ------------------------------
(***************************************************************************)
(* The sparse post-quantum healing runtime of one endpoint of an edge, as  *)
(* operators on a record: the ML-KEM healing machine                       *)
(* (cryptography/pqHealing.ts), the sealed control frames                  *)
(* (cryptography/pqHealingFrame.ts) and the runtime that owns the exact    *)
(* outbox and the duplicate caches (handlers/pqHealingRuntime.ts).  The    *)
(* modules that drive it (PqExchange, PqEdge, PqSession) hold its state.   *)
(*                                                                         *)
(* Data.  A root key is the sequence of the ADVANCEs mixed into it, so two *)
(* roots are equal exactly when they were derived from the same exchanges. *)
(* A KEM operation (key generation, encapsulation) is identified by the    *)
(* number of its fresh randomness.  A sealed frame is its record together  *)
(* with the key it is sealed under; two frames have the same bytes exactly *)
(* when the records are equal.  Byte layout, suite tags, bindings and the  *)
(* wiping of secrets are left out.  So is the healing cadence: an exchange *)
(* is due at any moment, which covers the 64 messages and the 24 hours.    *)
(*                                                                         *)
(* A definition whose name ends in _Faulty is the following definition     *)
(* with one mistake; it shows which property notices the mistake.          *)
(***************************************************************************)
EXTENDS Naturals, Sequences

CONSTANTS
    MaxU64,      \* the largest epoch and counter, 2^64 - 1 in the code
    MaxRetries   \* PQ_HEAL_MAX_RETRIES, dispatches of one outbox frame

ASSUME MaxU64Assumption == MaxU64 \in Nat
ASSUME MaxRetriesAssumption == MaxRetries \in Nat \ {0}

Peers == {"initiator", "responder"}

Other(p) == IF p = "initiator" THEN "responder" ELSE "initiator"

Phases == {"idle", "offered", "awaitAck"}

Turns == {"local", "remote"}

(***************************************************************************)
(* A sealed control cell: who sealed it, the epoch and the root it is      *)
(* sealed under, the counter it carries, the KEM randomness it was made    *)
(* with and, in an ADVANCE, the OFFER it embeds.                           *)
(***************************************************************************)
Frames == [type : {"none", "offer", "advance", "ack"}, dir : Peers,
           epoch : Nat, ctr : Nat, key : Seq(Nat), id : Nat, offer : Nat]

\* An absent frame: no outbox, an empty cache slot, nothing to dispatch.
NoFrame == [type |-> "none", dir |-> "initiator", epoch |-> 0, ctr |-> 0,
            key |-> << >>, id |-> 0, offer |-> 0]

(***************************************************************************)
(* What a checkpoint holds.  The phases of the machine that exist only     *)
(* inside one transition of a clone (an OFFER accepted but not answered, a *)
(* root prepared but not committed) never reach a runtime that is adopted. *)
(* The record a phase carries is the one sealed in the outbox.  The        *)
(* machine's memory of the last inbound OFFER and ADVANCE only tells a     *)
(* replay from a fork; the counter and epoch checks refuse both.           *)
(***************************************************************************)
Runtimes == [phase : Phases, epoch : Nat, local : Nat, remote : Nat,
             turn : Turns, root : Seq(Nat), outbox : Frames, attempts : Nat,
             inOffer : Frames, inAdvance : Frames, ack : Frames]

\* A fresh runtime: the identity initiator owns the first OFFER.
InitRuntime(p) ==
    [phase |-> "idle", epoch |-> 0, local |-> 0, remote |-> 0,
     turn |-> IF p = "initiator" THEN "local" ELSE "remote",
     root |-> << >>, outbox |-> NoFrame, attempts |-> 0,
     inOffer |-> NoFrame, inAdvance |-> NoFrame, ack |-> NoFrame]

TrafficBlocked(rt) == rt.phase # "idle"

HealingDue_Faulty(rt) == rt.turn = "local"

HealingDue(rt) == ~TrafficBlocked(rt) /\ rt.turn = "local"

\* No exchange starts when a 64-bit counter could not be incremented.
CanStartExchange(rt) ==
    rt.epoch < MaxU64 /\ rt.local < MaxU64 /\ rt.remote < MaxU64

\* A cell authenticates only under the live root and epoch of the other side.
Opens(p, rt, f) == f.dir # p /\ f.epoch = rt.epoch /\ f.key = rt.root

NextRoot(root, advance) == Append(root, advance.id)

-----------------------------------------------------------------------------
(***************************************************************************)
(* Transitions.  Each is what one call leaves in the clone that is then    *)
(* persisted and adopted.                                                  *)
(***************************************************************************)

CanMarkDispatched(rt) == rt.outbox # NoFrame /\ rt.attempts < MaxRetries

MarkPendingDispatched(rt) == [rt EXCEPT !.attempts = @ + 1]

OfferFrame(p, rt, n) ==
    [type |-> "offer", dir |-> p, epoch |-> rt.epoch, ctr |-> rt.local,
     key |-> rt.root, id |-> n, offer |-> 0]

\* A new OFFER replaces the outbox and forgets the previous exchange's caches.
PrepareHealingOffer(p, rt, n) ==
    [rt EXCEPT !.phase = "offered", !.outbox = OfferFrame(p, rt, n),
               !.attempts = 0, !.inOffer = NoFrame, !.inAdvance = NoFrame,
               !.ack = NoFrame]

\* The OFFER being answered, again: the exact ADVANCE is sent again.
DuplicateOffer(rt, f) ==
    rt.inOffer # NoFrame /\ rt.outbox.type = "advance" /\ f = rt.inOffer

\* The ADVANCE already committed, again: the exact cached ACK is sent again.
DuplicateAdvance(rt, f) ==
    rt.inAdvance # NoFrame /\ rt.ack # NoFrame /\ f = rt.inAdvance

AcceptsOffer(p, rt, f) ==
    /\ f.type = "offer" /\ Opens(p, rt, f)
    /\ rt.phase = "idle" /\ rt.turn = "remote" /\ f.ctr = rt.remote
    /\ CanStartExchange(rt)

AdvanceFrame(p, rt, f, n) ==
    [type |-> "advance", dir |-> p, epoch |-> f.epoch, ctr |-> rt.local,
     key |-> rt.root, id |-> n, offer |-> f.id]

AnswerOffer_Faulty(p, rt, f, n) ==
    LET advance == AdvanceFrame(p, rt, f, n)
    IN  [rt EXCEPT !.phase = "idle", !.epoch = @ + 1, !.local = @ + 1,
                   !.remote = @ + 1, !.turn = "local",
                   !.root = NextRoot(@, advance), !.attempts = 0]

\* Seal the ADVANCE under the old root, then commit the new one.
AnswerOffer(p, rt, f, n) ==
    LET advance == AdvanceFrame(p, rt, f, n)
    IN  [rt EXCEPT !.phase = "awaitAck", !.epoch = @ + 1, !.local = @ + 1,
                   !.remote = @ + 1, !.turn = "local",
                   !.root = NextRoot(@, advance), !.outbox = advance,
                   !.attempts = 0, !.inOffer = f, !.inAdvance = NoFrame,
                   !.ack = NoFrame]

AcceptsAdvance(p, rt, f) ==
    /\ f.type = "advance" /\ Opens(p, rt, f)
    /\ rt.outbox.type = "offer" /\ rt.phase = "offered"
    /\ f.ctr = rt.remote /\ f.offer = rt.outbox.id

AckFrame_Faulty(p, rt, f) ==
    [type |-> "ack", dir |-> p, epoch |-> rt.epoch + 1, ctr |-> f.ctr - 1,
     key |-> NextRoot(rt.root, f), id |-> 0, offer |-> 0]

AckFrame(p, rt, f) ==
    [type |-> "ack", dir |-> p, epoch |-> rt.epoch + 1, ctr |-> f.ctr,
     key |-> NextRoot(rt.root, f), id |-> 0, offer |-> 0]

CommitAdvance_Faulty(p, rt, f) ==
    [rt EXCEPT !.phase = "idle", !.epoch = @ + 1, !.local = @ + 1,
               !.remote = @ + 1, !.turn = "remote",
               !.root = Append(@, f.offer), !.outbox = NoFrame,
               !.attempts = 0, !.inOffer = NoFrame, !.inAdvance = f,
               !.ack = AckFrame(p, rt, f)]

\* Commit the new root, then seal the ACK under it.
CommitAdvance(p, rt, f) ==
    [rt EXCEPT !.phase = "idle", !.epoch = @ + 1, !.local = @ + 1,
               !.remote = @ + 1, !.turn = "remote",
               !.root = NextRoot(@, f), !.outbox = NoFrame, !.attempts = 0,
               !.inOffer = NoFrame, !.inAdvance = f, !.ack = AckFrame(p, rt, f)]

AcceptsAck_Faulty(p, rt, f) ==
    /\ f.type = "ack" /\ Opens(p, rt, f)
    /\ rt.outbox.type = "advance" /\ rt.phase = "awaitAck"
    /\ f.ctr = rt.local

AcceptsAck(p, rt, f) ==
    /\ f.type = "ack" /\ Opens(p, rt, f)
    /\ rt.outbox.type = "advance" /\ rt.phase = "awaitAck"
    /\ f.ctr = rt.outbox.ctr

\* The exchange is over on the answering side: traffic reopens.
CloseExchange(rt) ==
    [rt EXCEPT !.phase = "idle", !.outbox = NoFrame, !.attempts = 0,
               !.inOffer = NoFrame, !.inAdvance = NoFrame, !.ack = NoFrame]

-----------------------------------------------------------------------------
(***************************************************************************)
(* acceptControlFrame as a whole.  A duplicate changes nothing and repeats *)
(* the reply; an acceptable frame changes the runtime; anything else       *)
(* throws.                                                                 *)
(***************************************************************************)
Duplicate(rt, f) == DuplicateOffer(rt, f) \/ DuplicateAdvance(rt, f)

DuplicateReply(rt, f) == IF DuplicateOffer(rt, f) THEN rt.outbox ELSE rt.ack

Accepts(p, rt, f) ==
    /\ ~Duplicate(rt, f)
    /\ AcceptsOffer(p, rt, f) \/ AcceptsAdvance(p, rt, f) \/ AcceptsAck(p, rt, f)

\* The runtime after an accepted frame; n is the randomness of an ADVANCE.
\* Both drivers count the dispatch of a produced ADVANCE in the same write.
AfterAccept(p, rt, f, n) ==
    CASE f.type = "offer"   -> MarkPendingDispatched(AnswerOffer(p, rt, f, n))
      [] f.type = "advance" -> CommitAdvance(p, rt, f)
      [] f.type = "ack"     -> CloseExchange(rt)

\* The cell to dispatch once the accepted transition is durable.
AcceptReply(p, rt, f, n) ==
    CASE f.type = "offer"   -> AdvanceFrame(p, rt, f, n)
      [] f.type = "advance" -> AckFrame(p, rt, f)
      [] f.type = "ack"     -> NoFrame

Rejects(p, rt, f) == ~Duplicate(rt, f) /\ ~Accepts(p, rt, f)

\* The phase/outbox and cache pairing a restored checkpoint must satisfy.
CheckpointCoherent(rt) ==
    /\ rt.phase = "offered" <=> rt.outbox.type = "offer"
    /\ rt.phase = "awaitAck" <=> rt.outbox.type = "advance"
    /\ rt.inOffer # NoFrame => rt.outbox.type = "advance"
    /\ rt.inAdvance = NoFrame <=> rt.ack = NoFrame
    /\ rt.inOffer = NoFrame \/ rt.inAdvance = NoFrame
=============================================================================
