------------------------------ MODULE PqExchange ------------------------------
(***************************************************************************)
(* What a healing exchange promises, whoever drives it.  Two runtimes and  *)
(* every frame that was ever put on the wire.  A frame once on the wire    *)
(* may be delivered at any later moment, any number of times or never, so  *)
(* loss, duplication, delay and reordering are all behaviours.  rt[p] is   *)
(* the durable runtime of p: a transition here is one                      *)
(* clone/mutate/persist/adopt transaction, and its frame may or may not    *)
(* reach the wire before a crash or a closed lane.                         *)
(***************************************************************************)
EXTENDS PqHealing

VARIABLES
    rt,     \* rt[p]: the runtime of p
    net,    \* every frame ever put on the wire
    fresh   \* the number of the next KEM randomness

vars == <<rt, net, fresh>>

TypeOK ==
    /\ rt \in [Peers -> Runtimes]
    /\ net \in SUBSET Frames
    /\ fresh \in Nat

Init ==
    /\ rt = [p \in Peers |-> InitRuntime(p)]
    /\ net = {}
    /\ fresh = 1

\* The frame of a transition reaches the wire, or is left to a retransmission.
Dispatch(f) == net' \in {net, net \union {f}}

StartExchange(p) ==
    /\ HealingDue(rt[p]) /\ CanStartExchange(rt[p])
    /\ rt' = [rt EXCEPT ![p] =
                MarkPendingDispatched(PrepareHealingOffer(p, @, fresh))]
    /\ fresh' = fresh + 1
    /\ Dispatch(OfferFrame(p, rt[p], fresh))

Retransmit(p) ==
    /\ CanMarkDispatched(rt[p])
    /\ rt' = [rt EXCEPT ![p] = MarkPendingDispatched(@)]
    /\ Dispatch(rt[p].outbox)
    /\ UNCHANGED fresh

\* The outbox put on the wire again without counting it.
Resend(p) ==
    /\ rt[p].outbox # NoFrame
    /\ net' = net \union {rt[p].outbox}
    /\ UNCHANGED <<rt, fresh>>

ReceiveOffer(p, f) ==
    /\ ~Duplicate(rt[p], f) /\ AcceptsOffer(p, rt[p], f)
    /\ rt' = [rt EXCEPT ![p] = AfterAccept(p, @, f, fresh)]
    /\ fresh' = fresh + 1
    /\ Dispatch(AdvanceFrame(p, rt[p], f, fresh))

ReceiveAdvance(p, f) ==
    /\ ~Duplicate(rt[p], f) /\ AcceptsAdvance(p, rt[p], f)
    /\ rt' = [rt EXCEPT ![p] = AfterAccept(p, @, f, fresh)]
    /\ Dispatch(AckFrame(p, rt[p], f))
    /\ UNCHANGED fresh

ReceiveAck(p, f) ==
    /\ ~Duplicate(rt[p], f) /\ AcceptsAck(p, rt[p], f)
    /\ rt' = [rt EXCEPT ![p] = AfterAccept(p, @, f, fresh)]
    /\ UNCHANGED <<net, fresh>>

ReceiveDuplicate(p, f) ==
    /\ Duplicate(rt[p], f)
    /\ net' = net \union {DuplicateReply(rt[p], f)}
    /\ UNCHANGED <<rt, fresh>>

\* A candidate that did not become durable: only its randomness is spent.
Abandon ==
    /\ fresh' = fresh + 1
    /\ UNCHANGED <<rt, net>>

Receive(p, f) ==
    \/ ReceiveOffer(p, f) \/ ReceiveAdvance(p, f)
    \/ ReceiveAck(p, f) \/ ReceiveDuplicate(p, f)

Next ==
    \/ \E p \in Peers : \/ StartExchange(p) \/ Retransmit(p) \/ Resend(p)
                        \/ \E f \in net : Receive(p, f)
    \/ Abandon

Spec == Init /\ [][Next]_vars

-----------------------------------------------------------------------------
(***************************************************************************)
(* Two endpoints at the same epoch hold the same PQ root, and they are     *)
(* never more than one epoch apart: deriveNextRoot is run on both sides of *)
(* every committed ADVANCE with the same inputs, whatever was lost,        *)
(* repeated or delayed.                                                    *)
(***************************************************************************)
RootAgreement ==
    \A p, q \in Peers :
        /\ rt[p].epoch = rt[q].epoch => rt[p].root = rt[q].root
        /\ rt[p].epoch <= rt[q].epoch + 1

(***************************************************************************)
(* "Different bytes reusing a counter/epoch slot are a fork": an honest    *)
(* endpoint never puts two different OFFERs, or two different ADVANCEs, of *)
(* one slot on the wire, because it sends only what its outbox keeps.      *)
(***************************************************************************)
NoFork ==
    \A f, g \in net :
        /\ f.type \in {"offer", "advance"} /\ f.type = g.type
        /\ f.dir = g.dir /\ f.epoch = g.epoch
        => f = g

(***************************************************************************)
(* A side whose machine lets application traffic through (trafficBlocked   *)
(* is false) is at the epoch of the other side: the epoch it seals under   *)
(* is the one the other side accepts at that moment.                       *)
(***************************************************************************)
OpenTrafficSameEpoch ==
    \A p \in Peers :
        ~TrafficBlocked(rt[p]) => rt[Other(p)].epoch = rt[p].epoch

(***************************************************************************)
(* Every runtime that becomes durable passes validateCheckpointCoherence,  *)
(* so a checkpoint written by this code can always be restored by it.      *)
(***************************************************************************)
Restorable == \A p \in Peers : CheckpointCoherent(rt[p])

(***************************************************************************)
(* The epoch of a side moves by exactly one, never back and never past     *)
(* MaxU64; the root is replaced in that same step and only in it, by       *)
(* mixing in an ADVANCE the other side sent or this side now holds ready   *)
(* to send again.                                                          *)
(***************************************************************************)
EpochStep ==
    \A p \in Peers :
        \/ rt'[p].epoch = rt[p].epoch /\ rt'[p].root = rt[p].root
        \/ /\ rt'[p].epoch = rt[p].epoch + 1 /\ rt'[p].epoch <= MaxU64
           /\ \E f \in net \union {rt'[p].outbox} :
                 f.type = "advance" /\ rt'[p].root = NextRoot(rt[p].root, f)

EpochMovesByOne == [][EpochStep]_vars

-----------------------------------------------------------------------------
(***************************************************************************)
(* The parts of the inductive invariant.  p holds the turn: either both    *)
(* sides are at one root and the other side is idle, or the other side has *)
(* committed the answer to p's OFFER and p has not seen it.                *)
(***************************************************************************)
InStep(p) ==
    LET q == Other(p)
    IN  /\ rt[p].epoch = rt[q].epoch /\ rt[p].root = rt[q].root
        /\ rt[p].turn = "local" /\ rt[q].turn = "remote"
        /\ rt[q].phase = "idle"

OneAhead(p) ==
    LET q == Other(p)
    IN  /\ rt[p].phase = "offered" /\ rt[q].phase = "awaitAck"
        /\ rt[p].turn = "local" /\ rt[q].turn = "local"
        /\ rt[q].epoch = rt[p].epoch + 1
        /\ rt[q].root = NextRoot(rt[p].root, rt[q].outbox)

TurnHolder == \E p \in Peers : InStep(p) \/ OneAhead(p)

\* What one runtime keeps: its counters, its outbox and its cached ACK.
Kept(p) ==
    LET r == rt[p]
    IN  /\ r.local = r.epoch /\ r.remote = r.epoch /\ r.epoch <= MaxU64
        /\ r.phase = "offered" =>
             r.outbox.dir = p /\ r.outbox.epoch = r.epoch /\ r.epoch < MaxU64
        /\ r.phase = "awaitAck" =>
             r.outbox.dir = p /\ r.outbox.epoch + 1 = r.epoch
        /\ r.phase = "idle" => r.outbox = NoFrame
        /\ r.ack # NoFrame =>
             r.ack.type = "ack" /\ r.ack.dir = p /\ r.ack.epoch <= r.epoch

\* A frame on the wire is of a slot its sender has left, or is its outbox.
WireSlots ==
    \A f \in net :
        LET r == rt[f.dir]
        IN  /\ f.type # "none"
            /\ f.type = "offer" =>
                 f.epoch < r.epoch \/ f = r.outbox
            /\ f.type = "advance" =>
                 /\ f.epoch < r.epoch
                 /\ r.phase = "awaitAck" /\ f.epoch + 1 = r.epoch
                      => f = r.outbox
            /\ f.type = "ack" => f.epoch <= r.epoch

(***************************************************************************)
(* The inductive invariant behind RootAgreement and NoFork: exactly one    *)
(* side holds the turn of the exchange, each outbox is of the current slot *)
(* and everything older on the wire is sealed for an epoch already left.   *)
(***************************************************************************)
ExchangeInv ==
    /\ TypeOK
    /\ TurnHolder
    /\ Restorable
    /\ \A p \in Peers : Kept(p)
    /\ WireSlots
    /\ NoFork
=============================================================================
