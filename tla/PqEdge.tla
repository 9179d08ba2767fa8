------------------------------- MODULE PqEdge -------------------------------
(***************************************************************************)
(* The WebRTC edge that heals while messages flow: the orchestrator        *)
(* (handlers/pqHealingOrchestrator.ts) of both ends, its due/retry tick,   *)
(* its inbound control frames and the per-edge mutation lock it shares     *)
(* with the message path (handlers/ratchetPersist.ts), and the admission   *)
(* and sealing of one message transfer per direction                       *)
(* (handlers/handleSendMessage.ts).  Implements PqExchange.                *)
(*                                                                         *)
(* Interleaving.  Whatever the code decides before it awaits the mutation  *)
(* lock (a tick's checks, a send's admission, the arrival of a frame) is   *)
(* one step, and what it does with the lock is a later one; lock[p] is the *)
(* FIFO of the callers.  What happens under the lock ends durable, or      *)
(* fails to persist (at most MaxFaults times) and changes nothing.         *)
(*                                                                         *)
(* The main DataChannel is reliable and ordered; message channels are not  *)
(* ordered with it.  Frames that wait for the receive queue to drain       *)
(* (polling every 10 ms) may overtake each other.  When an end fails the   *)
(* edge, the connection closes and the edge stops; reconnecting runs a     *)
(* fresh handshake and a fresh edge.                                       *)
(***************************************************************************)
EXTENDS PqHealing

CONSTANTS
    MaxSlow,    \* 5 s retry deadlines that pass while an answer is under way
    MaxFaults,  \* checkpoint writes that fail
    Senders,    \* the peers that send a message
    Chunks      \* data chunks of a message

ASSUME MaxSlowAssumption == MaxSlow \in Nat
ASSUME MaxFaultsAssumption == MaxFaults \in Nat
ASSUME SendersAssumption == Senders \subseteq Peers
ASSUME ChunksAssumption == Chunks \in Nat \ {0}

VARIABLES
    rt,      \* rt[p]: the live runtime, equal to its durable checkpoint
    sent,    \* every control frame ever dispatched (history)
    fresh,   \* the number of the next KEM randomness
    lane,    \* lane[p]: control frames of p in flight to the other end
    inbox,   \* inbox[p]: received frames waiting for receive quiescence
    lock,    \* lock[p]: the callers of the mutation lock, in order
    gate,    \* gate[p]: inboundBlocked
    edge,    \* "up", or why the edge was failed
    faults,  \* checkpoint writes that failed
    slow,    \* deadlines that passed while an answer was under way
    xfer     \* xfer[p]: the message p sends

vars == <<rt, sent, fresh, lane, inbox, lock, gate, edge, faults, slow, xfer>>

Ops == [kind : {"retry", "offer", "frame", "seal"}, frame : Frames]

Op(kind) == [kind |-> kind, frame |-> NoFrame]

TypeOK ==
    /\ rt \in [Peers -> Runtimes] /\ sent \subseteq Frames /\ fresh \in Nat
    /\ lane \in [Peers -> Seq(Frames)] /\ inbox \in [Peers -> Seq(Frames)]
    /\ lock \in [Peers -> Seq(Ops)] /\ gate \in [Peers -> BOOLEAN]
    /\ edge \in {"up", "exhausted", "rejected"} /\ faults \in 0 .. MaxFaults /\ slow \in 0 .. MaxSlow
    /\ xfer \in [Peers -> [state : {"none", "open", "queued", "live", "done", "failed", "leaked"},
                           epoch : Nat, left : 0 .. Chunks, seen : BOOLEAN]]

Init ==
    /\ rt = [p \in Peers |-> InitRuntime(p)]
    /\ sent = {} /\ fresh = 1
    /\ lane = [p \in Peers |-> << >>] /\ inbox = [p \in Peers |-> << >>]
    /\ lock = [p \in Peers |-> << >>] /\ gate = [p \in Peers |-> FALSE]
    /\ edge = "up" /\ faults = 0 /\ slow = 0
    /\ xfer = [p \in Peers |->
                 [state |-> "none", epoch |-> 0, left |-> 0, seen |-> FALSE]]

\* New application sends may not derive a message key.
ApplicationBlocked(p) == gate[p] \/ TrafficBlocked(rt[p])

\* A "leaked" channel is one whose send failed before its transfer started.
HasChannel(x) == x.state \in {"open", "queued", "live", "leaked"}

\* No message channel that this end knows of.
Quiescent(p) ==
    ~HasChannel(xfer[p]) /\ ~(HasChannel(xfer[Other(p)]) /\ xfer[Other(p)].seen)

\* A tick is under way (busy): it waits for the lock.
TickBusy(p) == \E i \in DOMAIN lock[p] : lock[p][i].kind \in {"retry", "offer"}

\* A frame of p, or an answer to one, is on its way or being processed.
UnderWay ==
    \E p \in Peers : \/ lane[p] # << >> \/ inbox[p] # << >>
                     \/ \E i \in DOMAIN lock[p] : lock[p][i].kind = "frame"

\* The outbox is pending and its deadline has passed.
RetryDue(p) ==
    /\ rt[p].outbox # NoFrame
    /\ IF UnderWay THEN slow < MaxSlow /\ slow' = slow + 1 ELSE UNCHANGED slow

\* The sequence s without its element i.
Without(s, i) == SubSeq(s, 1, i - 1) \o SubSeq(s, i + 1, Len(s))

Enqueue(p, op) == lock' = [lock EXCEPT ![p] = Append(@, op)]

-----------------------------------------------------------------------------
(***************************************************************************)
(* The tick, up to the lock.                                               *)
(***************************************************************************)
TickRetry_Faulty(p) ==
    /\ edge = "up" /\ ~TickBusy(p) /\ RetryDue(p)
    /\ rt[p].attempts < MaxRetries - 1
    /\ Enqueue(p, Op("retry"))
    /\ UNCHANGED <<rt, sent, fresh, lane, inbox, gate, edge, faults, xfer>>

TickRetry(p) ==
    /\ edge = "up" /\ ~TickBusy(p) /\ RetryDue(p)
    /\ rt[p].attempts < MaxRetries
    /\ Enqueue(p, Op("retry"))
    /\ UNCHANGED <<rt, sent, fresh, lane, inbox, gate, edge, faults, xfer>>

TickExhausted(p) ==
    /\ edge = "up" /\ ~TickBusy(p) /\ RetryDue(p)
    /\ rt[p].attempts >= MaxRetries
    /\ edge' = "exhausted"
    /\ UNCHANGED <<rt, sent, fresh, lane, inbox, lock, gate, faults, xfer>>

TickOffer(p) ==
    /\ edge = "up" /\ ~TickBusy(p)
    /\ HealingDue(rt[p]) /\ CanStartExchange(rt[p])
    /\ ~gate[p] /\ Quiescent(p)
    /\ Enqueue(p, Op("offer"))
    /\ UNCHANGED <<rt, sent, fresh, lane, inbox, gate, edge, faults, xfer, slow>>

(***************************************************************************)
(* An inbound control frame, up to the lock.                               *)
(***************************************************************************)
Arrive(p) ==
    LET q == Other(p)
    IN  /\ edge = "up" /\ lane[q] # << >>
        /\ gate' = [gate EXCEPT ![p] = TRUE]
        /\ inbox' = [inbox EXCEPT ![p] = Append(@, Head(lane[q]))]
        /\ lane' = [lane EXCEPT ![q] = Tail(@)]
        /\ UNCHANGED <<rt, sent, fresh, lock, edge, faults, xfer, slow>>

Drained(p) ==
    /\ edge = "up"
    /\ \E i \in DOMAIN inbox[p] :
         /\ Enqueue(p, [kind |-> "frame", frame |-> inbox[p][i]])
         /\ inbox' = [inbox EXCEPT ![p] = Without(@, i)]
    /\ UNCHANGED <<rt, sent, fresh, lane, gate, edge, faults, xfer, slow>>

-----------------------------------------------------------------------------
(***************************************************************************)
(* mutatePqDurably: one caller with the lock, from clone to dispatch.      *)
(***************************************************************************)
Holds(p, kind) == edge = "up" /\ lock[p] # << >> /\ Head(lock[p]).kind = kind

Release(p) == lock' = [lock EXCEPT ![p] = Tail(@)]

Dispatch(p, f) ==
    /\ lane' = IF f = NoFrame THEN lane ELSE [lane EXCEPT ![p] = Append(@, f)]
    /\ sent' = sent \union ({f} \ {NoFrame})

Commit_Faulty(p, candidate, f) == Dispatch(p, f) /\ UNCHANGED <<rt, faults>>

\* The candidate is durable and adopted, and its frame is dispatched.
Commit(p, candidate, f) ==
    /\ rt' = [rt EXCEPT ![p] = candidate]
    /\ Dispatch(p, f)
    /\ UNCHANGED faults

\* The write failed: the candidate is destroyed, nothing is dispatched.
PersistFails ==
    /\ faults < MaxFaults
    /\ faults' = faults + 1
    /\ UNCHANGED <<rt, sent, lane>>

RunRetry(p) ==
    /\ Holds(p, "retry") /\ CanMarkDispatched(rt[p])
    /\ Commit(p, MarkPendingDispatched(rt[p]), rt[p].outbox) \/ PersistFails
    /\ Release(p)
    /\ UNCHANGED <<fresh, inbox, gate, edge, xfer, slow>>

RunOffer(p) ==
    /\ Holds(p, "offer") /\ HealingDue(rt[p]) /\ CanStartExchange(rt[p])
    /\ \/ Commit(p, MarkPendingDispatched(PrepareHealingOffer(p, rt[p], fresh)),
                 OfferFrame(p, rt[p], fresh))
       \/ PersistFails
    /\ fresh' = fresh + 1
    /\ Release(p)
    /\ UNCHANGED <<inbox, gate, edge, xfer, slow>>

\* The outbox or the turn went away while the tick waited: logged, no change.
TickStale(p) ==
    /\ \/ Holds(p, "retry") /\ ~CanMarkDispatched(rt[p])
       \/ Holds(p, "offer") /\ ~(HealingDue(rt[p]) /\ CanStartExchange(rt[p]))
    /\ Release(p)
    /\ UNCHANGED <<rt, sent, fresh, lane, inbox, gate, edge, faults, xfer, slow>>

RunAccept_Faulty(p) ==
    LET f == Head(lock[p]).frame
    IN  /\ Holds(p, "frame") /\ Accepts(p, rt[p], f)
        /\ \/ Commit(p, AfterAccept(p, rt[p], f, fresh),
                     AcceptReply(p, rt[p], f, fresh))
           \/ PersistFails
        /\ fresh' = fresh + (IF f.type = "offer" THEN 1 ELSE 0)
        /\ Release(p)
        /\ UNCHANGED <<gate, inbox, edge, xfer, slow>>

RunAccept(p) ==
    LET f == Head(lock[p]).frame
    IN  /\ Holds(p, "frame") /\ Accepts(p, rt[p], f)
        /\ \/ Commit(p, AfterAccept(p, rt[p], f, fresh),
                     AcceptReply(p, rt[p], f, fresh))
           \/ PersistFails
        /\ fresh' = fresh + (IF f.type = "offer" THEN 1 ELSE 0)
        /\ gate' = [gate EXCEPT ![p] = FALSE]
        /\ Release(p)
        /\ UNCHANGED <<inbox, edge, xfer, slow>>

RunDuplicate(p) ==
    LET f == Head(lock[p]).frame
    IN  /\ Holds(p, "frame") /\ Duplicate(rt[p], f)
        /\ Dispatch(p, DuplicateReply(rt[p], f))
        /\ gate' = [gate EXCEPT ![p] = FALSE]
        /\ Release(p)
        /\ UNCHANGED <<rt, fresh, inbox, edge, faults, xfer, slow>>

\* Anything else is taken for a fork or a replay and fails the edge.
RunReject(p) ==
    /\ Holds(p, "frame") /\ Rejects(p, rt[p], Head(lock[p]).frame)
    /\ edge' = "rejected"
    /\ gate' = [gate EXCEPT ![p] = FALSE]
    /\ Release(p)
    /\ UNCHANGED <<rt, sent, fresh, lane, inbox, faults, xfer, slow>>

-----------------------------------------------------------------------------
(***************************************************************************)
(* One message: its channel opens, the traffic gate admits it, its key and *)
(* PQ context are derived under the mutation lock, its chunks are sealed   *)
(* with them until the receiver has all of them.                           *)
(***************************************************************************)
OpenChannel(p) ==
    /\ edge = "up" /\ p \in Senders /\ xfer[p].state = "none"
    /\ xfer' = [xfer EXCEPT ![p].state = "open"]
    /\ UNCHANGED <<rt, sent, fresh, lane, inbox, lock, gate, edge, faults, slow>>

ChannelSeen(p) ==
    /\ edge = "up" /\ HasChannel(xfer[p]) /\ ~xfer[p].seen
    /\ xfer' = [xfer EXCEPT ![p].seen = TRUE]
    /\ UNCHANGED <<rt, sent, fresh, lane, inbox, lock, gate, edge, faults, slow>>

Admit(p) ==
    /\ edge = "up" /\ xfer[p].state = "open" /\ ~ApplicationBlocked(p)
    /\ xfer' = [xfer EXCEPT ![p].state = "queued"]
    /\ Enqueue(p, Op("seal"))
    /\ UNCHANGED <<rt, sent, fresh, lane, inbox, gate, edge, faults, slow>>

\* The traffic gate did not open before the send timeout.  The send throws
\* before the transfer that closes the channel at its end is started, so the
\* channel stays open: "leaked".  A failing Seal does the same.
AdmissionTimesOut(p) ==
    /\ edge = "up" /\ xfer[p].state = "open" /\ ApplicationBlocked(p)
    /\ xfer' = [xfer EXCEPT ![p].state = "leaked"]
    /\ UNCHANGED <<rt, sent, fresh, lane, inbox, lock, gate, edge, faults, slow>>

\* ratchetEncryptDurably: the message key is bound to the epoch of now.
Seal(p) ==
    /\ Holds(p, "seal")
    /\ xfer' = [xfer EXCEPT ![p] = [@ EXCEPT !.state = "live", !.left = Chunks,
                                             !.epoch = rt[p].epoch]]
    /\ Release(p)
    /\ UNCHANGED <<rt, sent, fresh, lane, inbox, gate, edge, faults, slow>>

SealFails(p) ==
    /\ Holds(p, "seal") /\ faults < MaxFaults
    /\ faults' = faults + 1
    /\ xfer' = [xfer EXCEPT ![p].state = "leaked"]
    /\ Release(p)
    /\ UNCHANGED <<rt, sent, fresh, lane, inbox, gate, edge, slow>>

\* The receiver opens a chunk only under its current epoch.
Opened(p) == xfer[p].epoch = rt[Other(p)].epoch

DeliverChunk(p) ==
    /\ edge = "up" /\ xfer[p].state = "live" /\ xfer[p].seen /\ Opened(p)
    /\ xfer' = [xfer EXCEPT ![p].left = @ - 1,
                            ![p].state = IF xfer[p].left = 1 THEN "done" ELSE @]
    /\ UNCHANGED <<rt, sent, fresh, lane, inbox, lock, gate, edge, faults, slow>>

\* Every retransmission is refused too: the transfer ends unconfirmed.
GiveUp(p) ==
    /\ edge = "up" /\ xfer[p].state = "live" /\ xfer[p].seen /\ ~Opened(p)
    /\ xfer' = [xfer EXCEPT ![p].state = "failed"]
    /\ UNCHANGED <<rt, sent, fresh, lane, inbox, lock, gate, edge, faults, slow>>

-----------------------------------------------------------------------------
Tick(p) == TickRetry(p) \/ TickExhausted(p) \/ TickOffer(p)

RunLocked(p) ==
    \/ RunRetry(p) \/ RunOffer(p) \/ TickStale(p)
    \/ RunAccept(p) \/ RunDuplicate(p) \/ RunReject(p)
    \/ Seal(p) \/ SealFails(p)

Message(p) ==
    \/ OpenChannel(p) \/ ChannelSeen(p) \/ Admit(p) \/ AdmissionTimesOut(p)
    \/ DeliverChunk(p) \/ GiveUp(p)

Next == \E p \in Peers : Tick(p) \/ Arrive(p) \/ Drained(p) \/ RunLocked(p) \/ Message(p)

(***************************************************************************)
(* The interval ticks, the lock is handed on in order, a reliable channel  *)
(* delivers, a receive queue drains and an admitted transfer proceeds.     *)
(* Nothing makes an application open a channel, and no message relies on   *)
(* its send timeout to end.                                                *)
(***************************************************************************)
Fairness ==
    \A p \in Peers :
        /\ WF_vars(TickRetry(p) \/ TickExhausted(p))
        /\ WF_vars(Arrive(p)) /\ WF_vars(Drained(p)) /\ WF_vars(RunLocked(p))
        /\ WF_vars(ChannelSeen(p)) /\ WF_vars(Admit(p))
        /\ WF_vars(DeliverChunk(p) \/ GiveUp(p))

Spec == Init /\ [][Next]_vars /\ Fairness

-----------------------------------------------------------------------------
Exchange == INSTANCE PqExchange WITH net <- sent

(***************************************************************************)
(* Everything the orchestrators do, in any interleaving of ticks, arrivals *)
(* and lock hand-overs and with failing writes, is a behaviour of the      *)
(* exchange: its proved properties hold of the edge.                       *)
(***************************************************************************)
ImplementsExchange == Exchange!Spec

(***************************************************************************)
(* "Exact duplicate records retransmit the persisted exact frame ... Retry *)
(* exhaustion and unauthenticated/forked control frames fail the           *)
(* authenticated edge": two honest ends, over a reliable channel, never    *)
(* take each other's frames for a fork.                                    *)
(***************************************************************************)
HonestEndsNeverFork == edge # "rejected"

(***************************************************************************)
(* Without a failed write, and when answers beat the retry deadline, the   *)
(* counters, roots and duplicate caches let no frame of an honest end be   *)
(* rejected (failEdgeOnce as "unauthenticated or forked").                 *)
(***************************************************************************)
OnlyMishapsFork == edge = "rejected" => slow > 0 \/ faults > 0

(***************************************************************************)
(* "never step the ratchet into a healing exchange": no message key is     *)
(* derived while the runtime of that side is in one.                       *)
(***************************************************************************)
NeverSealedMidExchange ==
    [][\A p \in Peers : Seal(p) => ~TrafficBlocked(rt[p])]_vars

(***************************************************************************)
(* "Receiving an OFFER closes the local application gate before waiting    *)
(* for old-epoch channels to drain": a message that is on its way when an  *)
(* exchange happens is still opened by the receiver.                       *)
(***************************************************************************)
NoMessageStranded ==
    \A p \in Peers : edge = "up" /\ xfer[p].state = "live" => Opened(p)

(***************************************************************************)
(* A side that blocked its traffic for an exchange unblocks it, or the     *)
(* edge is failed: lost transitions are repeated from the outbox.          *)
(***************************************************************************)
ExchangeSettles ==
    \A p \in Peers : TrafficBlocked(rt[p]) ~> (~TrafficBlocked(rt[p]) \/ edge # "up")

(***************************************************************************)
(* A message whose channel opened ends: confirmed, failed (its channel     *)
(* left open when it never was admitted or sealed), or with the edge.  Its *)
(* admission is not starved by healing exchanges.                          *)
(***************************************************************************)
MessageEnds ==
    \A p \in Peers :
        xfer[p].state = "open" ~> (xfer[p].state \in {"done", "failed", "leaked"} \/ edge # "up")

-----------------------------------------------------------------------------
(***************************************************************************)
(* Every frame in flight, received or waiting for the lock was dispatched, *)
(* so each step of the edge is a step of the exchange or leaves it alone.  *)
(***************************************************************************)
FramesDispatched ==
    /\ rt \in [Peers -> Runtimes] /\ sent \subseteq Frames /\ fresh \in Nat
    /\ lane \in [Peers -> Seq(sent)] /\ inbox \in [Peers -> Seq(sent)]
    /\ lock \in [Peers -> Seq(Ops)]
    /\ \A p \in Peers : \A i \in DOMAIN lock[p] :
          lock[p][i].kind = "frame" => lock[p][i].frame \in sent

\* No caller of a lock holds a frame, or one caller holds one and it is f.
NoFrameOp(ops) == \A i \in DOMAIN ops : ops[i].kind # "frame"

OneFrameOp(ops, f) ==
    \E i \in DOMAIN ops :
        /\ ops[i].kind = "frame" /\ ops[i].frame = f
        /\ \A j \in DOMAIN ops : ops[j].kind = "frame" => j = i

\* Nothing travels from p.
Silent(p) == lane[p] = << >> /\ inbox[Other(p)] = << >> /\ NoFrameOp(lock[Other(p)])

\* The one frame that travels, from p, is f.
Travels(p, f) ==
    LET q == Other(p)
    IN  /\ Silent(q)
        /\ \/ lane[p] = <<f>> /\ inbox[q] = << >> /\ NoFrameOp(lock[q])
           \/ lane[p] = << >> /\ inbox[q] = <<f>> /\ NoFrameOp(lock[q])
           \/ lane[p] = << >> /\ inbox[q] = << >> /\ OneFrameOp(lock[q], f)

\* The runtime r is in no exchange; r has offered f; r has answered with f.
Resting(r, turn) == r.phase = "idle" /\ r.outbox = NoFrame /\ r.turn = turn

Offered(p, r, f) ==
    /\ r.phase = "offered" /\ r.turn = "local" /\ r.outbox = f
    /\ r.inOffer = NoFrame /\ r.inAdvance = NoFrame
    /\ f.type = "offer" /\ f.dir = p /\ f.epoch = r.epoch /\ f.ctr = r.epoch
    /\ f.key = r.root /\ r.epoch < MaxU64

Answered(p, r, f) ==
    /\ r.phase = "awaitAck" /\ r.turn = "local" /\ r.outbox = f
    /\ r.inOffer.type = "offer" /\ r.inAdvance = NoFrame
    /\ f.type = "advance" /\ f.dir = p /\ f.epoch + 1 = r.epoch /\ f.ctr = f.epoch

SameRoot(r, s) == r.epoch = s.epoch /\ r.root = s.root

(***************************************************************************)
(* An exchange that p starts, when no answer is late and no write fails:   *)
(* there is none, its OFFER travels, the ADVANCE, the ACK.                 *)
(***************************************************************************)
NoExchange(p) ==
    /\ Resting(rt[p], "local") /\ Resting(rt[Other(p)], "remote")
    /\ SameRoot(rt[p], rt[Other(p)])
    /\ Silent(p) /\ Silent(Other(p))

OfferTravels(p) ==
    /\ Offered(p, rt[p], rt[p].outbox) /\ Resting(rt[Other(p)], "remote")
    /\ SameRoot(rt[p], rt[Other(p)])
    /\ Travels(p, rt[p].outbox)

AdvanceTravels(p) ==
    LET q == Other(p)
        f == rt[q].outbox
    IN  /\ Offered(p, rt[p], rt[p].outbox) /\ Answered(q, rt[q], f)
        /\ f.epoch = rt[p].epoch /\ f.key = rt[p].root /\ f.offer = rt[p].outbox.id
        /\ rt[q].root = NextRoot(rt[p].root, f)
        /\ Travels(q, f)

AckTravels(p) ==
    LET q == Other(p)
    IN  /\ Resting(rt[p], "remote") /\ Answered(q, rt[q], rt[q].outbox)
        /\ SameRoot(rt[p], rt[q])
        /\ \E f \in sent :
              /\ f.type = "ack" /\ f.dir = p /\ f.epoch = rt[q].epoch
              /\ f.key = rt[q].root /\ f.ctr = rt[q].outbox.ctr
              /\ Travels(p, f)

(***************************************************************************)
(* The inductive invariant behind OnlyMishapsFork: without mishaps one     *)
(* frame at a time is under way, it is the one its receiver expects, and   *)
(* nothing is sent twice.                                                  *)
(***************************************************************************)
OneFrameAtATime ==
    /\ edge # "rejected"
    /\ \A p \in Peers :
          /\ rt[p].local = rt[p].epoch /\ rt[p].remote = rt[p].epoch
          /\ rt[p].inAdvance # NoFrame => rt[p].inAdvance.type = "advance"
          /\ \A i \in DOMAIN lock[p] : lock[p][i].kind # "retry"
    /\ \E p \in Peers :
          NoExchange(p) \/ OfferTravels(p) \/ AdvanceTravels(p) \/ AckTravels(p)

CalmInv ==
    /\ slow \in Nat /\ faults \in Nat
    /\ slow = 0 /\ faults = 0 => OneFrameAtATime
=============================================================================
