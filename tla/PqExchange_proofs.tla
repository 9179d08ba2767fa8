-------------------------- MODULE PqExchange_proofs --------------------------
(***************************************************************************)
(* The safety of the healing exchange for every MaxU64 and MaxRetries, any *)
(* number of exchanges and any loss, repetition or reordering of frames.   *)
(***************************************************************************)
EXTENDS PqExchange, PqHealing_proofs

-----------------------------------------------------------------------------
\* The invariant says what a step at p needs of the two runtimes.
LEMMA RuntimesTyped ==
    ASSUME ExchangeInv, NEW p \in Peers
    PROVE  /\ rt[p] \in Runtimes /\ rt[Other(p)] \in Runtimes
           /\ rt[p].epoch \in Nat /\ rt[Other(p)].epoch \in Nat
           /\ rt[p].outbox \in Frames /\ rt[p].phase \in Phases
BY PeerFacts, Zenon DEF ExchangeInv, TypeOK, Runtimes

\* A frame on the wire is typed, and was sealed by one of the peers.
LEMMA WireTyped ==
    ASSUME TypeOK, NEW f \in net
    PROVE  f \in Frames /\ f.dir \in Peers /\ f.epoch \in Nat
BY Zenon DEF TypeOK, Frames

\* A peer that may start an exchange is in step with the other, which is idle.
LEMMA StarterInStep ==
    ASSUME ExchangeInv, NEW p \in Peers, rt[p].phase = "idle",
           rt[p].turn = "local"
    PROVE  InStep(p)
BY PeerFacts, Zenon DEF ExchangeInv, TurnHolder, InStep, OneAhead

\* StartExchange keeps the invariant: the new OFFER is the first of its slot.
LEMMA StartExchangeKeeps ==
    ASSUME ExchangeInv, NEW p \in Peers, StartExchange(p)
    PROVE  ExchangeInv'
<1> DEFINE q == Other(p)
           s == MarkPendingDispatched(PrepareHealingOffer(p, rt[p], fresh))
           o == OfferFrame(p, rt[p], fresh)
<1>1. /\ rt[p].phase = "idle" /\ rt[p].turn = "local"
      /\ rt[p].epoch < MaxU64 /\ rt' = [rt EXCEPT ![p] = s]
      /\ fresh' = fresh + 1 /\ net' \in {net, net \union {o}}
  BY Zenon DEF StartExchange, HealingDue, TrafficBlocked, CanStartExchange, Dispatch
<1>2. rt[p] \in Runtimes /\ rt[p].epoch \in Nat
  BY RuntimesTyped, Zenon
<1>3. TypeOK
  BY Zenon DEF ExchangeInv
<1>4. /\ s \in Runtimes /\ o \in Frames
      /\ s.phase = "offered" /\ s.epoch = rt[p].epoch
      /\ s.local = rt[p].local /\ s.remote = rt[p].remote
      /\ s.turn = rt[p].turn /\ s.root = rt[p].root /\ s.outbox = o
      /\ s.inOffer = NoFrame /\ s.inAdvance = NoFrame /\ s.ack = NoFrame
  BY <1>2, <1>3, OfferPrepared DEF TypeOK
<1>5. o.type = "offer" /\ o.dir = p /\ o.epoch = rt[p].epoch
  BY Zenon DEF OfferFrame
<1> HIDE DEF s, o
<1>6. q \in Peers /\ q # p /\ Other(q) = p /\ \A x \in Peers : x = p \/ x = q
  BY PeerFacts, Zenon
<1>7. rt'[p] = s /\ rt'[q] = rt[q]
  BY <1>1, <1>3, <1>6, Zenon DEF TypeOK
<1>8. TypeOK'
  BY <1>1, <1>3, <1>4 DEF TypeOK
<1>9. TurnHolder'
  <2>1. InStep(p)
    BY <1>1, StarterInStep, Zenon
  <2>2. InStep(p)'
    BY <1>4, <1>7, <2>1, Zenon DEF InStep
  <2>3. QED
    BY <2>2, Zenon DEF TurnHolder
<1>10. Restorable'
  BY <1>4, <1>5, <1>6, <1>7 DEF ExchangeInv, Restorable, CheckpointCoherent
<1>11. \A x \in Peers : Kept(x)'
  BY <1>1, <1>4, <1>5, <1>6, <1>7 DEF ExchangeInv, Kept
<1>12. \A f \in net : f.type = "offer" /\ f.dir = p => f.epoch < rt[p].epoch
  BY <1>1, NoFrameTyped DEF ExchangeInv, WireSlots, Kept
<1>13. WireSlots'
  <2> SUFFICES ASSUME NEW f \in net'
               PROVE  WireSlots!(f)'
    BY Zenon DEF WireSlots
  <2>1. CASE f \in net
    BY <2>1, <1>3, <1>4, <1>6, <1>7, <1>12, WireTyped DEF ExchangeInv, WireSlots
  <2>2. CASE f = o
    BY <2>2, <1>4, <1>5, <1>7, Zenon
  <2>3. QED
    BY <1>1, <2>1, <2>2, Zenon
<1>14. NoFork'
  BY <1>1, <1>2, <1>5, <1>12 DEF ExchangeInv, NoFork
<1>15. QED
  BY <1>8, <1>9, <1>10, <1>11, <1>13, <1>14, Zenon DEF ExchangeInv

\* A step that changes at most the attempt counts of the runtimes.
OnlyAttempts ==
    /\ rt' \in [Peers -> Runtimes]
    /\ \A x \in Peers :
          /\ rt'[x].phase = rt[x].phase /\ rt'[x].epoch = rt[x].epoch
          /\ rt'[x].local = rt[x].local /\ rt'[x].remote = rt[x].remote
          /\ rt'[x].turn = rt[x].turn /\ rt'[x].root = rt[x].root
          /\ rt'[x].outbox = rt[x].outbox /\ rt'[x].inOffer = rt[x].inOffer
          /\ rt'[x].inAdvance = rt[x].inAdvance /\ rt'[x].ack = rt[x].ack

\* Putting a frame that WireSlots allows on the wire keeps both wire parts.
LEMMA WireGrows ==
    ASSUME ExchangeInv, NEW f \in Frames, net' \in {net, net \union {f}},
           OnlyAttempts, fresh' = fresh,
           \/ f.type = "ack" /\ f.epoch <= rt[f.dir].epoch
           \/ f # NoFrame /\ f = rt[f.dir].outbox
    PROVE  ExchangeInv'
<1>1. f.dir \in Peers
  BY Zenon DEF Frames
<1>2. Kept(f.dir) /\ CheckpointCoherent(rt[f.dir])
  BY <1>1, Zenon DEF ExchangeInv, Restorable
<1>3. rt[f.dir].epoch \in Nat /\ rt[f.dir].phase \in Phases
  BY <1>1, RuntimesTyped, Zenon
<1>4. f.type # "none" /\ f.epoch \in Nat
  BY <1>2, <1>3, Zenon DEF Kept, CheckpointCoherent, Phases, Frames
<1>5. WireSlots'
  <2> SUFFICES ASSUME NEW g \in net'
               PROVE  WireSlots!(g)'
    BY Zenon DEF WireSlots
  <2>1. CASE g \in net
    BY <2>1, WireTyped DEF ExchangeInv, WireSlots, OnlyAttempts
  <2>2. CASE g = f
    BY <2>2, <1>1, <1>2, <1>3, <1>4
    DEF Kept, CheckpointCoherent, Phases, OnlyAttempts
  <2>3. QED
    BY <2>1, <2>2, Zenon
<1>6. NoFork'
  <2>1. \A g \in net :
           (/\ g.type = f.type /\ g.dir = f.dir /\ g.epoch = f.epoch
            /\ f.type \in {"offer", "advance"}) => g = f
    BY <1>2, <1>3 DEF ExchangeInv, WireSlots, Kept, CheckpointCoherent, Phases
  <2>2. QED
    BY <2>1 DEF ExchangeInv, NoFork
<1>7. TypeOK'
  BY Zenon DEF ExchangeInv, TypeOK, OnlyAttempts
<1>8. TurnHolder'
  BY PeerFacts DEF ExchangeInv, TurnHolder, InStep, OneAhead, OnlyAttempts
<1>9. Restorable' /\ \A p \in Peers : Kept(p)'
  BY DEF ExchangeInv, Restorable, CheckpointCoherent, Kept, OnlyAttempts
<1>10. QED
  BY <1>5, <1>6, <1>7, <1>8, <1>9, Zenon DEF ExchangeInv

\* Retransmit keeps the invariant: it sends the exact outbox again.
LEMMA RetransmitKeeps ==
    ASSUME ExchangeInv, NEW p \in Peers, Retransmit(p)
    PROVE  ExchangeInv'
<1>1. /\ rt' = [rt EXCEPT ![p] = MarkPendingDispatched(rt[p])]
      /\ net' \in {net, net \union {rt[p].outbox}} /\ fresh' = fresh
      /\ rt[p].outbox # NoFrame
  BY Zenon DEF Retransmit, Dispatch, CanMarkDispatched
<1>2. OnlyAttempts
  BY <1>1, RuntimesTyped, DispatchMarked DEF OnlyAttempts, ExchangeInv, TypeOK
<1>3. rt[p].outbox \in Frames /\ rt[p].outbox.dir = p
  BY <1>1, RuntimesTyped, Zenon DEF ExchangeInv, Kept, Phases
<1>4. QED
  BY <1>1, <1>2, <1>3, WireGrows, Zenon

\* Resend keeps the invariant: it sends the exact outbox again, uncounted.
LEMMA ResendKeeps ==
    ASSUME ExchangeInv, NEW p \in Peers, Resend(p)
    PROVE  ExchangeInv'
<1>1. OnlyAttempts
  BY Zenon DEF Resend, OnlyAttempts, ExchangeInv, TypeOK
<1>2. rt[p].outbox \in Frames /\ rt[p].outbox.dir = p
  BY RuntimesTyped, Zenon DEF Resend, ExchangeInv, Kept, Phases
<1>3. QED
  BY <1>1, <1>2, WireGrows, Zenon DEF Resend

\* An exact duplicate keeps the invariant: it repeats the outbox or the ACK.
LEMMA ReceiveDuplicateKeeps ==
    ASSUME ExchangeInv, NEW p \in Peers, NEW f \in net, ReceiveDuplicate(p, f)
    PROVE  ExchangeInv'
<1> DEFINE d == DuplicateReply(rt[p], f)
<1>1. OnlyAttempts
  BY Zenon DEF ReceiveDuplicate, OnlyAttempts, ExchangeInv, TypeOK
<1>2. \/ d = rt[p].outbox /\ rt[p].outbox.type = "advance"
      \/ d = rt[p].ack /\ rt[p].ack # NoFrame
  BY Zenon DEF ReceiveDuplicate, Duplicate, DuplicateReply, DuplicateOffer,
         DuplicateAdvance
<1>3. d \in Frames
  BY <1>2, RuntimesTyped, Zenon DEF Runtimes
<1>4. net' = net \union {d} /\ fresh' = fresh
  BY Zenon DEF ReceiveDuplicate
<1> HIDE DEF d
<1>5. \/ d.type = "ack" /\ d.epoch <= rt[d.dir].epoch
      \/ d # NoFrame /\ d = rt[d.dir].outbox
  BY <1>2, NoFrameTyped, RuntimesTyped DEF ExchangeInv, Kept, Phases
<1>6. QED
  BY <1>1, <1>3, <1>4, <1>5, WireGrows, Zenon

\* An acceptable OFFER is the outbox of a turn holder that is in step.
LEMMA OfferIsOutbox ==
    ASSUME ExchangeInv, NEW p \in Peers, NEW f \in net,
           AcceptsOffer(p, rt[p], f)
    PROVE  /\ InStep(Other(p)) /\ f.dir = Other(p)
           /\ rt[Other(p)].phase = "offered" /\ rt[Other(p)].outbox = f
<1> DEFINE q == Other(p)
<1>1. /\ f.type = "offer" /\ f.dir # p /\ f.epoch = rt[p].epoch
      /\ rt[p].phase = "idle" /\ rt[p].turn = "remote"
  BY Zenon DEF AcceptsOffer, Opens
<1>2. f.dir = q /\ q \in Peers
  BY <1>1, PeerFacts, WireTyped, Zenon DEF ExchangeInv
<1>3. InStep(q)
  BY <1>1, PeerFacts DEF ExchangeInv, TurnHolder, InStep, OneAhead
<1>4. rt[q].epoch = f.epoch /\ rt[q].epoch \in Nat
  BY <1>1, <1>3, PeerFacts, RuntimesTyped DEF InStep
<1>5. f = rt[q].outbox
  BY <1>1, <1>2, <1>4 DEF ExchangeInv, WireSlots
<1>6. QED
  BY <1>1, <1>2, <1>3, <1>5, Zenon DEF ExchangeInv, Restorable, CheckpointCoherent

\* ReceiveOffer keeps the invariant: the answering side moves one ahead.
LEMMA ReceiveOfferKeeps ==
    ASSUME ExchangeInv, NEW p \in Peers, NEW f \in net, ReceiveOffer(p, f)
    PROVE  ExchangeInv'
<1> DEFINE q == Other(p)
           s == AfterAccept(p, rt[p], f, fresh)
           a == AdvanceFrame(p, rt[p], f, fresh)
<1>1. /\ AcceptsOffer(p, rt[p], f) /\ rt' = [rt EXCEPT ![p] = s]
      /\ fresh' = fresh + 1 /\ net' \in {net, net \union {a}}
  BY Zenon DEF ReceiveOffer, Dispatch
<1>2. /\ InStep(q) /\ f.dir = q /\ rt[q].phase = "offered"
      /\ rt[q].outbox = f
  BY <1>1, OfferIsOutbox, Zenon
<1>3. /\ f.type = "offer" /\ f.epoch = rt[p].epoch /\ rt[p].phase = "idle"
      /\ rt[p].epoch < MaxU64
  BY <1>1, Zenon DEF AcceptsOffer, Opens, CanStartExchange
<1>4. TypeOK /\ f \in Frames /\ fresh \in Nat
  BY WireTyped, Zenon DEF ExchangeInv, TypeOK
<1>5. rt[p] \in Runtimes /\ rt[p].epoch \in Nat
  BY RuntimesTyped, Zenon
<1>6. /\ s \in Runtimes /\ a \in Frames
      /\ s.phase = "awaitAck" /\ s.epoch = rt[p].epoch + 1
      /\ s.local = rt[p].local + 1 /\ s.remote = rt[p].remote + 1
      /\ s.turn = "local" /\ s.root = NextRoot(rt[p].root, a)
      /\ s.outbox = a
      /\ s.inOffer = f /\ s.inAdvance = NoFrame /\ s.ack = NoFrame
  <2> DEFINE r == rt[p]
             n == fresh
  <2>1. r \in Runtimes /\ n \in Nat /\ f \in Frames /\ f.type = "offer"
    BY <1>3, <1>4, <1>5, Zenon
  <2>2. s = AfterAccept(p, r, f, n) /\ a = AdvanceFrame(p, r, f, n)
    BY Zenon
  <2> HIDE DEF r, n, s, a
  <2>3. QED
    BY <2>1, <2>2, OfferAnswered DEF r
<1>7. a.type = "advance" /\ a.dir = p /\ a.epoch = rt[p].epoch
  BY <1>3, Zenon DEF AdvanceFrame
<1> HIDE DEF s, a
<1>8. q \in Peers /\ q # p /\ Other(q) = p /\ \A x \in Peers : x = p \/ x = q
  BY PeerFacts, Zenon
<1>9. rt'[p] = s /\ rt'[q] = rt[q]
  BY <1>1, <1>4, <1>8, Zenon DEF TypeOK
<1>10. TypeOK'
  BY <1>1, <1>4, <1>6 DEF TypeOK
<1>11. TurnHolder'
  <2>1. OneAhead(q)'
    BY <1>2, <1>6, <1>8, <1>9 DEF InStep, OneAhead
  <2>2. QED
    BY <1>8, <2>1, Zenon DEF TurnHolder
<1>12. Restorable'
  BY <1>6, <1>7, <1>8, <1>9 DEF ExchangeInv, Restorable, CheckpointCoherent
<1>13. \A x \in Peers : Kept(x)'
  BY <1>3, <1>5, <1>6, <1>7, <1>8, <1>9, MaxU64Assumption DEF ExchangeInv, Kept
<1>14. \A g \in net : g.type = "advance" /\ g.dir = p => g.epoch < rt[p].epoch
  BY Zenon DEF ExchangeInv, WireSlots
<1>15. \A g \in net : g.type = "offer" /\ g.dir = p => g.epoch < rt[p].epoch
  BY <1>3, NoFrameTyped DEF ExchangeInv, WireSlots, Kept
<1>16. WireSlots'
  <2> SUFFICES ASSUME NEW g \in net'
               PROVE  WireSlots!(g)'
    BY Zenon DEF WireSlots
  <2>1. CASE g \in net /\ g.dir = q
    BY <2>1, <1>9, Zenon DEF ExchangeInv, WireSlots
  <2>2. CASE g \in net /\ g.dir = p
    <3>1. g.epoch \in Nat /\ g.type # "none"
      BY <2>2, <1>4, WireTyped, Zenon DEF ExchangeInv, WireSlots
    <3>2. g.type = "ack" => g.epoch <= rt[p].epoch
      BY <2>2, Zenon DEF ExchangeInv, WireSlots
    <3>3. QED
      BY <2>2, <3>1, <3>2, <1>5, <1>6, <1>9, <1>14, <1>15
  <2>3. CASE g = a
    BY <2>3, <1>5, <1>6, <1>7, <1>9
  <2>4. QED
    BY <1>1, <1>4, <1>8, <2>1, <2>2, <2>3, WireTyped, Zenon
<1>17. NoFork'
  BY <1>1, <1>5, <1>7, <1>14 DEF ExchangeInv, NoFork
<1>18. QED
  BY <1>10, <1>11, <1>12, <1>13, <1>16, <1>17, Zenon DEF ExchangeInv

\* An acceptable ADVANCE is the outbox of the side that is one ahead.
LEMMA AdvanceIsOutbox ==
    ASSUME ExchangeInv, NEW p \in Peers, NEW f \in net,
           AcceptsAdvance(p, rt[p], f)
    PROVE  /\ OneAhead(p) /\ f.dir = Other(p) /\ rt[Other(p)].outbox = f
<1> DEFINE q == Other(p)
<1>1. /\ f.type = "advance" /\ f.dir # p /\ f.epoch = rt[p].epoch
      /\ rt[p].phase = "offered"
  BY Zenon DEF AcceptsAdvance, Opens
<1>2. f.dir = q /\ q \in Peers
  BY <1>1, PeerFacts, WireTyped, Zenon DEF ExchangeInv
<1>3. f.epoch < rt[q].epoch
  BY <1>1, <1>2, Zenon DEF ExchangeInv, WireSlots
<1>4. rt[p].epoch \in Nat /\ rt[q].epoch \in Nat
  BY RuntimesTyped, Zenon
<1>5. OneAhead(p)
  BY <1>1, <1>3, <1>4, PeerFacts DEF ExchangeInv, TurnHolder, InStep, OneAhead
<1>6. QED
  BY <1>1, <1>2, <1>5, Zenon DEF ExchangeInv, WireSlots, OneAhead

\* ReceiveAdvance keeps the invariant: the two sides are in step again.
LEMMA ReceiveAdvanceKeeps ==
    ASSUME ExchangeInv, NEW p \in Peers, NEW f \in net, ReceiveAdvance(p, f)
    PROVE  ExchangeInv'
<1> DEFINE q == Other(p)
           s == AfterAccept(p, rt[p], f, fresh)
           a == AckFrame(p, rt[p], f)
<1>1. /\ AcceptsAdvance(p, rt[p], f) /\ rt' = [rt EXCEPT ![p] = s]
      /\ fresh' = fresh /\ net' \in {net, net \union {a}}
  BY Zenon DEF ReceiveAdvance, Dispatch
<1>2. OneAhead(p) /\ f.dir = q /\ rt[q].outbox = f
  BY <1>1, AdvanceIsOutbox, Zenon
<1>3. /\ f.type = "advance" /\ rt[p].phase = "offered"
      /\ rt[p].outbox.type = "offer"
  BY <1>1, Zenon DEF AcceptsAdvance
<1>4. TypeOK /\ f \in Frames /\ fresh \in Nat
  BY WireTyped, Zenon DEF ExchangeInv, TypeOK
<1>5. rt[p] \in Runtimes /\ rt[p].epoch \in Nat
  BY RuntimesTyped, Zenon
<1>6. /\ s \in Runtimes /\ a \in Frames
      /\ s.phase = "idle" /\ s.epoch = rt[p].epoch + 1
      /\ s.local = rt[p].local + 1 /\ s.remote = rt[p].remote + 1
      /\ s.turn = "remote" /\ s.root = NextRoot(rt[p].root, f)
      /\ s.outbox = NoFrame /\ s.inOffer = NoFrame /\ s.inAdvance = f
      /\ s.ack = a
  BY <1>3, <1>4, <1>5, AdvanceCommitted
<1>7. a.type = "ack" /\ a.dir = p /\ a.epoch = rt[p].epoch + 1
  BY Zenon DEF AckFrame
<1> HIDE DEF s, a
<1>8. q \in Peers /\ q # p /\ Other(q) = p /\ \A x \in Peers : x = p \/ x = q
  BY PeerFacts, Zenon
<1>9. rt'[p] = s /\ rt'[q] = rt[q]
  BY <1>1, <1>4, <1>8, Zenon DEF TypeOK
<1>10. TypeOK'
  BY <1>1, <1>4, <1>6, Zenon DEF TypeOK
<1>11. TurnHolder'
  <2>1. InStep(q)'
    BY <1>2, <1>6, <1>8, <1>9 DEF InStep, OneAhead
  <2>2. QED
    BY <1>8, <2>1, Zenon DEF TurnHolder
<1>12. Restorable'
  BY <1>3, <1>6, <1>7, <1>8, <1>9, NoFrameTyped
  DEF ExchangeInv, Restorable, CheckpointCoherent
<1>13. \A x \in Peers : Kept(x)'
  BY <1>3, <1>5, <1>6, <1>7, <1>8, <1>9, MaxU64Assumption DEF ExchangeInv, Kept
<1>14. WireSlots'
  <2> SUFFICES ASSUME NEW g \in net'
               PROVE  WireSlots!(g)'
    BY Zenon DEF WireSlots
  <2>1. CASE g \in net /\ g.dir = q
    BY <2>1, <1>9, Zenon DEF ExchangeInv, WireSlots
  <2>2. CASE g \in net /\ g.dir = p
    <3>1. g.epoch \in Nat /\ g.type # "none"
      BY <2>2, <1>4, WireTyped, Zenon DEF ExchangeInv, WireSlots
    <3>2. g.epoch <= rt[p].epoch
      <4>1. rt[p].outbox.epoch = rt[p].epoch
        BY <1>3, Zenon DEF ExchangeInv, Kept
      <4>2. g.type \in {"offer", "advance", "ack"}
        BY <3>1, <1>4, WireTyped, <2>2, Zenon DEF Frames
      <4>3. QED
        BY <2>2, <3>1, <4>1, <4>2, <1>5 DEF ExchangeInv, WireSlots
    <3>3. QED
      BY <2>2, <3>1, <3>2, <1>5, <1>6, <1>9
  <2>3. CASE g = a
    BY <2>3, <1>5, <1>6, <1>7, <1>9
  <2>4. QED
    BY <1>1, <1>4, <1>8, <2>1, <2>2, <2>3, WireTyped, Zenon
<1>15. NoFork'
  BY <1>1, <1>7 DEF ExchangeInv, NoFork
<1>16. QED
  BY <1>10, <1>11, <1>12, <1>13, <1>14, <1>15, Zenon DEF ExchangeInv

\* ReceiveAck keeps the invariant: the ACK proves the two sides are in step.
LEMMA ReceiveAckKeeps ==
    ASSUME ExchangeInv, NEW p \in Peers, NEW f \in net, ReceiveAck(p, f)
    PROVE  ExchangeInv'
<1> DEFINE q == Other(p)
           s == AfterAccept(p, rt[p], f, fresh)
<1>1. /\ AcceptsAck(p, rt[p], f) /\ rt' = [rt EXCEPT ![p] = s]
      /\ fresh' = fresh /\ net' = net
  BY Zenon DEF ReceiveAck
<1>2. /\ f.type = "ack" /\ f.dir # p /\ f.epoch = rt[p].epoch
      /\ rt[p].phase = "awaitAck" /\ rt[p].outbox.type = "advance"
  BY <1>1, Zenon DEF AcceptsAck, Opens
<1>3. TypeOK /\ f \in Frames /\ f.dir = q
  BY <1>2, PeerFacts, WireTyped, Zenon DEF ExchangeInv
<1>4. rt[p] \in Runtimes /\ rt[p].epoch \in Nat /\ rt[q].epoch \in Nat
  BY RuntimesTyped, Zenon
<1>5. /\ s \in Runtimes
      /\ s.phase = "idle" /\ s.epoch = rt[p].epoch /\ s.local = rt[p].local
      /\ s.remote = rt[p].remote /\ s.turn = rt[p].turn
      /\ s.root = rt[p].root /\ s.outbox = NoFrame /\ s.inOffer = NoFrame
      /\ s.inAdvance = NoFrame /\ s.ack = NoFrame
  BY <1>2, <1>3, <1>4, ExchangeClosed
<1> HIDE DEF s
<1>6. q \in Peers /\ q # p /\ Other(q) = p /\ \A x \in Peers : x = p \/ x = q
  BY PeerFacts, Zenon
<1>7. rt'[p] = s /\ rt'[q] = rt[q]
  BY <1>1, <1>3, <1>6, Zenon DEF TypeOK
<1>8. InStep(p)
  <2>1. rt[p].epoch <= rt[q].epoch
    BY <1>2, <1>3, Zenon DEF ExchangeInv, WireSlots
  <2>2. QED
    BY <1>2, <1>4, <1>6, <2>1 DEF ExchangeInv, TurnHolder, InStep, OneAhead
<1>9. TypeOK'
  BY <1>1, <1>3, <1>5, Zenon DEF TypeOK
<1>10. TurnHolder'
  <2>1. InStep(p)'
    BY <1>5, <1>7, <1>8, Zenon DEF InStep
  <2>2. QED
    BY <2>1, Zenon DEF TurnHolder
<1>11. Restorable'
  BY <1>5, <1>6, <1>7, NoFrameTyped
  DEF ExchangeInv, Restorable, CheckpointCoherent
<1>12. \A x \in Peers : Kept(x)'
  BY <1>5, <1>6, <1>7 DEF ExchangeInv, Kept
<1>13. WireSlots'
  <2> SUFFICES ASSUME NEW g \in net
               PROVE  WireSlots!(g)'
    BY <1>1, Zenon DEF WireSlots
  <2>1. CASE g.dir = q
    BY <2>1, <1>7, Zenon DEF ExchangeInv, WireSlots
  <2>2. CASE g.dir = p
    <3>1. g.type = "offer" => g.epoch < rt[p].epoch
      BY <2>2, <1>2, Zenon DEF ExchangeInv, WireSlots
    <3>2. QED
      BY <2>2, <3>1, <1>5, <1>7, Zenon DEF ExchangeInv, WireSlots
  <2>3. QED
    BY <1>3, <1>6, <2>1, <2>2, WireTyped, Zenon
<1>14. NoFork'
  BY <1>1, Zenon DEF ExchangeInv, NoFork
<1>15. QED
  BY <1>9, <1>10, <1>11, <1>12, <1>13, <1>14, Zenon DEF ExchangeInv

-----------------------------------------------------------------------------
(***************************************************************************)
(* The healing exchange keeps its inductive invariant in every behaviour:  *)
(* one OFFER/ADVANCE/ACK transaction at a time, over any wire.             *)
(***************************************************************************)
THEOREM ExchangeInvariant == Spec => []ExchangeInv
<1>1. Init => ExchangeInv
  <2> SUFFICES ASSUME Init PROVE ExchangeInv
    BY Zenon
  <2>1. \A p \in Peers : InitRuntime(p) \in Runtimes
    BY NoFrameTyped DEF InitRuntime, Runtimes, Phases, Turns
  <2>2. TypeOK
    BY <2>1, Zenon DEF Init, TypeOK
  <2>3. TurnHolder
    <3>1. InStep("initiator")
      BY Zenon DEF Init, InStep, InitRuntime, Other, Peers
    <3>2. QED
      BY <3>1, Zenon DEF TurnHolder, Peers
  <2>4. Restorable
    BY NoFrameTyped, Zenon DEF Init, Restorable, CheckpointCoherent, InitRuntime
  <2>5. \A p \in Peers : Kept(p)
    BY MaxU64Assumption DEF Init, Kept, InitRuntime
  <2>6. WireSlots /\ NoFork
    BY Zenon DEF Init, WireSlots, NoFork
  <2>7. QED
    BY <2>2, <2>3, <2>4, <2>5, <2>6, Zenon DEF ExchangeInv
<1>2. ExchangeInv /\ [Next]_vars => ExchangeInv'
  <2> SUFFICES ASSUME ExchangeInv, [Next]_vars PROVE ExchangeInv'
    BY Zenon
  <2>1. CASE \E p \in Peers : StartExchange(p)
    BY <2>1, StartExchangeKeeps, Zenon
  <2>2. CASE \E p \in Peers : Retransmit(p)
    BY <2>2, RetransmitKeeps, Zenon
  <2>3. CASE \E p \in Peers : Resend(p)
    BY <2>3, ResendKeeps, Zenon
  <2>4. CASE \E p \in Peers : \E f \in net : Receive(p, f)
    BY <2>4, ReceiveOfferKeeps, ReceiveAdvanceKeeps, ReceiveAckKeeps,
       ReceiveDuplicateKeeps DEF Receive
  <2>5. CASE Abandon \/ UNCHANGED vars
    <3>1. rt' = rt /\ net' = net /\ fresh' \in Nat
      BY <2>5 DEF Abandon, vars, ExchangeInv, TypeOK
    <3>2. QED
      BY <3>1 DEF ExchangeInv, TypeOK, TurnHolder, InStep, OneAhead,
         Restorable, CheckpointCoherent, Kept, WireSlots, NoFork
  <2>6. QED
    BY <2>1, <2>2, <2>3, <2>4, <2>5, Zenon DEF Next
<1>3. QED
  BY <1>1, <1>2, PTL DEF Spec

(***************************************************************************)
(* Every runtime, frame and counter of the exchange keeps its type.        *)
(***************************************************************************)
THEOREM TypeCorrect == Spec => []TypeOK
<1>1. ExchangeInv => TypeOK
  BY Zenon DEF ExchangeInv
<1>2. QED
  BY <1>1, ExchangeInvariant, PTL

(***************************************************************************)
(* Both sides derive the same root for the same epoch and stay within one  *)
(* epoch of each other.                                                    *)
(***************************************************************************)
THEOREM RootsAgree == Spec => []RootAgreement
<1>1. ExchangeInv => RootAgreement
  <2> SUFFICES ASSUME ExchangeInv, NEW p \in Peers, NEW q \in Peers
               PROVE  RootAgreement!(p, q)
    BY Zenon DEF RootAgreement
  <2>1. rt[p].epoch \in Nat /\ rt[q].epoch \in Nat
    BY RuntimesTyped, Zenon
  <2>2. CASE p = q
    BY <2>1, <2>2
  <2>3. CASE p # q
    <3>1. PICK h \in Peers : InStep(h) \/ OneAhead(h)
      BY Zenon DEF ExchangeInv, TurnHolder
    <3>2. (h = p /\ Other(h) = q) \/ (h = q /\ Other(h) = p)
      BY <2>3, PeerFacts, Zenon
    <3>3. QED
      BY <2>1, <3>1, <3>2 DEF InStep, OneAhead
  <2>4. QED
    BY <2>2, <2>3, Zenon
<1>2. QED
  BY <1>1, ExchangeInvariant, PTL

(***************************************************************************)
(* No counter/epoch slot ever carries two different OFFERs or ADVANCEs.    *)
(***************************************************************************)
THEOREM SlotsNeverFork == Spec => []NoFork
<1>1. ExchangeInv => NoFork
  BY Zenon DEF ExchangeInv
<1>2. QED
  BY <1>1, ExchangeInvariant, PTL

(***************************************************************************)
(* A side whose machine is idle is at the epoch of the other side.         *)
(***************************************************************************)
THEOREM OpenTrafficAgrees == Spec => []OpenTrafficSameEpoch
<1>1. ExchangeInv => OpenTrafficSameEpoch
  BY PeerFacts DEF ExchangeInv, OpenTrafficSameEpoch, TrafficBlocked,
     TurnHolder, InStep, OneAhead
<1>2. QED
  BY <1>1, ExchangeInvariant, PTL

(***************************************************************************)
(* Every durable runtime satisfies the coherence its restore demands.      *)
(***************************************************************************)
THEOREM AlwaysRestorable == Spec => []Restorable
<1>1. ExchangeInv => Restorable
  BY Zenon DEF ExchangeInv
<1>2. QED
  BY <1>1, ExchangeInvariant, PTL

\* A step that leaves one side alone and moves p legally is an EpochStep.
LEMMA StepAt ==
    ASSUME ExchangeInv, NEW p \in Peers, NEW s, rt' = [rt EXCEPT ![p] = s],
           \/ s.epoch = rt[p].epoch /\ s.root = rt[p].root
           \/ /\ s.epoch = rt[p].epoch + 1 /\ s.epoch <= MaxU64
              /\ \E f \in net \union {s.outbox} :
                    f.type = "advance" /\ s.root = NextRoot(rt[p].root, f)
    PROVE  EpochStep
<1>1. rt'[p] = s /\ rt'[Other(p)] = rt[Other(p)]
  BY PeerFacts, Zenon DEF ExchangeInv, TypeOK
<1>2. QED
  BY <1>1, PeerFacts DEF EpochStep

(***************************************************************************)
(* An epoch only ever moves by one, together with the root, by an ADVANCE  *)
(* both sides can hold, and never past the largest 64-bit value.           *)
(***************************************************************************)
THEOREM EpochsMoveByOne == Spec => EpochMovesByOne
<1>1. ExchangeInv /\ [Next]_vars => [EpochStep]_vars
  <2> SUFFICES ASSUME ExchangeInv, Next PROVE EpochStep
    BY Zenon DEF vars
  <2>1. ASSUME NEW p \in Peers, StartExchange(p) PROVE EpochStep
    <3> DEFINE s == MarkPendingDispatched(PrepareHealingOffer(p, rt[p], fresh))
    <3>1. rt' = [rt EXCEPT ![p] = s]
      BY <2>1, Zenon DEF StartExchange
    <3>2. s.epoch = rt[p].epoch /\ s.root = rt[p].root
      BY RuntimesTyped, OfferPrepared DEF ExchangeInv, TypeOK
    <3> HIDE DEF s
    <3>3. QED
      BY <3>1, <3>2, StepAt, Zenon
  <2>2. ASSUME NEW p \in Peers, Retransmit(p) PROVE EpochStep
    <3>1. rt' = [rt EXCEPT ![p] = MarkPendingDispatched(rt[p])]
      BY <2>2, Zenon DEF Retransmit
    <3>2. QED
      BY <3>1, RuntimesTyped, DispatchMarked, StepAt
  <2>3. ASSUME NEW p \in Peers, NEW f \in net, ReceiveOffer(p, f)
        PROVE  EpochStep
    <3> DEFINE s == AfterAccept(p, rt[p], f, fresh)
    <3>1. /\ rt' = [rt EXCEPT ![p] = s] /\ f.type = "offer"
          /\ rt[p].epoch < MaxU64
      BY <2>3, Zenon DEF ReceiveOffer, AcceptsOffer, CanStartExchange
    <3>2. rt[p] \in Runtimes /\ rt[p].epoch \in Nat /\ f \in Frames
          /\ fresh \in Nat
      BY RuntimesTyped, WireTyped, Zenon DEF ExchangeInv, TypeOK
    <3>3. /\ s.epoch = rt[p].epoch + 1
          /\ s.root = NextRoot(rt[p].root, s.outbox)
          /\ s.outbox = AdvanceFrame(p, rt[p], f, fresh)
      <4> DEFINE r == rt[p]
                 n == fresh
                 a == AdvanceFrame(p, r, f, n)
      <4>1. /\ r \in Runtimes /\ n \in Nat /\ f \in Frames
            /\ s = AfterAccept(p, r, f, n)
        BY <3>2, Zenon
      <4>2. f.type = "offer"
        BY <3>1, Zenon
      <4> HIDE DEF r, n, s
      <4>3. s.epoch = r.epoch + 1 /\ s.root = NextRoot(r.root, a) /\ s.outbox = a
        BY <4>1, <4>2, OfferAnswered, SMTT(60)
      <4> HIDE DEF a
      <4>4. s.root = NextRoot(r.root, s.outbox)
        BY <4>3, Zenon
      <4>5. QED
        BY <4>3, <4>4, Zenon DEF r, n, a
    <3>4. s.outbox.type = "advance" /\ s.epoch <= MaxU64
      BY <3>1, <3>2, <3>3, MaxU64Assumption DEF AdvanceFrame
    <3> HIDE DEF s
    <3>5. QED
      BY <3>1, <3>3, <3>4, StepAt, Zenon
  <2>4. ASSUME NEW p \in Peers, NEW f \in net, ReceiveAdvance(p, f)
        PROVE  EpochStep
    <3> DEFINE s == AfterAccept(p, rt[p], f, fresh)
    <3>1. /\ rt' = [rt EXCEPT ![p] = s] /\ f.type = "advance"
          /\ rt[p].phase = "offered"
      BY <2>4, Zenon DEF ReceiveAdvance, AcceptsAdvance
    <3>2. rt[p] \in Runtimes /\ rt[p].epoch \in Nat /\ f \in Frames
      BY RuntimesTyped, WireTyped, Zenon DEF ExchangeInv
    <3>3. s.epoch = rt[p].epoch + 1 /\ s.root = NextRoot(rt[p].root, f)
      BY <3>1, <3>2, AdvanceCommitted
    <3>4. s.epoch <= MaxU64
      BY <3>1, <3>2, <3>3, MaxU64Assumption DEF ExchangeInv, Kept
    <3> HIDE DEF s
    <3>5. QED
      BY <3>1, <3>3, <3>4, StepAt, Zenon
  <2>5. ASSUME NEW p \in Peers, NEW f \in net, ReceiveAck(p, f)
        PROVE  EpochStep
    <3> DEFINE s == AfterAccept(p, rt[p], f, fresh)
    <3>1. rt' = [rt EXCEPT ![p] = s] /\ f.type = "ack"
      BY <2>5, Zenon DEF ReceiveAck, AcceptsAck
    <3>2. rt[p] \in Runtimes /\ f \in Frames
      BY RuntimesTyped, WireTyped, Zenon DEF ExchangeInv
    <3>3. s.epoch = rt[p].epoch /\ s.root = rt[p].root
      BY <3>1, <3>2, ExchangeClosed
    <3> HIDE DEF s
    <3>4. QED
      BY <3>1, <3>3, StepAt, Zenon
  <2>6. CASE rt' = rt
    BY <2>6, Zenon DEF EpochStep
  <2>7. QED
    BY <2>1, <2>2, <2>3, <2>4, <2>5, <2>6, Zenon
    DEF Next, Receive, Resend, ReceiveDuplicate, Abandon
<1>2. QED
  BY <1>1, ExchangeInvariant, PTL DEF Spec, EpochMovesByOne
=============================================================================
