-------------------------- MODULE PqHealing_proofs ---------------------------
(***************************************************************************)
(* What the transitions of the healing runtime leave, field by field, for  *)
(* every MaxU64 and MaxRetries: the facts that the proofs about the        *)
(* exchange (PqExchange_proofs) and the edge (PqEdge_proofs) share.        *)
(***************************************************************************)
EXTENDS PqHealing, TLAPS

\* There are two peers, each the other of the other.
LEMMA PeerFacts ==
    ASSUME NEW p \in Peers
    PROVE  /\ Other(p) \in Peers /\ Other(p) # p /\ Other(Other(p)) = p
           /\ \A x \in Peers : x = p \/ x = Other(p)
BY Zenon DEF Peers, Other

\* The absent frame is a frame, and no frame of a type is absent.
LEMMA NoFrameTyped == NoFrame \in Frames /\ NoFrame.type = "none"
BY DEF NoFrame, Frames, Peers

\* What counting one more dispatch leaves.
LEMMA DispatchMarked ==
    ASSUME NEW r \in Runtimes, NEW s, s = MarkPendingDispatched(r)
    PROVE  /\ s \in Runtimes
           /\ s.phase = r.phase /\ s.epoch = r.epoch /\ s.local = r.local
           /\ s.remote = r.remote /\ s.turn = r.turn /\ s.root = r.root
           /\ s.outbox = r.outbox /\ s.inOffer = r.inOffer
           /\ s.inAdvance = r.inAdvance /\ s.ack = r.ack
BY DEF MarkPendingDispatched, Runtimes

\* What starting an exchange (prepareHealingOffer, dispatched) leaves.
LEMMA OfferPrepared ==
    ASSUME NEW p \in Peers, NEW r \in Runtimes, NEW n \in Nat,
           NEW s, s = MarkPendingDispatched(PrepareHealingOffer(p, r, n))
    PROVE  /\ s \in Runtimes
           /\ OfferFrame(p, r, n) \in Frames
           /\ s.phase = "offered" /\ s.epoch = r.epoch /\ s.local = r.local
           /\ s.remote = r.remote /\ s.turn = r.turn /\ s.root = r.root
           /\ s.outbox = OfferFrame(p, r, n)
           /\ s.inOffer = NoFrame /\ s.inAdvance = NoFrame /\ s.ack = NoFrame
<1>1. OfferFrame(p, r, n) \in Frames
  BY Zenon DEF OfferFrame, Frames, Runtimes
<1> DEFINE t == PrepareHealingOffer(p, r, n)
<1>2. /\ t.phase = "offered" /\ t.epoch = r.epoch /\ t.local = r.local
      /\ t.remote = r.remote /\ t.turn = r.turn /\ t.root = r.root
      /\ t.outbox = OfferFrame(p, r, n)
      /\ t.inOffer = NoFrame /\ t.inAdvance = NoFrame /\ t.ack = NoFrame
  BY Zenon DEF PrepareHealingOffer, Runtimes
<1>3. t \in Runtimes
  BY <1>1, NoFrameTyped, Zenon DEF PrepareHealingOffer, Runtimes, Phases
<1> HIDE DEF t
<1>4. s = MarkPendingDispatched(t)
  BY Zenon DEF t
<1>5. QED
  BY <1>1, <1>2, <1>3, <1>4, DispatchMarked

\* Mixing an ADVANCE into a root gives a root.
LEMMA NextRootTyped ==
    ASSUME NEW root \in Seq(Nat), NEW f \in Frames
    PROVE  NextRoot(root, f) \in Seq(Nat)
BY DEF NextRoot, Frames

\* What answering an OFFER leaves.
LEMMA OfferAnswered ==
    ASSUME NEW p \in Peers, NEW r \in Runtimes, NEW f \in Frames, NEW n \in Nat,
           f.type = "offer", NEW s, s = AfterAccept(p, r, f, n)
    PROVE  /\ s \in Runtimes
           /\ AdvanceFrame(p, r, f, n) \in Frames
           /\ s.phase = "awaitAck" /\ s.epoch = r.epoch + 1
           /\ s.local = r.local + 1 /\ s.remote = r.remote + 1
           /\ s.turn = "local"
           /\ s.root = NextRoot(r.root, AdvanceFrame(p, r, f, n))
           /\ s.outbox = AdvanceFrame(p, r, f, n)
           /\ s.inOffer = f /\ s.inAdvance = NoFrame /\ s.ack = NoFrame
<1> DEFINE t == AnswerOffer(p, r, f, n)
<1>1. AdvanceFrame(p, r, f, n) \in Frames
  BY Zenon DEF AdvanceFrame, Frames, Runtimes
<1>2. NextRoot(r.root, AdvanceFrame(p, r, f, n)) \in Seq(Nat)
  BY <1>1, NextRootTyped, Zenon DEF Runtimes
<1>3. /\ t.phase = "awaitAck" /\ t.epoch = r.epoch + 1
      /\ t.local = r.local + 1 /\ t.remote = r.remote + 1
      /\ t.turn = "local"
      /\ t.root = NextRoot(r.root, AdvanceFrame(p, r, f, n))
      /\ t.outbox = AdvanceFrame(p, r, f, n)
      /\ t.inOffer = f /\ t.inAdvance = NoFrame /\ t.ack = NoFrame
  BY Zenon DEF AnswerOffer, Runtimes
<1>4. t \in Runtimes
  <2>1. r.epoch + 1 \in Nat /\ r.local + 1 \in Nat /\ r.remote + 1 \in Nat
    BY DEF Runtimes
  <2>2. QED
    BY <1>1, <1>2, <2>1, NoFrameTyped DEF AnswerOffer, Runtimes, Phases, Turns
<1>5. s = MarkPendingDispatched(t)
  BY Zenon DEF AfterAccept
<1> HIDE DEF t
<1>6. QED
  BY <1>1, <1>3, <1>4, <1>5, DispatchMarked

\* What committing an ADVANCE leaves.
LEMMA AdvanceCommitted ==
    ASSUME NEW p \in Peers, NEW r \in Runtimes, NEW f \in Frames, NEW n,
           f.type = "advance", NEW s, s = AfterAccept(p, r, f, n)
    PROVE  /\ s \in Runtimes /\ AckFrame(p, r, f) \in Frames
           /\ s.phase = "idle" /\ s.epoch = r.epoch + 1
           /\ s.local = r.local + 1 /\ s.remote = r.remote + 1
           /\ s.turn = "remote" /\ s.root = NextRoot(r.root, f)
           /\ s.outbox = NoFrame /\ s.inOffer = NoFrame /\ s.inAdvance = f
           /\ s.ack = AckFrame(p, r, f)
<1>1. NextRoot(r.root, f) \in Seq(Nat)
  BY NextRootTyped, Zenon DEF Runtimes
<1>2. s = CommitAdvance(p, r, f)
  BY Zenon DEF AfterAccept
<1>3. AckFrame(p, r, f) \in Frames
  <2>1. r.epoch + 1 \in Nat
    BY DEF Runtimes
  <2>2. f.ctr \in Nat
    BY Zenon DEF Frames
  <2>3. QED
    BY <1>1, <2>1, <2>2, Zenon DEF AckFrame, Frames
<1>4. /\ s.phase = "idle" /\ s.epoch = r.epoch + 1
      /\ s.local = r.local + 1 /\ s.remote = r.remote + 1
      /\ s.turn = "remote" /\ s.root = NextRoot(r.root, f)
      /\ s.outbox = NoFrame /\ s.inOffer = NoFrame /\ s.inAdvance = f
      /\ s.ack = AckFrame(p, r, f)
  BY <1>2 DEF CommitAdvance, Runtimes
<1>5. s \in Runtimes
  <2>1. r.epoch + 1 \in Nat /\ r.local + 1 \in Nat /\ r.remote + 1 \in Nat
    BY DEF Runtimes
  <2>2. CommitAdvance(p, r, f) \in Runtimes
    BY <1>1, <1>3, <2>1, NoFrameTyped, Zenon DEF CommitAdvance, Runtimes, Phases, Turns
  <2>3. QED
    BY <1>2, <2>2, Zenon
<1>6. QED
  BY <1>3, <1>4, <1>5, Zenon

\* What accepting an ACK leaves.
LEMMA ExchangeClosed ==
    ASSUME NEW p \in Peers, NEW r \in Runtimes, NEW f \in Frames, NEW n,
           f.type = "ack", NEW s, s = AfterAccept(p, r, f, n)
    PROVE  /\ s \in Runtimes
           /\ s.phase = "idle" /\ s.epoch = r.epoch /\ s.local = r.local
           /\ s.remote = r.remote /\ s.turn = r.turn /\ s.root = r.root
           /\ s.outbox = NoFrame /\ s.inOffer = NoFrame
           /\ s.inAdvance = NoFrame /\ s.ack = NoFrame
BY NoFrameTyped, Zenon DEF AfterAccept, CloseExchange, Runtimes, Phases
=============================================================================
