---------------------------- MODULE PqEdge_proofs ----------------------------
(***************************************************************************)
(* The edge implements the exchange, for every MaxU64, MaxRetries and      *)
(* bound: each run of a transition under the edge lock is the transition   *)
(* of PqExchange it names, because every frame that waits for the lock     *)
(* was dispatched (FramesDispatched), and every other step leaves the      *)
(* runtimes and the dispatched frames alone.                               *)
(*                                                                         *)
(* Without mishaps no frame of an honest end is taken for a fork, for      *)
(* every MaxU64 and MaxRetries: while no answer was late and no write      *)
(* failed, one control frame at a time is under way (OneFrameAtATime), and *)
(* it is the one its receiver accepts.                                     *)
(***************************************************************************)
EXTENDS PqEdge, PqHealing_proofs

\* A sequence over a set is one over every larger set.
LEMMA SeqWiden ==
    ASSUME NEW S, NEW T, S \subseteq T, NEW s \in Seq(S)
    PROVE  s \in Seq(T)
OBVIOUS

\* What is appended to a sequence comes last, and the rest stays in place.
LEMMA Appended ==
    ASSUME NEW S, NEW s \in Seq(S), NEW x \in S
    PROVE  /\ Append(s, x) \in Seq(S) /\ DOMAIN s = 1 .. Len(s) /\ Len(s) \in Nat
           /\ DOMAIN Append(s, x) = 1 .. Len(s) + 1
           /\ \A i \in DOMAIN s : Append(s, x)[i] = s[i]
           /\ Append(s, x)[Len(s) + 1] = x
OBVIOUS

\* What is left of a sequence without its head.
LEMMA Shortened ==
    ASSUME NEW S, NEW s \in Seq(S), s # << >>
    PROVE  /\ Tail(s) \in Seq(S) /\ Len(s) \in Nat /\ DOMAIN s = 1 .. Len(s)
           /\ DOMAIN Tail(s) = 1 .. Len(s) - 1
           /\ \A i \in DOMAIN Tail(s) : i \in Nat /\ i + 1 \in DOMAIN s /\ Tail(s)[i] = s[i + 1]
           /\ 1 \in DOMAIN s /\ Head(s) = s[1] /\ s[1] \in S
OBVIOUS

\* What is left of a sequence without one of its elements.
LEMMA Removed ==
    ASSUME NEW S, NEW s \in Seq(S), NEW i \in DOMAIN s
    PROVE  Without(s, i) \in Seq(S) /\ s[i] \in S
BY DEF Without

-----------------------------------------------------------------------------
\* A caller that joins the mutation lock of p leaves the other callers alone; a
\* frame it holds was dispatched.
LEMMA CallerJoins ==
    ASSUME FramesDispatched, NEW p \in Peers, NEW op \in Ops, Enqueue(p, op), sent' = sent,
           op.kind = "frame" => op.frame \in sent
    PROVE  /\ lock' \in [Peers -> Seq(Ops)]
           /\ \A q \in Peers : \A i \in DOMAIN lock'[q] :
                 lock'[q][i].kind = "frame" => lock'[q][i].frame \in sent'
<1>1. lock[p] \in Seq(Ops) /\ lock' = [lock EXCEPT ![p] = Append(lock[p], op)]
  BY Zenon DEF FramesDispatched, Enqueue
<1>2. lock' \in [Peers -> Seq(Ops)]
  BY <1>1, Appended, Zenon DEF FramesDispatched
<1>3. ASSUME NEW i \in DOMAIN lock'[p], lock'[p][i].kind = "frame"
      PROVE  lock'[p][i].frame \in sent
  <2>1. lock'[p] = Append(lock[p], op)
    BY <1>1, Zenon DEF FramesDispatched
  <2>2. i \in DOMAIN lock[p] \/ lock'[p][i] = op
    BY <1>1, <1>3, <2>1, Appended
  <2> QED
    BY <1>1, <1>3, <2>1, <2>2, Appended DEF FramesDispatched
<1> QED
  BY <1>1, <1>2, <1>3, Zenon DEF FramesDispatched

\* The holder that leaves the mutation lock of p leaves the waiters in order.
LEMMA HolderLeaves ==
    ASSUME FramesDispatched, NEW p \in Peers, lock[p] # << >>, Release(p), sent \subseteq sent'
    PROVE  /\ lock' \in [Peers -> Seq(Ops)]
           /\ \A q \in Peers : \A i \in DOMAIN lock'[q] :
                 lock'[q][i].kind = "frame" => lock'[q][i].frame \in sent'
<1>1. lock[p] \in Seq(Ops) /\ lock' = [lock EXCEPT ![p] = Tail(lock[p])]
  BY Zenon DEF FramesDispatched, Release
<1>2. lock' \in [Peers -> Seq(Ops)] /\ lock'[p] = Tail(lock[p])
  BY <1>1, Shortened, Zenon DEF FramesDispatched
<1>3. ASSUME NEW i \in DOMAIN lock'[p]
      PROVE  lock'[p][i].kind = "frame" => lock'[p][i].frame \in sent
  BY <1>1, <1>2, <1>3, Shortened DEF FramesDispatched
<1> QED
  BY <1>1, <1>2, <1>3, Zenon DEF FramesDispatched

\* The frame that the holder of a lock works on was dispatched.
LEMMA HeldFrame ==
    ASSUME FramesDispatched, NEW p \in Peers, Holds(p, "frame")
    PROVE  lock[p] # << >> /\ Head(lock[p]).frame \in sent
<1>1. lock[p] \in Seq(Ops) /\ lock[p] # << >>
  BY Zenon DEF FramesDispatched, Holds
<1> QED
  BY <1>1, Shortened DEF FramesDispatched, Holds

\* A dispatched frame joins the lane, and what was dispatched stays so.
LEMMA FrameDispatched ==
    ASSUME FramesDispatched, NEW p \in Peers, NEW f, Dispatch(p, f)
    PROVE  sent \subseteq sent' /\ lane' \in [Peers -> Seq(sent')]
<1>1. sent \subseteq sent'
  BY Zenon DEF Dispatch
<1>2. lane \in [Peers -> Seq(sent')]
  BY <1>1, SeqWiden, Zenon DEF FramesDispatched
<1>3. CASE f = NoFrame
  BY <1>1, <1>2, <1>3, Zenon DEF Dispatch
<1>4. CASE f # NoFrame
  <2>1. f \in sent' /\ lane' = [lane EXCEPT ![p] = Append(lane[p], f)]
    BY <1>4, Zenon DEF Dispatch
  <2>2. lane[p] \in Seq(sent')
    BY <1>2, Zenon
  <2>3. Append(lane[p], f) \in Seq(sent')
    BY <2>1, <2>2, Appended, Zenon
  <2> QED
    BY <1>1, <1>2, <2>1, <2>3, Zenon
<1> QED BY <1>3, <1>4, Zenon

\* The runtime and the frame that a transition makes durable are typed.
LEMMA RunsTyped ==
    ASSUME FramesDispatched, NEW p \in Peers,
           RunRetry(p) \/ RunOffer(p) \/ RunAccept(p) \/ RunDuplicate(p)
    PROVE  \/ \E c \in Runtimes, f \in Frames : rt' = [rt EXCEPT ![p] = c] /\ Dispatch(p, f)
           \/ rt' = rt /\ sent' = sent /\ lane' = lane
<1> DEFINE r == rt[p]
           n == fresh
<1>1. r \in Runtimes /\ n \in Nat /\ rt = [rt EXCEPT ![p] = r]
  BY Zenon DEF FramesDispatched
<1>2. r.outbox \in Frames /\ r.ack \in Frames
  BY <1>1, Zenon DEF Runtimes
<1>3. CASE RunRetry(p)
  <2>1. MarkPendingDispatched(r) \in Runtimes
    BY <1>1, DispatchMarked, Zenon
  <2> QED
    BY <1>2, <1>3, <2>1, Zenon DEF RunRetry, Commit, PersistFails
<1>4. CASE RunOffer(p)
  <2>1. /\ MarkPendingDispatched(PrepareHealingOffer(p, r, n)) \in Runtimes
        /\ OfferFrame(p, r, n) \in Frames
    <3> HIDE DEF r, n
    <3> QED BY <1>1, OfferPrepared, Zenon
  <2> QED
    BY <1>4, <2>1, Zenon DEF RunOffer, Commit, PersistFails
<1>5. CASE RunAccept(p)
  <2> DEFINE g == Head(lock[p]).frame
  <2>1. g \in Frames /\ Accepts(p, r, g)
    BY <1>5, HeldFrame, Zenon DEF RunAccept, FramesDispatched
  <2>2. g.type \in {"offer", "advance", "ack"}
    BY <2>1, Zenon DEF Accepts, AcceptsOffer, AcceptsAdvance, AcceptsAck
  <2>3. AfterAccept(p, r, g, n) \in Runtimes /\ AcceptReply(p, r, g, n) \in Frames
    <3> HIDE DEF r, n, g
    <3>1. CASE g.type = "offer"
      BY <1>1, <2>1, <3>1, OfferAnswered, Zenon DEF AcceptReply
    <3>2. CASE g.type = "advance"
      BY <1>1, <2>1, <3>2, AdvanceCommitted, Zenon DEF AcceptReply
    <3>3. CASE g.type = "ack"
      BY <1>1, <2>1, <3>3, ExchangeClosed, NoFrameTyped, Zenon DEF AcceptReply
    <3> QED BY <2>2, <3>1, <3>2, <3>3, Zenon
  <2> QED
    BY <1>5, <2>3, Zenon DEF RunAccept, Commit, PersistFails
<1>6. CASE RunDuplicate(p)
  BY <1>1, <1>2, <1>6, Zenon DEF RunDuplicate, DuplicateReply
<1> QED BY <1>3, <1>4, <1>5, <1>6, Zenon

\* Every step of the edge keeps FramesDispatched.
LEMMA FramesDispatchedStep == FramesDispatched /\ [Next]_vars => FramesDispatched'
<1> SUFFICES ASSUME FramesDispatched, [Next]_vars PROVE FramesDispatched'
  BY Zenon
<1>1. CASE UNCHANGED vars
  BY <1>1, Zenon DEF vars, FramesDispatched
<1> SUFFICES ASSUME NEW p \in Peers,
                    Tick(p) \/ Arrive(p) \/ Drained(p) \/ RunLocked(p) \/ Message(p)
             PROVE  FramesDispatched'
  BY <1>1, Zenon DEF Next
<1>2. \A k \in {"retry", "offer", "seal"} : Op(k) \in Ops /\ Op(k).kind = k
  BY NoFrameTyped, Zenon DEF Op, Ops
<1>3. CASE TickRetry(p) \/ TickOffer(p) \/ Admit(p)
  <2>1. PICK k \in {"retry", "offer", "seal"} : Enqueue(p, Op(k))
    BY <1>3, Zenon DEF TickRetry, TickOffer, Admit
  <2>2. rt' = rt /\ sent' = sent /\ fresh' = fresh /\ lane' = lane /\ inbox' = inbox
    BY <1>3, Zenon DEF TickRetry, TickOffer, Admit
  <2> QED
    BY <1>2, <2>1, <2>2, CallerJoins, Zenon DEF FramesDispatched
<1>4. CASE Arrive(p)
  <2> DEFINE q == Other(p)
  <2>1. /\ q \in Peers /\ lane[q] # << >> /\ lane[q] \in Seq(sent) /\ inbox[p] \in Seq(sent)
        /\ inbox' = [inbox EXCEPT ![p] = Append(inbox[p], Head(lane[q]))]
        /\ lane' = [lane EXCEPT ![q] = Tail(lane[q])]
        /\ rt' = rt /\ sent' = sent /\ fresh' = fresh /\ lock' = lock
    BY <1>4, PeerFacts, Zenon DEF Arrive, FramesDispatched
  <2>2. Head(lane[q]) \in sent /\ Tail(lane[q]) \in Seq(sent)
    BY <2>1, Shortened, Zenon
  <2>3. Append(inbox[p], Head(lane[q])) \in Seq(sent)
    BY <2>1, <2>2, Appended, Zenon
  <2> QED
    BY <2>1, <2>2, <2>3, Zenon DEF FramesDispatched
<1>5. CASE Drained(p)
  <2>1. PICK i \in DOMAIN inbox[p] :
           /\ Enqueue(p, [kind |-> "frame", frame |-> inbox[p][i]])
           /\ inbox' = [inbox EXCEPT ![p] = Without(inbox[p], i)]
    BY <1>5, Zenon DEF Drained
  <2>2. rt' = rt /\ sent' = sent /\ fresh' = fresh /\ lane' = lane
    BY <1>5, Zenon DEF Drained
  <2>3. Without(inbox[p], i) \in Seq(sent) /\ inbox[p][i] \in sent
    BY Removed, Zenon DEF FramesDispatched
  <2>4. [kind |-> "frame", frame |-> inbox[p][i]] \in Ops
    BY <2>3, Zenon DEF FramesDispatched, Ops
  <2> QED
    BY <2>1, <2>2, <2>3, <2>4, CallerJoins, Zenon DEF FramesDispatched
<1>6. CASE TickExhausted(p) \/ OpenChannel(p) \/ ChannelSeen(p) \/ AdmissionTimesOut(p)
           \/ DeliverChunk(p) \/ GiveUp(p)
  BY <1>6, Zenon DEF TickExhausted, OpenChannel, ChannelSeen, AdmissionTimesOut, DeliverChunk, GiveUp,
     FramesDispatched
<1>7. CASE TickStale(p) \/ RunReject(p) \/ Seal(p) \/ SealFails(p)
  <2>1. lock[p] # << >> /\ Release(p)
    BY <1>7, Zenon DEF TickStale, RunReject, Seal, SealFails, Holds
  <2>2. rt' = rt /\ sent' = sent /\ fresh' = fresh /\ lane' = lane /\ inbox' = inbox
    BY <1>7, Zenon DEF TickStale, RunReject, Seal, SealFails
  <2> QED
    BY <2>1, <2>2, HolderLeaves, Zenon DEF FramesDispatched
<1>8. CASE RunRetry(p) \/ RunOffer(p) \/ RunAccept(p) \/ RunDuplicate(p)
  <2>1. lock[p] # << >> /\ Release(p) /\ inbox' = inbox /\ fresh' \in Nat
    BY <1>8 DEF RunRetry, RunOffer, RunAccept, RunDuplicate, Holds, FramesDispatched
  <2>2. \/ \E c \in Runtimes, f \in Frames : rt' = [rt EXCEPT ![p] = c] /\ Dispatch(p, f)
        \/ rt' = rt /\ sent' = sent /\ lane' = lane
    BY <1>8, RunsTyped, Zenon
  <2>3. sent \subseteq sent' /\ lane' \in [Peers -> Seq(sent')]
    BY <2>2, FrameDispatched, Zenon DEF FramesDispatched
  <2>4. inbox' \in [Peers -> Seq(sent')]
    BY <2>1, <2>3, SeqWiden, Zenon DEF FramesDispatched
  <2>5. rt' \in [Peers -> Runtimes] /\ sent' \subseteq Frames
    BY <2>2, Zenon DEF FramesDispatched, Dispatch
  <2> QED
    BY <2>1, <2>3, <2>4, <2>5, HolderLeaves, Zenon DEF FramesDispatched
<1> QED
  BY <1>3, <1>4, <1>5, <1>6, <1>7, <1>8, Zenon DEF Tick, RunLocked, Message

-----------------------------------------------------------------------------
\* The exchange is about the same runtime as the edge: the operators of
\* PqHealing that its actions name.
LEMMA SameOperators ==
    /\ Exchange!Peers = Peers /\ Exchange!NoFrame = NoFrame
    /\ \A p : Exchange!InitRuntime(p) = InitRuntime(p)
    /\ \A r : /\ Exchange!HealingDue(r) <=> HealingDue(r)
              /\ Exchange!CanStartExchange(r) <=> CanStartExchange(r)
              /\ Exchange!CanMarkDispatched(r) <=> CanMarkDispatched(r)
              /\ Exchange!MarkPendingDispatched(r) = MarkPendingDispatched(r)
    /\ \A r, f : /\ Exchange!Duplicate(r, f) <=> Duplicate(r, f)
                 /\ Exchange!DuplicateReply(r, f) = DuplicateReply(r, f)
    /\ \A p, r, f : /\ Exchange!AcceptsOffer(p, r, f) <=> AcceptsOffer(p, r, f)
                    /\ Exchange!AcceptsAdvance(p, r, f) <=> AcceptsAdvance(p, r, f)
                    /\ Exchange!AcceptsAck(p, r, f) <=> AcceptsAck(p, r, f)
                    /\ Exchange!AckFrame(p, r, f) = AckFrame(p, r, f)
    /\ \A p, r, n : /\ Exchange!OfferFrame(p, r, n) = OfferFrame(p, r, n)
                    /\ Exchange!PrepareHealingOffer(p, r, n) = PrepareHealingOffer(p, r, n)
    /\ \A p, r, f, n : /\ Exchange!AdvanceFrame(p, r, f, n) = AdvanceFrame(p, r, f, n)
                       /\ Exchange!AfterAccept(p, r, f, n) = AfterAccept(p, r, f, n)
<1>1. Exchange!Peers = Peers /\ Exchange!NoFrame = NoFrame
  BY Zenon DEF Exchange!Peers, Peers, Exchange!NoFrame, NoFrame
<1>2. \A p : Exchange!InitRuntime(p) = InitRuntime(p)
  BY <1>1, Zenon DEF Exchange!InitRuntime, InitRuntime
<1>3. \A r : /\ Exchange!HealingDue(r) <=> HealingDue(r)
             /\ Exchange!CanStartExchange(r) <=> CanStartExchange(r)
             /\ Exchange!CanMarkDispatched(r) <=> CanMarkDispatched(r)
             /\ Exchange!MarkPendingDispatched(r) = MarkPendingDispatched(r)
  BY <1>1, Zenon DEF Exchange!HealingDue, HealingDue, Exchange!TrafficBlocked, TrafficBlocked,
     Exchange!CanStartExchange, CanStartExchange, Exchange!CanMarkDispatched, CanMarkDispatched,
     Exchange!MarkPendingDispatched, MarkPendingDispatched
<1>4. \A r, f : /\ Exchange!Duplicate(r, f) <=> Duplicate(r, f)
                /\ Exchange!DuplicateReply(r, f) = DuplicateReply(r, f)
  BY <1>1, Zenon DEF Exchange!Duplicate, Duplicate, Exchange!DuplicateReply, DuplicateReply,
     Exchange!DuplicateOffer, DuplicateOffer, Exchange!DuplicateAdvance, DuplicateAdvance
<1>5. \A p, r, f : /\ Exchange!AcceptsOffer(p, r, f) <=> AcceptsOffer(p, r, f)
                   /\ Exchange!AcceptsAdvance(p, r, f) <=> AcceptsAdvance(p, r, f)
                   /\ Exchange!AcceptsAck(p, r, f) <=> AcceptsAck(p, r, f)
                   /\ Exchange!AckFrame(p, r, f) = AckFrame(p, r, f)
  BY <1>3 DEF Exchange!AcceptsOffer, AcceptsOffer, Exchange!AcceptsAdvance, AcceptsAdvance,
     Exchange!AcceptsAck, AcceptsAck, Exchange!Opens, Opens, Exchange!AckFrame, AckFrame,
     Exchange!NextRoot, NextRoot
<1>6. \A p, r, n : Exchange!OfferFrame(p, r, n) = OfferFrame(p, r, n)
  BY Zenon DEF Exchange!OfferFrame, OfferFrame
<1>7. \A p, r, n : Exchange!PrepareHealingOffer(p, r, n) = PrepareHealingOffer(p, r, n)
  BY <1>1, <1>6, Zenon DEF Exchange!PrepareHealingOffer, PrepareHealingOffer
<1>8. \A p, r, f, n : Exchange!AdvanceFrame(p, r, f, n) = AdvanceFrame(p, r, f, n)
  BY Zenon DEF Exchange!AdvanceFrame, AdvanceFrame
<1>9. \A p, r, f, n : Exchange!AfterAccept(p, r, f, n) = AfterAccept(p, r, f, n)
  <2>1. \A p, r, f, n : Exchange!AnswerOffer(p, r, f, n) = AnswerOffer(p, r, f, n)
    BY DEF Exchange!AnswerOffer, AnswerOffer, Exchange!AdvanceFrame, AdvanceFrame,
       Exchange!NextRoot, NextRoot, Exchange!NoFrame, NoFrame
  <2>2. \A p, r, f : Exchange!CommitAdvance(p, r, f) = CommitAdvance(p, r, f)
    BY <1>1, <1>5, Zenon DEF Exchange!CommitAdvance, CommitAdvance, Exchange!NextRoot, NextRoot
  <2>3. \A r : Exchange!CloseExchange(r) = CloseExchange(r)
    BY <1>1, Zenon DEF Exchange!CloseExchange, CloseExchange
  <2> QED
    BY <1>3, <2>1, <2>2, <2>3, Zenon DEF Exchange!AfterAccept, AfterAccept
<1> QED BY <1>1, <1>2, <1>3, <1>4, <1>5, <1>6, <1>7, <1>8, <1>9, Zenon

\* No frame of a type is absent.
LEMMA FramesPresent ==
    /\ \A p, r, n : OfferFrame(p, r, n) # NoFrame
    /\ \A p, r, f, n : AdvanceFrame(p, r, f, n) # NoFrame
    /\ \A p, r, f : AckFrame(p, r, f) # NoFrame
    /\ \A r, f : Duplicate(r, f) => DuplicateReply(r, f) # NoFrame
BY DEF OfferFrame, AdvanceFrame, AckFrame, NoFrame, Duplicate, DuplicateReply, DuplicateOffer,
   DuplicateAdvance

\* Each run of a transition under the lock is a step of the exchange: the same
\* transition, or the spent randomness of a candidate that was not persisted.
LEMMA RunsRefine ==
    ASSUME FramesDispatched, NEW p \in Peers,
           RunRetry(p) \/ RunOffer(p) \/ RunAccept(p) \/ RunDuplicate(p)
    PROVE  [Exchange!Next]_Exchange!vars
<1> DEFINE g == Head(lock[p]).frame
<1>0. fresh \in Nat /\ p \in Exchange!Peers
  BY SameOperators, Zenon DEF FramesDispatched
<1>1. CASE RunRetry(p)
  <2>1. CASE Commit(p, MarkPendingDispatched(rt[p]), rt[p].outbox)
    <3>1. Exchange!Retransmit(p)
      BY <1>1, <2>1, SameOperators, Zenon DEF RunRetry, Commit, Dispatch, CanMarkDispatched,
         Exchange!Retransmit, Exchange!Dispatch
    <3> QED BY <1>0, <3>1, Zenon DEF Exchange!Next
  <2>2. CASE PersistFails
    BY <1>1, <2>2, Zenon DEF RunRetry, PersistFails, Exchange!vars
  <2> QED BY <1>1, <2>1, <2>2, Zenon DEF RunRetry
<1>2. CASE RunOffer(p)
  <2>1. CASE Commit(p, MarkPendingDispatched(PrepareHealingOffer(p, rt[p], fresh)),
                    OfferFrame(p, rt[p], fresh))
    <3>1. Exchange!StartExchange(p)
      BY <1>2, <2>1, SameOperators, FramesPresent, Zenon DEF RunOffer, Commit, Dispatch,
         Exchange!StartExchange, Exchange!Dispatch
    <3> QED BY <1>0, <3>1, Zenon DEF Exchange!Next
  <2>2. CASE PersistFails
    <3>1. Exchange!Abandon
      BY <1>2, <2>2, Zenon DEF RunOffer, PersistFails, Exchange!Abandon
    <3> QED BY <3>1, Zenon DEF Exchange!Next
  <2> QED BY <1>2, <2>1, <2>2, Zenon DEF RunOffer
<1>3. CASE RunAccept(p)
  <2>1. g \in sent /\ Accepts(p, rt[p], g)
    BY <1>3, HeldFrame, Zenon DEF RunAccept
  <2>2. CASE Commit(p, AfterAccept(p, rt[p], g, fresh), AcceptReply(p, rt[p], g, fresh))
    <3>1. CASE AcceptsOffer(p, rt[p], g)
      <4>1. /\ g.type = "offer" /\ fresh' = fresh + 1
            /\ AcceptReply(p, rt[p], g, fresh) = AdvanceFrame(p, rt[p], g, fresh)
        BY <1>3, <3>1, Zenon DEF RunAccept, AcceptsOffer, AcceptReply
      <4>2. Exchange!ReceiveOffer(p, g)
        BY <2>1, <2>2, <3>1, <4>1, SameOperators, FramesPresent, Zenon DEF Accepts, Commit, Dispatch,
           Exchange!ReceiveOffer, Exchange!Dispatch
      <4> QED BY <1>0, <2>1, <4>2, Zenon DEF Exchange!Next, Exchange!Receive
    <3>2. CASE AcceptsAdvance(p, rt[p], g)
      <4>1. /\ g.type = "advance" /\ fresh' = fresh
            /\ AcceptReply(p, rt[p], g, fresh) = AckFrame(p, rt[p], g)
        BY <1>0, <1>3, <3>2, SMTT(30) DEF RunAccept, AcceptsAdvance, AcceptReply
      <4>2. Exchange!ReceiveAdvance(p, g)
        BY <2>1, <2>2, <3>2, <4>1, SameOperators, FramesPresent, Zenon DEF Accepts, Commit, Dispatch,
           Exchange!ReceiveAdvance, Exchange!Dispatch
      <4> QED BY <1>0, <2>1, <4>2, Zenon DEF Exchange!Next, Exchange!Receive
    <3>3. CASE AcceptsAck(p, rt[p], g)
      <4>1. g.type = "ack" /\ fresh' = fresh /\ AcceptReply(p, rt[p], g, fresh) = NoFrame
        BY <1>0, <1>3, <3>3, SMTT(30) DEF RunAccept, AcceptsAck, AcceptReply
      <4>2. Exchange!ReceiveAck(p, g)
        BY <2>1, <2>2, <3>3, <4>1, SameOperators, Zenon DEF Accepts, Commit, Dispatch,
           Exchange!ReceiveAck
      <4> QED BY <1>0, <2>1, <4>2, Zenon DEF Exchange!Next, Exchange!Receive
    <3> QED BY <2>1, <3>1, <3>2, <3>3, Zenon DEF Accepts
  <2>3. CASE PersistFails
    <3>1. rt' = rt /\ sent' = sent
      BY <2>3, Zenon DEF PersistFails
    <3>2. fresh' = fresh \/ fresh' = fresh + 1
      BY <1>0, <1>3, SMTT(30) DEF RunAccept
    <3> QED BY <3>1, <3>2, Zenon DEF Exchange!Next, Exchange!Abandon, Exchange!vars
  <2> QED BY <1>3, <2>2, <2>3, Zenon DEF RunAccept
<1>4. CASE RunDuplicate(p)
  <2>1. g \in sent /\ Duplicate(rt[p], g)
    BY <1>4, HeldFrame, Zenon DEF RunDuplicate
  <2>2. Exchange!ReceiveDuplicate(p, g)
    BY <1>4, <2>1, SameOperators, FramesPresent, Zenon DEF RunDuplicate, Dispatch, Exchange!ReceiveDuplicate
  <2> QED BY <1>0, <2>1, <2>2, Zenon DEF Exchange!Next, Exchange!Receive
<1> QED BY <1>1, <1>2, <1>3, <1>4, Zenon

\* Every step of the edge is a step of the exchange, or leaves it alone.
LEMMA EdgeStepRefines ==
    FramesDispatched /\ [Next]_vars => [Exchange!Next]_Exchange!vars
<1> SUFFICES ASSUME FramesDispatched, [Next]_vars PROVE [Exchange!Next]_Exchange!vars
  BY Zenon
<1>1. CASE UNCHANGED vars
  BY <1>1, Zenon DEF vars, Exchange!vars
<1> SUFFICES ASSUME NEW p \in Peers,
                    Tick(p) \/ Arrive(p) \/ Drained(p) \/ RunLocked(p) \/ Message(p)
             PROVE  [Exchange!Next]_Exchange!vars
  BY <1>1, Zenon DEF Next
<1>2. CASE Tick(p) \/ Arrive(p) \/ Drained(p)
  BY <1>2, Zenon DEF Tick, TickRetry, TickExhausted, TickOffer, Arrive, Drained, Exchange!vars
<1>3. CASE RunRetry(p) \/ RunOffer(p) \/ RunAccept(p) \/ RunDuplicate(p)
  BY <1>3, RunsRefine, Zenon
<1>4. CASE TickStale(p) \/ RunReject(p) \/ Seal(p) \/ SealFails(p)
  BY <1>4, Zenon DEF TickStale, RunReject, Seal, SealFails, Exchange!vars
<1>5. CASE Message(p)
  BY <1>5, Zenon DEF Message, OpenChannel, ChannelSeen, Admit, AdmissionTimesOut, DeliverChunk, GiveUp,
     Exchange!vars
<1> QED BY <1>2, <1>3, <1>4, <1>5, Zenon DEF RunLocked

\* Before the first exchange nothing was dispatched.
LEMMA FramesDispatchedInit == Init => FramesDispatched
<1> SUFFICES ASSUME Init PROVE FramesDispatched
  BY Zenon
<1>1. \A p \in Peers : InitRuntime(p) \in Runtimes
  BY NoFrameTyped DEF InitRuntime, Runtimes, Phases, Turns
<1> QED BY <1>1 DEF Init, FramesDispatched

(***************************************************************************)
(* Every control frame that waits anywhere on the edge was dispatched.     *)
(***************************************************************************)
THEOREM DispatchedInvariant == Spec => []FramesDispatched
BY FramesDispatchedInit, FramesDispatchedStep, PTL DEF Spec

(***************************************************************************)
(* The orchestrators of both ends, with their ticks, their locks, failing  *)
(* writes and overtaking frames, implement the exchange.                   *)
(***************************************************************************)
THEOREM EdgeImplementsExchange == Spec => ImplementsExchange
<1>1. Init => Exchange!Init
  BY SameOperators, Zenon DEF Init, Exchange!Init
<1> QED
  BY <1>1, EdgeStepRefines, DispatchedInvariant, PTL DEF Spec, ImplementsExchange, Exchange!Spec

------------------------------------------------------------------------------
\* No caller of a lock wants to retransmit.
NoRetryOp(ops) == \A i \in DOMAIN ops : ops[i].kind # "retry"

\* A caller that joins a lock: which frames the callers hold then.
LEMMA OpJoins ==
    ASSUME NEW s \in Seq(Ops), NEW op \in Ops, NEW t, t = Append(s, op)
    PROVE  /\ op.kind # "retry" /\ NoRetryOp(s) => NoRetryOp(t)
           /\ op.kind # "frame" /\ NoFrameOp(s) => NoFrameOp(t)
           /\ op.kind = "frame" /\ NoFrameOp(s) => OneFrameOp(t, op.frame)
           /\ op.kind # "frame" => \A f : OneFrameOp(s, f) => OneFrameOp(t, f)
<1>1. /\ DOMAIN s = 1 .. Len(s) /\ Len(s) \in Nat /\ DOMAIN t = 1 .. Len(s) + 1
      /\ \A i \in DOMAIN s : t[i] = s[i]
      /\ t[Len(s) + 1] = op
  BY Appended
<1>2. \A i \in DOMAIN t : i \in DOMAIN s \/ i = Len(s) + 1
  BY <1>1
<1>3. \A i \in DOMAIN s : i \in DOMAIN t /\ i # Len(s) + 1
  BY <1>1
<1>4. Len(s) + 1 \in DOMAIN t
  BY <1>1
<1> QED BY <1>1, <1>2, <1>3, <1>4 DEF NoRetryOp, NoFrameOp, OneFrameOp

\* The holder that leaves a lock: which frames the callers hold then.
LEMMA OpLeaves ==
    ASSUME NEW s \in Seq(Ops), s # << >>, NEW t, t = Tail(s)
    PROVE  /\ NoRetryOp(s) => NoRetryOp(t) /\ Head(s).kind # "retry"
           /\ NoFrameOp(s) => NoFrameOp(t) /\ Head(s).kind # "frame"
           /\ \A f : OneFrameOp(s, f) =>
                /\ Head(s).kind # "frame" => OneFrameOp(t, f)
                /\ Head(s).kind = "frame" => NoFrameOp(t) /\ Head(s).frame = f
<1>1. /\ DOMAIN s = 1 .. Len(s) /\ Len(s) \in Nat /\ DOMAIN t = 1 .. Len(s) - 1
      /\ \A i \in DOMAIN t : i \in Nat /\ i + 1 \in DOMAIN s /\ t[i] = s[i + 1]
      /\ 1 \in DOMAIN s /\ Head(s) = s[1]
  BY Shortened, Zenon
<1>2. NoRetryOp(s) => NoRetryOp(t) /\ Head(s).kind # "retry"
  BY <1>1, Zenon DEF NoRetryOp
<1>3. NoFrameOp(s) => NoFrameOp(t) /\ Head(s).kind # "frame"
  BY <1>1, Zenon DEF NoFrameOp
<1>4. ASSUME NEW f, OneFrameOp(s, f)
      PROVE  /\ Head(s).kind # "frame" => OneFrameOp(t, f)
             /\ Head(s).kind = "frame" => NoFrameOp(t) /\ Head(s).frame = f
  <2>1. PICK i \in DOMAIN s : /\ s[i].kind = "frame" /\ s[i].frame = f
                              /\ \A j \in DOMAIN s : s[j].kind = "frame" => j = i
    BY <1>4, Zenon DEF OneFrameOp
  <2>2. CASE i = 1
    <3>1. \A j \in DOMAIN t : j + 1 # 1 /\ t[j].kind # "frame"
      BY <1>1, <2>1, <2>2
    <3> QED BY <1>1, <2>1, <2>2, <3>1, Zenon DEF NoFrameOp
  <2>3. CASE i # 1
    <3>1. i - 1 \in DOMAIN t /\ t[i - 1] = s[i]
      BY <1>1, <2>3
    <3>2. \A j \in DOMAIN t : t[j].kind = "frame" => j = i - 1
      BY <1>1, <2>1
    <3>3. Head(s).kind # "frame"
      BY <1>1, <2>1, <2>3, Zenon
    <3> QED BY <2>1, <3>1, <3>2, <3>3, Zenon DEF OneFrameOp
  <2> QED BY <2>2, <2>3, Zenon
<1> QED BY <1>2, <1>3, <1>4, Zenon

\* A step that leaves the runtimes and the frames on their way alone, and at
\* most lets a caller without a frame join or leave a lock.
LocksOnly ==
    /\ rt' = rt /\ sent' = sent /\ lane' = lane /\ inbox' = inbox
    /\ edge' # "rejected"
    /\ \A p \in Peers : /\ NoRetryOp(lock[p]) => NoRetryOp(lock'[p])
                        /\ NoFrameOp(lock[p]) => NoFrameOp(lock'[p])
                        /\ \A f : OneFrameOp(lock[p], f) => OneFrameOp(lock'[p], f)

\* Such a step keeps the one frame where it is.
LEMMA LocksOnlyKeeps ==
    ASSUME OneFrameAtATime, LocksOnly
    PROVE  OneFrameAtATime'
<1>1. \A p \in Peers : NoRetryOp(lock[p])
  BY Zenon DEF OneFrameAtATime, NoRetryOp
<1>2. ASSUME NEW p \in Peers PROVE Silent(p) => Silent(p)'
  BY PeerFacts, Zenon DEF Silent, LocksOnly
<1>3. ASSUME NEW p \in Peers, NEW f PROVE Travels(p, f) => Travels(p, f)'
  BY <1>2, PeerFacts, Zenon DEF Travels, LocksOnly
<1>4. \A p \in Peers : NoRetryOp(lock'[p])
  BY <1>1, Zenon DEF LocksOnly
<1>5. PICK p \in Peers : NoExchange(p) \/ OfferTravels(p) \/ AdvanceTravels(p) \/ AckTravels(p)
  BY Zenon DEF OneFrameAtATime
<1>6. rt' = rt /\ sent' = sent
  BY Zenon DEF LocksOnly
<1>7. NoExchange(p) => NoExchange(p)'
  BY <1>2, <1>6, PeerFacts, Zenon DEF NoExchange
<1>8. OfferTravels(p) => OfferTravels(p)'
  BY <1>3, <1>6, PeerFacts, Zenon DEF OfferTravels
<1>9. AdvanceTravels(p) => AdvanceTravels(p)'
  BY <1>3, <1>6, PeerFacts, Zenon DEF AdvanceTravels
<1>10. AckTravels(p) => AckTravels(p)'
  BY <1>3, <1>6, PeerFacts, Zenon DEF AckTravels
<1> QED
  BY <1>4, <1>5, <1>6, <1>7, <1>8, <1>9, <1>10, Zenon DEF OneFrameAtATime, LocksOnly, NoRetryOp


\* While an outbox is pending, something travels: no retry is due without one
\* of the deadlines passing first.
LEMMA PendingUnderWay ==
    ASSUME FramesDispatched, OneFrameAtATime, NEW p \in Peers, rt[p].outbox # NoFrame
    PROVE  UnderWay
<1>1. ASSUME NEW x \in Peers, NEW f, Travels(x, f) PROVE UnderWay
  BY <1>1, PeerFacts DEF Travels, UnderWay, OneFrameOp
<1>2. PICK x \in Peers : NoExchange(x) \/ OfferTravels(x) \/ AdvanceTravels(x) \/ AckTravels(x)
  BY Zenon DEF OneFrameAtATime
<1>3. ~NoExchange(x)
  BY PeerFacts, Zenon DEF NoExchange, Resting
<1> QED
  BY <1>1, <1>2, <1>3, PeerFacts, Zenon DEF OfferTravels, AdvanceTravels, AckTravels

\* A step that moves the one frame along: from the lane to the receive queue,
\* or from there to the lock.
LEMMA FrameMoves ==
    ASSUME FramesDispatched, NEW p \in Peers, Arrive(p) \/ Drained(p)
    PROVE  /\ ~(Silent(p) /\ Silent(Other(p)))
           /\ \A x \in Peers : \A f \in sent : Travels(x, f) => Travels(x, f)'
<1> DEFINE q == Other(p)
<1>1. q \in Peers /\ q # p /\ Other(q) = p /\ \A x \in Peers : x = p \/ x = q
  BY PeerFacts, Zenon
<1>2. /\ lane \in [Peers -> Seq(sent)] /\ inbox \in [Peers -> Seq(sent)]
      /\ lock \in [Peers -> Seq(Ops)] /\ sent \subseteq Frames
  BY Zenon DEF FramesDispatched
<1>3. CASE Arrive(p)
  <2>1. /\ lane[q] # << >> /\ inbox' = [inbox EXCEPT ![p] = Append(inbox[p], Head(lane[q]))]
        /\ lane' = [lane EXCEPT ![q] = Tail(lane[q])] /\ lock' = lock
    BY <1>3, Zenon DEF Arrive
  <2>2. ~Silent(q)
    BY <2>1, Zenon DEF Silent
  <2>3. ASSUME NEW f \in sent, Travels(q, f) PROVE Travels(q, f)'
    <3>1. lane[q] = <<f>> /\ inbox[p] = << >> /\ NoFrameOp(lock[p]) /\ Silent(p)
      BY <1>1, <2>1, <2>3, Zenon DEF Travels
    <3>2. lane'[q] = << >> /\ inbox'[p] = <<f>> /\ lane'[p] = lane[p] /\ inbox'[q] = inbox[q]
      BY <1>1, <1>2, <2>1, <3>1
    <3> QED BY <1>1, <2>1, <3>1, <3>2, Zenon DEF Travels, Silent
  <2>4. ASSUME NEW f \in sent PROVE ~Travels(p, f)
    BY <1>1, <2>2, Zenon DEF Travels
  <2> QED BY <1>1, <2>2, <2>3, <2>4, Zenon
<1>4. CASE Drained(p)
  <2>1. PICK i \in DOMAIN inbox[p] :
          /\ lock' = [lock EXCEPT ![p] = Append(lock[p], [kind |-> "frame", frame |-> inbox[p][i]])]
          /\ inbox' = [inbox EXCEPT ![p] = Without(inbox[p], i)]
    BY <1>4, Zenon DEF Drained, Enqueue
  <2>2. lane' = lane /\ inbox[p] # << >>
    BY <1>4, <2>1 DEF Drained
  <2>3. ~Silent(q)
    BY <1>1, <2>2, Zenon DEF Silent
  <2>4. ASSUME NEW f \in sent, Travels(q, f) PROVE Travels(q, f)'
    <3>1. lane[q] = << >> /\ inbox[p] = <<f>> /\ NoFrameOp(lock[p]) /\ Silent(p)
      BY <1>1, <2>2, <2>4, Zenon DEF Travels
    <3>2. i = 1 /\ inbox[p][i] = f
      BY <2>1, <3>1
    <3>3. Without(inbox[p], i) = << >>
      BY <3>1, <3>2 DEF Without
    <3>4. inbox'[p] = << >> /\ inbox'[q] = inbox[q] /\ lock'[q] = lock[q]
      BY <1>1, <1>2, <2>1, <3>3, Zenon
    <3>5. lock'[p] = Append(lock[p], [kind |-> "frame", frame |-> f]) /\ lock[p] \in Seq(Ops)
      BY <1>1, <1>2, <2>1, <3>2, Zenon
    <3>6. [kind |-> "frame", frame |-> f] \in Ops
      BY <1>2, Zenon DEF Ops
    <3>7. OneFrameOp(lock'[p], f)
      BY <3>1, <3>5, <3>6, OpJoins, Zenon
    <3> QED BY <1>1, <2>2, <3>1, <3>4, <3>7, Zenon DEF Travels, Silent
  <2>5. ASSUME NEW f \in sent PROVE ~Travels(p, f)
    BY <1>1, <2>3, Zenon DEF Travels
  <2> QED BY <1>1, <2>3, <2>4, <2>5, Zenon
<1> QED BY <1>3, <1>4, Zenon

\* The outbox that travels was dispatched.
LEMMA TravelsSent ==
    ASSUME FramesDispatched, NEW p \in Peers, NEW f, Travels(p, f)
    PROVE  f \in sent
<1>1. Other(p) \in Peers /\ lane[p] \in Seq(sent) /\ inbox[Other(p)] \in Seq(sent)
  BY PeerFacts, Zenon DEF FramesDispatched
<1>2. CASE lane[p] = <<f>>
  BY <1>1, <1>2
<1>3. CASE inbox[Other(p)] = <<f>>
  BY <1>1, <1>3
<1>4. CASE OneFrameOp(lock[Other(p)], f)
  BY <1>1, <1>4, Zenon DEF OneFrameOp, FramesDispatched
<1> QED BY <1>2, <1>3, <1>4, Zenon DEF Travels

\* Arrive and Drained keep the one frame under way.
LEMMA FrameMovesKeeps ==
    ASSUME FramesDispatched, OneFrameAtATime, NEW p \in Peers, Arrive(p) \/ Drained(p)
    PROVE  OneFrameAtATime'
<1>1. rt' = rt /\ sent' = sent /\ edge' = edge
  BY Zenon DEF Arrive, Drained
<1>2. \A x \in Peers : NoRetryOp(lock'[x])
  <2>1. CASE Arrive(p)
    BY <2>1, Zenon DEF Arrive, OneFrameAtATime, NoRetryOp
  <2>2. CASE Drained(p)
    <3>1. PICK op \in Ops : op.kind = "frame" /\ Enqueue(p, op)
      <4>1. PICK i \in DOMAIN inbox[p] : Enqueue(p, [kind |-> "frame", frame |-> inbox[p][i]])
        BY <2>2, Zenon DEF Drained
      <4>2. [kind |-> "frame", frame |-> inbox[p][i]] \in Ops
        BY Removed, Zenon DEF Ops, FramesDispatched
      <4> QED BY <4>1, <4>2, Zenon
    <3>2. NoRetryOp(lock[p]) /\ lock[p] \in Seq(Ops)
      BY Zenon DEF OneFrameAtATime, NoRetryOp, FramesDispatched
    <3>3. NoRetryOp(Append(lock[p], op))
      BY <3>1, <3>2, OpJoins, Zenon
    <3> QED BY <3>1, <3>3, Zenon DEF OneFrameAtATime, NoRetryOp, FramesDispatched, Enqueue
  <2> QED BY <2>1, <2>2, Zenon
<1>3. PICK x \in Peers : NoExchange(x) \/ OfferTravels(x) \/ AdvanceTravels(x) \/ AckTravels(x)
  BY Zenon DEF OneFrameAtATime
<1>4. ~NoExchange(x)
  BY FrameMoves, PeerFacts, Zenon DEF NoExchange
<1>5. ASSUME NEW y \in Peers, NEW f, Travels(y, f) PROVE Travels(y, f)'
  BY <1>5, FrameMoves, TravelsSent, Zenon
<1>6. OfferTravels(x) => OfferTravels(x)'
  BY <1>1, <1>5, Zenon DEF OfferTravels
<1>7. AdvanceTravels(x) => AdvanceTravels(x)'
  BY <1>1, <1>5, PeerFacts, Zenon DEF AdvanceTravels
<1>8. AckTravels(x) => AckTravels(x)'
  BY <1>1, <1>5, Zenon DEF AckTravels
<1> QED
  BY <1>1, <1>2, <1>3, <1>4, <1>6, <1>7, <1>8, Zenon DEF OneFrameAtATime, NoRetryOp


\* The holder of a lock leaves it, without a frame or with the only one.
LEMMA HolderLeavesLock ==
    ASSUME FramesDispatched, OneFrameAtATime, NEW p \in Peers, lock[p] # << >>, Release(p)
    PROVE  /\ \A x \in Peers : NoRetryOp(lock'[x])
           /\ lock'[Other(p)] = lock[Other(p)]
           /\ NoFrameOp(lock[p]) => NoFrameOp(lock'[p]) /\ Head(lock[p]).kind # "frame"
           /\ Head(lock[p]).kind # "retry"
           /\ \A f : OneFrameOp(lock[p], f) =>
                /\ Head(lock[p]).kind # "frame" => OneFrameOp(lock'[p], f)
                /\ Head(lock[p]).kind = "frame" => NoFrameOp(lock'[p]) /\ Head(lock[p]).frame = f
<1>1. lock'[p] = Tail(lock[p]) /\ \A x \in Peers \ {p} : lock'[x] = lock[x]
  BY Zenon DEF Release, FramesDispatched
<1>2. lock[p] \in Seq(Ops)
  BY Zenon DEF FramesDispatched
<1>3. \A x \in Peers : NoRetryOp(lock[x])
  BY Zenon DEF OneFrameAtATime, NoRetryOp
<1>4. NoRetryOp(lock'[p]) /\ Head(lock[p]).kind # "retry"
  BY <1>1, <1>2, <1>3, OpLeaves, Zenon
<1>5. \A x \in Peers : NoRetryOp(lock'[x])
  BY <1>1, <1>3, <1>4, Zenon
<1>6. lock'[Other(p)] = lock[Other(p)]
  BY <1>1, PeerFacts, Zenon
<1> QED BY <1>1, <1>2, <1>4, <1>5, <1>6, OpLeaves, Zenon

\* The frame that the holder of a lock works on is the only one under way, and
\* the one that its runtime expects.
LEMMA HeldIsExpected ==
    ASSUME FramesDispatched, OneFrameAtATime, NEW p \in Peers, Holds(p, "frame"), Release(p),
           NEW f, f = Head(lock[p]).frame
    PROVE  /\ Silent(p) /\ lane[Other(p)] = << >> /\ inbox[p] = << >>
           /\ NoFrameOp(lock'[p]) /\ NoFrameOp(lock'[Other(p)])
           /\ ~Duplicate(rt[p], f)
           /\ \/ OfferTravels(Other(p)) /\ f = rt[Other(p)].outbox /\ AcceptsOffer(p, rt[p], f)
              \/ AdvanceTravels(p) /\ f = rt[Other(p)].outbox /\ AcceptsAdvance(p, rt[p], f)
              \/ AckTravels(Other(p)) /\ f.type = "ack" /\ AcceptsAck(p, rt[p], f)
<1> DEFINE q == Other(p)
<1>1. q \in Peers /\ q # p /\ Other(q) = p /\ \A x \in Peers : x = p \/ x = q
  BY PeerFacts, Zenon
<1>2. lock[p] # << >> /\ Head(lock[p]).kind = "frame"
  BY Zenon DEF Holds
<1>3. ~NoFrameOp(lock[p])
  BY <1>2, HolderLeavesLock, Zenon
<1>4. ~Silent(q)
  BY <1>1, <1>3, Zenon DEF Silent
<1>5. ASSUME NEW x \in Peers, NEW g, Travels(x, g)
      PROVE  /\ x = q /\ g = f /\ Silent(p) /\ lane[q] = << >> /\ inbox[p] = << >>
             /\ NoFrameOp(lock'[p]) /\ NoFrameOp(lock'[q])
  <2>1. x = q
    BY <1>1, <1>4, <1>5, Zenon DEF Travels
  <2>2. Silent(p) /\ lane[q] = << >> /\ inbox[p] = << >> /\ OneFrameOp(lock[p], g)
    BY <1>1, <1>3, <1>5, <2>1, Zenon DEF Travels
  <2>3. NoFrameOp(lock'[p]) /\ Head(lock[p]).frame = g /\ lock'[q] = lock[q]
    BY <1>2, <2>2, HolderLeavesLock, Zenon
  <2> QED BY <1>1, <2>1, <2>2, <2>3, Zenon DEF Silent
<1>6. rt[p] \in Runtimes /\ rt[q] \in Runtimes
  BY <1>1, Zenon DEF FramesDispatched
<1>7. PICK x \in Peers : NoExchange(x) \/ OfferTravels(x) \/ AdvanceTravels(x) \/ AckTravels(x)
  BY Zenon DEF OneFrameAtATime
<1>8. /\ rt[p].local = rt[p].epoch /\ rt[p].remote = rt[p].epoch
      /\ rt[q].local = rt[q].epoch /\ rt[q].remote = rt[q].epoch
      /\ rt[p].inAdvance # NoFrame => rt[p].inAdvance.type = "advance"
  BY <1>1, Zenon DEF OneFrameAtATime
<1>9. ~NoExchange(x)
  BY <1>1, <1>4, Zenon DEF NoExchange
<1>10. CASE OfferTravels(x)
  <2>1. Travels(x, rt[x].outbox)
    BY <1>10, Zenon DEF OfferTravels
  <2>2. x = q /\ f = rt[q].outbox
    BY <1>5, <2>1
  <2>3. Offered(q, rt[q], f) /\ Resting(rt[p], "remote") /\ SameRoot(rt[q], rt[p])
    BY <1>1, <1>10, <2>2, Zenon DEF OfferTravels
  <2>4. AcceptsOffer(p, rt[p], f)
    BY <1>1, <1>8, <2>3, Zenon DEF AcceptsOffer, Opens, CanStartExchange, Offered, Resting, SameRoot
  <2>5. ~Duplicate(rt[p], f)
    BY <1>8, <2>3, NoFrameTyped, Zenon DEF Duplicate, DuplicateOffer, DuplicateAdvance, Offered, Resting
  <2> QED BY <1>5, <1>10, <2>1, <2>2, <2>4, <2>5, Zenon
<1>11. CASE AdvanceTravels(x)
  <2>1. Travels(Other(x), rt[Other(x)].outbox)
    BY <1>11, Zenon DEF AdvanceTravels
  <2>2. x = p /\ f = rt[q].outbox
    BY <1>1, <1>5, <2>1, PeerFacts
  <2>3. /\ Offered(p, rt[p], rt[p].outbox) /\ Answered(q, rt[q], f)
        /\ f.epoch = rt[p].epoch /\ f.key = rt[p].root /\ f.offer = rt[p].outbox.id
    BY <1>11, <2>2, Zenon DEF AdvanceTravels
  <2>4. AcceptsAdvance(p, rt[p], f)
    BY <1>1, <1>8, <2>3, Zenon DEF AcceptsAdvance, Opens, Offered, Answered
  <2>5. ~Duplicate(rt[p], f)
    BY <2>3, Zenon DEF Duplicate, DuplicateOffer, DuplicateAdvance, Offered
  <2> QED BY <1>1, <1>5, <1>11, <2>1, <2>2, <2>4, <2>5, Zenon
<1>12. CASE AckTravels(x)
  <2>1. PICK g \in sent : /\ g.type = "ack" /\ g.dir = x /\ g.epoch = rt[Other(x)].epoch
                          /\ g.key = rt[Other(x)].root /\ g.ctr = rt[Other(x)].outbox.ctr
                          /\ Travels(x, g)
    BY <1>12, Zenon DEF AckTravels
  <2>2. x = q /\ f = g
    BY <1>5, <2>1, Zenon
  <2>3. Answered(p, rt[p], rt[p].outbox)
    BY <1>1, <1>12, <2>2, Zenon DEF AckTravels
  <2>4. AcceptsAck(p, rt[p], f)
    BY <1>1, <2>1, <2>2, <2>3, Zenon DEF AcceptsAck, Opens, Answered
  <2>5. ~Duplicate(rt[p], f)
    BY <2>1, <2>2, <2>3, Zenon DEF Duplicate, DuplicateOffer, DuplicateAdvance, Answered
  <2> QED BY <1>5, <1>12, <2>1, <2>2, <2>4, <2>5, Zenon
<1> QED BY <1>7, <1>9, <1>10, <1>11, <1>12, Zenon

\* A dispatched frame of p is the one that travels, when none did.
LEMMA ReplyTravels ==
    ASSUME FramesDispatched, NEW p \in Peers, NEW f, f # NoFrame, Dispatch(p, f),
           inbox' = inbox, lane[p] = << >>, lane[Other(p)] = << >>,
           inbox[p] = << >>, inbox[Other(p)] = << >>,
           NoFrameOp(lock'[p]), NoFrameOp(lock'[Other(p)])
    PROVE  Travels(p, f)' /\ f \in sent'
<1>1. f \in sent' /\ lane' = [lane EXCEPT ![p] = Append(lane[p], f)]
  BY Zenon DEF Dispatch
<1>2. lane'[p] = <<f>> /\ lane'[Other(p)] = << >>
  BY <1>1, PeerFacts, SMTT(30) DEF FramesDispatched
<1> QED BY <1>1, <1>2, PeerFacts, Zenon DEF Travels, Silent


\* RunOffer, when the write does not fail: the first frame of an exchange.
LEMMA RunOfferKeeps ==
    ASSUME FramesDispatched, OneFrameAtATime, NEW p \in Peers, RunOffer(p), faults' = faults,
           faults = 0
    PROVE  OneFrameAtATime'
<1> DEFINE q == Other(p)
           s == MarkPendingDispatched(PrepareHealingOffer(p, rt[p], fresh))
<1>0. PICK o : o = OfferFrame(p, rt[p], fresh)
  BY Zenon
<1>1. q \in Peers /\ q # p /\ Other(q) = p /\ \A x \in Peers : x = p \/ x = q
  BY PeerFacts, Zenon
<1>2. /\ HealingDue(rt[p]) /\ CanStartExchange(rt[p]) /\ lock[p] # << >> /\ Release(p)
      /\ Head(lock[p]).kind = "offer" /\ inbox' = inbox /\ edge' = edge
      /\ rt' = [rt EXCEPT ![p] = s] /\ Dispatch(p, o)
  BY <1>0 DEF RunOffer, Holds, Commit, PersistFails
<1>3. rt[p] \in Runtimes /\ fresh \in Nat
  BY Zenon DEF FramesDispatched
<1>4. /\ s \in Runtimes /\ s.phase = "offered" /\ s.epoch = rt[p].epoch /\ s.local = rt[p].local
      /\ s.remote = rt[p].remote /\ s.turn = rt[p].turn /\ s.root = rt[p].root /\ s.outbox = o
      /\ s.inOffer = NoFrame /\ s.inAdvance = NoFrame
  <2> DEFINE r == rt[p]
             n == fresh
  <2>1. r \in Runtimes /\ n \in Nat /\ s = MarkPendingDispatched(PrepareHealingOffer(p, r, n))
        /\ o = OfferFrame(p, r, n)
    BY <1>0, <1>3, Zenon
  <2> HIDE DEF s, r, n
  <2> QED BY <2>1, OfferPrepared DEF r
<1>5. /\ o.type = "offer" /\ o.dir = p /\ o.epoch = rt[p].epoch /\ o.ctr = rt[p].local
      /\ o.key = rt[p].root
  BY <1>0, Zenon DEF OfferFrame
<1> HIDE DEF s
<1>6. rt[p].phase = "idle" /\ rt[p].turn = "local" /\ rt[p].epoch < MaxU64
  BY <1>2, Zenon DEF HealingDue, TrafficBlocked, CanStartExchange
<1>7. NoExchange(p)
  <2>1. PICK x \in Peers : NoExchange(x) \/ OfferTravels(x) \/ AdvanceTravels(x) \/ AckTravels(x)
    BY Zenon DEF OneFrameAtATime
  <2>2. ~OfferTravels(x) /\ ~AdvanceTravels(x) /\ ~AckTravels(x)
    BY <1>1, <1>6, PeerFacts, Zenon DEF OfferTravels, AdvanceTravels, AckTravels, Offered, Answered, Resting
  <2> QED BY <1>1, <1>6, <2>1, <2>2, PeerFacts, Zenon DEF NoExchange, Resting
<1>8. /\ NoFrameOp(lock'[p]) /\ NoFrameOp(lock'[q]) /\ \A x \in Peers : NoRetryOp(lock'[x])
  BY <1>1, <1>2, <1>7, HolderLeavesLock, Zenon DEF NoExchange, Silent
<1>9. Travels(p, o)'
  <2>1. o # NoFrame
    BY <1>5, NoFrameTyped, Zenon
  <2>2. lane[p] = << >> /\ lane[q] = << >> /\ inbox[p] = << >> /\ inbox[q] = << >>
    BY <1>1, <1>7, Zenon DEF NoExchange, Silent
  <2> QED BY <1>2, <1>8, <2>1, <2>2, ReplyTravels, Zenon
<1>10. rt'[p] = s /\ rt'[q] = rt[q]
  BY <1>1, <1>2, Zenon DEF FramesDispatched
<1>11. rt[p].local = rt[p].epoch /\ rt[p].remote = rt[p].epoch
  BY Zenon DEF OneFrameAtATime
<1>12. OfferTravels(p)'
  BY <1>1, <1>4, <1>5, <1>6, <1>7, <1>9, <1>10, <1>11
  DEF OfferTravels, Offered, NoExchange, Resting, SameRoot
<1>13. \A x \in Peers : /\ rt'[x].local = rt'[x].epoch /\ rt'[x].remote = rt'[x].epoch
                        /\ rt'[x].inAdvance # NoFrame => rt'[x].inAdvance.type = "advance"
  BY <1>1, <1>4, <1>10, SMTT(30) DEF OneFrameAtATime
<1> QED
  BY <1>2, <1>8, <1>12, <1>13, Zenon DEF OneFrameAtATime, NoRetryOp

\* RunAccept, when the write does not fail: the reply is the next frame, or the
\* exchange is over.
LEMMA RunAcceptKeeps ==
    ASSUME FramesDispatched, OneFrameAtATime, NEW p \in Peers, RunAccept(p), faults' = faults,
           faults = 0
    PROVE  OneFrameAtATime'
<1> DEFINE q == Other(p)
           f == Head(lock[p]).frame
           s == AfterAccept(p, rt[p], f, fresh)
<1>0. PICK a : a = AcceptReply(p, rt[p], f, fresh)
  BY Zenon
<1>1. q \in Peers /\ q # p /\ Other(q) = p /\ \A x \in Peers : x = p \/ x = q
  BY PeerFacts, Zenon
<1>2. /\ Holds(p, "frame") /\ lock[p] # << >> /\ Release(p) /\ inbox' = inbox /\ edge' = edge
      /\ rt' = [rt EXCEPT ![p] = s] /\ Dispatch(p, a)
  BY <1>0, SMTT(30) DEF RunAccept, Holds, Commit, PersistFails
<1>3. /\ Silent(p) /\ lane[q] = << >> /\ inbox[p] = << >>
      /\ NoFrameOp(lock'[p]) /\ NoFrameOp(lock'[q])
      /\ \/ OfferTravels(q) /\ f = rt[q].outbox /\ AcceptsOffer(p, rt[p], f)
         \/ AdvanceTravels(p) /\ f = rt[q].outbox /\ AcceptsAdvance(p, rt[p], f)
         \/ AckTravels(q) /\ f.type = "ack" /\ AcceptsAck(p, rt[p], f)
  BY <1>2, HeldIsExpected, Zenon
<1>4. rt'[p] = s /\ rt'[q] = rt[q]
  BY <1>1, <1>2, Zenon DEF FramesDispatched
<1>5. rt[p] \in Runtimes /\ rt[q] \in Runtimes /\ fresh \in Nat /\ f \in Frames
  BY <1>1, <1>2, HeldFrame, Zenon DEF FramesDispatched
<1>6. lane[p] = << >> /\ inbox[q] = << >>
  BY <1>3, Zenon DEF Silent
<1>7. a # NoFrame => Travels(p, a)' /\ a \in sent'
  BY <1>2, <1>3, <1>6, ReplyTravels, Zenon
<1>8. /\ rt[p].local = rt[p].epoch /\ rt[p].remote = rt[p].epoch
      /\ rt[q].local = rt[q].epoch /\ rt[q].remote = rt[q].epoch
      /\ rt[q].inAdvance # NoFrame => rt[q].inAdvance.type = "advance"
  BY <1>1, Zenon DEF OneFrameAtATime
<1>9. \A x \in Peers : NoRetryOp(lock'[x])
  BY <1>2, HolderLeavesLock, Zenon
<1>10. ASSUME /\ s.local = s.epoch /\ s.remote = s.epoch
              /\ s.inAdvance # NoFrame => s.inAdvance.type = "advance",
              NEW x \in Peers, (NoExchange(x) \/ AdvanceTravels(x) \/ AckTravels(x))'
       PROVE  OneFrameAtATime'
  <2> HIDE DEF s
  <2> QED BY <1>1, <1>2, <1>4, <1>8, <1>9, <1>10, SMTT(30) DEF OneFrameAtATime, NoRetryOp
<1>11. CASE OfferTravels(q) /\ f = rt[q].outbox /\ AcceptsOffer(p, rt[p], f)
  <2>1. /\ Offered(q, rt[q], f) /\ Resting(rt[p], "remote") /\ SameRoot(rt[q], rt[p])
    BY <1>1, <1>11, Zenon DEF OfferTravels
  <2>2. f.type = "offer" /\ f.epoch = rt[p].epoch
    BY <2>1, Zenon DEF Offered, SameRoot
  <2>3. /\ a = AdvanceFrame(p, rt[p], f, fresh) /\ a.type = "advance" /\ a.dir = p
        /\ a.epoch = f.epoch /\ a.ctr = rt[p].local /\ a.key = rt[p].root /\ a.offer = f.id
    BY <1>0, <2>2, Zenon DEF AcceptReply, AdvanceFrame
  <2>4. /\ s.phase = "awaitAck" /\ s.epoch = rt[p].epoch + 1 /\ s.local = rt[p].local + 1
        /\ s.remote = rt[p].remote + 1 /\ s.turn = "local" /\ s.root = NextRoot(rt[p].root, a)
        /\ s.outbox = a /\ s.inOffer = f /\ s.inAdvance = NoFrame
    <3> DEFINE r == rt[p]
               n == fresh
               g == f
    <3>1. r \in Runtimes /\ n \in Nat /\ g \in Frames /\ s = AfterAccept(p, r, g, n)
          /\ a = AdvanceFrame(p, r, g, n) /\ g.type = "offer"
      BY <1>5, <2>2, <2>3, Zenon
    <3> HIDE DEF r, n, g, s
    <3> QED BY <3>1, OfferAnswered, SMTT(30) DEF r, g
  <2> HIDE DEF f, s
  <2>5. AdvanceTravels(q)'
    <3>1. Travels(p, a)'
      BY <1>7, <2>3, NoFrameTyped, Zenon
    <3>2. Offered(q, rt[q], rt[q].outbox) /\ rt[q].outbox = f
      BY <1>11, <2>1, Zenon
    <3>3. Answered(p, s, a)
      BY <1>8, <2>2, <2>3, <2>4, Zenon DEF Answered
    <3>4. a.epoch = rt[q].epoch /\ a.key = rt[q].root /\ s.root = NextRoot(rt[q].root, a)
      BY <2>1, <2>2, <2>3, <2>4, Zenon DEF SameRoot
    <3>5. s.outbox = a /\ a.offer = rt[q].outbox.id
      BY <2>3, <2>4, <3>2, Zenon
    <3> QED BY <1>1, <1>4, <3>1, <3>2, <3>3, <3>4, <3>5, Zenon DEF AdvanceTravels
  <2> QED BY <1>1, <1>8, <1>10, <2>4, <2>5, Zenon
<1>12. CASE AdvanceTravels(p) /\ f = rt[q].outbox /\ AcceptsAdvance(p, rt[p], f)
  <2>1. /\ Offered(p, rt[p], rt[p].outbox) /\ Answered(q, rt[q], f)
        /\ f.epoch = rt[p].epoch /\ rt[q].root = NextRoot(rt[p].root, f)
    BY <1>12, Zenon DEF AdvanceTravels
  <2>2. f.type = "advance" /\ f.ctr = f.epoch
    BY <2>1, Zenon DEF Answered
  <2>3. /\ a = AckFrame(p, rt[p], f) /\ a.type = "ack" /\ a.dir = p /\ a.epoch = rt[p].epoch + 1
        /\ a.key = NextRoot(rt[p].root, f) /\ a.ctr = f.ctr
    BY <1>0, <2>2, Zenon DEF AcceptReply, AckFrame
  <2>4. /\ s.phase = "idle" /\ s.epoch = rt[p].epoch + 1 /\ s.local = rt[p].local + 1
        /\ s.remote = rt[p].remote + 1 /\ s.turn = "remote" /\ s.root = NextRoot(rt[p].root, f)
        /\ s.outbox = NoFrame /\ s.inAdvance = f
    <3> DEFINE r == rt[p]
               n == fresh
               g == f
    <3>1. r \in Runtimes /\ g \in Frames /\ s = AfterAccept(p, r, g, n) /\ g.type = "advance"
      BY <1>5, <2>2, Zenon
    <3> HIDE DEF r, n, g, s
    <3> QED BY <3>1, AdvanceCommitted DEF r, g
  <2> HIDE DEF f, s
  <2>5. AckTravels(p)'
    <3>1. Travels(p, a)' /\ a \in sent'
      BY <1>7, <2>3, NoFrameTyped, Zenon
    <3>2. Answered(q, rt[q], rt[q].outbox) /\ rt[q].outbox = f /\ rt[q].epoch = rt[p].epoch + 1
      BY <1>12, <2>1, Zenon DEF Answered
    <3>3. Resting(s, "remote") /\ SameRoot(s, rt[q])
      BY <2>1, <2>4, <3>2, Zenon DEF Resting, SameRoot
    <3>4. a.epoch = rt[q].epoch /\ a.key = rt[q].root /\ a.ctr = rt[q].outbox.ctr
      BY <2>1, <2>3, <3>2, Zenon
    <3> QED BY <1>1, <1>4, <2>3, <3>1, <3>2, <3>3, <3>4, Zenon DEF AckTravels
  <2> QED BY <1>8, <1>10, <2>2, <2>4, <2>5, Zenon
<1>13. CASE AckTravels(q) /\ f.type = "ack" /\ AcceptsAck(p, rt[p], f)
  <2>1. /\ Resting(rt[q], "remote") /\ Answered(p, rt[p], rt[p].outbox) /\ SameRoot(rt[q], rt[p])
    BY <1>1, <1>13, Zenon DEF AckTravels
  <2>2. a = NoFrame
    BY <1>0, <1>13, Zenon DEF AcceptReply
  <2>3. /\ s.phase = "idle" /\ s.epoch = rt[p].epoch /\ s.local = rt[p].local
        /\ s.remote = rt[p].remote /\ s.turn = rt[p].turn /\ s.root = rt[p].root
        /\ s.outbox = NoFrame /\ s.inAdvance = NoFrame
    <3> DEFINE r == rt[p]
               n == fresh
               g == f
    <3>1. r \in Runtimes /\ g \in Frames /\ s = AfterAccept(p, r, g, n) /\ g.type = "ack"
      BY <1>5, <1>13, Zenon
    <3> HIDE DEF r, n, g, s
    <3> QED BY <3>1, ExchangeClosed DEF r
  <2>4. lane' = lane
    BY <1>2, <2>2, Zenon DEF Dispatch
  <2> HIDE DEF f, s
  <2>5. NoExchange(p)'
    <3>1. Silent(p)' /\ Silent(q)'
      BY <1>1, <1>2, <1>3, <1>6, <2>4, Zenon DEF Silent
    <3>2. Resting(s, "local") /\ SameRoot(s, rt[q])
      BY <2>1, <2>3, Zenon DEF Resting, SameRoot, Answered
    <3> QED BY <1>1, <1>4, <2>1, <3>1, <3>2, Zenon DEF NoExchange
  <2> QED BY <1>8, <1>10, <2>3, <2>5, Zenon
<1> QED BY <1>3, <1>11, <1>12, <1>13, Zenon


\* A caller without a frame that joins or leaves a lock.
LEMMA LockStepKeeps ==
    ASSUME FramesDispatched, OneFrameAtATime, NEW p \in Peers,
           rt' = rt, sent' = sent, lane' = lane, inbox' = inbox, edge' # "rejected",
           \/ \E k \in {"offer", "seal"} : Enqueue(p, Op(k))
           \/ lock[p] # << >> /\ Head(lock[p]).kind # "frame" /\ Release(p)
    PROVE  OneFrameAtATime'
<1>1. /\ lock[p] \in Seq(Ops) /\ NoRetryOp(lock[p])
  BY Zenon DEF FramesDispatched, OneFrameAtATime, NoRetryOp
<1>2. \/ \E k \in {"offer", "seal"} : lock'[p] = Append(lock[p], Op(k))
      \/ lock[p] # << >> /\ Head(lock[p]).kind # "frame" /\ lock'[p] = Tail(lock[p])
  BY Zenon DEF Enqueue, Release, FramesDispatched
<1>3. \A x \in Peers \ {p} : lock'[x] = lock[x]
  BY Zenon DEF Enqueue, Release, FramesDispatched
<1>4. \A k \in {"offer", "seal"} : Op(k) \in Ops /\ Op(k).kind = k
  BY NoFrameTyped, Zenon DEF Op, Ops
<1>5. /\ NoRetryOp(lock'[p])
      /\ NoFrameOp(lock[p]) => NoFrameOp(lock'[p])
      /\ \A f : OneFrameOp(lock[p], f) => OneFrameOp(lock'[p], f)
  <2>1. CASE \E k \in {"offer", "seal"} : lock'[p] = Append(lock[p], Op(k))
    BY <1>1, <1>4, <2>1, OpJoins, Zenon
  <2>2. CASE lock[p] # << >> /\ Head(lock[p]).kind # "frame" /\ lock'[p] = Tail(lock[p])
    BY <1>1, <2>2, OpLeaves, Zenon
  <2> QED BY <1>2, <2>1, <2>2, Zenon
<1>6. LocksOnly
  BY <1>3, <1>5, Zenon DEF LocksOnly
<1> QED BY <1>6, LocksOnlyKeeps, Zenon

\* The mishaps are counted one by one.
LEMMA MishapsCounted ==
    [Next]_vars => slow' \in {slow, slow + 1} /\ faults' \in {faults, faults + 1}
BY ZenonT(60) DEF Next, vars, Tick, TickRetry, TickExhausted, TickOffer, RetryDue, Arrive, Drained,
   RunLocked, RunRetry, RunOffer, TickStale, RunAccept, RunDuplicate, RunReject, Seal,
   SealFails, Commit, PersistFails, Message, OpenChannel, ChannelSeen, Admit,
   AdmissionTimesOut, DeliverChunk, GiveUp

\* Every step of the edge keeps CalmInv.
LEMMA CalmStep == FramesDispatched /\ CalmInv /\ [Next]_vars => CalmInv'
<1> SUFFICES ASSUME FramesDispatched, CalmInv, [Next]_vars, slow' = 0, faults' = 0
             PROVE  OneFrameAtATime'
  BY MishapsCounted DEF CalmInv
<1>1. slow = 0 /\ faults = 0
  BY MishapsCounted DEF CalmInv
<1>2. OneFrameAtATime
  BY <1>1, Zenon DEF CalmInv
<1>3. CASE UNCHANGED vars
  <2>1. LocksOnly
    BY <1>2, <1>3, Zenon DEF vars, LocksOnly, OneFrameAtATime
  <2> QED BY <1>2, <2>1, LocksOnlyKeeps, Zenon
<1> SUFFICES ASSUME NEW p \in Peers,
                    Tick(p) \/ Arrive(p) \/ Drained(p) \/ RunLocked(p) \/ Message(p)
             PROVE  OneFrameAtATime'
  BY <1>3, Zenon DEF Next
<1>4. CASE TickRetry(p) \/ TickExhausted(p)
  <2>1. rt[p].outbox # NoFrame /\ (UnderWay => slow' = slow + 1)
    BY <1>4, Zenon DEF TickRetry, TickExhausted, RetryDue
  <2> QED BY <1>1, <1>2, <2>1, PendingUnderWay
<1>5. CASE TickOffer(p) \/ Admit(p)
  BY <1>2, <1>5, LockStepKeeps, Zenon DEF TickOffer, Admit, OneFrameAtATime
<1>6. CASE Arrive(p) \/ Drained(p)
  BY <1>2, <1>6, FrameMovesKeeps, Zenon
<1>7. CASE RunRetry(p)
  BY <1>2, <1>7, HolderLeavesLock, Zenon DEF RunRetry, Holds
<1>8. CASE RunOffer(p)
  BY <1>1, <1>2, <1>8, RunOfferKeeps, Zenon
<1>9. CASE RunAccept(p)
  BY <1>1, <1>2, <1>9, RunAcceptKeeps, Zenon
<1>10. CASE RunDuplicate(p) \/ RunReject(p)
  <2>1. Holds(p, "frame") /\ Release(p)
    BY <1>10, Zenon DEF RunDuplicate, RunReject
  <2>2. PICK f : f = Head(lock[p]).frame
    BY Zenon
  <2>3. ~Duplicate(rt[p], f) /\ Accepts(p, rt[p], f)
    BY <1>2, <2>1, <2>2, HeldIsExpected, Zenon DEF Accepts
  <2> QED BY <1>10, <2>2, <2>3, Zenon DEF RunDuplicate, RunReject, Rejects
<1>11. CASE TickStale(p) \/ Seal(p)
  <2>1. lock[p] # << >> /\ Head(lock[p]).kind # "frame" /\ Release(p)
    BY <1>11, Zenon DEF TickStale, Seal, Holds
  <2> QED BY <1>2, <1>11, <2>1, LockStepKeeps, Zenon DEF TickStale, Seal, OneFrameAtATime
<1>12. CASE SealFails(p)
  BY <1>1, <1>12 DEF SealFails
<1>13. CASE OpenChannel(p) \/ ChannelSeen(p) \/ AdmissionTimesOut(p) \/ DeliverChunk(p) \/ GiveUp(p)
  <2>1. LocksOnly
    BY <1>2, <1>13, Zenon DEF OpenChannel, ChannelSeen, AdmissionTimesOut, DeliverChunk, GiveUp,
       LocksOnly, OneFrameAtATime
  <2> QED BY <1>2, <2>1, LocksOnlyKeeps, Zenon
<1> QED
  BY <1>4, <1>5, <1>6, <1>7, <1>8, <1>9, <1>10, <1>11, <1>12, <1>13 DEF Tick, RunLocked, Message

\* Before the first exchange both ends rest and nothing is under way.
LEMMA CalmInit == Init => CalmInv
<1> SUFFICES ASSUME Init PROVE OneFrameAtATime
  BY DEF CalmInv, Init
<1>1. "initiator" \in Peers /\ "responder" \in Peers /\ Other("initiator") = "responder"
      /\ Other("responder") = "initiator"
  BY Zenon DEF Peers, Other
<1>2. /\ \A p \in Peers : rt[p] = InitRuntime(p) /\ lane[p] = << >> /\ inbox[p] = << >> /\ lock[p] = << >>
  BY Zenon DEF Init
<1>3. \A p \in Peers : Silent(p)
  BY <1>2, PeerFacts DEF Silent, NoFrameOp
<1>4. NoExchange("initiator")
  <2>1. /\ Resting(InitRuntime("initiator"), "local") /\ Resting(InitRuntime("responder"), "remote")
        /\ SameRoot(InitRuntime("initiator"), InitRuntime("responder"))
    BY Zenon DEF Resting, SameRoot, InitRuntime
  <2> QED BY <1>1, <1>2, <1>3, <2>1, Zenon DEF NoExchange
<1>5. \A p \in Peers : /\ rt[p].local = rt[p].epoch /\ rt[p].remote = rt[p].epoch
                       /\ rt[p].inAdvance = NoFrame
  <2>1. \A p : /\ InitRuntime(p).local = InitRuntime(p).epoch
               /\ InitRuntime(p).remote = InitRuntime(p).epoch
               /\ InitRuntime(p).inAdvance = NoFrame
    BY Zenon DEF InitRuntime
  <2> QED BY <1>2, <2>1, Zenon
<1>6. edge # "rejected" /\ \A p \in Peers : DOMAIN lock[p] = {}
  BY <1>2 DEF Init
<1> QED BY <1>1, <1>4, <1>5, <1>6, Zenon DEF OneFrameAtATime

(***************************************************************************)
(* Until an answer is late or a write fails, one control frame at a time   *)
(* is under way, and it is the one its receiver expects.                   *)
(***************************************************************************)
THEOREM CalmInvariant == Spec => []CalmInv
BY CalmInit, CalmStep, DispatchedInvariant, PTL DEF Spec

(***************************************************************************)
(* Without a failed write, and when answers beat the retry deadline, no    *)
(* frame of an honest end is ever rejected.                                *)
(***************************************************************************)
THEOREM OnlyMishapsForkTheorem == Spec => []OnlyMishapsFork
<1>1. CalmInv => OnlyMishapsFork
  BY DEF CalmInv, OneFrameAtATime, OnlyMishapsFork
<1> QED BY <1>1, CalmInvariant, PTL
==============================================================================
