-------------------------- MODULE PqSession_proofs ---------------------------
(***************************************************************************)
(* Proofs about PqSession, for every MaxU64, any number of exchanges and   *)
(* of crashes, and a wire that loses, repeats and reorders: a caller that  *)
(* stores the session before it sends any frame never forks a slot.        *)
(***************************************************************************)
EXTENDS PqSession, PqHealing_proofs

\* What p may continue from: its session, or the snapshot after a crash.
Each(p) == {live[p], snap[p]}

\* Two runtimes, of a peer and of the other one, between which an exchange can
\* stand: a holds the turn and the two are in step, or b has committed the
\* answer to a's OFFER.
InStep(a, b) ==
    /\ a.epoch = b.epoch /\ a.root = b.root
    /\ a.turn = "local" /\ b.turn = "remote" /\ b.phase = "idle"
OneAhead(a, b) ==
    /\ a.phase = "offered" /\ b.phase = "awaitAck" /\ a.turn = "local" /\ b.turn = "local"
    /\ b.epoch = a.epoch + 1 /\ b.root = NextRoot(a.root, b.outbox)
Paired(a, b) == InStep(a, b) \/ InStep(b, a) \/ OneAhead(a, b) \/ OneAhead(b, a)

\* What one runtime keeps: its outbox is of the current slot, and its cached
\* ACK of no later one.
Kept(p, r) ==
    /\ CheckpointCoherent(r)
    /\ r.phase = "offered" => r.outbox.dir = p /\ r.outbox.epoch = r.epoch
    /\ r.phase = "awaitAck" => r.outbox.dir = p /\ r.outbox.epoch + 1 = r.epoch
    /\ r.phase = "idle" => r.outbox = NoFrame
    /\ r.ack # NoFrame => r.ack.type = "ack" /\ r.ack.dir = p /\ r.ack.epoch <= r.epoch

\* A frame of a slot that runtime r of its sender has left, or r's outbox.
OfSlot(f, r) ==
    /\ f.type # "none"
    /\ f.type = "offer" => f.epoch < r.epoch \/ f = r.outbox
    /\ f.type = "advance" => /\ f.epoch < r.epoch
                             /\ r.phase = "awaitAck" /\ f.epoch + 1 = r.epoch => f = r.outbox
    /\ f.type = "ack" => f.epoch <= r.epoch

\* The frames on the wire and those a caller still holds.
Under(f) == f \in net \/ \E p \in Peers : \E j \in jobs[p] : f = j.frame
SameSlot(f, g) == f.type \in {"offer", "advance"} /\ f.type = g.type /\ f.dir = g.dir /\ f.epoch = g.epoch

SessionTyped ==
    /\ live \in [Peers -> Runtimes] /\ snap \in [Peers -> Runtimes] /\ jobs \in [Peers -> SUBSET Jobs]
    /\ net \in SUBSET Frames /\ fresh \in Nat /\ crashes \in 0 .. MaxCrashes

\* The inductive invariant.  Whatever each side continues from, the exchange
\* stands between the two.  What was sent, or is stored and may be, is of a
\* slot that the snapshot knows of; what waits for its store, of one that the
\* session knows of.
SessionInv ==
    /\ SessionTyped
    /\ \A p \in Peers : \A r \in Each(p) : Kept(p, r)
    /\ \A p \in Peers : \A a \in Each(p), b \in Each(Other(p)) : Paired(a, b)
    /\ \A f \in net : \A r \in Each(f.dir) : OfSlot(f, r)
    /\ \A p \in Peers : \A j \in jobs[p] :
          /\ j.frame.dir = p /\ OfSlot(j.frame, live[p])
          /\ ~j.persist => OfSlot(j.frame, snap[p])
    /\ \A f, g : Under(f) /\ Under(g) /\ SameSlot(f, g) => f = g
-----------------------------------------------------------------------------
\* The runtimes of both sides, and what stands between them.
LEMMA EachFacts ==
    ASSUME SessionInv, NEW p \in Peers
    PROVE  /\ live[p] \in Each(p) /\ snap[p] \in Each(p) /\ live[p] \in Runtimes /\ snap[p] \in Runtimes
           /\ \A r \in Each(p) : r \in Runtimes /\ r.epoch \in Nat /\ r.phase \in Phases /\ Kept(p, r)
           /\ \A b \in Each(Other(p)) : b \in Runtimes /\ b.epoch \in Nat /\ b.phase \in Phases /\ Kept(Other(p), b)
           /\ \A a \in Each(p), b \in Each(Other(p)) : Paired(a, b) /\ Paired(b, a)
  <1>1. Other(p) \in Peers
    BY PeerFacts, Zenon
  <1>2. \A x \in Peers : live[x] \in Runtimes /\ snap[x] \in Runtimes
    BY Zenon DEF SessionInv, SessionTyped
  <1>3. \A r \in Runtimes : r.epoch \in Nat /\ r.phase \in Phases
    BY Zenon DEF Runtimes
  <1>4. \A x \in Peers : \A r \in Each(x) : r \in Runtimes /\ Kept(x, r)
    BY <1>2, Zenon DEF SessionInv, Each
  <1>5. \A a, b : Paired(a, b) => Paired(b, a)
    BY Zenon DEF Paired
  <1>6. \A a \in Each(p), b \in Each(Other(p)) : Paired(a, b)
    BY Zenon DEF SessionInv
  <1> QED  BY <1>1, <1>2, <1>3, <1>4, <1>5, <1>6, Zenon DEF Each

\* A frame on the wire or held by a caller is of a slot its sender knows of.
LEMMA UnderFacts ==
    ASSUME SessionInv, NEW f, Under(f)
    PROVE  f \in Frames /\ f.dir \in Peers /\ f.epoch \in Nat /\ OfSlot(f, live[f.dir])
  <1>1. f \in Frames
    <2>1. net \in SUBSET Frames /\ jobs \in [Peers -> SUBSET Jobs]
      BY Zenon DEF SessionInv, SessionTyped
    <2>2. \A j \in Jobs : j.frame \in Frames
      BY Zenon DEF Jobs
    <2> QED  BY <2>1, <2>2, Zenon DEF Under
  <1>2. f.dir \in Peers /\ f.epoch \in Nat
    BY <1>1, Zenon DEF Frames
  <1>3. CASE f \in net
    BY <1>1, <1>2, <1>3, Zenon DEF SessionInv, Each
  <1>4. CASE \E p \in Peers : \E j \in jobs[p] : f = j.frame
    <2>1. PICK p \in Peers : \E j \in jobs[p] : f = j.frame
      BY <1>4, Zenon
    <2>2. \A j \in jobs[p] : j.frame.dir = p /\ OfSlot(j.frame, live[p])
      BY Zenon DEF SessionInv
    <2>3. PICK j \in jobs[p] : f = j.frame
      BY <2>1, Zenon
    <2>4. f.dir = p /\ OfSlot(f, live[p])
      BY <2>2, <2>3
    <2> QED  BY <1>1, <1>2, <2>4
  <1> QED  BY <1>3, <1>4, Zenon DEF Under

\* A frame on the wire is of a slot that sender's session and snapshot know of.
LEMMA WireFacts ==
    ASSUME SessionInv, NEW p \in Peers, NEW f \in net, f.dir # p
    PROVE  /\ f \in Frames /\ f.dir = Other(p) /\ f.epoch \in Nat
           /\ \A b \in Each(Other(p)) : OfSlot(f, b)
  <1>1. f \in Frames /\ f.dir \in Peers /\ f.epoch \in Nat
    BY Zenon DEF SessionInv, SessionTyped, Frames
  <1>2. f.dir = Other(p)
    BY <1>1, PeerFacts, Zenon
  <1> QED  BY <1>1, <1>2, Zenon DEF SessionInv

\* The session of p goes on to s and its caller is handed frame o: the
\* invariant is kept when s fits what the other side may continue from, what
\* p sent is of a slot s knows of, and o is the only frame of its slot.
LEMMA EmitKeeps ==
    ASSUME SessionInv, NEW p \in Peers, NEW s \in Runtimes, NEW o \in Frames, PersistAlways,
           live' = [live EXCEPT ![p] = s], UNCHANGED <<snap, net, crashes>>, fresh' \in Nat,
           Kept(p, s), \A b \in Each(Other(p)) : Paired(s, b),
           \A f : Under(f) /\ f.dir = p => OfSlot(f, s),
           NEW required, Emit(p, o, required),
           o # NoFrame => /\ o.dir = p /\ OfSlot(o, s)
                          /\ \A g : Under(g) /\ SameSlot(g, o) => g = o
    PROVE  SessionInv'
  <1> DEFINE q == Other(p)
             k == [frame |-> o, persist |-> TRUE]
  <1>1. q \in Peers /\ q # p /\ Other(q) = p /\ \A x \in Peers : x = p \/ x = q
    BY PeerFacts, Zenon
  <1>2. live'[p] = s /\ live'[q] = live[q] /\ live' \in [Peers -> Runtimes]
    BY <1>1, Zenon DEF SessionInv, SessionTyped
  <1>3. Each(p)' = {s, snap[p]} /\ Each(q)' = Each(q)
    BY <1>2, Zenon DEF Each
  <1>4. k.frame = o /\ k.persist = TRUE /\ k \in Jobs
    BY Zenon DEF Jobs
  <1>5. (required \/ PersistAlways) = TRUE
    BY Zenon
  <1>6. \/ o = NoFrame /\ jobs' = jobs
        \/ o # NoFrame /\ jobs' = [jobs EXCEPT ![p] = jobs[p] \union {k}]
    BY <1>5, Zenon DEF Emit
  <1> HIDE DEF k
  <1>7. jobs \in [Peers -> SUBSET Jobs]
    BY Zenon DEF SessionInv, SessionTyped
  <1>8. jobs' \in [Peers -> SUBSET Jobs]
    BY <1>4, <1>6, <1>7, Zenon
  <1>9. \A x \in Peers : \A j \in jobs'[x] : j \in jobs[x] \/ (x = p /\ j = k /\ o # NoFrame)
    BY <1>6, <1>7, Zenon
  <1>10. SessionTyped'
    BY <1>2, <1>8, Zenon DEF SessionInv, SessionTyped
  <1>11. \A x \in Peers : \A r \in Each(x)' : Kept(x, r)
    <2>1. \A x \in Peers : \A r \in Each(x) : Kept(x, r)
      BY Zenon DEF SessionInv
    <2>2. snap[p] \in Each(p)
      BY Zenon DEF Each
    <2>3. \A r \in Each(p)' : Kept(p, r)
      BY <1>3, <2>1, <2>2, Zenon
    <2>4. \A r \in Each(q)' : Kept(q, r)
      BY <1>1, <1>3, <2>1, Zenon
    <2> QED  BY <1>1, <2>3, <2>4, Zenon
  <1>12. \A x \in Peers : \A a \in Each(x)', b \in Each(Other(x))' : Paired(a, b)
    <2>1. \A a \in Each(p)', b \in Each(q)' : Paired(a, b) /\ Paired(b, a)
      <3>1. \A b \in Each(q) : Paired(s, b) /\ Paired(b, s)
        BY Zenon DEF Paired
      <3>2. \A b \in Each(q) : Paired(snap[p], b) /\ Paired(b, snap[p])
        BY EachFacts, Zenon
      <3> QED  BY <1>3, <3>1, <3>2, Zenon
    <2> QED  BY <1>1, <2>1, Zenon
  <1>13. \A f \in net : \A r \in Each(f.dir)' : OfSlot(f, r)
    <2> SUFFICES ASSUME NEW f \in net, NEW r \in Each(f.dir)' PROVE OfSlot(f, r)
      BY Zenon
    <2>1. Under(f)
      BY Zenon DEF Under
    <2>2. f.dir \in Peers
      BY <2>1, UnderFacts, Zenon
    <2>3. \A t \in Each(f.dir) : OfSlot(f, t)
      BY Zenon DEF SessionInv
    <2>4. CASE f.dir = p
      BY <1>3, <2>1, <2>3, <2>4, Zenon DEF Each
    <2>5. CASE f.dir = q
      BY <1>3, <2>3, <2>5, Zenon
    <2> QED  BY <1>1, <2>2, <2>4, <2>5, Zenon
  <1>14. ASSUME NEW x \in Peers, NEW j \in jobs'[x]
         PROVE  /\ j.frame.dir = x /\ OfSlot(j.frame, live'[x])
                /\ ~j.persist => OfSlot(j.frame, snap[x])
    <2>1. CASE j \in jobs[x]
      <3>1. /\ j.frame.dir = x /\ OfSlot(j.frame, live[x])
            /\ ~j.persist => OfSlot(j.frame, snap[x])
        BY <2>1, Zenon DEF SessionInv
      <3>2. Under(j.frame)
        BY <2>1, Zenon DEF Under
      <3> QED  BY <1>1, <1>2, <3>1, <3>2, Zenon
    <2>2. CASE x = p /\ j = k /\ o # NoFrame
      BY <1>2, <1>4, <2>2, Zenon
    <2> QED  BY <1>9, <1>14, <2>1, <2>2, Zenon
  <1>15. \A f : Under(f)' => Under(f) \/ (f = o /\ o # NoFrame)
    BY <1>4, <1>9, Zenon DEF Under
  <1>16. \A f, g : Under(f)' /\ Under(g)' /\ SameSlot(f, g) => f = g
    <2>1. \A f, g : Under(f) /\ Under(g) /\ SameSlot(f, g) => f = g
      BY Zenon DEF SessionInv
    <2>2. \A f, g : SameSlot(f, g) => SameSlot(g, f)
      BY Zenon DEF SameSlot
    <2>3. \A g : Under(g) /\ SameSlot(g, o) /\ o # NoFrame => g = o
      BY Zenon
    <2> SUFFICES ASSUME NEW f, NEW g, Under(f)', Under(g)', SameSlot(f, g) PROVE f = g
      BY Zenon
    <2>4. CASE Under(f) /\ Under(g)
      BY <2>1, <2>4, Zenon
    <2>5. CASE Under(f) /\ g = o /\ o # NoFrame
      BY <2>3, <2>5, Zenon
    <2>6. CASE Under(g) /\ f = o /\ o # NoFrame
      BY <2>2, <2>3, <2>6, Zenon
    <2>7. CASE f = o /\ g = o
      BY <2>7, Zenon
    <2>8. (Under(f) \/ (f = o /\ o # NoFrame)) /\ (Under(g) \/ (g = o /\ o # NoFrame))
      BY <1>15, Zenon
    <2> QED  BY <2>4, <2>5, <2>6, <2>7, <2>8, Zenon
  <1>17. \A f \in net' : \A r \in Each(f.dir)' : OfSlot(f, r)
    BY <1>13, Zenon
  <1>18. snap' = snap
    BY Zenon
  <1> QED  BY <1>10, <1>11, <1>12, <1>14, <1>16, <1>17, <1>18, Zenon DEF SessionInv

\* The snapshot of p becomes the session (a store), or the session the
\* snapshot (a crash): the runtimes p may continue from are fewer.
LEMMA FewerRuntimes ==
    ASSUME SessionInv, NEW p \in Peers, SessionTyped',
           Each(p)' \subseteq Each(p), Each(Other(p))' = Each(Other(p))
    PROVE  /\ \A x \in Peers : \A r \in Each(x)' : Kept(x, r)
           /\ \A x \in Peers : \A a \in Each(x)', b \in Each(Other(x))' : Paired(a, b)
  <1>1. \A x \in Peers : x = p \/ x = Other(p)
    BY PeerFacts, Zenon
  <1>2. \A x \in Peers : Each(x)' \subseteq Each(x)
    BY <1>1, Zenon
  <1>3. \A x \in Peers : Other(x) \in Peers
    BY PeerFacts, Zenon
  <1>4. \A x \in Peers : \A r \in Each(x) : Kept(x, r)
    BY Zenon DEF SessionInv
  <1>5. \A x \in Peers : \A a \in Each(x), b \in Each(Other(x)) : Paired(a, b)
    BY Zenon DEF SessionInv
  <1> QED  BY <1>2, <1>3, <1>4, <1>5, Zenon

\* Persist: what is on the wire, or may be sent, is of a slot the session knows
\* of, and so is the snapshot that is stored now.
LEMMA PersistKeeps ==
    ASSUME SessionInv, NEW p \in Peers, NEW k \in jobs[p], Persist(p, k)
    PROVE  SessionInv'
  <1> DEFINE q == Other(p)
             d == [k EXCEPT !.persist = FALSE]
  <1>1. q \in Peers /\ q # p /\ \A x \in Peers : x = p \/ x = q
    BY PeerFacts, Zenon
  <1>2. /\ snap' = [snap EXCEPT ![p] = live[p]] /\ jobs' = [jobs EXCEPT ![p] = (jobs[p] \ {k}) \union {d}]
        /\ UNCHANGED <<live, net, fresh, crashes>>
    BY Zenon DEF Persist
  <1>3. /\ live \in [Peers -> Runtimes] /\ snap \in [Peers -> Runtimes] /\ jobs \in [Peers -> SUBSET Jobs]
        /\ net \in SUBSET Frames /\ fresh \in Nat /\ crashes \in 0 .. MaxCrashes
    BY Zenon DEF SessionInv, SessionTyped
  <1>4. d \in Jobs /\ d.frame = k.frame
    <2>1. k \in Jobs
      BY <1>3, Zenon
    <2> QED  BY <2>1 DEF Jobs
  <1> HIDE DEF d
  <1>5. live[p] \in Runtimes
    BY <1>3, Zenon
  <1>6. snap' \in [Peers -> Runtimes] /\ snap'[p] = live[p] /\ snap'[q] = snap[q]
    BY <1>1, <1>2, <1>3, <1>5, Zenon
  <1>7. /\ jobs' \in [Peers -> SUBSET Jobs]
        /\ \A x \in Peers : \A j \in jobs'[x] : j \in jobs[x] \/ (x = p /\ j = d)
    BY <1>2, <1>3, <1>4, Zenon
  <1>8. SessionTyped'
    BY <1>2, <1>3, <1>6, <1>7, Zenon DEF SessionTyped
  <1>9. Each(p)' = {live[p]} /\ Each(p)' \subseteq Each(p) /\ Each(q)' = Each(q)
    BY <1>2, <1>6, Zenon DEF Each
  <1>10. \A f \in net' : \A r \in Each(f.dir)' : OfSlot(f, r)
    <2>1. \A x \in Peers : Each(x)' \subseteq Each(x)
      BY <1>1, <1>9, Zenon
    <2>2. \A f \in net : f.dir \in Peers
      BY <1>3, Zenon DEF Frames
    <2>3. \A f \in net : \A r \in Each(f.dir) : OfSlot(f, r)
      BY Zenon DEF SessionInv
    <2> QED  BY <1>2, <2>1, <2>2, <2>3, Zenon
  <1>11. \A x \in Peers : \A j \in jobs[x] : /\ j.frame.dir = x /\ OfSlot(j.frame, live[x])
                                             /\ ~j.persist => OfSlot(j.frame, snap[x])
    BY Zenon DEF SessionInv
  <1>12. ASSUME NEW x \in Peers, NEW j \in jobs'[x]
         PROVE  /\ j.frame.dir = x /\ OfSlot(j.frame, live'[x])
                /\ ~j.persist => OfSlot(j.frame, snap'[x])
    <2>1. j.frame.dir = x /\ OfSlot(j.frame, live[x])
      <3>1. CASE j \in jobs[x]
        BY <1>11, <3>1, Zenon
      <3>2. CASE x = p /\ j = d
        <4>1. k.frame.dir = p /\ OfSlot(k.frame, live[p])
          BY <1>11, Zenon
        <4> QED  BY <1>4, <3>2, <4>1
      <3> QED  BY <1>7, <1>12, <3>1, <3>2, Zenon
    <2>2. CASE x = p
      BY <1>2, <1>6, <2>1, <2>2, Zenon
    <2>3. CASE x = q
      BY <1>1, <1>2, <1>6, <1>7, <1>11, <1>12, <2>1, <2>3, Zenon
    <2> QED  BY <1>1, <2>2, <2>3, Zenon
  <1>13. \A f : Under(f)' => Under(f)
    BY <1>2, <1>4, <1>7, Zenon DEF Under
  <1>14. \A f, g : Under(f)' /\ Under(g)' /\ SameSlot(f, g) => f = g
    <2>1. \A f, g : Under(f) /\ Under(g) /\ SameSlot(f, g) => f = g
      BY Zenon DEF SessionInv
    <2> QED  BY <1>13, <2>1, Zenon
  <1>15. /\ \A x \in Peers : \A r \in Each(x)' : Kept(x, r)
         /\ \A x \in Peers : \A a \in Each(x)', b \in Each(Other(x))' : Paired(a, b)
    BY <1>8, <1>9, FewerRuntimes, Zenon
  <1> QED  BY <1>8, <1>10, <1>12, <1>14, <1>15, Zenon DEF SessionInv

\* A crash: the caller's frames are lost, and what is on the wire is of slots
\* the snapshot knows of.
LEMMA CrashKeeps ==
    ASSUME SessionInv, NEW p \in Peers, CrashRestore(p)
    PROVE  SessionInv'
  <1> DEFINE q == Other(p)
  <1>1. q \in Peers /\ q # p /\ \A x \in Peers : x = p \/ x = q
    BY PeerFacts, Zenon
  <1>2. /\ live' = [live EXCEPT ![p] = snap[p]] /\ jobs' = [jobs EXCEPT ![p] = {}]
        /\ crashes < MaxCrashes /\ crashes' = crashes + 1 /\ UNCHANGED <<snap, net, fresh>>
    BY Zenon DEF CrashRestore
  <1>3. /\ live \in [Peers -> Runtimes] /\ snap \in [Peers -> Runtimes] /\ jobs \in [Peers -> SUBSET Jobs]
        /\ net \in SUBSET Frames /\ fresh \in Nat /\ crashes \in 0 .. MaxCrashes
    BY Zenon DEF SessionInv, SessionTyped
  <1>4. live' \in [Peers -> Runtimes] /\ live'[p] = snap[p] /\ live'[q] = live[q]
    BY <1>1, <1>2, <1>3, Zenon
  <1>5. jobs' \in [Peers -> SUBSET Jobs] /\ jobs'[p] = {} /\ jobs'[q] = jobs[q]
    BY <1>1, <1>2, <1>3, Zenon
  <1>6. crashes' \in 0 .. MaxCrashes
    BY <1>2, <1>3, MaxCrashesAssumption
  <1>7. SessionTyped'
    BY <1>2, <1>3, <1>4, <1>5, <1>6, Zenon DEF SessionTyped
  <1>8. Each(p)' \subseteq Each(p) /\ Each(q)' = Each(q)
    BY <1>2, <1>4, Zenon DEF Each
  <1>9. \A f \in net' : \A r \in Each(f.dir)' : OfSlot(f, r)
    <2>1. \A x \in Peers : Each(x)' \subseteq Each(x)
      BY <1>1, <1>8, Zenon
    <2>2. \A f \in net : f.dir \in Peers
      BY <1>3, Zenon DEF Frames
    <2>3. \A f \in net : \A r \in Each(f.dir) : OfSlot(f, r)
      BY Zenon DEF SessionInv
    <2> QED  BY <1>2, <2>1, <2>2, <2>3, Zenon
  <1>10. ASSUME NEW x \in Peers, NEW j \in jobs'[x]
         PROVE  /\ j.frame.dir = x /\ OfSlot(j.frame, live'[x])
                /\ ~j.persist => OfSlot(j.frame, snap'[x])
    <2>1. \A i \in jobs[q] : /\ i.frame.dir = q /\ OfSlot(i.frame, live[q])
                             /\ ~i.persist => OfSlot(i.frame, snap[q])
      BY <1>1, Zenon DEF SessionInv
    <2>2. x = q
      BY <1>1, <1>5, <1>10, Zenon
    <2> QED  BY <1>2, <1>4, <1>5, <1>10, <2>1, <2>2, Zenon
  <1>11. \A f : Under(f)' => Under(f)
    BY <1>1, <1>2, <1>5, Zenon DEF Under
  <1>12. \A f, g : Under(f)' /\ Under(g)' /\ SameSlot(f, g) => f = g
    <2>1. \A f, g : Under(f) /\ Under(g) /\ SameSlot(f, g) => f = g
      BY Zenon DEF SessionInv
    <2> QED  BY <1>11, <2>1, Zenon
  <1>13. /\ \A x \in Peers : \A r \in Each(x)' : Kept(x, r)
         /\ \A x \in Peers : \A a \in Each(x)', b \in Each(Other(x))' : Paired(a, b)
    BY <1>7, <1>8, FewerRuntimes, Zenon
  <1> QED  BY <1>7, <1>9, <1>10, <1>12, <1>13, Zenon DEF SessionInv

\* Send: a frame that was stored goes on the wire.
LEMMA SendKeeps ==
    ASSUME SessionInv, NEW p \in Peers, NEW k \in jobs[p], Send(p, k)
    PROVE  SessionInv'
  <1>1. /\ ~k.persist /\ net' = net \union {k.frame} /\ jobs' = [jobs EXCEPT ![p] = jobs[p] \ {k}]
        /\ UNCHANGED <<live, snap, fresh, crashes>>
    BY Zenon DEF Send
  <1>2. /\ live \in [Peers -> Runtimes] /\ snap \in [Peers -> Runtimes] /\ jobs \in [Peers -> SUBSET Jobs]
        /\ net \in SUBSET Frames /\ fresh \in Nat /\ crashes \in 0 .. MaxCrashes
    BY Zenon DEF SessionInv, SessionTyped
  <1>3. k.frame \in Frames
    <2>1. k \in Jobs
      BY <1>2, Zenon
    <2> QED  BY <2>1, Zenon DEF Jobs
  <1>4. jobs' \in [Peers -> SUBSET Jobs] /\ \A x \in Peers : jobs'[x] \subseteq jobs[x]
    BY <1>1, <1>2, Zenon
  <1>5. SessionTyped'
    BY <1>1, <1>2, <1>3, <1>4, Zenon DEF SessionTyped
  <1>6. \A x \in Peers : Each(x)' = Each(x)
    BY <1>1, Zenon DEF Each
  <1>7. \A x \in Peers : \A j \in jobs[x] : /\ j.frame.dir = x /\ OfSlot(j.frame, live[x])
                                            /\ ~j.persist => OfSlot(j.frame, snap[x])
    BY Zenon DEF SessionInv
  <1>8. \A f \in net' : \A r \in Each(f.dir)' : OfSlot(f, r)
    <2>1. \A f \in net : \A r \in Each(f.dir) : OfSlot(f, r)
      BY Zenon DEF SessionInv
    <2>2. \A f \in net : f.dir \in Peers
      BY <1>2, Zenon DEF Frames
    <2>3. k.frame.dir = p /\ \A r \in Each(p) : OfSlot(k.frame, r)
      <3>1. k.frame.dir = p /\ OfSlot(k.frame, live[p]) /\ OfSlot(k.frame, snap[p])
        BY <1>1, <1>7, Zenon
      <3> QED  BY <3>1, Zenon DEF Each
    <2> QED  BY <1>1, <1>6, <2>1, <2>2, <2>3, Zenon
  <1>9. \A f : Under(f)' => Under(f)
    BY <1>1, <1>4, Zenon DEF Under
  <1>10. \A f, g : Under(f)' /\ Under(g)' /\ SameSlot(f, g) => f = g
    <2>1. \A f, g : Under(f) /\ Under(g) /\ SameSlot(f, g) => f = g
      BY Zenon DEF SessionInv
    <2> QED  BY <1>9, <2>1, Zenon
  <1>11. \A x \in Peers : \A j \in jobs'[x] : /\ j.frame.dir = x /\ OfSlot(j.frame, live'[x])
                                              /\ ~j.persist => OfSlot(j.frame, snap'[x])
    BY <1>1, <1>4, <1>7, Zenon
  <1>12. /\ \A x \in Peers : \A r \in Each(x)' : Kept(x, r)
         /\ \A x \in Peers : \A a \in Each(x)', b \in Each(Other(x))' : Paired(a, b)
    BY <1>5, <1>6, FewerRuntimes, PeerFacts, Zenon
  <1> QED  BY <1>5, <1>8, <1>10, <1>11, <1>12, Zenon DEF SessionInv

-----------------------------------------------------------------------------
\* The frame a caller gets for the session's outbox, or for its cached ACK, is
\* the only one of its slot.
LEMMA OutboxAlone ==
    ASSUME SessionInv, NEW p \in Peers, live[p].outbox # NoFrame
    PROVE  /\ live[p].outbox \in Frames /\ live[p].outbox.dir = p /\ OfSlot(live[p].outbox, live[p])
           /\ \A g : Under(g) /\ SameSlot(g, live[p].outbox) => g = live[p].outbox
  <1> DEFINE r == live[p]
             o == r.outbox
  <1>1. r \in Runtimes /\ r.epoch \in Nat /\ r.phase \in Phases /\ Kept(p, r)
    BY EachFacts, Zenon
  <1>2. o \in Frames /\ o.epoch \in Nat
    BY <1>1, Zenon DEF Runtimes, Frames
  <1>3. \A g : Under(g) /\ g.dir = p => g.epoch \in Nat /\ OfSlot(g, r)
    BY UnderFacts, Zenon
  <1> HIDE DEF r
  <1>4. \/ r.phase = "offered" /\ o.type = "offer" /\ o.dir = p /\ o.epoch = r.epoch
        \/ r.phase = "awaitAck" /\ o.type = "advance" /\ o.dir = p /\ o.epoch + 1 = r.epoch
    BY <1>1, Zenon DEF Kept, CheckpointCoherent, Phases, r
  <1>5. o.dir = p /\ OfSlot(o, r)
    BY <1>1, <1>2, <1>4 DEF OfSlot
  <1>6. ASSUME NEW g, Under(g), SameSlot(g, o) PROVE g = o
    <2>1. g.type = o.type /\ g.dir = p /\ g.epoch = o.epoch
      BY <1>5, <1>6, Zenon DEF SameSlot
    <2>2. OfSlot(g, r) /\ g.epoch \in Nat
      BY <1>3, <1>6, <2>1, Zenon
    <2> QED  BY <1>1, <1>4, <2>1, <2>2 DEF OfSlot
  <1> QED  BY <1>2, <1>5, <1>6, Zenon DEF r

\* A call that only hands out a frame again (pendingControl, and the reply to
\* an exact duplicate) keeps the invariant.
LEMMA RepeatKeeps ==
    ASSUME SessionInv, PersistAlways, NEW p \in Peers, PendingControl(p) \/ \E f \in net : AnswerDuplicate(p, f)
    PROVE  SessionInv'
  <1> DEFINE r == live[p]
  <1>1. r \in Runtimes /\ r.epoch \in Nat /\ Kept(p, r) /\ \A b \in Each(Other(p)) : Paired(r, b)
    BY EachFacts, Zenon
  <1>2. \A f : Under(f) /\ f.dir = p => OfSlot(f, r)
    BY UnderFacts, Zenon
  <1>3. live = [live EXCEPT ![p] = r] /\ fresh \in Nat
    BY Zenon DEF SessionInv, SessionTyped
  <1>4. UNCHANGED <<live, snap, net, fresh, crashes>>
    BY Zenon DEF PendingControl, AnswerDuplicate
  <1>5. \/ r.outbox # NoFrame /\ Emit(p, r.outbox, FALSE)
        \/ r.ack # NoFrame /\ Emit(p, r.ack, FALSE)
    <2>1. NoFrame.type # "advance"
      BY DEF NoFrame
    <2> QED  BY <2>1, Zenon DEF PendingControl, AnswerDuplicate, Duplicate, DuplicateReply, DuplicateOffer, DuplicateAdvance
  <1>6. CASE r.outbox # NoFrame /\ Emit(p, r.outbox, FALSE)
    <2> DEFINE o == r.outbox
    <2>1. o \in Frames /\ o.dir = p /\ OfSlot(o, r) /\ \A g : Under(g) /\ SameSlot(g, o) => g = o
      BY <1>6, OutboxAlone, Zenon
    <2> HIDE DEF o, r
    <2>2. Emit(p, o, FALSE)
      BY <1>6, Zenon DEF o
    <2> QED  BY <1>1, <1>2, <1>3, <1>4, <2>1, <2>2, EmitKeeps, Zenon
  <1>7. CASE r.ack # NoFrame /\ Emit(p, r.ack, FALSE)
    <2> DEFINE o == r.ack
    <2>1. o \in Frames
      BY <1>1, Zenon DEF Runtimes
    <2>2. o.type = "ack" /\ o.dir = p /\ o.epoch <= r.epoch
      BY <1>1, <1>7, Zenon DEF Kept
    <2> HIDE DEF o, r
    <2>3. OfSlot(o, r)
      BY <2>2 DEF OfSlot
    <2>4. \A g : ~SameSlot(g, o)
      BY <2>2 DEF SameSlot
    <2>5. Emit(p, o, FALSE)
      BY <1>7, Zenon DEF o
    <2> QED  BY <1>1, <1>2, <1>3, <1>4, <2>1, <2>2, <2>3, <2>4, <2>5, EmitKeeps, Zenon
  <1> QED  BY <1>5, <1>6, <1>7, Zenon

\* prepareHealing keeps the invariant: no frame of the new OFFER's slot was
\* ever sent, not even by a session that crashed.
LEMMA PrepareKeeps ==
    ASSUME SessionInv, PersistAlways, NEW p \in Peers, PrepareHealing(p)
    PROVE  SessionInv'
  <1> DEFINE r == live[p]
             n == fresh
             s == MarkPendingDispatched(PrepareHealingOffer(p, r, n))
             o == OfferFrame(p, r, n)
  <1>1. /\ r.phase = "idle" /\ r.turn = "local" /\ live' = [live EXCEPT ![p] = s]
        /\ fresh' = n + 1 /\ Emit(p, o, TRUE) /\ UNCHANGED <<snap, net, crashes>>
    BY Zenon DEF PrepareHealing, HealingDue, TrafficBlocked
  <1>2. r \in Runtimes /\ r.epoch \in Nat /\ Kept(p, r) /\ \A b \in Each(Other(p)) : Paired(r, b)
    BY EachFacts, Zenon
  <1>3. \A f : Under(f) /\ f.dir = p => f.epoch \in Nat /\ OfSlot(f, r)
    BY UnderFacts, Zenon
  <1>4. n \in Nat
    BY Zenon DEF SessionInv, SessionTyped
  <1>5. o.type = "offer" /\ o.dir = p /\ o.epoch = r.epoch
    BY Zenon DEF OfferFrame
  <1> HIDE DEF r, n
  <1>6. /\ s \in Runtimes /\ o \in Frames
        /\ s.phase = "offered" /\ s.epoch = r.epoch /\ s.turn = r.turn /\ s.root = r.root /\ s.outbox = o
        /\ s.inOffer = NoFrame /\ s.inAdvance = NoFrame /\ s.ack = NoFrame
    BY <1>2, <1>4, OfferPrepared
  <1> HIDE DEF s, o
  <1>7. fresh' \in Nat
    BY <1>1, <1>4
  <1>8. Kept(p, s)
    BY <1>5, <1>6 DEF Kept, CheckpointCoherent
  <1>9. \A b \in Each(Other(p)) : Paired(s, b)
    <2> SUFFICES ASSUME NEW b \in Each(Other(p)) PROVE Paired(s, b)
      BY Zenon
    <2>1. InStep(r, b)
      BY <1>1, <1>2 DEF Paired, InStep, OneAhead
    <2> QED  BY <1>6, <2>1, Zenon DEF Paired, InStep
  <1>10. r.outbox = NoFrame
    BY <1>1, <1>2, Zenon DEF Kept
  <1>11. \A f : Under(f) /\ f.dir = p => OfSlot(f, s) /\ ~SameSlot(f, o)
    BY <1>2, <1>3, <1>5, <1>6, <1>10, NoFrameTyped DEF OfSlot, SameSlot
  <1>12. OfSlot(o, s)
    BY <1>5, <1>6 DEF OfSlot
  <1>13. \A g : SameSlot(g, o) => g.dir = p
    BY <1>5, Zenon DEF SameSlot
  <1> QED  BY <1>1, <1>5, <1>6, <1>7, <1>8, <1>9, <1>11, <1>12, <1>13, EmitKeeps, Zenon

\* An OFFER that p accepts is the outbox of both the session and the snapshot
\* of the other side, which hold the turn in step with p.
LEMMA OfferIsOutbox ==
    ASSUME SessionInv, NEW p \in Peers, NEW f \in net, AcceptsOffer(p, live[p], f), NEW b \in Each(Other(p))
    PROVE  InStep(b, live[p]) /\ b.phase = "offered" /\ b.outbox = f
  <1> DEFINE r == live[p]
  <1>1. f.type = "offer" /\ f.dir # p /\ f.epoch = r.epoch /\ r.phase = "idle" /\ r.turn = "remote"
    BY Zenon DEF AcceptsOffer, Opens
  <1>2. f \in Frames /\ f.epoch \in Nat /\ OfSlot(f, b)
    BY <1>1, WireFacts, Zenon
  <1>3. Paired(r, b) /\ b.epoch \in Nat /\ Kept(Other(p), b)
    BY EachFacts, Zenon
  <1> HIDE DEF r
  <1>4. InStep(b, r)
    BY <1>1, <1>3 DEF Paired, InStep, OneAhead
  <1>5. b.outbox = f
    BY <1>1, <1>2, <1>3, <1>4 DEF OfSlot, InStep
  <1>6. b.phase = "offered"
    BY <1>1, <1>3, <1>5, Zenon DEF Kept, CheckpointCoherent
  <1> QED  BY <1>4, <1>5, <1>6, Zenon DEF r

\* An ADVANCE that p accepts is the outbox of both the session and the snapshot
\* of the other side, which are one ahead.
LEMMA AdvanceIsOutbox ==
    ASSUME SessionInv, NEW p \in Peers, NEW f \in net, AcceptsAdvance(p, live[p], f), NEW b \in Each(Other(p))
    PROVE  OneAhead(live[p], b) /\ b.outbox = f
  <1> DEFINE r == live[p]
  <1>1. f.type = "advance" /\ f.dir # p /\ f.epoch = r.epoch /\ r.phase = "offered"
    BY Zenon DEF AcceptsAdvance, Opens
  <1>2. f \in Frames /\ f.epoch \in Nat /\ OfSlot(f, b)
    BY <1>1, WireFacts, Zenon
  <1>3. Paired(r, b) /\ b.epoch \in Nat
    BY EachFacts, Zenon
  <1> HIDE DEF r
  <1>4. f.epoch < b.epoch
    BY <1>1, <1>2, Zenon DEF OfSlot
  <1>5. OneAhead(r, b)
    BY <1>1, <1>2, <1>3, <1>4 DEF Paired, InStep, OneAhead
  <1>6. b.outbox = f
    BY <1>1, <1>2, <1>5 DEF OfSlot, OneAhead
  <1> QED  BY <1>5, <1>6, Zenon DEF r

\* An ACK that p accepts shows that the session and the snapshot of the other
\* side have committed: they are in step with p.
LEMMA AckShowsStep ==
    ASSUME SessionInv, NEW p \in Peers, NEW f \in net, AcceptsAck(p, live[p], f), NEW b \in Each(Other(p))
    PROVE  InStep(live[p], b)
  <1> DEFINE r == live[p]
  <1>1. f.type = "ack" /\ f.dir # p /\ f.epoch = r.epoch /\ r.phase = "awaitAck"
    BY Zenon DEF AcceptsAck, Opens
  <1>2. f \in Frames /\ f.epoch \in Nat /\ OfSlot(f, b)
    BY <1>1, WireFacts, Zenon
  <1>3. Paired(r, b) /\ b.epoch \in Nat
    BY EachFacts, Zenon
  <1> HIDE DEF r
  <1>4. f.epoch <= b.epoch
    BY <1>1, <1>2, Zenon DEF OfSlot
  <1>5. InStep(r, b)
    BY <1>1, <1>2, <1>3, <1>4 DEF Paired, InStep, OneAhead
  <1> QED  BY <1>5, Zenon DEF r

\* acceptControlFrame of an OFFER keeps the invariant: p's session moves one
\* ahead, and its ADVANCE is the first of its slot.
LEMMA AnswerKeeps ==
    ASSUME SessionInv, PersistAlways, NEW p \in Peers, NEW f \in net,
           AcceptsOffer(p, live[p], f), AcceptControlFrame(p, f)
    PROVE  SessionInv'
  <1> DEFINE r == live[p]
             n == fresh
             s == AfterAccept(p, r, f, n)
             o == AdvanceFrame(p, r, f, n)
  <1>1. f.type = "offer" /\ f.dir # p /\ f.epoch = r.epoch /\ r.phase = "idle"
    BY Zenon DEF AcceptsOffer, Opens
  <1>2. o = AcceptReply(p, r, f, n) /\ n \in Nat
    BY <1>1, Zenon DEF AcceptReply, SessionInv, SessionTyped
  <1>3. /\ live' = [live EXCEPT ![p] = s] /\ fresh' = n + 1
        /\ Emit(p, o, TRUE) /\ UNCHANGED <<snap, net, crashes>>
    BY <1>1, <1>2, Zenon DEF AcceptControlFrame
  <1>4. r \in Runtimes /\ r.epoch \in Nat /\ Kept(p, r)
    BY EachFacts, Zenon
  <1>5. f \in Frames
    BY <1>1, WireFacts, Zenon
  <1>6. \A g : Under(g) /\ g.dir = p => g.epoch \in Nat /\ OfSlot(g, r)
    BY UnderFacts, Zenon
  <1>7. \A b \in Each(Other(p)) : InStep(b, r) /\ b.phase = "offered" /\ b.outbox = f
    BY OfferIsOutbox, Zenon
  <1>8. o.type = "advance" /\ o.dir = p /\ o.epoch = r.epoch
    BY <1>1, Zenon DEF AdvanceFrame
  <1> HIDE DEF r, n
  <1>9. /\ s \in Runtimes /\ o \in Frames
        /\ s.phase = "awaitAck" /\ s.epoch = r.epoch + 1 /\ s.turn = "local"
        /\ s.root = NextRoot(r.root, o) /\ s.outbox = o
        /\ s.inOffer = f /\ s.inAdvance = NoFrame /\ s.ack = NoFrame
    <2> HIDE DEF s, o
    <2>1. s = AfterAccept(p, r, f, n) /\ o = AdvanceFrame(p, r, f, n)
      BY Zenon DEF s, o
    <2>2. f \in Frames /\ f.type = "offer" /\ r \in Runtimes /\ n \in Nat
      BY <1>1, <1>2, <1>4, <1>5, Zenon
    <2> QED  BY <2>1, <2>2, OfferAnswered
  <1> HIDE DEF s, o
  <1>10. fresh' \in Nat
    BY <1>2, <1>3
  <1>11. Kept(p, s)
    BY <1>8, <1>9 DEF Kept, CheckpointCoherent
  <1>12. \A b \in Each(Other(p)) : Paired(s, b)
    <2> SUFFICES ASSUME NEW b \in Each(Other(p)) PROVE OneAhead(b, s)
      BY Zenon DEF Paired
    <2>1. InStep(b, r) /\ b.phase = "offered"
      BY <1>7, Zenon
    <2> QED  BY <1>9, <2>1 DEF InStep, OneAhead
  <1>13. r.outbox = NoFrame
    BY <1>1, <1>4, Zenon DEF Kept
  <1>14. \A g : Under(g) /\ g.dir = p => OfSlot(g, s) /\ ~SameSlot(g, o)
    BY <1>4, <1>6, <1>8, <1>9, <1>13, NoFrameTyped DEF OfSlot, SameSlot
  <1>15. OfSlot(o, s)
    BY <1>4, <1>8, <1>9 DEF OfSlot
  <1>16. \A g : SameSlot(g, o) => g.dir = p
    BY <1>8, Zenon DEF SameSlot
  <1> QED  BY <1>3, <1>8, <1>9, <1>10, <1>11, <1>12, <1>14, <1>15, <1>16, EmitKeeps, Zenon

\* acceptControlFrame of an ADVANCE keeps the invariant: p's session commits
\* the root that the other side has in its session and its snapshot.
LEMMA CommitKeeps ==
    ASSUME SessionInv, PersistAlways, NEW p \in Peers, NEW f \in net,
           AcceptsAdvance(p, live[p], f), AcceptControlFrame(p, f)
    PROVE  SessionInv'
  <1> DEFINE r == live[p]
             n == fresh
             s == AfterAccept(p, r, f, n)
             o == AckFrame(p, r, f)
  <1>1. f.type = "advance" /\ f.dir # p /\ r.phase = "offered"
    BY Zenon DEF AcceptsAdvance, Opens
  <1>2. o = AcceptReply(p, r, f, n) /\ n \in Nat /\ f.type # "offer"
    BY <1>1, Zenon DEF AcceptReply, SessionInv, SessionTyped
  <1>3. /\ live' = [live EXCEPT ![p] = s] /\ fresh' = n + 0
        /\ Emit(p, o, TRUE) /\ UNCHANGED <<snap, net, crashes>>
    BY <1>1, <1>2, Zenon DEF AcceptControlFrame
  <1>4. r \in Runtimes /\ r.epoch \in Nat /\ Kept(p, r)
    BY EachFacts, Zenon
  <1>5. f \in Frames
    BY <1>1, WireFacts, Zenon
  <1>6. \A g : Under(g) /\ g.dir = p => g.epoch \in Nat /\ OfSlot(g, r)
    BY UnderFacts, Zenon
  <1>7. \A b \in Each(Other(p)) : OneAhead(r, b) /\ b.outbox = f
    BY AdvanceIsOutbox, Zenon
  <1>8. o.type = "ack" /\ o.dir = p /\ o.epoch = r.epoch + 1
    BY Zenon DEF AckFrame
  <1> HIDE DEF r, n
  <1>9. /\ s \in Runtimes /\ o \in Frames
        /\ s.phase = "idle" /\ s.epoch = r.epoch + 1 /\ s.turn = "remote"
        /\ s.root = NextRoot(r.root, f) /\ s.outbox = NoFrame
        /\ s.inOffer = NoFrame /\ s.inAdvance = f /\ s.ack = o
    BY <1>1, <1>4, <1>5, AdvanceCommitted
  <1> HIDE DEF s, o
  <1>10. fresh' \in Nat
    BY <1>2, <1>3
  <1>11. Kept(p, s)
    BY <1>1, <1>4, <1>8, <1>9, NoFrameTyped DEF Kept, CheckpointCoherent
  <1>12. \A b \in Each(Other(p)) : Paired(s, b)
    <2> SUFFICES ASSUME NEW b \in Each(Other(p)) PROVE InStep(b, s)
      BY Zenon DEF Paired
    <2>1. OneAhead(r, b) /\ b.outbox = f
      BY <1>7, Zenon
    <2> QED  BY <1>9, <2>1 DEF InStep, OneAhead
  <1>13. r.outbox.epoch = r.epoch
    BY <1>1, <1>4, Zenon DEF Kept
  <1>14. \A g : Under(g) /\ g.dir = p => OfSlot(g, s)
    BY <1>4, <1>6, <1>9, <1>13 DEF OfSlot
  <1>15. OfSlot(o, s) /\ \A g : ~SameSlot(g, o)
    BY <1>4, <1>8, <1>9 DEF OfSlot, SameSlot
  <1> QED  BY <1>3, <1>8, <1>9, <1>10, <1>11, <1>12, <1>14, <1>15, EmitKeeps, Zenon

\* acceptControlFrame of an ACK keeps the invariant: p's session is idle, in
\* step with the other side; nothing is handed to the caller.
LEMMA CloseKeeps ==
    ASSUME SessionInv, PersistAlways, NEW p \in Peers, NEW f \in net,
           AcceptsAck(p, live[p], f), AcceptControlFrame(p, f)
    PROVE  SessionInv'
  <1> DEFINE r == live[p]
             n == fresh
             s == AfterAccept(p, r, f, n)
  <1>1. f.type = "ack" /\ f.dir # p /\ r.phase = "awaitAck" /\ r.outbox.type = "advance"
    BY Zenon DEF AcceptsAck, Opens
  <1>2. NoFrame = AcceptReply(p, r, f, n) /\ n \in Nat /\ f.type # "offer"
    BY <1>1, Zenon DEF AcceptReply, SessionInv, SessionTyped
  <1>3. /\ live' = [live EXCEPT ![p] = s] /\ fresh' = n + 0
        /\ Emit(p, NoFrame, TRUE) /\ UNCHANGED <<snap, net, crashes>>
    BY <1>1, <1>2, Zenon DEF AcceptControlFrame
  <1>4. r \in Runtimes /\ r.epoch \in Nat
    BY EachFacts, Zenon
  <1>5. f \in Frames
    BY <1>1, WireFacts, Zenon
  <1>6. \A g : Under(g) /\ g.dir = p => g.epoch \in Nat /\ OfSlot(g, r)
    BY UnderFacts, Zenon
  <1>7. \A b \in Each(Other(p)) : InStep(r, b)
    BY AckShowsStep, Zenon
  <1> HIDE DEF r, n
  <1>8. /\ s \in Runtimes /\ s.phase = "idle" /\ s.epoch = r.epoch /\ s.turn = r.turn /\ s.root = r.root
        /\ s.outbox = NoFrame /\ s.inOffer = NoFrame /\ s.inAdvance = NoFrame /\ s.ack = NoFrame
    BY <1>1, <1>4, <1>5, ExchangeClosed
  <1> HIDE DEF s
  <1>9. fresh' \in Nat
    BY <1>2, <1>3
  <1>10. Kept(p, s)
    BY <1>8, NoFrameTyped DEF Kept, CheckpointCoherent
  <1>11. \A b \in Each(Other(p)) : Paired(s, b)
    BY <1>7, <1>8, Zenon DEF Paired, InStep
  <1>12. \A g : Under(g) /\ g.dir = p => OfSlot(g, s)
    BY <1>1, <1>4, <1>6, <1>8 DEF OfSlot
  <1> QED  BY <1>3, <1>8, <1>9, <1>10, <1>11, <1>12, NoFrameTyped, EmitKeeps, Zenon

-----------------------------------------------------------------------------
\* Every step keeps the invariant, for a caller that stores before it sends.
LEMMA NextKeeps ==
    ASSUME PersistAlways, SessionInv, [Next]_vars
    PROVE  SessionInv'
  <1>1. CASE UNCHANGED vars
    BY <1>1 DEF vars, SessionInv, SessionTyped, Each, Under
  <1>2. ASSUME NEW p \in Peers, NEW f \in net, AcceptControlFrame(p, f) PROVE SessionInv'
    <2>1. AcceptsOffer(p, live[p], f) \/ AcceptsAdvance(p, live[p], f) \/ AcceptsAck(p, live[p], f)
      BY <1>2, Zenon DEF AcceptControlFrame, Accepts
    <2> QED  BY <1>2, <2>1, AnswerKeeps, CommitKeeps, CloseKeeps, Zenon
  <1>3. ASSUME NEW p \in Peers, RunJob(p) PROVE SessionInv'
    BY <1>3, PersistKeeps, SendKeeps, Zenon DEF RunJob
  <1>4. ASSUME NEW p \in Peers, Receive(p) PROVE SessionInv'
    BY <1>2, <1>4, RepeatKeeps, Zenon DEF Receive
  <1> QED  BY <1>1, <1>3, <1>4, PrepareKeeps, RepeatKeeps, CrashKeeps, Zenon DEF Next

\* The invariant of the session and its snapshots, when the caller stores the
\* session before it sends any frame (the contract of P2PartySession).
THEOREM SessionInvariant ==
    ASSUME PersistAlways
    PROVE  Spec => []SessionInv
  <1>1. Init => SessionInv
    <2> SUFFICES ASSUME Init PROVE SessionInv
      OBVIOUS
    <2>1. /\ live = [p \in Peers |-> InitRuntime(p)] /\ snap = live /\ jobs = [p \in Peers |-> {}]
          /\ net = {} /\ fresh = 1 /\ crashes = 0
      BY Zenon DEF Init
    <2>2. \A p \in Peers : /\ InitRuntime(p) \in Runtimes /\ InitRuntime(p).phase = "idle"
                           /\ InitRuntime(p).outbox = NoFrame /\ InitRuntime(p).ack = NoFrame
                           /\ InitRuntime(p).inOffer = NoFrame /\ InitRuntime(p).inAdvance = NoFrame
      BY NoFrameTyped DEF InitRuntime, Runtimes, Phases, Turns
    <2>3. \A p \in Peers : live[p] = InitRuntime(p) /\ snap[p] = InitRuntime(p) /\ jobs[p] = {}
      BY <2>1, Zenon
    <2>4. crashes \in 0 .. MaxCrashes /\ fresh \in Nat
      BY <2>1, MaxCrashesAssumption
    <2>5. live \in [Peers -> Runtimes] /\ snap \in [Peers -> Runtimes] /\ jobs \in [Peers -> SUBSET Jobs] /\ net \in SUBSET Frames
      BY <2>1, <2>2, Zenon
    <2>6. \A p \in Peers : \A r \in Each(p) : r = InitRuntime(p)
      BY <2>3, Zenon DEF Each
    <2>7. \A p \in Peers : Kept(p, InitRuntime(p))
      BY <2>2, NoFrameTyped DEF Kept, CheckpointCoherent
    <2>8. Paired(InitRuntime("initiator"), InitRuntime("responder")) /\ Paired(InitRuntime("responder"), InitRuntime("initiator"))
      BY DEF Paired, InStep, InitRuntime
    <2>9. \A p \in Peers : Other(p) \in Peers /\ Paired(InitRuntime(p), InitRuntime(Other(p)))
      BY <2>8, Zenon DEF Peers, Other
    <2>10. \A f : ~Under(f)
      BY <2>1, <2>3, Zenon DEF Under
    <2>11. \A p \in Peers : \A a \in Each(p), b \in Each(Other(p)) : Paired(a, b)
      BY <2>6, <2>9, Zenon
    <2>12. \A p \in Peers : \A r \in Each(p) : Kept(p, r)
      BY <2>6, <2>7, Zenon
    <2> QED  BY <2>1, <2>3, <2>4, <2>5, <2>10, <2>11, <2>12, Zenon DEF SessionInv, SessionTyped
  <1>2. SessionInv /\ [Next]_vars => SessionInv'
    BY NextKeeps, Zenon
  <1> QED  BY <1>1, <1>2, PTL DEF Spec

\* CrashNeverForks: across any number of crashes and restores no slot is used
\* again for other bytes.
THEOREM CrashNeverForksTheorem ==
    ASSUME PersistAlways
    PROVE  Spec => []CrashNeverForks
  <1>1. SessionInv => CrashNeverForks
    <2> SUFFICES ASSUME SessionInv PROVE Wire!NoFork
      BY Zenon DEF CrashNeverForks
    <2>1. \A f, g : Under(f) /\ Under(g) /\ SameSlot(f, g) => f = g
      BY Zenon DEF SessionInv
    <2>2. \A f \in net : Under(f)
      BY Zenon DEF Under
    <2> QED  BY <2>1, <2>2, Zenon DEF SameSlot, Wire!NoFork
  <1> QED  BY <1>1, SessionInvariant, PTL

\* RootsAgreeAfterCrash: in one epoch both sides have the same root, and are at
\* most one epoch apart, live against live and stored against stored.
THEOREM RootsAgreeTheorem ==
    ASSUME PersistAlways
    PROVE  Spec => []RootsAgreeAfterCrash
  <1>1. SessionInv => RootsAgreeAfterCrash
    <2> SUFFICES ASSUME SessionInv PROVE RootsAgreeAfterCrash
      BY Zenon
    <2>1. ASSUME NEW p \in Peers, NEW q \in Peers, NEW a, NEW b,
                 (a = live[p] /\ b = live[q]) \/ (a = snap[p] /\ b = snap[q])
          PROVE  (a.epoch = b.epoch => a.root = b.root) /\ a.epoch <= b.epoch + 1
      <3>1. a \in Each(p) /\ a.epoch \in Nat
        <4>1. a \in Each(p)
          BY <2>1, Zenon DEF Each
        <4>2. \A r \in Each(p) : r.epoch \in Nat
          BY EachFacts, Zenon
        <4> QED  BY <4>1, <4>2, Zenon
      <3>2. CASE q = p
        <4>1. a = b
          BY <2>1, <3>2, Zenon
        <4> QED  BY <3>1, <4>1
      <3>3. CASE q = Other(p)
        <4>1. Paired(a, b) /\ b.epoch \in Nat
          BY <2>1, <3>1, <3>3, EachFacts, Zenon DEF Each
        <4> QED  BY <3>1, <4>1 DEF Paired, InStep, OneAhead
      <3> QED  BY <3>2, <3>3, PeerFacts, Zenon
    <2>2. Wire!Peers = Peers /\ Stored!Peers = Peers
      BY Zenon DEF Peers, Wire!Peers, Stored!Peers
    <2>3. Wire!RootAgreement
      BY <2>1, <2>2, Zenon DEF Wire!RootAgreement
    <2>4. Stored!RootAgreement
      BY <2>1, <2>2, Zenon DEF Stored!RootAgreement
    <2> QED  BY <2>3, <2>4, Zenon DEF RootsAgreeAfterCrash
  <1> QED  BY <1>1, SessionInvariant, PTL

\* SnapshotsRestorable: a snapshot the caller stored passes the checks of
\* restoreSession.
THEOREM SnapshotsRestorableTheorem ==
    ASSUME PersistAlways
    PROVE  Spec => []SnapshotsRestorable
  <1>1. SessionInv => SnapshotsRestorable
    <2> SUFFICES ASSUME SessionInv, NEW p \in Stored!Peers PROVE Stored!CheckpointCoherent(snap[p])
      BY Zenon DEF SnapshotsRestorable, Stored!Restorable
    <2>1. p \in Peers
      BY Zenon DEF Peers, Stored!Peers
    <2>2. CheckpointCoherent(snap[p])
      BY <2>1, EachFacts, Zenon DEF Kept
    <2>3. Stored!NoFrame = NoFrame
      BY Zenon DEF NoFrame, Stored!NoFrame
    <2> QED  BY <2>2, <2>3, Zenon DEF CheckpointCoherent, Stored!CheckpointCoherent
  <1> QED  BY <1>1, SessionInvariant, PTL
=============================================================================
