--------------------------- MODULE EdgeKeys_proofs ---------------------------
(***************************************************************************)
(* Proofs about the three sides of EdgeKeys.  The replay window of the     *)
(* cover cells, for every window, every number of cells and every order of *)
(* arrival.  The persistence of the ratchet, for any number of             *)
(* connections, sends, failing writes and failing deletes: no row that a   *)
(* restart may find holds a key that was handed out, and a replaced        *)
(* connection never writes last.  The ratchet itself, for any limits and   *)
(* any number of messages lost, late or read twice: only MAX_SKIP and      *)
(* MAX_SKIP_SESSION lose a message.                                        *)
(***************************************************************************)
EXTENDS Ratchet, CoverCells, EdgePersistence, TLAPS

\* The public keys of both ends, chains, message keys, headers and skipped keys.
Public == Ends \X Nat
Chain == Seq(SUBSET Public)
MessageKey == [chain : Chain, n : Nat]
Header == [dh : Public, n : Nat, pn : Nat, key : MessageKey]
Skipped == [dh : Public, n : Nat, key : MessageKey]
RatchetState ==
    [root : Chain, sc : Chain, rc : Chain, self : Public, remote : Public, Ns : Nat, Nr : Nat, PN : Nat,
     skipped : Seq(Skipped), gone : SUBSET (Public \X Nat)]

RatchetTyped ==
    /\ st \in [Ends -> RatchetState] /\ sent \in [Ends -> Seq(Header)]
    /\ got \in [Ends -> [1 .. MaxSent -> Nat]] /\ \A e \in Ends : Len(sent[e]) <= MaxSent

\* A place on a sending chain of x that a message was given.
Used(x, dh, n) == dh[1] = x /\ (dh[2] < st[x].self[2] \/ (dh = st[x].self /\ n < st[x].Ns))

\* Header h is of a message of x: on the present chain of x, or on an older
\* one, which came from a shorter root; PN counts the key before.
Given(x, h) ==
    /\ Used(x, h.dh, h.n) /\ h.key.n = h.n
    /\ h.dh = st[x].self => h.pn = st[x].PN /\ h.key.chain = st[x].sc
    /\ h.dh # st[x].self => Len(h.key.chain) < Len(st[x].sc)
    /\ h.dh[2] + 1 = st[x].self[2] => h.n < st[x].PN

\* What x has sent: every place is given once.
Sender(x) ==
    /\ st[x].self[1] = x /\ st[x].root = st[x].sc /\ st[x].sc # None
    /\ \A m \in DOMAIN sent[x] : Given(x, sent[x][m])
    /\ \A i, j \in DOMAIN sent[x] : Id(sent[x][i]) = Id(sent[x][j]) => i = j

\* e has not seen the present key of the other end yet, which has seen e's: it
\* is the one to take the next DH step.
Lags(e) ==
    LET x == Other(e)
    IN  /\ st[x].remote = st[e].self /\ st[x].rc = st[e].sc
        /\ st[e].remote = <<x, st[x].self[2] - 1>>
        /\ st[x].sc = KdfRk(st[e].root, Dh(st[e].self, st[x].self))

\* The receiving chain of s is past the place of h.
Passed(s, h) == h.dh[2] < s.remote[2] \/ (h.dh = s.remote /\ h.n < s.Nr)

\* k is the key of a message of x.
KeyFrom(x, k) ==
    /\ Used(x, k.dh, k.n)
    /\ \A m \in DOMAIN sent[x] : Id(sent[x][m]) = Id(k) => sent[x][m].key = k.key

\* What an end with state s can still read: the messages of its present remote
\* key are on its receiving chain; those that chain is past have their key
\* among the skipped ones, or it was evicted.
InReach(s, opened, h) ==
    /\ h.dh = s.remote => s.rc # None /\ h.key.chain = s.rc
    /\ ~opened /\ Passed(s, h) => Id(h) \in Ids(s.skipped) \cup s.gone

Receiver(e) ==
    LET s == st[e]
        x == Other(e)
    IN  /\ s.remote = st[x].self => s.Nr <= st[x].Ns
        /\ \A k \in DOMAIN s.skipped : KeyFrom(x, s.skipped[k])
        /\ \A m \in DOMAIN sent[x] : InReach(s, Opened(e, m), sent[x][m])

RatchetInv == RatchetTyped /\ (\A e \in Ends : Sender(e) /\ Receiver(e)) /\ \E e \in Ends : Lags(e)

-----------------------------------------------------------------------------
\* There are two ends, each the other of the other.
LEMMA EndFacts ==
    ASSUME NEW e \in Ends
    PROVE  /\ Other(e) \in Ends /\ Other(e) # e /\ Other(Other(e)) = e
           /\ \A x \in Ends : x = e \/ x = Other(e)
  BY Zenon DEF Ends, Other

\* The places of skipped keys.
LEMMA IdsTyped ==
    ASSUME NEW q \in Seq(Skipped)
    PROVE  Ids(q) \in SUBSET (Public \X Nat)
  <1>1. \A i \in DOMAIN q : q[i] \in Skipped
    OBVIOUS
  <1>2. \A k \in Skipped : Id(k) \in Public \X Nat
    BY Zenon DEF Skipped, Id
  <1> QED  BY <1>1, <1>2, Zenon DEF Ids

\* Two sequences one after the other.
LEMMA Joined ==
    ASSUME NEW a \in Seq(Skipped), NEW b \in Seq(Skipped)
    PROVE  \E q : /\ q = a \o b /\ q \in Seq(Skipped) /\ Len(q) = Len(a) + Len(b) /\ DOMAIN q = 1 .. Len(a) + Len(b)
                  /\ \A j \in 1 .. Len(a) : q[j] = a[j]
                  /\ \A j \in 1 .. Len(b) : q[Len(a) + j] = b[j]
  <1>0. PICK q : q = a \o b
    BY Zenon
  <1>1. q \in Seq(Skipped) /\ Len(q) = Len(a) + Len(b) /\ DOMAIN q = 1 .. Len(a) + Len(b)
    BY <1>0
  <1>2. \A j \in 1 .. Len(a) : q[j] = a[j]
    BY <1>0
  <1>3. \A j \in 1 .. Len(b) : q[Len(a) + j] = b[j]
    BY <1>0
  <1> QED  BY <1>0, <1>1, <1>2, <1>3, Zenon

\* What is left of a sequence without its first i elements.
LEMMA Rest ==
    ASSUME NEW S, NEW q \in Seq(S), NEW i \in 0 .. Len(q)
    PROVE  /\ SubSeq(q, i + 1, Len(q)) \in Seq(S) /\ Len(SubSeq(q, i + 1, Len(q))) = Len(q) - i
           /\ \A j \in 1 .. Len(q) - i : SubSeq(q, i + 1, Len(q))[j] = q[j + i]
  <1>1. SubSeq(q, i + 1, Len(q)) \in Seq(S) /\ Len(SubSeq(q, i + 1, Len(q))) = Len(q) - i
    OBVIOUS
  <1>2. \A j \in 1 .. Len(q) - i : SubSeq(q, i + 1, Len(q))[j] = q[j + i]
    OBVIOUS
  <1> QED  BY <1>1, <1>2, Zenon

\* t is s without some of its skipped keys, which are recorded.
Evicts(s, t) ==
    /\ t \in RatchetState
    /\ t.root = s.root /\ t.sc = s.sc /\ t.rc = s.rc /\ t.self = s.self /\ t.remote = s.remote
    /\ t.Ns = s.Ns /\ t.Nr = s.Nr /\ t.PN = s.PN
    /\ \A i \in DOMAIN t.skipped : \E j \in DOMAIN s.skipped : t.skipped[i] = s.skipped[j]
    /\ Ids(s.skipped) \subseteq Ids(t.skipped) \cup t.gone /\ s.gone \subseteq t.gone

\* EvictOldest forgets some skipped keys, and records which.
LEMMA EvictFacts ==
    ASSUME NEW s \in RatchetState
    PROVE  Evicts(s, EvictOldest(s))
  <1>0. PICK t : t = EvictOldest(s)
    BY Zenon
  <1> DEFINE q == s.skipped
             over == IF Len(q) > MaxSkipSession THEN Len(q) - MaxSkipSession ELSE 0
             kept == SubSeq(q, over + 1, Len(q))
             evicted == SubSeq(q, 1, over)
  <1>1. q \in Seq(Skipped) /\ Len(q) \in Nat /\ s.gone \in SUBSET (Public \X Nat)
    BY DEF RatchetState
  <1>2. over \in 0 .. Len(q)
    BY <1>1, RatchetAssumption
  <1> HIDE DEF over, q
  <1>3. kept \in Seq(Skipped) /\ evicted \in Seq(Skipped) /\ Len(kept) = Len(q) - over /\ Len(evicted) = over
    BY <1>1, <1>2
  <1>4. \A i \in 1 .. Len(q) - over : kept[i] = q[i + over]
    BY <1>1, <1>2
  <1>5. \A i \in 1 .. over : evicted[i] = q[i]
    BY <1>1, <1>2
  <1>6. t = [s EXCEPT !.skipped = kept, !.gone = s.gone \cup Ids(evicted)]
    BY <1>0, Zenon DEF EvictOldest, over, q
  <1> HIDE DEF kept, evicted
  <1>7. DOMAIN kept = 1 .. Len(q) - over /\ DOMAIN evicted = 1 .. over /\ DOMAIN q = 1 .. Len(q)
    BY <1>1, <1>2, <1>3
  <1>8. Ids(evicted) \in SUBSET (Public \X Nat)
    BY <1>3, IdsTyped, Zenon
  <1>9. /\ t \in RatchetState /\ t.skipped = kept /\ t.gone = s.gone \cup Ids(evicted)
        /\ t.root = s.root /\ t.sc = s.sc /\ t.rc = s.rc /\ t.self = s.self /\ t.remote = s.remote
        /\ t.Ns = s.Ns /\ t.Nr = s.Nr /\ t.PN = s.PN
    BY <1>1, <1>3, <1>6, <1>8, Zenon DEF RatchetState
  <1>10. \A i \in DOMAIN kept : \E j \in DOMAIN q : kept[i] = q[j]
    BY <1>1, <1>2, <1>4, <1>7
  <1>11. \A j \in DOMAIN q : (\E i \in DOMAIN kept : kept[i] = q[j]) \/ (\E i \in DOMAIN evicted : evicted[i] = q[j])
    <2> SUFFICES ASSUME NEW j \in DOMAIN q
                 PROVE  (\E i \in DOMAIN kept : kept[i] = q[j]) \/ (\E i \in DOMAIN evicted : evicted[i] = q[j])
      BY Zenon
    <2>1. CASE j <= over
      BY <1>1, <1>2, <1>5, <1>7, <2>1
    <2>2. CASE j > over
      <3>1. j - over \in 1 .. Len(q) - over /\ (j - over) + over = j
        BY <1>1, <1>2, <1>7, <2>2
      <3> QED  BY <1>4, <1>7, <3>1, Zenon
    <2> QED  BY <1>1, <1>2, <1>7, <2>1, <2>2
  <1>12. Ids(q) \subseteq Ids(kept) \cup Ids(evicted)
    BY <1>11, Zenon DEF Ids
  <1> QED  BY <1>0, <1>9, <1>10, <1>12, Zenon DEF q, Evicts

\* skipMessageKeys moves the receiving chain of s to place until, and stashes
\* the keys of the places in between: t; without a chain it moves nothing.
Skips(s, until, t) ==
    /\ t \in RatchetState
    /\ t.root = s.root /\ t.sc = s.sc /\ t.rc = s.rc /\ t.self = s.self /\ t.remote = s.remote
    /\ t.Ns = s.Ns /\ t.PN = s.PN
    /\ t.Nr = IF s.rc = None \/ s.Nr >= until THEN s.Nr ELSE until
    /\ \A i \in DOMAIN t.skipped :
          \/ \E j \in DOMAIN s.skipped : t.skipped[i] = s.skipped[j]
          \/ /\ s.rc # None /\ t.skipped[i].dh = s.remote /\ t.skipped[i].n < until
             /\ t.skipped[i].key = KdfCk(s.rc, t.skipped[i].n)
    /\ Ids(s.skipped) \subseteq Ids(t.skipped) \cup t.gone /\ s.gone \subseteq t.gone
    /\ s.rc # None => \A n \in s.Nr .. until - 1 : <<s.remote, n>> \in Ids(t.skipped) \cup t.gone

\* A DH step of s to the peer's key dh: t.
Steps(s, dh, t) ==
    /\ t \in RatchetState
    /\ t.rc = KdfRk(s.root, Dh(s.self, dh)) /\ t.remote = dh /\ t.Nr = 0
    /\ t.self = <<s.self[1], s.self[2] + 1>> /\ t.PN = s.Ns /\ t.Ns = 0
    /\ t.sc = KdfRk(t.rc, Dh(t.self, dh)) /\ t.root = t.sc
    /\ t.skipped = s.skipped /\ t.gone = s.gone

\* skipMessageKeys does.
LEMMA SkipFacts ==
    ASSUME NEW s \in RatchetState, NEW until \in Nat
    PROVE  Skips(s, until, SkipMessageKeys(s, until))
  <1>0. PICK t : t = SkipMessageKeys(s, until)
    BY Zenon
  <1>1. s.Nr \in Nat /\ s.rc \in Chain /\ s.remote \in Public /\ s.skipped \in Seq(Skipped)
    BY Zenon DEF RatchetState
  <1>2. ASSUME s.rc = None \/ s.Nr >= until PROVE Skips(s, until, t)
    <2>1. t = EvictOldest(s)
      BY <1>0, <1>2, Zenon DEF SkipMessageKeys
    <2>2. s.rc # None => s.Nr .. until - 1 = {}
      BY <1>1, <1>2
    <2>3. /\ t \in RatchetState
          /\ t.root = s.root /\ t.sc = s.sc /\ t.rc = s.rc /\ t.self = s.self /\ t.remote = s.remote
          /\ t.Ns = s.Ns /\ t.Nr = s.Nr /\ t.PN = s.PN
          /\ \A i \in DOMAIN t.skipped : \E j \in DOMAIN s.skipped : t.skipped[i] = s.skipped[j]
          /\ Ids(s.skipped) \subseteq Ids(t.skipped) \cup t.gone /\ s.gone \subseteq t.gone
      BY <2>1, EvictFacts, Zenon DEF Evicts
    <2>4. s.rc # None => \A n \in s.Nr .. until - 1 : <<s.remote, n>> \in Ids(t.skipped) \cup t.gone
      BY <2>2, Zenon
    <2> QED  BY <1>2, <2>3, <2>4, Zenon DEF Skips
  <1>3. ASSUME ~(s.rc = None \/ s.Nr >= until) PROVE Skips(s, until, t)
    <2> DEFINE new == [i \in 1 .. until - s.Nr |->
                         [dh |-> s.remote, n |-> s.Nr + i - 1, key |-> KdfCk(s.rc, s.Nr + i - 1)]]
               q == s.skipped \o new
               u == [s EXCEPT !.Nr = until, !.skipped = q]
    <2>1. t = EvictOldest(u)
      BY <1>0, <1>3, Zenon DEF SkipMessageKeys
    <2>2. new \in Seq(Skipped) /\ Len(new) = until - s.Nr
      <3>1. until - s.Nr \in Nat
        BY <1>1, <1>3
      <3>2. \A i \in 1 .. until - s.Nr : s.Nr + i - 1 \in Nat
        BY <1>1
      <3>3. \A i \in 1 .. until - s.Nr : new[i] \in Skipped
        BY <1>1, <3>2, Zenon DEF Skipped, MessageKey, KdfCk
      <3> HIDE DEF new
      <3>4. new = [i \in 1 .. until - s.Nr |-> new[i]]
        BY Zenon DEF new
      <3> QED  BY <3>1, <3>3, <3>4
    <2>3. \A i \in 1 .. until - s.Nr : /\ new[i].dh = s.remote /\ new[i].n = s.Nr + i - 1
                                       /\ new[i].key = KdfCk(s.rc, new[i].n)
      BY Zenon
    <2> HIDE DEF new
    <2>4. /\ q \in Seq(Skipped) /\ DOMAIN q = 1 .. Len(s.skipped) + (until - s.Nr)
          /\ \A j \in 1 .. Len(s.skipped) : q[j] = s.skipped[j]
          /\ \A j \in 1 .. until - s.Nr : q[Len(s.skipped) + j] = new[j]
      <3>1. q = s.skipped \o new
        BY Zenon
      <3> HIDE DEF q
      <3>2. PICK r : /\ r = s.skipped \o new /\ r \in Seq(Skipped) /\ Len(r) = Len(s.skipped) + Len(new) /\ DOMAIN r = 1 .. Len(s.skipped) + Len(new)
                     /\ \A j \in 1 .. Len(s.skipped) : r[j] = s.skipped[j]
                     /\ \A j \in 1 .. Len(new) : r[Len(s.skipped) + j] = new[j]
        BY <1>1, <2>2, Joined, Zenon
      <3>3. q = r
        BY <3>1, <3>2, Zenon
      <3> QED  BY <2>2, <3>2, <3>3, Zenon
    <2>5. Len(s.skipped) \in Nat /\ DOMAIN s.skipped = 1 .. Len(s.skipped)
      BY <1>1
    <2> HIDE DEF q
    <2>6. /\ u \in RatchetState /\ u.skipped = q /\ u.Nr = until /\ u.gone = s.gone
          /\ u.root = s.root /\ u.sc = s.sc /\ u.rc = s.rc /\ u.self = s.self /\ u.remote = s.remote
          /\ u.Ns = s.Ns /\ u.PN = s.PN
      BY <2>4, Zenon DEF RatchetState
    <2> HIDE DEF u
    <2>7. ASSUME NEW j \in DOMAIN q
          PROVE  \/ \E i \in DOMAIN s.skipped : q[j] = s.skipped[i]
                 \/ q[j].dh = s.remote /\ q[j].n < until /\ q[j].key = KdfCk(s.rc, q[j].n)
      <3>1. CASE j <= Len(s.skipped)
        BY <2>4, <2>5, <3>1
      <3>2. CASE j > Len(s.skipped)
        <4> DEFINE i == j - Len(s.skipped)
        <4>1. i \in 1 .. until - s.Nr /\ j = Len(s.skipped) + i
          <5>1. j \in 1 .. Len(s.skipped) + (until - s.Nr)
            BY <2>4, Zenon
          <5>2. s.Nr \in Nat /\ Len(s.skipped) \in Nat
            BY <1>1, <2>5, Zenon
          <5> QED  BY <3>2, <5>1, <5>2
        <4> HIDE DEF i
        <4>2. q[j] = new[i]
          BY <2>4, <4>1, Zenon
        <4>3. s.Nr + i - 1 < until
          BY <1>1, <4>1
        <4> QED  BY <2>3, <4>1, <4>2, <4>3, Zenon
      <3> QED  BY <2>4, <2>5, <3>1, <3>2
    <2>8. Ids(s.skipped) \subseteq Ids(q)
      <3>1. \A i \in DOMAIN s.skipped : i \in DOMAIN q /\ q[i] = s.skipped[i]
        BY <1>1, <1>3, <2>4, <2>5
      <3> QED  BY <3>1, Zenon DEF Ids
    <2>9. \A n \in s.Nr .. until - 1 : <<s.remote, n>> \in Ids(q)
      <3> SUFFICES ASSUME NEW n \in s.Nr .. until - 1 PROVE \E j \in DOMAIN q : <<s.remote, n>> = Id(q[j])
        BY Zenon DEF Ids
      <3>0. n \in Int /\ s.Nr <= n /\ n <= until - 1
        BY <1>1
      <3>1. PICK i \in 1 .. until - s.Nr : s.Nr + i - 1 = n
        <4>1. n - s.Nr + 1 \in 1 .. until - s.Nr /\ s.Nr + (n - s.Nr + 1) - 1 = n
          BY <1>1, <3>0
        <4> QED  BY <4>1, Zenon
      <3>2. Len(s.skipped) + i \in DOMAIN q
        <4>1. s.Nr \in Nat /\ Len(s.skipped) \in Nat
          BY <1>1, <2>5, Zenon
        <4>2. Len(s.skipped) + i \in 1 .. Len(s.skipped) + (until - s.Nr)
          BY <4>1
        <4> QED  BY <2>4, <4>2, Zenon
      <3>3. q[Len(s.skipped) + i] = new[i] /\ new[i].dh = s.remote /\ new[i].n = n
        BY <2>3, <2>4, <3>1, Zenon
      <3> QED  BY <3>2, <3>3, Zenon DEF Id
    <2>10. /\ t \in RatchetState
           /\ t.root = u.root /\ t.sc = u.sc /\ t.rc = u.rc /\ t.self = u.self /\ t.remote = u.remote
           /\ t.Ns = u.Ns /\ t.Nr = u.Nr /\ t.PN = u.PN
           /\ \A i \in DOMAIN t.skipped : \E j \in DOMAIN u.skipped : t.skipped[i] = u.skipped[j]
           /\ Ids(u.skipped) \subseteq Ids(t.skipped) \cup t.gone /\ u.gone \subseteq t.gone
      <3>1. Evicts(u, t)
        BY <2>1, <2>6, EvictFacts, Zenon
      <3> QED  BY <3>1, Zenon DEF Evicts
    <2>11. ASSUME NEW i \in DOMAIN t.skipped
           PROVE  \/ \E j \in DOMAIN s.skipped : t.skipped[i] = s.skipped[j]
                  \/ /\ s.rc # None /\ t.skipped[i].dh = s.remote /\ t.skipped[i].n < until
                     /\ t.skipped[i].key = KdfCk(s.rc, t.skipped[i].n)
      <3>1. PICK j \in DOMAIN q : t.skipped[i] = q[j]
        BY <2>6, <2>10, Zenon
      <3> QED  BY <1>3, <2>7, <3>1, Zenon
    <2>12. t.Nr = until
      BY <2>6, <2>10, Zenon
    <2>13. Ids(s.skipped) \subseteq Ids(t.skipped) \cup t.gone /\ s.gone \subseteq t.gone
      BY <2>6, <2>8, <2>10, Zenon
    <2>14. \A n \in s.Nr .. until - 1 : <<s.remote, n>> \in Ids(t.skipped) \cup t.gone
      BY <2>6, <2>9, <2>10, Zenon
    <2> QED  BY <1>3, <2>6, <2>10, <2>11, <2>12, <2>13, <2>14, Zenon DEF Skips
  <1> QED  BY <1>0, <1>2, <1>3, Zenon

\* d gives the skipped key for h, and the state without it.
TakesOut(s, h, d) ==
    /\ d.next \in RatchetState
    /\ d.next.root = s.root /\ d.next.sc = s.sc /\ d.next.rc = s.rc /\ d.next.self = s.self
    /\ d.next.remote = s.remote /\ d.next.Ns = s.Ns /\ d.next.Nr = s.Nr /\ d.next.PN = s.PN
    /\ \A i \in DOMAIN d.next.skipped : \E j \in DOMAIN s.skipped : d.next.skipped[i] = s.skipped[j]
    /\ Ids(s.skipped) \ {Id(h)} \subseteq Ids(d.next.skipped) /\ d.next.gone = s.gone
    /\ \E j \in DOMAIN s.skipped : Id(s.skipped[j]) = Id(h) /\ d.key = s.skipped[j].key

\* trySkipped does.
LEMMA TryFacts ==
    ASSUME NEW s \in RatchetState, NEW h, Id(h) \in Ids(s.skipped)
    PROVE  TakesOut(s, h, TrySkipped(s, h))
  <1>0. PICK d : d = TrySkipped(s, h)
    BY Zenon
  <1> DEFINE q == s.skipped
             i == CHOOSE j \in DOMAIN q : Id(q[j]) = Id(h)
             kept == SubSeq(q, 1, i - 1) \o SubSeq(q, i + 1, Len(q))
  <1>1. q \in Seq(Skipped) /\ Len(q) \in Nat /\ DOMAIN q = 1 .. Len(q)
    BY DEF RatchetState
  <1>2. i \in DOMAIN q /\ Id(q[i]) = Id(h)
    BY Zenon DEF Ids
  <1>3. d = [key |-> q[i].key, next |-> [s EXCEPT !.skipped = kept]]
    BY <1>0, Zenon DEF TrySkipped
  <1> HIDE DEF q, i
  <1>4. /\ kept \in Seq(Skipped) /\ DOMAIN kept = 1 .. Len(q) - 1
        /\ \A j \in 1 .. i - 1 : kept[j] = q[j]
        /\ \A j \in i .. Len(q) - 1 : kept[j] = q[j + 1]
    <2> DEFINE a == SubSeq(q, 1, i - 1)
               b == SubSeq(q, i + 1, Len(q))
    <2>1. i \in 1 .. Len(q)
      BY <1>1, <1>2, Zenon
    <2>2. a \in Seq(Skipped) /\ Len(a) = i - 1 /\ \A j \in 1 .. i - 1 : a[j] = q[j]
      BY <1>1, <2>1
    <2>3. b \in Seq(Skipped) /\ Len(b) = Len(q) - i /\ \A j \in 1 .. Len(q) - i : b[j] = q[j + i]
      <3>1. i \in 0 .. Len(q)
        BY <1>1, <2>1
      <3> QED  BY <1>1, <3>1, Rest, Zenon
    <2>4. kept = a \o b
      BY Zenon
    <2> HIDE DEF a, b, kept
    <2>0. PICK r : /\ r = a \o b /\ r \in Seq(Skipped) /\ Len(r) = Len(a) + Len(b) /\ DOMAIN r = 1 .. Len(a) + Len(b)
                   /\ \A j \in 1 .. Len(a) : r[j] = a[j]
                   /\ \A j \in 1 .. Len(b) : r[Len(a) + j] = b[j]
      BY <2>2, <2>3, Joined, Zenon
    <2>5. kept \in Seq(Skipped) /\ DOMAIN kept = 1 .. Len(q) - 1 /\ kept = r
      <3>1. Len(a) + Len(b) = Len(q) - 1
        BY <1>1, <2>1, <2>2, <2>3
      <3> QED  BY <2>0, <2>4, <3>1, Zenon
    <2>6. \A j \in 1 .. i - 1 : kept[j] = q[j]
      BY <2>0, <2>2, <2>5, Zenon
    <2>7. ASSUME NEW j \in i .. Len(q) - 1 PROVE kept[j] = q[j + 1]
      <3>1. kept[j] = b[j - (i - 1)]
        <4>1. PICK l : l = j - (i - 1)
          BY Zenon
        <4>2. l \in 1 .. Len(b) /\ Len(a) + l = j
          BY <1>1, <2>1, <2>2, <2>3, <2>7, <4>1
        <4> QED  BY <2>0, <2>5, <4>1, <4>2, Zenon
      <3>2. j - (i - 1) \in 1 .. Len(q) - i /\ (j - (i - 1)) + i = j + 1
        BY <1>1, <2>1, <2>7
      <3> QED  BY <2>3, <3>1, <3>2, Zenon
    <2> QED  BY <2>5, <2>6, <2>7, Zenon
  <1> HIDE DEF kept
  <1>5. /\ d.key = q[i].key /\ d.next.skipped = kept /\ d.next \in RatchetState /\ d.next.gone = s.gone
        /\ d.next.root = s.root /\ d.next.sc = s.sc /\ d.next.rc = s.rc /\ d.next.self = s.self
        /\ d.next.remote = s.remote /\ d.next.Ns = s.Ns /\ d.next.Nr = s.Nr /\ d.next.PN = s.PN
    <2>1. PICK n : n = [s EXCEPT !.skipped = kept]
      BY Zenon
    <2>2. d.key = q[i].key /\ d.next = n
      BY <1>3, <2>1, Zenon
    <2>3. /\ n.skipped = kept /\ n \in RatchetState /\ n.gone = s.gone
          /\ n.root = s.root /\ n.sc = s.sc /\ n.rc = s.rc /\ n.self = s.self
          /\ n.remote = s.remote /\ n.Ns = s.Ns /\ n.Nr = s.Nr /\ n.PN = s.PN
      BY <1>4, <2>1, Zenon DEF RatchetState
    <2> QED  BY <2>2, <2>3, Zenon
  <1>6. \A j \in DOMAIN kept : \E l \in DOMAIN q : kept[j] = q[l]
    <2> SUFFICES ASSUME NEW j \in DOMAIN kept PROVE \E l \in DOMAIN q : kept[j] = q[l]
      BY Zenon
    <2>1. CASE j < i
      BY <1>1, <1>2, <1>4, <2>1
    <2>2. CASE j >= i
      <3>1. j \in 1 .. Len(q) - 1 /\ Len(q) \in Nat /\ i \in 1 .. Len(q)
        BY <1>1, <1>2, <1>4, Zenon
      <3>2. j \in i .. Len(q) - 1 /\ j + 1 \in 1 .. Len(q)
        BY <2>2, <3>1
      <3> QED  BY <1>1, <1>4, <3>2, Zenon
    <2>3. j < i \/ j >= i
      BY <1>1, <1>2, <1>4
    <2> QED  BY <2>1, <2>2, <2>3, Zenon
  <1>7. Ids(q) \ {Id(h)} \subseteq Ids(kept)
    <2> SUFFICES ASSUME NEW l \in DOMAIN q, Id(q[l]) # Id(h) PROVE \E j \in DOMAIN kept : Id(q[l]) = Id(kept[j])
      BY Zenon DEF Ids
    <2>1. l # i
      BY <1>2, Zenon
    <2>2. CASE l < i
      BY <1>1, <1>2, <1>4, <2>2
    <2>3. CASE l > i
      <3>1. l - 1 \in i .. Len(q) - 1 /\ l - 1 \in DOMAIN kept /\ (l - 1) + 1 = l
        BY <1>1, <1>2, <1>4, <2>3
      <3> QED  BY <1>4, <3>1, Zenon
    <2> QED  BY <1>1, <1>2, <2>1, <2>2, <2>3
  <1> QED  BY <1>0, <1>2, <1>5, <1>6, <1>7, Zenon DEF q, TakesOut

\* What a DH step leaves.
LEMMA DhFacts ==
    ASSUME NEW s \in RatchetState, NEW dh \in Public
    PROVE  Steps(s, dh, DhRatchet(s, dh))
  <1>0. PICK t : t = DhRatchet(s, dh)
    BY Zenon
  <1> DEFINE root == KdfRk(s.root, Dh(s.self, dh))
             self == <<s.self[1], s.self[2] + 1>>
             next == KdfRk(root, Dh(self, dh))
  <1>1. s.self \in Public /\ s.root \in Chain /\ s.Ns \in Nat
    BY Zenon DEF RatchetState
  <1>2. self \in Public
    BY <1>1 DEF Public
  <1> HIDE DEF self
  <1>3. root \in Chain
    BY <1>1 DEF Chain, KdfRk, Dh
  <1> HIDE DEF root
  <1>4. next \in Chain
    BY <1>2, <1>3 DEF Chain, KdfRk, Dh
  <1>5. t = [s EXCEPT !.PN = s.Ns, !.Ns = 0, !.Nr = 0, !.remote = dh, !.rc = root,
                      !.self = self, !.root = next, !.sc = next]
    BY <1>0, Zenon DEF DhRatchet, root, self
  <1> HIDE DEF next
  <1>6. /\ t \in RatchetState
        /\ t.rc = root /\ t.remote = dh /\ t.Nr = 0 /\ t.self = self /\ t.PN = s.Ns /\ t.Ns = 0
        /\ t.sc = next /\ t.root = next /\ t.skipped = s.skipped /\ t.gone = s.gone
    <2>1. PICK u : u = [s EXCEPT !.PN = s.Ns, !.Ns = 0, !.Nr = 0, !.remote = dh]
      BY Zenon
    <2>2. u \in RatchetState /\ u.PN = s.Ns /\ u.Ns = 0 /\ u.Nr = 0 /\ u.remote = dh /\ u.skipped = s.skipped /\ u.gone = s.gone
      BY <1>1, <2>1, Zenon DEF RatchetState
    <2>3. t = [u EXCEPT !.rc = root, !.self = self, !.root = next, !.sc = next]
      BY <1>5, <2>1, Zenon
    <2> QED  BY <1>2, <1>3, <1>4, <2>2, <2>3, Zenon DEF RatchetState
  <1> QED  BY <1>0, <1>6, Zenon DEF Steps, root, self, next

\* d gives the key of the place of h on the receiving chain of s, and the
\* state with the keys before it stashed and the chain past it.
MovesOn(s, h, d) ==
    /\ h.n >= s.Nr /\ d.key = KdfCk(s.rc, h.n) /\ d.next \in RatchetState
    /\ d.next.root = s.root /\ d.next.sc = s.sc /\ d.next.rc = s.rc /\ d.next.self = s.self
    /\ d.next.remote = s.remote /\ d.next.Ns = s.Ns /\ d.next.PN = s.PN /\ d.next.Nr = h.n + 1
    /\ \A i \in DOMAIN d.next.skipped :
          \/ \E j \in DOMAIN s.skipped : d.next.skipped[i] = s.skipped[j]
          \/ /\ d.next.skipped[i].dh = s.remote /\ d.next.skipped[i].n < h.n
             /\ d.next.skipped[i].key = KdfCk(s.rc, d.next.skipped[i].n)
    /\ Ids(s.skipped) \subseteq Ids(d.next.skipped) \cup d.next.gone /\ s.gone \subseteq d.next.gone
    /\ \A n \in s.Nr .. h.n - 1 : <<s.remote, n>> \in Ids(d.next.skipped) \cup d.next.gone

\* d gives the key of the place of h on the chain of the new DH key, and the
\* state after the old chain was finished and the DH step taken.
TurnsOver(s, h, d) ==
    LET rc == KdfRk(s.root, Dh(s.self, h.dh))
    IN  /\ d.key = KdfCk(rc, h.n) /\ d.next \in RatchetState
        /\ d.next.rc = rc /\ d.next.self = <<s.self[1], s.self[2] + 1>> /\ d.next.remote = h.dh
        /\ d.next.sc = KdfRk(rc, Dh(d.next.self, h.dh)) /\ d.next.root = d.next.sc
        /\ d.next.Ns = 0 /\ d.next.PN = s.Ns /\ d.next.Nr = h.n + 1
        /\ \A i \in DOMAIN d.next.skipped :
              \/ \E j \in DOMAIN s.skipped : d.next.skipped[i] = s.skipped[j]
              \/ /\ s.rc # None /\ d.next.skipped[i].dh = s.remote
                 /\ d.next.skipped[i].key = KdfCk(s.rc, d.next.skipped[i].n)
              \/ /\ d.next.skipped[i].dh = h.dh /\ d.next.skipped[i].n < h.n
                 /\ d.next.skipped[i].key = KdfCk(rc, d.next.skipped[i].n)
        /\ Ids(s.skipped) \subseteq Ids(d.next.skipped) \cup d.next.gone /\ s.gone \subseteq d.next.gone
        /\ s.rc # None => \A n \in s.Nr .. h.pn - 1 : <<s.remote, n>> \in Ids(d.next.skipped) \cup d.next.gone
        /\ \A n \in 0 .. h.n - 1 : <<h.dh, n>> \in Ids(d.next.skipped) \cup d.next.gone

\* ratchetDecrypt on the present receiving chain: it refuses a place the chain
\* is past and one too far ahead, else it gives the key of the place, stashes
\* those before it and moves on.
LEMMA DecryptOnChain ==
    ASSUME NEW s \in RatchetState, NEW h \in Header, Id(h) \notin Ids(s.skipped), h.dh = s.remote, s.rc # None
    PROVE  \/ RatchetDecrypt(s, h) = Throws /\ (h.n < s.Nr \/ h.n > s.Nr + MaxSkip)
           \/ MovesOn(s, h, RatchetDecrypt(s, h))
  <1>0. PICK d : d = RatchetDecrypt(s, h)
    BY Zenon
  <1>1. s.Nr \in Nat /\ h.n \in Nat /\ MaxSkip \in Nat
    BY RatchetAssumption, Zenon DEF RatchetState, Header
  <1>2. PICK at : at = SkipMessageKeys(s, h.n)
    BY Zenon
  <1>3. d = IF h.n < s.Nr \/ ~SkipAllowed(s, h.n) THEN Throws ELSE [key |-> KdfCk(at.rc, at.Nr), next |-> [at EXCEPT !.Nr = @ + 1]]
    BY <1>0, <1>2, Zenon DEF RatchetDecrypt
  <1>4. ASSUME h.n < s.Nr \/ ~SkipAllowed(s, h.n)
        PROVE  d = Throws /\ (h.n < s.Nr \/ h.n > s.Nr + MaxSkip)
    <2>1. d = Throws
      BY <1>3, <1>4, Zenon
    <2>2. h.n < s.Nr \/ h.n > s.Nr + MaxSkip
      BY <1>1, <1>4 DEF SkipAllowed
    <2> QED  BY <2>1, <2>2, Zenon
  <1>5. ASSUME ~(h.n < s.Nr \/ ~SkipAllowed(s, h.n)) PROVE MovesOn(s, h, d)
    <2>1. h.n >= s.Nr /\ (s.Nr >= h.n => s.Nr = h.n)
      BY <1>1, <1>5
    <2>2. /\ at \in RatchetState
          /\ at.root = s.root /\ at.sc = s.sc /\ at.rc = s.rc /\ at.self = s.self /\ at.remote = s.remote
          /\ at.Ns = s.Ns /\ at.PN = s.PN
          /\ at.Nr = IF s.rc = None \/ s.Nr >= h.n THEN s.Nr ELSE h.n
          /\ \A i \in DOMAIN at.skipped :
                 \/ \E j \in DOMAIN s.skipped : at.skipped[i] = s.skipped[j]
                 \/ /\ s.rc # None /\ at.skipped[i].dh = s.remote /\ at.skipped[i].n < h.n
                    /\ at.skipped[i].key = KdfCk(s.rc, at.skipped[i].n)
          /\ Ids(s.skipped) \subseteq Ids(at.skipped) \cup at.gone /\ s.gone \subseteq at.gone
          /\ s.rc # None => \A n \in s.Nr .. h.n - 1 : <<s.remote, n>> \in Ids(at.skipped) \cup at.gone
      <3>1. Skips(s, h.n, at)
        BY <1>1, <1>2, SkipFacts, Zenon
      <3> QED  BY <3>1, Zenon DEF Skips
    <2>3. at.Nr = h.n
      BY <2>1, <2>2, Zenon
    <2>4. PICK n : n = [at EXCEPT !.Nr = h.n + 1]
      BY Zenon
    <2>5. d.key = KdfCk(s.rc, h.n) /\ d.next = n
      <3>1. d = [key |-> KdfCk(at.rc, at.Nr), next |-> [at EXCEPT !.Nr = @ + 1]]
        BY <1>3, <1>5, Zenon
      <3>2. d.key = KdfCk(at.rc, at.Nr) /\ d.next = [at EXCEPT !.Nr = at.Nr + 1]
        BY <3>1, Zenon
      <3> QED  BY <2>2, <2>3, <2>4, <3>2, Zenon
    <2>6. /\ n \in RatchetState /\ n.root = at.root /\ n.sc = at.sc /\ n.rc = at.rc /\ n.self = at.self
          /\ n.remote = at.remote /\ n.Ns = at.Ns /\ n.PN = at.PN /\ n.Nr = h.n + 1
          /\ n.skipped = at.skipped /\ n.gone = at.gone
      <3>1. h.n + 1 \in Nat /\ at \in RatchetState
        BY <1>1, <2>2
      <3> QED  BY <2>4, <3>1, Zenon DEF RatchetState
    <2>7. \A i \in DOMAIN n.skipped :
             \/ \E j \in DOMAIN s.skipped : n.skipped[i] = s.skipped[j]
             \/ n.skipped[i].dh = s.remote /\ n.skipped[i].n < h.n /\ n.skipped[i].key = KdfCk(s.rc, n.skipped[i].n)
      BY <2>2, <2>6, Zenon
    <2>8. /\ Ids(s.skipped) \subseteq Ids(n.skipped) \cup n.gone /\ s.gone \subseteq n.gone
          /\ \A m \in s.Nr .. h.n - 1 : <<s.remote, m>> \in Ids(n.skipped) \cup n.gone
      BY <2>2, <2>6, Zenon
    <2> QED  BY <2>1, <2>2, <2>5, <2>6, <2>7, <2>8, Zenon DEF MovesOn
  <1> QED  BY <1>0, <1>4, <1>5, Zenon

\* ratchetDecrypt of a message under a new DH key: it refuses when too much
\* is missing on either chain, else it finishes the old receiving chain, takes
\* a DH step, and moves to the place on the new one.
LEMMA DecryptNewDh ==
    ASSUME NEW s \in RatchetState, NEW h \in Header, Id(h) \notin Ids(s.skipped), h.dh # s.remote
    PROVE  \/ RatchetDecrypt(s, h) = Throws /\ (h.pn > s.Nr + MaxSkip \/ h.n > MaxSkip)
           \/ TurnsOver(s, h, RatchetDecrypt(s, h))
  <1>0. PICK d, rc : d = RatchetDecrypt(s, h) /\ rc = KdfRk(s.root, Dh(s.self, h.dh))
    BY Zenon
  <1>1. s.Nr \in Nat /\ h.n \in Nat /\ h.pn \in Nat /\ h.dh \in Public /\ MaxSkip \in Nat
    BY RatchetAssumption, Zenon DEF RatchetState, Header
  <1>2. PICK old : old = SkipMessageKeys(s, h.pn)
    BY Zenon
  <1>3. PICK now : now = DhRatchet(old, h.dh)
    BY Zenon
  <1>4. PICK at : at = SkipMessageKeys(now, h.n)
    BY Zenon
  <1>5. d = IF ~SkipAllowed(s, h.pn) \/ h.n < now.Nr \/ ~SkipAllowed(now, h.n) THEN Throws
            ELSE [key |-> KdfCk(at.rc, at.Nr), next |-> [at EXCEPT !.Nr = @ + 1]]
    BY <1>0, <1>2, <1>3, <1>4, Zenon DEF RatchetDecrypt
  <1>6. /\ old \in RatchetState /\ old.root = s.root /\ old.self = s.self /\ old.Ns = s.Ns
        /\ \A i \in DOMAIN old.skipped :
               \/ \E j \in DOMAIN s.skipped : old.skipped[i] = s.skipped[j]
               \/ /\ s.rc # None /\ old.skipped[i].dh = s.remote
                  /\ old.skipped[i].key = KdfCk(s.rc, old.skipped[i].n)
        /\ Ids(s.skipped) \subseteq Ids(old.skipped) \cup old.gone /\ s.gone \subseteq old.gone
        /\ s.rc # None => \A n \in s.Nr .. h.pn - 1 : <<s.remote, n>> \in Ids(old.skipped) \cup old.gone
    <2>1. Skips(s, h.pn, old)
      BY <1>1, <1>2, SkipFacts, Zenon
    <2> QED  BY <2>1, Zenon DEF Skips
  <1>7. /\ now \in RatchetState /\ now.rc = rc /\ now.remote = h.dh /\ now.Nr = 0
        /\ now.self = <<s.self[1], s.self[2] + 1>> /\ now.PN = s.Ns /\ now.Ns = 0
        /\ now.sc = KdfRk(rc, Dh(now.self, h.dh)) /\ now.root = now.sc
        /\ now.skipped = old.skipped /\ now.gone = old.gone
    <2>1. Steps(old, h.dh, now)
      BY <1>1, <1>3, <1>6, DhFacts, Zenon
    <2> QED  BY <1>0, <1>6, <2>1, Zenon DEF Steps
  <1>8. rc # None
    <2>1. s.root \in Seq(SUBSET Public) /\ s.self \in Public
      BY Zenon DEF RatchetState, Chain
    <2>2. Dh(s.self, h.dh) \in SUBSET Public
      BY <1>1, <2>1, Zenon DEF Dh
    <2>3. ASSUME NEW q \in Seq(SUBSET Public), NEW p \in SUBSET Public PROVE Append(q, p) # << >>
      <3>1. Len(Append(q, p)) = Len(q) + 1 /\ Len(q) \in Nat /\ Len(<< >>) = 0
        OBVIOUS
      <3> QED  BY <3>1
    <2> QED  BY <1>0, <2>1, <2>2, <2>3, Zenon DEF KdfRk, None
  <1>9. ASSUME ~SkipAllowed(s, h.pn) \/ h.n < now.Nr \/ ~SkipAllowed(now, h.n)
        PROVE  d = Throws /\ (h.pn > s.Nr + MaxSkip \/ h.n > MaxSkip)
    <2>1. d = Throws
      BY <1>5, <1>9, Zenon
    <2>2. h.pn > s.Nr + MaxSkip \/ h.n > MaxSkip
      BY <1>1, <1>7, <1>9 DEF SkipAllowed
    <2> QED  BY <2>1, <2>2, Zenon
  <1>10. ASSUME ~(~SkipAllowed(s, h.pn) \/ h.n < now.Nr \/ ~SkipAllowed(now, h.n)) PROVE TurnsOver(s, h, d)
    <2>1. now.Nr >= h.n => now.Nr = h.n
      BY <1>1, <1>7
    <2>2. /\ at \in RatchetState
          /\ at.root = now.root /\ at.sc = now.sc /\ at.rc = rc /\ at.self = now.self /\ at.remote = h.dh
          /\ at.Ns = 0 /\ at.PN = s.Ns
          /\ at.Nr = IF now.rc = None \/ now.Nr >= h.n THEN now.Nr ELSE h.n
          /\ \A i \in DOMAIN at.skipped :
                 \/ \E j \in DOMAIN old.skipped : at.skipped[i] = old.skipped[j]
                 \/ /\ at.skipped[i].dh = h.dh /\ at.skipped[i].n < h.n
                    /\ at.skipped[i].key = KdfCk(rc, at.skipped[i].n)
          /\ Ids(old.skipped) \subseteq Ids(at.skipped) \cup at.gone /\ old.gone \subseteq at.gone
          /\ now.rc # None => \A n \in 0 .. h.n - 1 : <<h.dh, n>> \in Ids(at.skipped) \cup at.gone
      <3>1. /\ at \in RatchetState
            /\ at.root = now.root /\ at.sc = now.sc /\ at.rc = now.rc /\ at.self = now.self /\ at.remote = now.remote
            /\ at.Ns = now.Ns /\ at.PN = now.PN
            /\ at.Nr = IF now.rc = None \/ now.Nr >= h.n THEN now.Nr ELSE h.n
            /\ \A i \in DOMAIN at.skipped :
                   \/ \E j \in DOMAIN now.skipped : at.skipped[i] = now.skipped[j]
                   \/ /\ now.rc # None /\ at.skipped[i].dh = now.remote /\ at.skipped[i].n < h.n
                      /\ at.skipped[i].key = KdfCk(now.rc, at.skipped[i].n)
            /\ Ids(now.skipped) \subseteq Ids(at.skipped) \cup at.gone /\ now.gone \subseteq at.gone
            /\ now.rc # None => \A n \in now.Nr .. h.n - 1 : <<now.remote, n>> \in Ids(at.skipped) \cup at.gone
        <4>1. Skips(now, h.n, at)
          BY <1>1, <1>4, <1>7, SkipFacts, Zenon
        <4> QED  BY <4>1, Zenon DEF Skips
      <3> QED  BY <1>7, <3>1, Zenon
    <2>3. at.Nr = h.n
      BY <1>7, <1>8, <2>1, <2>2, Zenon
    <2>4. PICK n : n = [at EXCEPT !.Nr = h.n + 1]
      BY Zenon
    <2>5. d.key = KdfCk(rc, h.n) /\ d.next = n
      <3>1. d = [key |-> KdfCk(at.rc, at.Nr), next |-> [at EXCEPT !.Nr = @ + 1]]
        BY <1>5, <1>10, Zenon
      <3>2. d.key = KdfCk(at.rc, at.Nr) /\ d.next = [at EXCEPT !.Nr = at.Nr + 1]
        BY <3>1, Zenon
      <3> QED  BY <2>2, <2>3, <2>4, <3>2, Zenon
    <2>6. /\ n \in RatchetState /\ n.root = at.root /\ n.sc = at.sc /\ n.rc = at.rc /\ n.self = at.self
          /\ n.remote = at.remote /\ n.Ns = at.Ns /\ n.PN = at.PN /\ n.Nr = h.n + 1
          /\ n.skipped = at.skipped /\ n.gone = at.gone
      <3>1. h.n + 1 \in Nat /\ at \in RatchetState
        BY <1>1, <2>2
      <3> QED  BY <2>4, <3>1, Zenon DEF RatchetState
    <2>7. \A i \in DOMAIN n.skipped :
             \/ \E j \in DOMAIN s.skipped : n.skipped[i] = s.skipped[j]
             \/ /\ s.rc # None /\ n.skipped[i].dh = s.remote
                /\ n.skipped[i].key = KdfCk(s.rc, n.skipped[i].n)
             \/ /\ n.skipped[i].dh = h.dh /\ n.skipped[i].n < h.n
                /\ n.skipped[i].key = KdfCk(rc, n.skipped[i].n)
      <3> SUFFICES ASSUME NEW i \in DOMAIN at.skipped, NEW k, k = at.skipped[i]
                   PROVE  \/ \E j \in DOMAIN s.skipped : k = s.skipped[j]
                          \/ s.rc # None /\ k.dh = s.remote /\ k.key = KdfCk(s.rc, k.n)
                          \/ k.dh = h.dh /\ k.n < h.n /\ k.key = KdfCk(rc, k.n)
        BY <2>6, Zenon
      <3>1. CASE \E j \in DOMAIN old.skipped : k = old.skipped[j]
        BY <1>6, <3>1, Zenon
      <3> QED  BY <2>2, <3>1, Zenon
    <2>8. /\ Ids(s.skipped) \subseteq Ids(n.skipped) \cup n.gone /\ s.gone \subseteq n.gone
          /\ s.rc # None => \A m \in s.Nr .. h.pn - 1 : <<s.remote, m>> \in Ids(n.skipped) \cup n.gone
          /\ \A m \in 0 .. h.n - 1 : <<h.dh, m>> \in Ids(n.skipped) \cup n.gone
      <3>1. Ids(old.skipped) \cup old.gone \subseteq Ids(n.skipped) \cup n.gone /\ old.gone \subseteq n.gone
        BY <2>2, <2>6, Zenon
      <3>2. \A m \in 0 .. h.n - 1 : <<h.dh, m>> \in Ids(n.skipped) \cup n.gone
        BY <1>7, <1>8, <2>2, <2>6, Zenon
      <3> QED  BY <1>6, <3>1, <3>2, Zenon
    <2>9. /\ d.next \in RatchetState /\ d.next.rc = rc /\ d.next.self = <<s.self[1], s.self[2] + 1>> /\ d.next.remote = h.dh
          /\ d.next.sc = KdfRk(rc, Dh(d.next.self, h.dh)) /\ d.next.root = d.next.sc
          /\ d.next.Ns = 0 /\ d.next.PN = s.Ns /\ d.next.Nr = h.n + 1
      BY <1>7, <2>2, <2>5, <2>6, Zenon
    <2>10. \A i \in DOMAIN d.next.skipped :
             \/ \E j \in DOMAIN s.skipped : d.next.skipped[i] = s.skipped[j]
             \/ /\ s.rc # None /\ d.next.skipped[i].dh = s.remote
                /\ d.next.skipped[i].key = KdfCk(s.rc, d.next.skipped[i].n)
             \/ /\ d.next.skipped[i].dh = h.dh /\ d.next.skipped[i].n < h.n
                /\ d.next.skipped[i].key = KdfCk(rc, d.next.skipped[i].n)
      BY <2>5, <2>7, Zenon
    <2>11. /\ Ids(s.skipped) \subseteq Ids(d.next.skipped) \cup d.next.gone /\ s.gone \subseteq d.next.gone
           /\ s.rc # None => \A m \in s.Nr .. h.pn - 1 : <<s.remote, m>> \in Ids(d.next.skipped) \cup d.next.gone
           /\ \A m \in 0 .. h.n - 1 : <<h.dh, m>> \in Ids(d.next.skipped) \cup d.next.gone
      BY <2>5, <2>8, Zenon
    <2> QED  BY <1>0, <2>5, <2>9, <2>10, <2>11, Zenon DEF TurnsOver
  <1> QED  BY <1>0, <1>9, <1>10, Zenon

\* The parts of a header.
LEMMA HeaderFacts ==
    ASSUME NEW h \in Header
    PROVE  /\ h.dh \in Public /\ h.dh[1] \in Ends /\ h.dh[2] \in Nat /\ h.dh = <<h.dh[1], h.dh[2]>>
           /\ h.n \in Nat /\ h.pn \in Nat /\ h.key \in MessageKey /\ h.key.chain \in Chain /\ h.key.n \in Nat
           /\ h.key = KdfCk(h.key.chain, h.key.n)
  BY DEF Header, MessageKey, Public, KdfCk

\* The parts of a state.
LEMMA StateFacts ==
    ASSUME NEW s \in RatchetState
    PROVE  /\ s.root \in Chain /\ s.sc \in Chain /\ s.rc \in Chain /\ s.Ns \in Nat /\ s.Nr \in Nat /\ s.PN \in Nat
           /\ s.self \in Public /\ s.self[1] \in Ends /\ s.self[2] \in Nat /\ s.self = <<s.self[1], s.self[2]>>
           /\ s.remote \in Public /\ s.remote[1] \in Ends /\ s.remote[2] \in Nat /\ s.remote = <<s.remote[1], s.remote[2]>>
           /\ s.skipped \in Seq(Skipped) /\ \A i \in DOMAIN s.skipped : s.skipped[i] \in Skipped
  BY DEF RatchetState, Public

\* The states and headers of an end.
LEMMA TypedFacts ==
    ASSUME RatchetTyped, NEW e \in Ends
    PROVE  /\ st[e] \in RatchetState /\ sent[e] \in Seq(Header) /\ DOMAIN sent[e] = 1 .. Len(sent[e])
           /\ Len(sent[e]) \in Nat /\ \A m \in DOMAIN sent[e] : sent[e][m] \in Header
  <1>1. st[e] \in RatchetState /\ sent[e] \in Seq(Header)
    BY Zenon DEF RatchetTyped
  <1>2. PICK q \in Seq(Header) : q = sent[e]
    BY <1>1, Zenon
  <1>3. DOMAIN q = 1 .. Len(q) /\ Len(q) \in Nat /\ \A m \in DOMAIN q : q[m] \in Header
    OBVIOUS
  <1> QED  BY <1>1, <1>2, <1>3, Zenon

\* e adopts the state n with message m read (decryptMessageChunk).
Adopts(e, m, n) ==
    /\ n \in RatchetState /\ st' = [st EXCEPT ![e] = n] /\ sent' = sent
    /\ got' \in [Ends -> [1 .. MaxSent -> Nat]] /\ got'[Other(e)] = got[Other(e)]
    /\ \A i \in 1 .. MaxSent : Opened(e, i) => Opened(e, i)'
    /\ m \in DOMAIN sent[Other(e)] /\ Opened(e, m)'

\* What adopting a state leaves alone.
Adopted(e, x, n) ==
    /\ RatchetTyped' /\ st'[e] = n /\ st'[x] = st[x] /\ sent' = sent
    /\ \A i \in DOMAIN sent[x] : Opened(e, i) => Opened(e, i)'
    /\ \A i \in DOMAIN sent[e] : Opened(x, i)' <=> Opened(x, i)
    /\ Sender(x)'

\* The rest is left alone.
LEMMA AdoptFacts ==
    ASSUME RatchetInv, NEW e \in Ends, NEW m, NEW n, Adopts(e, m, n), NEW x \in Ends, x = Other(e)
    PROVE  Adopted(e, x, n)
  <1>1. x # e /\ st \in [Ends -> RatchetState] /\ n \in RatchetState /\ st' = [st EXCEPT ![e] = n] /\ sent' = sent
    BY EndFacts, Zenon DEF RatchetInv, RatchetTyped, Adopts
  <1>2. st' \in [Ends -> RatchetState] /\ st'[e] = n /\ st'[x] = st[x]
    BY <1>1, Zenon
  <1>3. RatchetTyped'
    BY <1>1, <1>2, Zenon DEF RatchetInv, RatchetTyped, Adopts
  <1>4. \A i \in DOMAIN sent[x] : i \in 1 .. MaxSent
    <2>1. DOMAIN sent[x] = 1 .. Len(sent[x]) /\ Len(sent[x]) \in Nat
      BY TypedFacts, Zenon DEF RatchetInv
    <2>2. Len(sent[x]) <= MaxSent
      BY Zenon DEF RatchetInv, RatchetTyped
    <2> QED  BY <2>1, <2>2, RatchetAssumption
  <1>5. \A i \in DOMAIN sent[x] : Opened(e, i) => Opened(e, i)'
    BY <1>4, Zenon DEF Adopts
  <1>6. \A i \in DOMAIN sent[e] : Opened(x, i)' <=> Opened(x, i)
    BY Zenon DEF Adopts, Opened
  <1>7. Sender(x)'
    <2>1. Sender(x)
      BY Zenon DEF RatchetInv
    <2> QED  BY <1>1, <1>2, <2>1, ZenonT(40) DEF Sender, Given, Used
  <1> QED  BY <1>1, <1>2, <1>3, <1>5, <1>6, <1>7, Zenon DEF Adopted

\* A state that differs in its receiving place and skipped keys only is
\* nothing to the peer.
LEMMA SameSide ==
    ASSUME RatchetInv, NEW e \in Ends, NEW m, NEW n, Adopts(e, m, n), NEW x \in Ends, x = Other(e),
           n.root = st[e].root, n.sc = st[e].sc, n.rc = st[e].rc, n.self = st[e].self, n.remote = st[e].remote,
           n.Ns = st[e].Ns, n.PN = st[e].PN, Receiver(e)'
    PROVE  RatchetInv'
  <1>0. Adopted(e, x, n)
    BY AdoptFacts, Zenon
  <1>1. /\ RatchetTyped' /\ st'[e] = n /\ st'[x] = st[x] /\ sent' = sent /\ Sender(x)'
        /\ \A i \in DOMAIN sent[e] : Opened(x, i)' <=> Opened(x, i)
    BY <1>0, Zenon DEF Adopted
  <1>2. Other(x) = e /\ x # e /\ \A y \in Ends : y = e \/ y = x
    BY EndFacts, Zenon
  <1>3. Sender(e) /\ Receiver(x)
    BY Zenon DEF RatchetInv
  <1>4. /\ st'[e].root = st[e].root /\ st'[e].sc = st[e].sc /\ st'[e].rc = st[e].rc /\ st'[e].self = st[e].self
        /\ st'[e].remote = st[e].remote /\ st'[e].Ns = st[e].Ns /\ st'[e].PN = st[e].PN
    BY <1>1, Zenon
  <1>5. Sender(e)'
    <2>1. \A h : Given(e, h) => Given(e, h)'
      BY <1>4, Zenon DEF Given, Used
    <2> QED  BY <1>1, <1>3, <1>4, <2>1, Zenon DEF Sender
  <1>6. Receiver(x)'
    <2>1. \A k : KeyFrom(e, k) => KeyFrom(e, k)'
      BY <1>1, <1>4, Zenon DEF KeyFrom, Used
    <2>2. \A i \in DOMAIN sent[e] : InReach(st[x], Opened(x, i), sent[e][i]) => InReach(st'[x], Opened(x, i)', sent'[e][i])
      BY <1>1, Zenon DEF InReach
    <2> QED  BY <1>1, <1>2, <1>3, <1>4, <2>1, <2>2, Zenon DEF Receiver
  <1>7. \E y \in Ends : Lags(y)'
    <2>1. PICK y \in Ends : Lags(y)
      BY Zenon DEF RatchetInv
    <2>2. CASE y = e
      BY <1>1, <1>4, <2>1, <2>2, Zenon DEF Lags
    <2>3. CASE y = x
      BY <1>1, <1>2, <1>4, <2>1, <2>3, ZenonT(40) DEF Lags
    <2> QED  BY <1>2, <2>1, <2>2, <2>3, Zenon
  <1> QED  BY <1>1, <1>2, <1>5, <1>6, <1>7, Zenon DEF RatchetInv

\* A message read with a skipped key.
LEMMA TakenKeeps ==
    ASSUME RatchetInv, NEW e \in Ends, NEW m, NEW h, h = sent[Other(e)][m],
           NEW d, TakesOut(st[e], h, d), Adopts(e, m, d.next)
    PROVE  RatchetInv'
  <1>0. PICK x, n : x \in Ends /\ x = Other(e) /\ n = d.next
    BY EndFacts, Zenon
  <1>1. /\ st'[e] = n /\ st'[x] = st[x] /\ sent' = sent
        /\ \A i \in DOMAIN sent[x] : Opened(e, i) => Opened(e, i)'
    <2>1. Adopted(e, x, n)
      BY <1>0, AdoptFacts, Zenon
    <2> QED  BY <2>1, Zenon DEF Adopted
  <1>2. /\ n.root = st[e].root /\ n.sc = st[e].sc /\ n.rc = st[e].rc /\ n.self = st[e].self /\ n.remote = st[e].remote
        /\ n.Ns = st[e].Ns /\ n.PN = st[e].PN /\ n.Nr = st[e].Nr
        /\ \A i \in DOMAIN n.skipped : \E j \in DOMAIN st[e].skipped : n.skipped[i] = st[e].skipped[j]
        /\ Ids(st[e].skipped) \ {Id(h)} \subseteq Ids(n.skipped) /\ n.gone = st[e].gone
    BY <1>0, Zenon DEF TakesOut
  <1>3. Sender(x) /\ Receiver(e) /\ m \in DOMAIN sent[x] /\ Opened(e, m)'
    BY <1>0, Zenon DEF RatchetInv, Adopts
  <1>4. \A k : KeyFrom(x, k) => KeyFrom(x, k)'
    BY <1>1, Zenon DEF KeyFrom, Used
  <1>5. n.remote = st[x].self => n.Nr <= st[x].Ns
    BY <1>0, <1>2, <1>3, Zenon DEF Receiver
  <1>6. \A k \in DOMAIN n.skipped : KeyFrom(x, n.skipped[k])
    BY <1>0, <1>2, <1>3, Zenon DEF Receiver
  <1>7. ASSUME NEW i \in DOMAIN sent[x]
        PROVE  InReach(n, Opened(e, i)', sent[x][i])
    <2>0. InReach(st[e], Opened(e, i), sent[x][i])
      BY <1>0, <1>3, Zenon DEF Receiver
    <2>1. sent[x][i].dh = n.remote => n.rc # None /\ sent[x][i].key.chain = n.rc
      BY <1>2, <2>0, Zenon DEF InReach
    <2>2. ASSUME ~Opened(e, i)', Passed(n, sent[x][i]) PROVE Id(sent[x][i]) \in Ids(n.skipped) \cup n.gone
      <3>1. i # m /\ ~Opened(e, i) /\ Passed(st[e], sent[x][i])
        BY <1>1, <1>2, <1>3, <1>7, <2>2, Zenon DEF Passed
      <3>2. Id(sent[x][i]) \in Ids(st[e].skipped) \cup st[e].gone
        BY <2>0, <3>1, Zenon DEF InReach
      <3>3. Id(sent[x][i]) # Id(h)
        BY <1>0, <1>3, <1>7, <3>1, Zenon DEF Sender
      <3> QED  BY <1>2, <3>2, <3>3, Zenon
    <2> QED  BY <2>1, <2>2, Zenon DEF InReach
  <1>8. Receiver(e)'
    BY <1>0, <1>1, <1>4, <1>5, <1>6, <1>7, Zenon DEF Receiver
  <1> QED  BY <1>0, <1>2, <1>8, SameSide, Zenon

\* A message read on the present receiving chain.
LEMMA MovedKeeps ==
    ASSUME RatchetInv, NEW e \in Ends, NEW m, NEW h, h = sent[Other(e)][m], h.dh = st[e].remote,
           NEW d, MovesOn(st[e], h, d), Adopts(e, m, d.next)
    PROVE  RatchetInv'
  <1>0. PICK x, n, s : x \in Ends /\ x = Other(e) /\ n = d.next /\ s = st[e]
    BY EndFacts, Zenon
  <1>1. /\ st'[e] = n /\ st'[x] = st[x] /\ sent' = sent
        /\ \A i \in DOMAIN sent[x] : Opened(e, i) => Opened(e, i)'
    <2>1. Adopted(e, x, n)
      BY <1>0, AdoptFacts, Zenon
    <2> QED  BY <2>1, Zenon DEF Adopted
  <1>2. /\ n.root = s.root /\ n.sc = s.sc /\ n.rc = s.rc /\ n.self = s.self /\ n.remote = s.remote
        /\ n.Ns = s.Ns /\ n.PN = s.PN /\ n.Nr = h.n + 1
        /\ \A i \in DOMAIN n.skipped :
              \/ \E j \in DOMAIN s.skipped : n.skipped[i] = s.skipped[j]
              \/ n.skipped[i].dh = s.remote /\ n.skipped[i].n < h.n /\ n.skipped[i].key = KdfCk(s.rc, n.skipped[i].n)
        /\ Ids(s.skipped) \subseteq Ids(n.skipped) \cup n.gone /\ s.gone \subseteq n.gone
        /\ \A k \in s.Nr .. h.n - 1 : <<s.remote, k>> \in Ids(n.skipped) \cup n.gone
    BY <1>0, Zenon DEF MovesOn
  <1>3. Sender(x) /\ Receiver(e) /\ m \in DOMAIN sent[x] /\ Opened(e, m)' /\ Given(x, h)
    BY <1>0, Zenon DEF RatchetInv, Adopts, Sender
  <1>4. \A k : KeyFrom(x, k) => KeyFrom(x, k)'
    BY <1>1, Zenon DEF KeyFrom, Used
  <1>5. /\ st[x] \in RatchetState /\ s \in RatchetState /\ n \in RatchetState
        /\ h \in Header /\ \A i \in DOMAIN sent[x] : sent[x][i] \in Header
    BY <1>0, <1>3, TypedFacts, Zenon DEF RatchetInv, Adopts
  <1>6. /\ st[x].self[2] \in Nat /\ st[x].Ns \in Nat /\ s.Nr \in Nat /\ h.n \in Nat /\ h.dh[2] \in Nat
        /\ s.rc \in Chain /\ \A k \in DOMAIN n.skipped : n.skipped[k] \in Skipped
    BY <1>5, StateFacts, HeaderFacts, Zenon
  <1>7. n.remote = st[x].self => n.Nr <= st[x].Ns
    <2>1. n.remote = st[x].self => h.dh = st[x].self /\ Used(x, h.dh, h.n)
      BY <1>0, <1>2, <1>3, Zenon DEF Given
    <2> QED  BY <1>2, <1>6, <2>1 DEF Used
  <1>8. ASSUME NEW k \in DOMAIN n.skipped PROVE KeyFrom(x, n.skipped[k])
    <2>1. CASE \E j \in DOMAIN s.skipped : n.skipped[k] = s.skipped[j]
      BY <1>0, <1>3, <2>1, Zenon DEF Receiver
    <2>2. ASSUME NEW y \in Skipped, y.dh = s.remote, y.n < h.n, y.key = KdfCk(s.rc, y.n) PROVE KeyFrom(x, y)
      <3>1. Used(x, y.dh, y.n)
        <4>1. y.n \in Nat /\ y.dh = h.dh /\ Used(x, h.dh, h.n)
          BY <1>0, <1>3, <2>2, Zenon DEF Skipped, Given
        <4> QED  BY <1>6, <2>2, <4>1 DEF Used
      <3>2. ASSUME NEW i \in DOMAIN sent[x], Id(sent[x][i]) = Id(y) PROVE sent[x][i].key = y.key
        <4>1. sent[x][i].dh = y.dh /\ sent[x][i].n = y.n
          BY <3>2, Zenon DEF Id
        <4>2. Given(x, sent[x][i]) /\ InReach(s, Opened(e, i), sent[x][i]) /\ sent[x][i] \in Header
          BY <1>0, <1>3, <1>5, Zenon DEF Sender, Receiver
        <4>3. sent[x][i].key.chain = s.rc /\ sent[x][i].key.n = y.n
          BY <2>2, <4>1, <4>2, Zenon DEF InReach, Given
        <4> QED  BY <2>2, <4>2, <4>3, HeaderFacts, Zenon
      <3> QED  BY <3>1, <3>2, Zenon DEF KeyFrom
    <2> QED  BY <1>2, <1>6, <2>1, <2>2, Zenon
  <1>9. ASSUME NEW i \in DOMAIN sent[x]
        PROVE  InReach(n, Opened(e, i)', sent[x][i])
    <2>0. InReach(s, Opened(e, i), sent[x][i])
      BY <1>0, <1>3, Zenon DEF Receiver
    <2>1. sent[x][i].dh = n.remote => n.rc # None /\ sent[x][i].key.chain = n.rc
      BY <1>2, <2>0, Zenon DEF InReach
    <2>2. ASSUME ~Opened(e, i)', Passed(n, sent[x][i]) PROVE Id(sent[x][i]) \in Ids(n.skipped) \cup n.gone
      <3>1. i # m /\ ~Opened(e, i)
        BY <1>1, <1>3, <2>2, Zenon
      <3>2. CASE Passed(s, sent[x][i])
        BY <1>2, <2>0, <3>1, <3>2, Zenon DEF InReach
      <3>3. CASE ~Passed(s, sent[x][i])
        <4>1. PICK y \in Header : y = sent[x][i]
          BY <1>5, Zenon
        <4>2. y.dh = s.remote /\ y.n < h.n + 1 /\ ~(y.n < s.Nr)
          BY <1>2, <2>2, <3>3, <4>1, Zenon DEF Passed
        <4>3. y.n # h.n
          <5>1. Id(y) # Id(h)
            BY <1>0, <1>3, <3>1, <4>1, Zenon DEF Sender
          <5> QED  BY <1>0, <4>2, <5>1, Zenon DEF Id
        <4>4. y.n \in s.Nr .. h.n - 1
          BY <1>6, <4>2, <4>3, HeaderFacts
        <4> QED  BY <1>2, <4>1, <4>2, <4>4, Zenon DEF Id
      <3> QED  BY <3>2, <3>3, Zenon
    <2> QED  BY <2>1, <2>2, Zenon DEF InReach
  <1>10. Receiver(e)'
    BY <1>0, <1>1, <1>4, <1>7, <1>8, <1>9, Zenon DEF Receiver
  <1> QED  BY <1>0, <1>2, <1>10, SameSide, Zenon

\* A key is used once in a DH step by its peer: what decrypts under a new DH
\* key is of the peer's present key, and the peer has seen one's own.
LEMMA NewDhIsPresent ==
    ASSUME RatchetInv, NEW e \in Ends, NEW x \in Ends, x = Other(e), NEW m \in DOMAIN sent[x], NEW h, h = sent[x][m],
           h.dh # st[e].remote, h.key.chain = KdfRk(st[e].root, Dh(st[e].self, h.dh))
    PROVE  Lags(e) /\ h.dh = st[x].self
  <1>1. st[e] \in RatchetState /\ st[x] \in RatchetState /\ h \in Header /\ Given(x, h)
    BY TypedFacts, Zenon DEF RatchetInv, Sender
  <1>2. st[e].root \in Chain /\ st[x].sc \in Chain /\ st[x].root \in Chain /\ h.key.chain \in Chain
    BY <1>1, StateFacts, HeaderFacts, Zenon
  <1>3. Len(st[e].root) \in Nat /\ Len(st[x].sc) \in Nat /\ Len(h.key.chain) = Len(st[e].root) + 1
    <2>1. PICK r \in Seq(SUBSET Public), s \in Seq(SUBSET Public) : r = st[e].root /\ s = st[x].sc
      BY <1>2, Zenon DEF Chain
    <2>2. PICK p : p = Dh(st[e].self, h.dh)
      BY Zenon
    <2>3. p \in SUBSET Public
      BY <1>1, <2>2, StateFacts, HeaderFacts DEF Dh
    <2>4. Len(r) \in Nat /\ Len(s) \in Nat /\ Len(Append(r, p)) = Len(r) + 1
      BY <2>3
    <2> QED  BY <2>1, <2>2, <2>4, Zenon DEF KdfRk
  <1>4. st[e].root = st[e].sc /\ st[x].root = st[x].sc
    BY Zenon DEF RatchetInv, Sender
  <1>5. Lags(e)
    <2>1. SUFFICES ASSUME Lags(x) PROVE FALSE
      BY EndFacts, Zenon DEF RatchetInv
    <2>2. st[e].sc = KdfRk(st[x].root, Dh(st[x].self, st[e].self)) /\ st[e].remote = st[x].self
      BY <2>1, EndFacts, Zenon DEF Lags
    <2>3. Len(st[e].root) = Len(st[x].sc) + 1
      <3>1. PICK r \in Seq(SUBSET Public) : r = st[x].root
        BY <1>2, Zenon DEF Chain
      <3>2. PICK p : p = Dh(st[x].self, st[e].self)
        BY Zenon
      <3>3. p \in SUBSET Public
        BY <1>1, <3>2, StateFacts, Zenon DEF Dh
      <3>4. Len(Append(r, p)) = Len(r) + 1
        BY <3>3
      <3> QED  BY <1>4, <2>2, <3>1, <3>2, <3>4, Zenon DEF KdfRk
    <2>4. Len(h.key.chain) < Len(st[x].sc)
      BY <1>1, <2>2, Zenon DEF Given
    <2> QED  BY <1>3, <2>3, <2>4
  <1>6. Len(st[x].sc) = Len(st[e].root) + 1
    <2>1. PICK r \in Seq(SUBSET Public) : r = st[e].root
      BY <1>2, Zenon DEF Chain
    <2>2. PICK p : p = Dh(st[e].self, st[x].self)
      BY Zenon
    <2>3. p \in SUBSET Public
      BY <1>1, <2>2, StateFacts DEF Dh
    <2>4. Len(Append(r, p)) = Len(r) + 1
      BY <2>3
    <2> QED  BY <1>5, <2>1, <2>2, <2>4, Zenon DEF KdfRk, Lags
  <1>7. ASSUME h.dh # st[x].self PROVE FALSE
    <2>1. Len(h.key.chain) < Len(st[x].sc)
      BY <1>1, <1>7, Zenon DEF Given
    <2> QED  BY <1>3, <1>6, <2>1
  <1> QED  BY <1>5, <1>7, Zenon

\* A message read under a new DH key: the sides change roles.
LEMMA TurnedKeeps ==
    ASSUME RatchetInv, NEW e \in Ends, NEW m, NEW h, h = sent[Other(e)][m], h.dh # st[e].remote,
           NEW d, d.key = h.key, TurnsOver(st[e], h, d), Adopts(e, m, d.next)
    PROVE  RatchetInv'
  <1>0. PICK x, n, s, y : x \in Ends /\ x = Other(e) /\ n = d.next /\ s = st[e] /\ y = st[x]
    BY EndFacts, Zenon
  <1>1. /\ RatchetTyped' /\ st'[e] = n /\ st'[x] = y /\ sent' = sent /\ Sender(x)'
        /\ \A i \in DOMAIN sent[x] : Opened(e, i) => Opened(e, i)'
        /\ \A i \in DOMAIN sent[e] : Opened(x, i)' <=> Opened(x, i)
    <2>1. Adopted(e, x, n)
      BY <1>0, AdoptFacts, Zenon
    <2> QED  BY <1>0, <2>1, Zenon DEF Adopted
  <1>2. PICK rc : /\ rc = KdfRk(s.root, Dh(s.self, h.dh)) /\ d.key = KdfCk(rc, h.n)
        /\ n.rc = rc /\ n.self = <<s.self[1], s.self[2] + 1>> /\ n.remote = h.dh
        /\ n.sc = KdfRk(rc, Dh(n.self, h.dh)) /\ n.root = n.sc
        /\ n.Ns = 0 /\ n.PN = s.Ns /\ n.Nr = h.n + 1
    BY <1>0, Zenon DEF TurnsOver
  <1>3. \A i \in DOMAIN n.skipped :
              \/ \E j \in DOMAIN s.skipped : n.skipped[i] = s.skipped[j]
              \/ s.rc # None /\ n.skipped[i].dh = s.remote /\ n.skipped[i].key = KdfCk(s.rc, n.skipped[i].n)
              \/ n.skipped[i].dh = h.dh /\ n.skipped[i].n < h.n /\ n.skipped[i].key = KdfCk(rc, n.skipped[i].n)
    BY <1>0, <1>2, Zenon DEF TurnsOver
  <1>4. /\ Ids(s.skipped) \subseteq Ids(n.skipped) \cup n.gone /\ s.gone \subseteq n.gone
        /\ s.rc # None => \A k \in s.Nr .. h.pn - 1 : <<s.remote, k>> \in Ids(n.skipped) \cup n.gone
        /\ \A k \in 0 .. h.n - 1 : <<h.dh, k>> \in Ids(n.skipped) \cup n.gone
    BY <1>0, Zenon DEF TurnsOver
  <1>5. /\ Sender(x) /\ Receiver(e) /\ Sender(e) /\ Receiver(x)
        /\ m \in DOMAIN sent[x] /\ Opened(e, m)' /\ Given(x, h)
    BY <1>0, Zenon DEF RatchetInv, Adopts, Sender
  <1>6. Other(x) = e /\ x # e /\ \A z \in Ends : z = e \/ z = x
    BY <1>0, EndFacts, Zenon
  <1>7. /\ y \in RatchetState /\ s \in RatchetState /\ n \in RatchetState /\ h \in Header
        /\ \A i \in DOMAIN sent[x] : sent[x][i] \in Header
        /\ \A i \in DOMAIN sent[e] : sent[e][i] \in Header
    BY <1>0, <1>5, TypedFacts, Zenon DEF RatchetInv, Adopts
  <1>8. /\ y.self[2] \in Nat /\ y.Ns \in Nat /\ y.PN \in Nat /\ y.self \in Public /\ y.self = <<y.self[1], y.self[2]>>
        /\ s.Nr \in Nat /\ s.Ns \in Nat /\ s.self[2] \in Nat /\ s.self = <<s.self[1], s.self[2]>> /\ s.self \in Public
        /\ s.remote[2] \in Nat /\ s.remote = <<s.remote[1], s.remote[2]>> /\ s.root \in Chain /\ s.sc \in Chain
        /\ h.n \in Nat /\ h.pn \in Nat /\ h.dh[2] \in Nat /\ h.dh \in Public
        /\ n.self \in Public /\ \A k \in DOMAIN n.skipped : n.skipped[k] \in Skipped
    BY <1>7, StateFacts, HeaderFacts, Zenon
  <1>9. h.key.chain = rc
    BY <1>2 DEF KdfCk
  <1>10. Lags(e) /\ h.dh = y.self
    <2>1. h.key.chain = KdfRk(st[e].root, Dh(st[e].self, h.dh)) /\ h = sent[x][m] /\ m \in DOMAIN sent[x]
      BY <1>0, <1>2, <1>5, <1>9, Zenon
    <2>2. Lags(e) /\ h.dh = st[x].self
      BY <1>0, <2>1, NewDhIsPresent, Zenon
    <2> QED  BY <1>0, <2>2, Zenon
  <1>11. y.remote = s.self /\ s.remote = <<x, y.self[2] - 1>> /\ y.root = y.sc /\ rc = y.sc /\ y.sc # None /\ s.root = s.sc
        /\ h.pn = y.PN /\ y.self[1] = x /\ s.self[1] = e
    <2>1. y.remote = s.self /\ s.remote = <<x, y.self[2] - 1>> /\ y.sc = KdfRk(s.root, Dh(s.self, y.self))
      BY <1>0, <1>10, Zenon DEF Lags
    <2>2. y.root = y.sc /\ y.sc # None /\ y.self[1] = x /\ s.root = s.sc /\ s.self[1] = e
      BY <1>0, <1>5, Zenon DEF Sender
    <2>3. h.pn = y.PN
      BY <1>0, <1>5, <1>10, Zenon DEF Given
    <2> QED  BY <1>2, <1>10, <2>1, <2>2, <2>3, Zenon
  <1>12. n.self[1] = e /\ n.self[2] = s.self[2] + 1 /\ s.remote[1] = x /\ s.remote[2] = y.self[2] - 1
    BY <1>2, <1>11
  <1>13. \A dh \in Public : \A k : Used(e, dh, k) => dh[1] = e /\ dh[2] < n.self[2] /\ Used(e, dh, k)' /\ dh # n.self
    <2> SUFFICES ASSUME NEW dh \in Public, NEW k, Used(e, dh, k) PROVE dh[1] = e /\ dh[2] < n.self[2]
      <3>1. \A dh \in Public : dh[2] < n.self[2] => dh # n.self
        BY <1>8, <1>12
      <3> QED  BY <1>1, <3>1, Zenon DEF Used
    <2>1. dh[2] \in Nat /\ dh[1] = e
      BY Zenon DEF Public, Used
    <2>2. dh[2] < s.self[2] \/ dh = s.self
      BY <1>0, Zenon DEF Used
    <2> QED  BY <1>8, <1>12, <2>1, <2>2
  <1>14. Sender(e)'
    <2>1. Len(s.sc) \in Nat /\ Len(n.sc) = Len(s.sc) + 2 /\ n.sc # None
      <3>1. PICK r, p, q : r \in Seq(SUBSET Public) /\ r = s.sc /\ p = Dh(s.self, h.dh) /\ q = Dh(n.self, h.dh)
        BY <1>8, Zenon DEF Chain
      <3>2. p \in SUBSET Public /\ q \in SUBSET Public
        BY <1>8, <3>1, Zenon DEF Dh
      <3>3. Len(r) \in Nat /\ Len(Append(Append(r, p), q)) = Len(r) + 2 /\ Append(Append(r, p), q) # << >>
        BY <3>2
      <3> QED  BY <1>2, <1>11, <3>1, <3>3, Zenon DEF KdfRk, None
    <2>2. ASSUME NEW i \in DOMAIN sent[e] PROVE Given(e, sent[e][i])'
      <3>1. PICK g \in Header : g = sent[e][i] /\ Given(e, g)
        BY <1>5, <1>7, Zenon DEF Sender
      <3>2. g.dh \in Public /\ g.dh[2] \in Nat /\ g.n \in Nat /\ g.key.chain \in Chain
        BY <3>1, HeaderFacts, Zenon
      <3>3. Used(e, g.dh, g.n)' /\ g.dh # n.self /\ g.key.n = g.n
        BY <1>13, <3>1, <3>2, Zenon DEF Given
      <3>4. Len(g.key.chain) < Len(n.sc)
        <4>1. Len(g.key.chain) \in Nat
          BY <3>2 DEF Chain
        <4>2. g.key.chain = s.sc \/ Len(g.key.chain) < Len(s.sc)
          BY <1>0, <3>1, Zenon DEF Given
        <4> QED  BY <2>1, <4>1, <4>2
      <3>5. g.dh[2] + 1 = n.self[2] => g.n < n.PN
        <4>1. SUFFICES ASSUME g.dh[2] + 1 = n.self[2] PROVE g.n < s.Ns
          BY <1>2, Zenon
        <4>2. ~(g.dh[2] < s.self[2])
          BY <1>8, <1>12, <3>2, <4>1
        <4> QED  BY <1>0, <3>1, <4>2, Zenon DEF Given, Used
      <3> QED  BY <1>1, <3>1, <3>3, <3>4, <3>5, Zenon DEF Given
    <2> QED  BY <1>1, <1>2, <1>5, <1>12, <2>1, <2>2, Zenon DEF Sender
  <1>15. Receiver(x)'
    <2>1. y.remote # n.self
      BY <1>8, <1>11, <1>12
    <2>2. ASSUME NEW k \in DOMAIN y.skipped PROVE KeyFrom(e, y.skipped[k])'
      <3>1. KeyFrom(e, y.skipped[k])
        BY <1>0, <1>5, <1>6, Zenon DEF Receiver
      <3>2. y.skipped[k].dh \in Public
        BY <1>7, StateFacts, Zenon DEF Skipped
      <3> QED  BY <1>1, <1>13, <3>1, <3>2, Zenon DEF KeyFrom
    <2>3. \A i \in DOMAIN sent[e] : InReach(y, Opened(x, i)', sent[e][i])
      BY <1>0, <1>1, <1>5, <1>6, Zenon DEF Receiver, InReach
    <2> QED  BY <1>1, <1>6, <2>1, <2>2, <2>3, Zenon DEF Receiver
  <1>16. Lags(x)'
    <2>1. n.remote = y.self /\ n.rc = y.sc
      BY <1>2, <1>10, <1>11, Zenon
    <2>2. y.remote = <<e, n.self[2] - 1>>
      BY <1>8, <1>11, <1>12
    <2>3. n.sc = KdfRk(y.root, Dh(y.self, n.self))
      <3>1. Dh(n.self, h.dh) = Dh(y.self, n.self)
        BY <1>10, Zenon DEF Dh
      <3> QED  BY <1>2, <1>11, <3>1, Zenon
    <2> QED  BY <1>1, <1>6, <2>1, <2>2, <2>3, Zenon DEF Lags
  <1>17. h.n < y.Ns
    <2>1. Used(x, y.self, h.n)
      BY <1>5, <1>10, Zenon DEF Given
    <2> QED  BY <1>0, <1>8, <2>1 DEF Used
  <1>18. ASSUME NEW k \in DOMAIN n.skipped PROVE KeyFrom(x, n.skipped[k])
    <2>0. PICK z \in Skipped : z = n.skipped[k] /\ z.n \in Nat
      BY <1>8, Zenon DEF Skipped
    <2>1. CASE \E j \in DOMAIN s.skipped : z = s.skipped[j]
      BY <1>0, <1>5, <2>0, <2>1, Zenon DEF Receiver
    <2>2. CASE s.rc # None /\ z.dh = s.remote /\ z.key = KdfCk(s.rc, z.n)
      <3>1. Used(x, z.dh, z.n)
        <4>1. s.remote[1] = x /\ s.remote[2] < y.self[2]
          BY <1>8, <1>12
        <4> QED  BY <1>0, <2>2, <4>1, Zenon DEF Used
      <3>2. ASSUME NEW i \in DOMAIN sent[x], Id(sent[x][i]) = Id(z) PROVE sent[x][i].key = z.key
        <4>1. sent[x][i].dh = z.dh /\ sent[x][i].n = z.n
          BY <3>2, Zenon DEF Id
        <4>2. Given(x, sent[x][i]) /\ InReach(s, Opened(e, i), sent[x][i]) /\ sent[x][i] \in Header
          BY <1>0, <1>5, <1>7, Zenon DEF Sender, Receiver
        <4>3. sent[x][i].key.chain = s.rc /\ sent[x][i].key.n = z.n
          BY <2>2, <4>1, <4>2, Zenon DEF InReach, Given
        <4> QED  BY <2>2, <4>2, <4>3, HeaderFacts, Zenon
      <3> QED  BY <2>0, <3>1, <3>2, Zenon DEF KeyFrom
    <2>3. CASE z.dh = h.dh /\ z.n < h.n /\ z.key = KdfCk(rc, z.n)
      <3>1. Used(x, z.dh, z.n)
        <4>1. z.n < y.Ns
          BY <1>8, <1>17, <2>0, <2>3
        <4> QED  BY <1>0, <1>10, <1>11, <2>3, <4>1, Zenon DEF Used
      <3>2. ASSUME NEW i \in DOMAIN sent[x], Id(sent[x][i]) = Id(z) PROVE sent[x][i].key = z.key
        <4>1. sent[x][i].dh = z.dh /\ sent[x][i].n = z.n
          BY <3>2, Zenon DEF Id
        <4>2. Given(x, sent[x][i]) /\ sent[x][i] \in Header
          BY <1>0, <1>5, <1>7, Zenon DEF Sender
        <4>3. sent[x][i].key.chain = rc /\ sent[x][i].key.n = z.n
          BY <1>0, <1>10, <1>11, <2>3, <4>1, <4>2, Zenon DEF Given
        <4> QED  BY <2>3, <4>2, <4>3, HeaderFacts, Zenon
      <3> QED  BY <2>0, <3>1, <3>2, Zenon DEF KeyFrom
    <2> QED  BY <1>3, <2>0, <2>1, <2>2, <2>3, Zenon
  <1>19. ASSUME NEW i \in DOMAIN sent[x] PROVE InReach(n, Opened(e, i)', sent[x][i])
    <2>0. PICK g \in Header : g = sent[x][i] /\ Given(x, g) /\ InReach(s, Opened(e, i), g)
      BY <1>0, <1>5, <1>7, Zenon DEF Sender, Receiver
    <2>1. /\ g.dh \in Public /\ g.dh[2] \in Nat /\ g.dh = <<g.dh[1], g.dh[2]>> /\ g.n \in Nat
          /\ g.dh[1] = x
      BY <2>0, HeaderFacts, Zenon DEF Given, Used
    <2>2. g.dh = n.remote => n.rc # None /\ g.key.chain = n.rc
      BY <1>0, <1>2, <1>10, <1>11, <2>0, Zenon DEF Given
    <2>3. ASSUME ~Opened(e, i)', Passed(n, g) PROVE Id(g) \in Ids(n.skipped) \cup n.gone
      <3>1. i # m /\ ~Opened(e, i)
        BY <1>1, <1>5, <2>3, Zenon
      <3>2. CASE Passed(s, g)
        BY <1>4, <2>0, <3>1, <3>2, Zenon DEF InReach
      <3>3. CASE g.dh = h.dh
        <4>1. g.n < h.n + 1
          <5>1. ~(g.dh[2] < n.remote[2])
            BY <1>2, <1>8, <3>3
          <5> QED  BY <1>2, <2>3, <5>1, Zenon DEF Passed
        <4>2. g.n # h.n
          <5>1. Id(g) # Id(h)
            BY <1>0, <1>5, <2>0, <3>1, Zenon DEF Sender
          <5> QED  BY <3>3, <5>1, Zenon DEF Id
        <4>3. g.n \in 0 .. h.n - 1
          BY <1>8, <2>1, <4>1, <4>2
        <4> QED  BY <1>4, <3>3, <4>3, Zenon DEF Id
      <3>4. CASE ~Passed(s, g) /\ g.dh # h.dh
        <4>1. g.dh[2] < y.self[2] /\ ~(g.dh[2] < s.remote[2])
          BY <1>2, <1>10, <2>3, <3>4, Zenon DEF Passed
        <4>2. g.dh[2] = y.self[2] - 1 /\ g.dh[2] + 1 = y.self[2]
          BY <1>8, <1>12, <2>1, <4>1
        <4>3. g.dh = s.remote
          BY <1>11, <2>1, <4>2, Zenon
        <4>4. s.rc # None /\ ~(g.n < s.Nr) /\ g.n < h.pn
          BY <1>0, <1>11, <2>0, <3>4, <4>2, <4>3, Zenon DEF Passed, InReach, Given
        <4>5. g.n \in s.Nr .. h.pn - 1
          BY <1>8, <2>1, <4>4
        <4> QED  BY <1>4, <4>3, <4>4, <4>5, Zenon DEF Id
      <3> QED  BY <3>2, <3>3, <3>4, Zenon
    <2> QED  BY <2>0, <2>2, <2>3, Zenon DEF InReach
  <1>20. Receiver(e)'
    <2>1. n.remote = y.self => n.Nr <= y.Ns
      BY <1>2, <1>8, <1>17
    <2>2. \A k : KeyFrom(x, k) => KeyFrom(x, k)'
      BY <1>0, <1>1, Zenon DEF KeyFrom, Used
    <2> QED  BY <1>0, <1>1, <1>18, <1>19, <2>1, <2>2, Zenon DEF Receiver
  <1> QED  BY <1>0, <1>1, <1>6, <1>14, <1>15, <1>16, <1>20, Zenon DEF RatchetInv

\* A step that throws gives no key.
LEMMA GivesKey ==
    ASSUME NEW h \in Header, NEW d, d.key = h.key
    PROVE  d # Throws
  <1>1. h.key \in MessageKey /\ Throws.key = << >>
    BY HeaderFacts, Zenon DEF Throws, None
  <1>2. h.key # << >>
    <2>1. DOMAIN h.key = {"chain", "n"}
      BY <1>1, Zenon DEF MessageKey
    <2>2. DOMAIN << >> = {}
      OBVIOUS
    <2> QED  BY <2>1, <2>2, Zenon
  <1> QED  BY <1>1, <1>2, Zenon

\* Whatever state a step that gives the key of a message leaves, is one.
LEMMA DecryptTyped ==
    ASSUME RatchetInv, NEW e \in Ends, NEW h \in Header, NEW m \in DOMAIN sent[Other(e)], h = sent[Other(e)][m],
           RatchetDecrypt(st[e], h).key = h.key
    PROVE  RatchetDecrypt(st[e], h).next \in RatchetState
  <1>0. PICK x, s, d : x \in Ends /\ s \in RatchetState /\ x = Other(e) /\ s = st[e] /\ d = RatchetDecrypt(s, h)
    BY EndFacts, TypedFacts, Zenon DEF RatchetInv
  <1>1. d # Throws
    BY <1>0, GivesKey, Zenon
  <1>2. CASE Id(h) \in Ids(s.skipped)
    <2>1. TakesOut(s, h, TrySkipped(s, h)) /\ d = TrySkipped(s, h)
      BY <1>0, <1>2, TryFacts, Zenon DEF RatchetDecrypt
    <2> QED  BY <1>0, <2>1, Zenon DEF TakesOut
  <1>3. CASE Id(h) \notin Ids(s.skipped) /\ h.dh = s.remote
    <2>1. s.rc # None
      <3>1. Receiver(e)
        BY Zenon DEF RatchetInv
      <3> QED  BY <1>0, <1>3, <3>1, Zenon DEF Receiver, InReach
    <2>2. MovesOn(s, h, d)
      BY <1>0, <1>1, <1>3, <2>1, DecryptOnChain, Zenon
    <2> QED  BY <1>0, <2>2, Zenon DEF MovesOn
  <1>4. CASE Id(h) \notin Ids(s.skipped) /\ h.dh # s.remote
    <2>1. TurnsOver(s, h, d)
      BY <1>0, <1>1, <1>4, DecryptNewDh, Zenon
    <2> QED  BY <1>0, <2>1, Zenon DEF TurnsOver
  <1> QED  BY <1>2, <1>3, <1>4, Zenon

\* A chunk is opened with the key of a step, which is adopted
\* (decryptMessageChunk); a step that throws gives no key.
LEMMA AdoptedKeeps ==
    ASSUME RatchetInv, NEW e \in Ends, NEW m, NEW h, h = sent[Other(e)][m],
           NEW d, d = RatchetDecrypt(st[e], h), d.key = h.key, Adopts(e, m, d.next)
    PROVE  RatchetInv'
  <1>0. PICK x, s : x \in Ends /\ x = Other(e) /\ s = st[e] /\ m \in DOMAIN sent[x] /\ h = sent[x][m] /\ s \in RatchetState /\ h \in Header
    <2>1. Other(e) \in Ends /\ m \in DOMAIN sent[Other(e)]
      BY EndFacts, Zenon DEF Adopts
    <2>2. st[e] \in RatchetState /\ sent[Other(e)][m] \in Header
      BY <2>1, TypedFacts, Zenon DEF RatchetInv
    <2> QED  BY <2>1, <2>2, Zenon
  <1>1. d # Throws
    BY <1>0, GivesKey, Zenon
  <1>2. CASE Id(h) \in Ids(s.skipped)
    <2>1. TakesOut(s, h, TrySkipped(s, h))
      BY <1>0, <1>2, TryFacts, Zenon
    <2>2. d = TrySkipped(s, h)
      BY <1>0, <1>2, Zenon DEF RatchetDecrypt
    <2> QED  BY <1>0, <2>1, <2>2, TakenKeeps, Zenon
  <1>3. CASE Id(h) \notin Ids(s.skipped) /\ h.dh = s.remote
    <2>1. s.rc # None
      <3>1. Receiver(e)
        BY Zenon DEF RatchetInv
      <3> QED  BY <1>0, <1>3, <3>1, Zenon DEF Receiver, InReach
    <2>2. MovesOn(s, h, RatchetDecrypt(s, h))
      BY <1>0, <1>1, <1>3, <2>1, DecryptOnChain, Zenon
    <2> QED  BY <1>0, <1>3, <2>2, MovedKeeps, Zenon
  <1>4. CASE Id(h) \notin Ids(s.skipped) /\ h.dh # s.remote
    <2>1. TurnsOver(s, h, RatchetDecrypt(s, h))
      BY <1>0, <1>1, <1>4, DecryptNewDh, Zenon
    <2> QED  BY <1>0, <1>4, <2>1, TurnedKeeps, Zenon
  <1> QED  BY <1>2, <1>3, <1>4, Zenon

\* What leaves the states, the messages and what was opened alone.
LEMMA QuietKeeps ==
    ASSUME RatchetInv, st' = st, sent' = sent, got' \in [Ends -> [1 .. MaxSent -> Nat]],
           \A e \in Ends : \A m \in 1 .. MaxSent : Opened(e, m) => Opened(e, m)'
    PROVE  RatchetInv'
  <1>1. RatchetTyped' /\ \A e \in Ends : DOMAIN sent[e] \subseteq 1 .. MaxSent
    <2>1. \A e \in Ends : DOMAIN sent[e] = 1 .. Len(sent[e]) /\ Len(sent[e]) \in Nat /\ Len(sent[e]) <= MaxSent
      BY TypedFacts, Zenon DEF RatchetInv, RatchetTyped
    <2>2. \A e \in Ends : DOMAIN sent[e] \subseteq 1 .. MaxSent
      BY <2>1, RatchetAssumption
    <2> QED  BY <2>2, Zenon DEF RatchetInv, RatchetTyped
  <1>2. \A e \in Ends : Sender(e)'
    <2>1. \A e \in Ends : Sender(e)
      BY Zenon DEF RatchetInv
    <2>2. \A e, h : Given(e, h) => Given(e, h)'
      BY ZenonT(40) DEF Given, Used
    <2> QED  BY <2>1, <2>2, Zenon DEF Sender
  <1>3. ASSUME NEW e \in Ends PROVE Receiver(e)'
    <2>1. PICK x \in Ends : x = Other(e)
      BY EndFacts, Zenon
    <2>2. Receiver(e)
      BY Zenon DEF RatchetInv
    <2>3. \A k : KeyFrom(x, k) => KeyFrom(x, k)'
      BY Zenon DEF KeyFrom, Used
    <2>4. \A m \in DOMAIN sent[x] : InReach(st[e], Opened(e, m), sent[x][m]) => InReach(st[e], Opened(e, m)', sent[x][m])
      BY <1>1, Zenon DEF InReach
    <2> QED  BY <2>1, <2>2, <2>3, <2>4, Zenon DEF Receiver
  <1>4. \E e \in Ends : Lags(e)'
    BY Zenon DEF RatchetInv, Lags
  <1> QED  BY <1>1, <1>2, <1>3, <1>4, Zenon DEF RatchetInv

\* A chunk arrives (handleReceiveMessage).
LEMMA ArriveKeeps ==
    ASSUME RatchetInv, NEW e \in Ends, NEW m, NEW new \in BOOLEAN, Arrive(e, m, new)
    PROVE  RatchetInv'
  <1>1. PICK x, h, d, c : x \in Ends /\ /\ x = Other(e) /\ x # e /\ m \in DOMAIN sent[x] /\ h = sent[x][m]
                                   /\ d = DecryptMessageChunk(st[e], Spared(e), h) /\ c = got[e][m]
                                   /\ st' = [st EXCEPT ![e] = d.st] /\ sent' = sent
                                   /\ got' = [got EXCEPT ![e][m] = IF d.ok /\ new THEN c + 1 ELSE c]
                                   /\ (~new => Opened(e, m))
    BY EndFacts, Zenon DEF Arrive
  <1>2. m \in 1 .. MaxSent
    <2>1. DOMAIN sent[x] = 1 .. Len(sent[x]) /\ Len(sent[x]) \in Nat /\ Len(sent[x]) <= MaxSent
      BY <1>1, TypedFacts, Zenon DEF RatchetInv, RatchetTyped
    <2> QED  BY <1>1, <2>1, RatchetAssumption
  <1>3. PICK k \in Nat : /\ got' = [got EXCEPT ![e][m] = k] /\ (k = c \/ k = c + 1) /\ c \in Nat
                         /\ (d.ok /\ new => k = c + 1)
    <2>1. c \in Nat /\ c + 1 \in Nat
      <3>1. c \in Nat
        BY <1>1, <1>2, Zenon DEF RatchetInv, RatchetTyped
      <3> QED  BY <3>1
    <2>2. PICK k : k = IF d.ok /\ new THEN c + 1 ELSE c
      BY Zenon
    <2> QED  BY <1>1, <2>1, <2>2, Zenon
  <1>4. /\ got' \in [Ends -> [1 .. MaxSent -> Nat]] /\ got'[x] = got[x] /\ got'[e][m] = k
        /\ \A i \in 1 .. MaxSent : i # m => got'[e][i] = got[e][i]
    <2>1. got \in [Ends -> [1 .. MaxSent -> Nat]]
      BY Zenon DEF RatchetInv, RatchetTyped
    <2>2. PICK now : now = [got[e] EXCEPT ![m] = k]
      BY Zenon
    <2>3. now \in [1 .. MaxSent -> Nat] /\ now[m] = k /\ \A i \in 1 .. MaxSent : i # m => now[i] = got[e][i]
      BY <1>2, <2>1, <2>2, Zenon
    <2>4. got' = [got EXCEPT ![e] = now]
      BY <1>3, <2>2, Zenon
    <2>5. got' \in [Ends -> [1 .. MaxSent -> Nat]] /\ got'[e] = now /\ got'[x] = got[x]
      BY <1>1, <2>1, <2>3, <2>4
    <2> QED  BY <2>3, <2>5, Zenon
  <1>5. \A i \in 1 .. MaxSent : Opened(e, i) => Opened(e, i)'
    <2>1. c > 0 => k > 0
      BY <1>3
    <2> QED  BY <1>1, <1>4, <2>1, Zenon DEF Opened
  <1>6. d.ok => Opened(e, m)'
    <2>1. ~new => c > 0
      BY <1>1, Zenon DEF Opened
    <2>2. d.ok => k > 0
      BY <1>3, <2>1
    <2> QED  BY <1>4, <2>2, Zenon DEF Opened
  <1>7. CASE d.st = st[e]
    <2>1. st' = st
      <3>1. st \in [Ends -> RatchetState]
        BY Zenon DEF RatchetInv, RatchetTyped
      <3> QED  BY <1>1, <1>7, <3>1
    <2>2. \A y \in Ends : \A i \in 1 .. MaxSent : Opened(y, i) => Opened(y, i)'
      <3>1. \A y \in Ends : y = e \/ y = x
        BY <1>1, EndFacts, Zenon
      <3>2. \A i : Opened(x, i) => Opened(x, i)'
        BY <1>4, Zenon DEF Opened
      <3> QED  BY <1>5, <3>1, <3>2, Zenon
    <2> QED  BY <1>1, <1>4, <2>1, <2>2, QuietKeeps, Zenon
  <1>8. CASE d.st # st[e]
    <2>1. PICK r : r = RatchetDecrypt(st[e], h)
      BY Zenon
    <2>2. d.ok /\ r.key = h.key /\ d.st = r.next
      BY <1>1, <1>8, <2>1, Zenon DEF DecryptMessageChunk
    <2>3. r.next \in RatchetState
      <3>1. st[e] \in RatchetState /\ h \in Header
        BY <1>1, TypedFacts, Zenon DEF RatchetInv
      <3> QED  BY <1>1, <2>1, <2>2, <3>1, DecryptTyped, Zenon
    <2>4. Adopts(e, m, r.next)
      BY <1>1, <1>4, <1>5, <1>6, <2>2, <2>3, Zenon DEF Adopts
    <2> QED  BY <1>1, <2>1, <2>2, <2>4, AdoptedKeeps, Zenon
  <1> QED  BY <1>7, <1>8, Zenon

\* A message is sent (ratchetEncryptDurably).
LEMMA SendKeeps ==
    ASSUME RatchetInv, NEW e \in Ends, Send(e)
    PROVE  RatchetInv'
  <1>0. PICK x, s, h : /\ x \in Ends /\ s \in RatchetState /\ x = Other(e) /\ x # e /\ Other(x) = e
                       /\ s = st[e] /\ h = RatchetEncrypt(s) /\ \A z \in Ends : z = e \/ z = x
    BY EndFacts, TypedFacts, Zenon DEF RatchetInv
  <1>1. /\ s.Ns \in Nat /\ s.PN \in Nat /\ s.self \in Public /\ s.sc \in Chain /\ s.self[2] \in Nat
        /\ s.self = <<s.self[1], s.self[2]>>
    BY <1>0, StateFacts, Zenon
  <1>2. h = [dh |-> s.self, n |-> s.Ns, pn |-> s.PN, key |-> KdfCk(s.sc, s.Ns)]
    BY <1>0, Zenon DEF RatchetEncrypt
  <1>3. /\ h \in Header /\ h.dh = s.self /\ h.n = s.Ns /\ h.pn = s.PN /\ h.key = KdfCk(s.sc, s.Ns)
        /\ h.key.chain = s.sc /\ h.key.n = s.Ns
    BY <1>1, <1>2, Zenon DEF Header, MessageKey, KdfCk
  <1>4. PICK q : q = sent[e]
    BY Zenon
  <1>5. q \in Seq(Header) /\ DOMAIN q = 1 .. Len(q) /\ Len(q) \in Nat
    BY <1>4, TypedFacts, Zenon DEF RatchetInv
  <1>6. PICK r : r = Append(q, h)
    BY Zenon
  <1>7. /\ r \in Seq(Header) /\ Len(r) = Len(q) + 1 /\ DOMAIN r = DOMAIN q \cup {Len(q) + 1} /\ r[Len(q) + 1] = h
        /\ \A i \in DOMAIN q : r[i] = q[i] /\ i # Len(q) + 1
    BY <1>3, <1>5, <1>6
  <1>8. PICK t : t = [s EXCEPT !.Ns = s.Ns + 1]
    BY Zenon
  <1>9. /\ t \in RatchetState /\ t.root = s.root /\ t.sc = s.sc /\ t.rc = s.rc /\ t.self = s.self /\ t.remote = s.remote
        /\ t.Ns = s.Ns + 1 /\ t.Nr = s.Nr /\ t.PN = s.PN /\ t.skipped = s.skipped /\ t.gone = s.gone
    <2>1. s.Ns + 1 \in Nat
      BY <1>1
    <2> QED  BY <1>0, <1>8, <2>1 DEF RatchetState
  <1>10. sent' = [sent EXCEPT ![e] = r] /\ st' = [st EXCEPT ![e] = t] /\ got' = got
    BY <1>0, <1>4, <1>6, <1>8, Zenon DEF Send
  <1>11. st'[e] = t /\ st'[x] = st[x] /\ sent'[e] = r /\ sent'[x] = sent[x]
         /\ st' \in [Ends -> RatchetState] /\ sent' \in [Ends -> Seq(Header)]
    <2>1. st \in [Ends -> RatchetState] /\ sent \in [Ends -> Seq(Header)]
      BY Zenon DEF RatchetInv, RatchetTyped
    <2> QED  BY <1>0, <1>7, <1>9, <1>10, <2>1, Zenon
  <1>12. RatchetTyped'
    <2>1. Len(q) + Len(sent[x]) < MaxSent /\ Len(sent[x]) \in Nat /\ Len(sent[x]) <= MaxSent /\ MaxSent \in Nat
      BY <1>0, <1>4, TypedFacts, RatchetAssumption, Zenon DEF Send, RatchetInv, RatchetTyped
    <2>2. Len(r) <= MaxSent
      BY <1>5, <1>7, <2>1
    <2>3. \A z \in Ends : Len(sent'[z]) <= MaxSent
      BY <1>0, <1>11, <2>1, <2>2, Zenon
    <2> QED  BY <1>10, <1>11, <2>3, Zenon DEF RatchetInv, RatchetTyped
  <1>13. \A dh, k : k \in Nat /\ Used(e, dh, k) => Used(e, dh, k)' /\ <<dh, k>> # <<s.self, s.Ns>>
    <2>1. \A k \in Nat : k < s.Ns => k < s.Ns + 1 /\ k # s.Ns
      BY <1>1
    <2>2. ~(s.self[2] < s.self[2])
      BY <1>1
    <2> QED  BY <1>0, <1>9, <1>11, <2>1, <2>2, Zenon DEF Used
  <1>14. Sender(e) /\ Sender(x) /\ Receiver(e) /\ Receiver(x)
    BY <1>0, Zenon DEF RatchetInv
  <1>15. Sender(x)'
    <2>1. \A g : Given(x, g) => Given(x, g)'
      <3>1. st'[x].self = st[x].self /\ st'[x].sc = st[x].sc /\ st'[x].PN = st[x].PN /\ st'[x].Ns = st[x].Ns
        BY <1>11, Zenon
      <3> QED  BY <3>1, Zenon DEF Given, Used
    <2> QED  BY <1>11, <1>14, <2>1, Zenon DEF Sender
  <1>16. Used(e, s.self, s.Ns)' /\ s.self[1] = e
    <2>1. s.self[1] = e
      BY <1>0, <1>14, Zenon DEF Sender
    <2>2. s.Ns < s.Ns + 1
      BY <1>1
    <2> QED  BY <1>9, <1>11, <2>1, <2>2, Zenon DEF Used
  <1>17. \A i \in DOMAIN q : q[i] \in Header /\ q[i].n \in Nat /\ Given(e, q[i]) /\ Id(q[i]) # Id(h)
    <2> SUFFICES ASSUME NEW i \in DOMAIN q PROVE q[i] \in Header /\ q[i].n \in Nat /\ Given(e, q[i]) /\ Id(q[i]) # Id(h)
      BY Zenon
    <2>1. q[i] \in Header /\ q[i].n \in Nat /\ Given(e, q[i])
      BY <1>4, <1>5, <1>14, TypedFacts, HeaderFacts, Zenon DEF RatchetInv, Sender
    <2> QED  BY <1>3, <1>13, <2>1, Zenon DEF Given, Id
  <1>18. Sender(e)'
    <2>1. ASSUME NEW i \in DOMAIN q PROVE Given(e, q[i])'
      <3>1. Given(e, q[i]) /\ Used(e, q[i].dh, q[i].n)'
        BY <1>13, <1>17, Zenon DEF Given
      <3> QED  BY <1>0, <1>9, <1>11, <3>1, Zenon DEF Given
    <2>2. Given(e, h)'
      <3>1. s.self[2] + 1 # s.self[2]
        BY <1>1
      <3> QED  BY <1>3, <1>9, <1>11, <1>16, <3>1, Zenon DEF Given
    <2>3. \A i \in DOMAIN r : Given(e, r[i])'
      BY <1>7, <2>1, <2>2, Zenon
    <2>4. \A i, j \in DOMAIN r : Id(r[i]) = Id(r[j]) => i = j
      <3>1. \A i, j \in DOMAIN q : Id(q[i]) = Id(q[j]) => i = j
        BY <1>4, <1>14, Zenon DEF Sender
      <3> QED  BY <1>7, <1>17, <3>1, Zenon
    <2>5. t.self[1] = e /\ t.root = t.sc /\ t.sc # None
      BY <1>0, <1>9, <1>14, Zenon DEF Sender
    <2> QED  BY <1>11, <2>3, <2>4, <2>5, Zenon DEF Sender
  <1>19. Receiver(e)'
    <2>1. \A k : KeyFrom(x, k) => KeyFrom(x, k)'
      BY <1>11, Zenon DEF KeyFrom, Used
    <2>2. \A i \in DOMAIN sent[x] : InReach(s, Opened(e, i), sent[x][i]) => InReach(t, Opened(e, i)', sent[x][i])
      BY <1>9, <1>10, Zenon DEF InReach, Passed, Opened
    <2> QED  BY <1>0, <1>9, <1>11, <1>14, <2>1, <2>2, Zenon DEF Receiver
  <1>20. PICK y \in RatchetState : y = st[x] /\ y.Nr \in Nat /\ y.remote[2] \in Nat
    BY <1>0, TypedFacts, StateFacts, Zenon DEF RatchetInv
  <1>21. /\ y.remote[2] <= s.self[2]
         /\ y.remote = s.self => y.rc = s.sc /\ s.sc # None /\ y.Nr <= s.Ns
    <2>1. CASE Lags(e)
      <3>1. y.remote = s.self /\ y.rc = s.sc
        BY <1>0, <1>20, <2>1, Zenon DEF Lags
      <3>2. s.sc # None /\ y.Nr <= s.Ns
        BY <1>0, <1>14, <1>20, <3>1, Zenon DEF Sender, Receiver
      <3> QED  BY <1>1, <3>1, <3>2
    <2>2. CASE Lags(x)
      <3>1. y.remote = <<e, s.self[2] - 1>>
        BY <1>0, <1>20, <2>2, Zenon DEF Lags
      <3> QED  BY <1>1, <3>1
    <2> QED  BY <1>0, <2>1, <2>2, Zenon DEF RatchetInv
  <1>22. Receiver(x)'
    <2>1. y.remote = t.self => y.Nr <= t.Ns
      BY <1>1, <1>9, <1>20, <1>21
    <2>2. ASSUME NEW k \in DOMAIN y.skipped PROVE KeyFrom(e, y.skipped[k])'
      <3>1. PICK z : z = y.skipped[k] /\ KeyFrom(e, z) /\ z.n \in Nat
        <4>1. y.skipped[k] \in Skipped
          BY <1>20, StateFacts, Zenon
        <4>2. KeyFrom(e, y.skipped[k])
          BY <1>0, <1>14, <1>20, Zenon DEF Receiver
        <4> QED  BY <4>1, <4>2, Zenon DEF Skipped
      <3>2. Used(e, z.dh, z.n)' /\ Id(z) # Id(h)
        BY <1>3, <1>13, <3>1, Zenon DEF KeyFrom, Id
      <3>3. \A i \in DOMAIN r : Id(r[i]) = Id(z) => r[i].key = z.key
        BY <1>4, <1>7, <3>1, <3>2, Zenon DEF KeyFrom
      <3> QED  BY <1>11, <3>1, <3>2, <3>3, Zenon DEF KeyFrom
    <2>3. InReach(y, FALSE, h)
      <3>1. h.dh = y.remote => y.rc # None /\ h.key.chain = y.rc
        BY <1>3, <1>21, Zenon
      <3>2. ~Passed(y, h)
        <4>1. ~(h.dh[2] < y.remote[2])
          BY <1>1, <1>3, <1>20, <1>21
        <4>2. h.dh = y.remote => ~(h.n < y.Nr)
          BY <1>1, <1>3, <1>20, <1>21
        <4> QED  BY <4>1, <4>2, Zenon DEF Passed
      <3> QED  BY <3>1, <3>2, Zenon DEF InReach
    <2>4. \A i \in DOMAIN r : InReach(y, Opened(x, i)', r[i])
      <3>1. \A i \in DOMAIN q : InReach(y, Opened(x, i)', q[i])
        BY <1>0, <1>4, <1>10, <1>14, <1>20, Zenon DEF Receiver, Opened
      <3>2. \A b : InReach(y, b, h)
        BY <2>3, Zenon DEF InReach
      <3> QED  BY <1>7, <3>1, <3>2, Zenon
    <2> QED  BY <1>0, <1>11, <1>20, <2>1, <2>2, <2>4, Zenon DEF Receiver
  <1>23. \E z \in Ends : Lags(z)'
    <2>0. /\ st'[e].remote = st[e].remote /\ st'[e].rc = st[e].rc /\ st'[e].self = st[e].self
          /\ st'[e].sc = st[e].sc /\ st'[e].root = st[e].root /\ st'[x] = st[x]
      BY <1>0, <1>9, <1>11, Zenon
    <2>1. CASE Lags(e)
      BY <1>0, <2>0, <2>1, Zenon DEF Lags
    <2>2. CASE Lags(x)
      BY <1>0, <2>0, <2>2, Zenon DEF Lags
    <2> QED  BY <1>0, <2>1, <2>2, Zenon DEF RatchetInv
  <1> QED  BY <1>0, <1>12, <1>15, <1>18, <1>19, <1>22, <1>23, Zenon DEF RatchetInv

\* The ends begin with the initiator behind: the responder has taken a DH step.
LEMMA InitRatchets ==
    ASSUME Init
    PROVE  RatchetInv
  <1>1. PICK i \in Ends, r \in Ends : i = "initiator" /\ r = "responder" /\ Other(i) = r /\ Other(r) = i /\ r # i
                                      /\ \A e \in Ends : e = i \/ e = r
    BY Zenon DEF Ends, Other
  <1>2. st[i] = InitRatchet(i) /\ st[r] = InitRatchet(r) /\ sent[i] = << >> /\ sent[r] = << >>
    BY Zenon DEF Init
  <1>3. PICK a, b, c, p, q : a = <<i, 1>> /\ b = <<r, 1>> /\ c = <<r, 2>> /\ p = Dh(a, b) /\ q = Dh(c, a)
    BY Zenon
  <1>4. a \in Public /\ b \in Public /\ c \in Public /\ p \in SUBSET Public /\ q \in SUBSET Public
    BY <1>3 DEF Public, Dh
  <1>5. PICK f, g : f = KdfRk(None, p) /\ g = KdfRk(f, q)
    BY Zenon
  <1>6. f \in Chain /\ g \in Chain /\ f # None /\ g # None /\ None \in Chain
    BY <1>4, <1>5 DEF Chain, KdfRk, None
  <1>7. st[i] = [root |-> f, sc |-> f, rc |-> None, self |-> a, remote |-> b, Ns |-> 0, Nr |-> 0, PN |-> 0,
                 skipped |-> << >>, gone |-> {}]
    <2>1. PICK blank : blank = [root |-> None, sc |-> None, rc |-> None, self |-> a, remote |-> None,
                                Ns |-> 0, Nr |-> 0, PN |-> 0, skipped |-> << >>, gone |-> {}]
      BY Zenon
    <2>2. st[i] = [blank EXCEPT !.remote = b, !.root = f, !.sc = f]
      BY <1>1, <1>2, <1>3, <1>5, <2>1, Zenon DEF InitRatchet
    <2> QED  BY <2>1, <2>2
  <1>8. st[r] = [root |-> g, sc |-> g, rc |-> f, self |-> c, remote |-> a, Ns |-> 0, Nr |-> 0, PN |-> 0,
                 skipped |-> << >>, gone |-> {}]
    <2>1. Dh(b, a) = p
      BY <1>3, Zenon DEF Dh
    <2>2. <<b[1], b[2] + 1>> = c
      BY <1>3
    <2>3. PICK blank : blank = [root |-> None, sc |-> None, rc |-> None, self |-> b, remote |-> None,
                                Ns |-> 0, Nr |-> 0, PN |-> 0, skipped |-> << >>, gone |-> {}]
      BY Zenon
    <2>4. st[r] = DhRatchet(blank, a)
      BY <1>1, <1>2, <1>3, <2>3, Zenon DEF InitRatchet
    <2>5. st[r] = [blank EXCEPT !.PN = 0, !.Ns = 0, !.Nr = 0, !.remote = a, !.rc = f, !.self = c, !.root = g, !.sc = g]
      <3>1. blank.root = None /\ blank.self = b /\ blank.Ns = 0
        BY <2>3, Zenon
      <3>2. /\ KdfRk(blank.root, Dh(blank.self, a)) = f /\ <<blank.self[1], blank.self[2] + 1>> = c
            /\ KdfRk(f, Dh(c, a)) = g
        BY <1>3, <1>5, <2>1, <2>2, <3>1, Zenon
      <3> QED  BY <2>4, <3>1, <3>2, Zenon DEF DhRatchet
    <2>6. PICK half : half = [blank EXCEPT !.PN = 0, !.Ns = 0, !.Nr = 0, !.remote = a]
      BY Zenon
    <2>7. half = [root |-> None, sc |-> None, rc |-> None, self |-> b, remote |-> a,
                  Ns |-> 0, Nr |-> 0, PN |-> 0, skipped |-> << >>, gone |-> {}]
      BY <2>3, <2>6, Zenon
    <2>8. st[r] = [half EXCEPT !.rc = f, !.self = c, !.root = g, !.sc = g]
      BY <2>5, <2>6, Zenon
    <2> QED  BY <2>7, <2>8
  <1>9. /\ st[i].root = f /\ st[i].sc = f /\ st[i].rc = None /\ st[i].self = a /\ st[i].remote = b
        /\ st[i].Nr = 0 /\ st[i].Ns = 0 /\ st[i].skipped = << >>
    BY <1>7
  <1>10. /\ st[r].root = g /\ st[r].sc = g /\ st[r].rc = f /\ st[r].self = c /\ st[r].remote = a
         /\ st[r].Nr = 0 /\ st[r].Ns = 0 /\ st[r].skipped = << >>
    BY <1>8
  <1>11. RatchetTyped
    <2>1. st[i] \in RatchetState /\ st[r] \in RatchetState
      BY <1>4, <1>6, <1>7, <1>8 DEF RatchetState
    <2>2. st = [e \in Ends |-> st[e]] /\ sent = [e \in Ends |-> << >>] /\ got = [e \in Ends |-> [m \in 1 .. MaxSent |-> 0]]
      BY Zenon DEF Init
    <2>3. << >> \in Seq(Header) /\ Len(<< >>) <= MaxSent /\ 0 \in Nat
      BY RatchetAssumption
    <2>4. st \in [Ends -> RatchetState]
      BY <1>1, <2>1, <2>2, Zenon
    <2>5. sent \in [Ends -> Seq(Header)] /\ \A e \in Ends : Len(sent[e]) <= MaxSent
      BY <2>2, <2>3, Zenon
    <2>6. got \in [Ends -> [1 .. MaxSent -> Nat]]
      BY <2>2, <2>3, Zenon
    <2> QED  BY <2>4, <2>5, <2>6, Zenon DEF RatchetTyped
  <1>12. DOMAIN << >> = {}
    OBVIOUS
  <1>13. \A e \in Ends : Sender(e)
    <2>1. a[1] = i /\ c[1] = r
      BY <1>3, Zenon
    <2> QED  BY <1>1, <1>2, <1>6, <1>9, <1>10, <1>12, <2>1, Zenon DEF Sender
  <1>14. \A e \in Ends : Receiver(e)
    <2>1. 0 <= 0
      OBVIOUS
    <2> QED  BY <1>1, <1>2, <1>9, <1>10, <1>12, <2>1, Zenon DEF Receiver
  <1>15. Lags(i)
    <2>1. b = <<r, c[2] - 1>>
      BY <1>3
    <2>2. g = KdfRk(f, Dh(a, c))
      BY <1>3, <1>5, Zenon DEF Dh
    <2> QED  BY <1>1, <1>9, <1>10, <2>1, <2>2, Zenon DEF Lags
  <1> QED  BY <1>11, <1>13, <1>14, <1>15, Zenon DEF RatchetInv

\* The two states of an edge always fit: one end is a DH step behind the other,
\* no place of a chain is given twice, and whatever one end sent and the other
\* has not read is ahead on a chain it can derive, or among its skipped keys,
\* or evicted from them (ratchetEncrypt, ratchetDecrypt, decryptMessageChunk).
THEOREM RatchetInvariant == Spec => []RatchetInv
  <1>1. Init => RatchetInv
    BY InitRatchets, Zenon
  <1>2. RatchetInv /\ [Next]_vars => RatchetInv'
    <2> SUFFICES ASSUME RatchetInv, [Next]_vars PROVE RatchetInv'
      BY Zenon
    <2>0. got \in [Ends -> [1 .. MaxSent -> Nat]]
      BY Zenon DEF RatchetInv, RatchetTyped
    <2>1. ASSUME st' = st, sent' = sent, got' = got PROVE RatchetInv'
      <3>1. \A e \in Ends : \A m \in 1 .. MaxSent : Opened(e, m) => Opened(e, m)'
        BY <2>1, Zenon DEF Opened
      <3> QED  BY <2>0, <2>1, <3>1, QuietKeeps, Zenon
    <2>2. CASE UNCHANGED vars
      BY <2>1, <2>2, Zenon DEF vars
    <2>3. CASE Next
      <3>1. PICK e \in Ends : Send(e) \/ \E m \in DOMAIN sent[Other(e)] :
                 (\E new \in BOOLEAN : Arrive(e, m, new)) \/ ForgetCompleted(e, m) \/ CancelReceive(e, m)
        BY <2>3, Zenon DEF Next
      <3>2. CASE Send(e)
        BY <3>2, SendKeeps, Zenon
      <3>3. ASSUME NEW m, NEW new \in BOOLEAN, Arrive(e, m, new) PROVE RatchetInv'
        BY <3>3, ArriveKeeps, Zenon
      <3>4. ASSUME NEW m, ForgetCompleted(e, m) \/ CancelReceive(e, m) PROVE RatchetInv'
        BY <2>1, <3>4, Zenon DEF ForgetCompleted, CancelReceive, Forget
      <3> QED  BY <3>1, <3>2, <3>3, <3>4, Zenon
    <2> QED  BY <2>2, <2>3, Zenon
  <1> QED  BY <1>1, <1>2, PTL DEF Spec

\* A place ahead of the receiving end, not too far, has its key derived.
LEMMA Derives ==
    ASSUME NEW s \in RatchetState, NEW h \in Header, Id(h) \notin Ids(s.skipped), ~Far(s, h),
           \/ h.dh = s.remote /\ ~(h.n < s.Nr) /\ s.rc # None /\ h.key = KdfCk(s.rc, h.n)
           \/ h.dh # s.remote /\ h.key = KdfCk(KdfRk(s.root, Dh(s.self, h.dh)), h.n)
    PROVE  RatchetDecrypt(s, h).key = h.key
  <1>1. s.Nr \in Nat /\ h.n \in Nat /\ h.pn \in Nat /\ MaxSkip \in Nat
    BY StateFacts, HeaderFacts, RatchetAssumption, Zenon
  <1>2. CASE h.dh = s.remote
    <2>1. MovesOn(s, h, RatchetDecrypt(s, h))
      <3>1. ~(h.n < s.Nr \/ h.n > s.Nr + MaxSkip) /\ s.rc # None
        BY <1>2, Zenon DEF Far
      <3> QED  BY <1>2, <3>1, DecryptOnChain, Zenon
    <2> QED  BY <1>2, <2>1, Zenon DEF MovesOn
  <1>3. CASE h.dh # s.remote
    <2>1. TurnsOver(s, h, RatchetDecrypt(s, h))
      <3>1. ~(h.pn > s.Nr + MaxSkip \/ h.n > MaxSkip)
        BY <1>3, Zenon DEF Far
      <3> QED  BY <1>3, <3>1, DecryptNewDh, Zenon
    <2> QED  BY <1>3, <2>1, Zenon DEF TurnsOver
  <1> QED  BY <1>2, <1>3, Zenon

\* The ends never lose step (ratchetDecrypt, and the rollback of
\* decryptMessageChunk): only MAX_SKIP and MAX_SKIP_SESSION lose a message,
\* for any values of the limits and any number of messages.
THEOREM OnlyLimitsTheorem == Spec => []OnlyLimitsLoseMessages
  <1>1. RatchetInv => OnlyLimitsLoseMessages
    <2> SUFFICES ASSUME RatchetInv, NEW e \in Ends, NEW h \in Unread(e), ~Far(st[e], h), Id(h) \notin st[e].gone
                 PROVE  RatchetDecrypt(st[e], h).key = h.key
      BY Zenon DEF OnlyLimitsLoseMessages
    <2>0. PICK x \in Ends, s \in RatchetState, y \in RatchetState :
             x = Other(e) /\ Other(x) = e /\ s = st[e] /\ y = st[x] /\ \A z \in Ends : z = e \/ z = x
      <3>1. Other(e) \in Ends /\ Other(Other(e)) = e /\ \A z \in Ends : z = e \/ z = Other(e)
        BY EndFacts, Zenon
      <3>2. st[e] \in RatchetState /\ st[Other(e)] \in RatchetState
        BY <3>1, TypedFacts, Zenon DEF RatchetInv
      <3> QED  BY <3>1, <3>2, Zenon
    <2>1. Receiver(e) /\ Sender(x) /\ (Lags(e) \/ Lags(x))
      BY <2>0, Zenon DEF RatchetInv
    <2>2. /\ y.self[2] \in Nat /\ y.Ns \in Nat /\ y.PN \in Nat /\ y.self = <<y.self[1], y.self[2]>> /\ y.sc \in Chain
          /\ s.remote[2] \in Nat /\ s.Nr \in Nat /\ y.self \in Public
      BY StateFacts, Zenon
    <2>3. y.self[1] = x /\ y.sc # None
      BY <2>0, <2>1, Zenon DEF Sender
    <2>4. \/ Lags(x) /\ s.remote = y.self /\ s.rc = y.sc
          \/ /\ Lags(e) /\ s.remote = <<x, y.self[2] - 1>> /\ s.remote[2] = y.self[2] - 1
             /\ y.sc = KdfRk(s.root, Dh(s.self, y.self))
      <3>1. CASE Lags(x)
        BY <2>0, <3>1, Zenon DEF Lags
      <3>2. CASE Lags(e)
        <4>1. s.remote = <<x, y.self[2] - 1>> /\ y.sc = KdfRk(s.root, Dh(s.self, y.self))
          BY <2>0, <3>2, Zenon DEF Lags
        <4>2. s.remote[2] = y.self[2] - 1
          BY <4>1
        <4> QED  BY <3>2, <4>1, <4>2, Zenon
      <3> QED  BY <2>1, <3>1, <3>2, Zenon
    <2>5. CASE \E m \in DOMAIN sent[x] : h = sent[x][m] /\ ~Opened(e, m)
      <3>1. PICK m \in DOMAIN sent[x] : h = sent[x][m] /\ ~Opened(e, m)
        BY <2>5, Zenon
      <3>2. h \in Header /\ Given(x, h) /\ InReach(s, FALSE, h)
        BY <2>0, <2>1, <3>1, TypedFacts, Zenon DEF RatchetInv, Sender, Receiver, InReach
      <3>3. /\ h.dh[1] = x /\ h.dh[2] \in Nat /\ h.dh = <<h.dh[1], h.dh[2]>> /\ h.n \in Nat
            /\ h.key = KdfCk(h.key.chain, h.n)
        BY <3>2, HeaderFacts, Zenon DEF Given, Used
      <3>4. CASE Id(h) \in Ids(s.skipped)
        <4>1. TakesOut(s, h, TrySkipped(s, h)) /\ RatchetDecrypt(s, h) = TrySkipped(s, h)
          BY <3>4, TryFacts, Zenon DEF RatchetDecrypt
        <4>2. PICK j \in DOMAIN s.skipped : Id(s.skipped[j]) = Id(h) /\ RatchetDecrypt(s, h).key = s.skipped[j].key
          BY <4>1, Zenon DEF TakesOut
        <4>3. KeyFrom(x, s.skipped[j])
          BY <2>0, <2>1, Zenon DEF Receiver
        <4>4. sent[x][m].key = s.skipped[j].key
          BY <3>1, <4>2, <4>3, Zenon DEF KeyFrom
        <4> QED  BY <2>0, <3>1, <4>2, <4>4, Zenon
      <3>5. CASE Id(h) \notin Ids(s.skipped)
        <4>1. ~Passed(s, h)
          BY <2>0, <3>2, <3>5, Zenon DEF InReach
        <4>2. CASE h.dh = s.remote
          <5>1. ~(h.n < s.Nr) /\ s.rc # None /\ h.key = KdfCk(s.rc, h.n)
            BY <3>2, <3>3, <4>1, <4>2, Zenon DEF Passed, InReach
          <5> QED  BY <2>0, <3>2, <3>5, <4>2, <5>1, Derives, Zenon
        <4>3. CASE h.dh # s.remote
          <5>1. ~(h.dh[2] < s.remote[2]) /\ (h.dh[2] < y.self[2] \/ h.dh = y.self)
            BY <2>0, <3>2, <4>1, Zenon DEF Passed, Given, Used
          <5>2. ~Lags(x) \/ s.remote # y.self
            BY <2>2, <3>3, <4>3, <5>1, Zenon
          <5>3. s.remote = <<x, y.self[2] - 1>> /\ s.remote[2] = y.self[2] - 1 /\ y.sc = KdfRk(s.root, Dh(s.self, y.self))
            BY <2>4, <5>2, Zenon
          <5>4. h.dh = y.self
            <6>1. SUFFICES ASSUME h.dh[2] < y.self[2] PROVE FALSE
              BY <5>1, Zenon
            <6>2. h.dh[2] = y.self[2] - 1
              BY <2>2, <3>3, <5>1, <5>3, <6>1
            <6> QED  BY <3>3, <4>3, <5>3, <6>2, Zenon
          <5>5. h.key = KdfCk(KdfRk(s.root, Dh(s.self, h.dh)), h.n)
            BY <2>0, <3>2, <3>3, <5>3, <5>4, Zenon DEF Given
          <5> QED  BY <2>0, <3>2, <3>5, <4>3, <5>5, Derives, Zenon
        <4> QED  BY <4>2, <4>3, Zenon
      <3> QED  BY <3>4, <3>5, Zenon
    <2>6. CASE h = RatchetEncrypt(y)
      <3>1. h = [dh |-> y.self, n |-> y.Ns, pn |-> y.PN, key |-> KdfCk(y.sc, y.Ns)]
        BY <2>6, Zenon DEF RatchetEncrypt
      <3>2. h \in Header /\ h.dh = y.self /\ h.n = y.Ns /\ h.key = KdfCk(y.sc, h.n)
        BY <2>2, <3>1, Zenon DEF Header, MessageKey, KdfCk
      <3>3. Id(h) \notin Ids(s.skipped)
        <4>1. SUFFICES ASSUME NEW j \in DOMAIN s.skipped, Id(s.skipped[j]) = Id(h) PROVE FALSE
          BY Zenon DEF Ids
        <4>2. Used(x, y.self, y.Ns)
          BY <2>0, <2>1, <3>2, <4>1, Zenon DEF Receiver, KeyFrom, Id
        <4> QED  BY <2>0, <2>2, <4>2 DEF Used
      <3>4. CASE s.remote = y.self /\ s.rc = y.sc
        <4>1. ~(y.Ns < s.Nr)
          <5>1. s.Nr <= y.Ns
            BY <2>0, <2>1, <3>4, Zenon DEF Receiver
          <5> QED  BY <2>2, <5>1
        <4> QED  BY <2>0, <2>3, <3>2, <3>3, <3>4, <4>1, Derives, Zenon
      <3>5. CASE s.remote[2] = y.self[2] - 1 /\ y.sc = KdfRk(s.root, Dh(s.self, y.self))
        <4>1. h.dh # s.remote
          BY <2>2, <3>2, <3>5
        <4>2. h.key = KdfCk(KdfRk(s.root, Dh(s.self, h.dh)), h.n)
          BY <3>2, <3>5, Zenon
        <4>3. Far(s, h) \/ RatchetDecrypt(s, h).key = h.key
          BY <3>2, <3>3, <4>1, <4>2, Derives, Zenon
        <4> QED  BY <2>0, <4>3, Zenon
      <3> QED  BY <2>4, <3>4, <3>5, Zenon
    <2>7. \/ h \in {sent[Other(e)][m] : m \in {i \in DOMAIN sent[Other(e)] : ~Opened(e, i)}}
          \/ h = RatchetEncrypt(st[Other(e)])
      BY Zenon DEF Unread
    <2>8. \/ \E m \in {i \in DOMAIN sent[Other(e)] : ~Opened(e, i)} : h = sent[Other(e)][m]
          \/ h = RatchetEncrypt(st[Other(e)])
      BY <2>7, Zenon
    <2>9. (\E m \in DOMAIN sent[x] : h = sent[x][m] /\ ~Opened(e, m)) \/ h = RatchetEncrypt(y)
      BY <2>0, <2>8, Zenon
    <2> QED  BY <2>5, <2>6, <2>9, Zenon
  <1> QED  BY <1>1, RatchetInvariant, PTL
-----------------------------------------------------------------------------
\* The window remembers what it can still be asked about: a cell that took
\* effect is remembered or behind the window, the numbers remembered are those
\* of cells that took effect, and no two cells have the same number.
CellsInv ==
    /\ CellsTypeOK
    /\ \A c \in accepted : c.n \in seen \/ (highest >= Window /\ c.n <= highest - Window)
    /\ \A s \in seen : s <= highest /\ \E c \in accepted : c.n = s
    /\ \A c \in cells : c.n < counter
    /\ \A c, d \in cells : c.n = d.n => c = d

\* CellsInv holds at the start, where no cell is sealed.
LEMMA CellsInvInit == CellsInit => CellsInv
BY CellsAssumption DEF CellsInit, CellsInv, CellsTypeOK, Cell

\* Every step of either end keeps CellsInv.
LEMMA CellsInvStep == CellsInv /\ [CellsNext]_cellVars => CellsInv'
<1> SUFFICES ASSUME CellsInv, [CellsNext]_cellVars PROVE CellsInv'
  BY Zenon
<1> USE CellsAssumption
<1>1. CASE SealCell
  <2> DEFINE new == [n |-> counter, epoch |-> sealEpoch]
  <2>1. new \in Cell /\ new.n = counter
    BY <1>1, Zenon DEF CellsInv, CellsTypeOK, Cell
  <2>2. cells' = cells \cup {new} /\ counter' = counter + 1
    BY <1>1, Zenon DEF SealCell
  <2> HIDE DEF new
  <2>3. CellsTypeOK'
    BY <1>1, <2>1, <2>2 DEF SealCell, CellsInv, CellsTypeOK
  <2>4. \A c \in cells : c.n \in Nat /\ c.n < counter
    BY Zenon DEF CellsInv, CellsTypeOK, Cell
  <2>5. (\A c \in cells : c.n < counter)'
    BY <2>1, <2>2, <2>4 DEF CellsInv, CellsTypeOK
  <2>6. (\A c, d \in cells : c.n = d.n => c = d)'
    BY <2>1, <2>2, <2>4 DEF CellsInv, CellsTypeOK
  <2> QED
    BY <1>1, <2>3, <2>5, <2>6, Zenon DEF SealCell, CellsInv
<1>2. CASE Heal
  BY <1>2 DEF Heal, CellsInv, CellsTypeOK
<1>3. ASSUME NEW a \in cells, AcceptCell(a) PROVE CellsInv'
  <2>1. a.n \in Nat /\ \A c \in cells : c.n \in Nat
    BY Zenon DEF CellsInv, CellsTypeOK, Cell
  <2>2. accepted' = accepted \cup {a} /\ accepted \subseteq cells
    BY <1>3, Zenon DEF AcceptCell, CellsInv, CellsTypeOK
  <2>3. highest' = IF a.n > highest THEN a.n ELSE highest
    BY <1>3, Zenon DEF AcceptCell
  <2>4. highest \in Nat \cup {-1} /\ highest' \in Nat /\ highest' >= highest /\ highest' >= a.n
    BY <2>1, <2>3 DEF CellsInv, CellsTypeOK
  <2>5. seen' = IF a.n > highest /\ a.n >= Window
                THEN {s \in seen \cup {a.n} : s > a.n - Window} ELSE seen \cup {a.n}
    BY <1>3, Zenon DEF AcceptCell, Remembered
  <2>6. seen \subseteq Nat /\ seen' \subseteq seen \cup {a.n} /\ a.n \in seen'
    BY <2>1, <2>5 DEF CellsInv, CellsTypeOK
  <2>7. CellsTypeOK'
    BY <1>3, <2>1, <2>2, <2>4, <2>6, Zenon DEF AcceptCell, CellsInv, CellsTypeOK
  <2>8. ASSUME NEW c \in accepted'
        PROVE  c.n \in seen' \/ (highest' >= Window /\ c.n <= highest' - Window)
    <3>1. CASE c = a
      BY <3>1, <2>6, Zenon
    <3>2. CASE c \in accepted
      <4>1. c.n \in Nat
        BY <3>2, <2>1, <2>2, Zenon
      <4>2. c.n \in seen \/ (highest >= Window /\ c.n <= highest - Window)
        BY <3>2, Zenon DEF CellsInv
      <4>3. CASE c.n \in seen
        BY <4>1, <4>3, <2>1, <2>3, <2>4, <2>5
      <4>4. CASE highest >= Window /\ c.n <= highest - Window
        BY <4>1, <4>4, <2>4
      <4> QED
        BY <4>2, <4>3, <4>4, Zenon
    <3> QED
      BY <2>2, <3>1, <3>2, Zenon
  <2>9. ASSUME NEW s \in seen' PROVE s <= highest' /\ \E c \in accepted' : c.n = s
    <3>1. CASE s = a.n
      BY <3>1, <2>2, <2>4, Zenon
    <3>2. CASE s \in seen
      <4>1. s \in Nat /\ s <= highest /\ \E c \in accepted : c.n = s
        BY <3>2, <2>6, Zenon DEF CellsInv
      <4> QED
        BY <4>1, <2>2, <2>4
    <3> QED
      BY <2>6, <3>1, <3>2, Zenon
  <2> QED
    BY <1>3, <2>7, <2>8, <2>9, Zenon DEF AcceptCell, CellsInv
<1>4. CASE UNCHANGED cellVars
  BY <1>4, Zenon DEF cellVars, CellsInv, CellsTypeOK
<1> QED
  BY <1>1, <1>2, <1>3, <1>4, Zenon DEF CellsNext

\* The invariant of the window holds throughout.
THEOREM CellsInvariant == CellsSpec => []CellsInv
BY CellsInvInit, CellsInvStep, PTL DEF CellsSpec

\* A cell that took effect is refused ever after, for every window.
THEOREM CellsActOnceTheorem == CellsSpec => []CellsActOnce
<1>1. CellsInv => CellsActOnce
  BY CellsAssumption DEF CellsInv, CellsTypeOK, Cell, CellsActOnce, Admits, Behind
<1> QED
  BY <1>1, CellsInvariant, PTL

\* A cell of the receiver's epoch that has not taken effect is refused only
\* when it is a window behind the highest number seen.
THEOREM OnlyLateCellsTheorem == CellsSpec => []OnlyLateCellsAreRefused
<1>1. CellsInv => OnlyLateCellsAreRefused
  <2> SUFFICES ASSUME CellsInv, NEW c \in cells \ accepted
               PROVE  Admits(c.n) \/ c.n <= highest - Window
    BY Zenon DEF OnlyLateCellsAreRefused
  <2>1. \A d \in accepted : d.n # c.n
    BY Zenon DEF CellsInv, CellsTypeOK
  <2>2. c.n \notin seen
    BY <2>1, Zenon DEF CellsInv
  <2> QED
    BY <2>2, Zenon DEF Admits, Behind
<1> QED
  BY <1>1, CellsInvariant, PTL

-----------------------------------------------------------------------------
\* What is appended to a sequence comes last, and the rest stays in place.
LEMMA Appended ==
    ASSUME NEW S, NEW s \in Seq(S), NEW x \in S, NEW t, t = Append(s, x)
    PROVE  /\ t \in Seq(S) /\ t # << >> /\ DOMAIN s = 1 .. Len(s) /\ Len(s) \in Nat
           /\ DOMAIN t = 1 .. Len(s) + 1
           /\ \A i \in DOMAIN s : t[i] = s[i]
           /\ t[Len(s) + 1] = x
OBVIOUS

\* What is left of a sequence without its head.
LEMMA Shortened ==
    ASSUME NEW S, NEW s \in Seq(S), s # << >>, NEW t, t = Tail(s)
    PROVE  /\ t \in Seq(S) /\ Len(s) \in Nat /\ DOMAIN s = 1 .. Len(s)
           /\ DOMAIN t = 1 .. Len(s) - 1
           /\ \A i \in DOMAIN t : i \in Nat /\ i + 1 \in DOMAIN s /\ t[i] = s[i + 1]
           /\ 1 \in DOMAIN s /\ Head(s) = s[1] /\ s[1] \in S
OBVIOUS

\* A ticket of the persistence lock is of a connection and of one of two kinds.
LEMMA TicketsTyped ==
    ASSUME RowTypeOK
    PROVE  \A i \in DOMAIN plock : plock[i].conn \in Conns /\ plock[i].kind \in {"seed", "mutate"}
<1>1. ASSUME NEW i \in DOMAIN plock PROVE plock[i] \in Tickets
  BY DEF RowTypeOK
<1>2. ASSUME NEW x \in Tickets PROVE x.conn \in Conns /\ x.kind \in {"seed", "mutate"}
  BY Zenon DEF Tickets
<1> QED BY <1>1, <1>2, Zenon

\* The holder of the persistence lock is its first ticket.
LEMMA HolderTyped ==
    ASSUME RowTypeOK, plock # << >>
    PROVE  /\ Holder = plock[1] /\ 1 \in DOMAIN plock
           /\ Holder.conn \in Conns /\ Holder.kind \in {"seed", "mutate"}
<1>1. Head(plock) = plock[1] /\ 1 \in DOMAIN plock
  BY DEF RowTypeOK
<1> QED BY <1>1, TicketsTyped, Zenon DEF Holder

\* The row is absent or of a connection.
LEMMA RowTyped ==
    ASSUME RowTypeOK
    PROVE  /\ row.conn \in 0 .. NConns /\ row.n \in Nat
           /\ row # NoRow => row.conn \in Conns
BY RowAssumption DEF RowTypeOK, Indices, NoRow, Conns

\* Only connections that claimed the edge ask for the persistence lock.
LEMMA TicketsClaimed ==
    ASSUME RowTypeOK, Claimed, Queued
    PROVE  \A i \in DOMAIN plock : plock[i].conn <= owner
BY TicketsTyped, Zenon DEF Claimed, Queued

\* The owner of the edge joins the queue of the persistence lock
\* (withRatchetPersistenceLock), behind whoever is there.
LEMMA TicketAdded ==
    ASSUME RowTypeOK, Claimed, Queued, NEW t \in Tickets, t.conn = owner,
           plock' = Append(plock, t), live' = live,
           \A i \in DOMAIN plock : plock[i] # t,
           t.kind = "seed" => seed'[owner] = "queued" /\ mut' = mut,
           t.kind = "mutate" => mut'[owner].stage = "waiting" /\ seed' = seed,
           \A d \in Conns : seed[d] = "queued" => seed'[d] = "queued",
           \A d \in Conns : mut[d].stage = "waiting" => mut'[d].stage = "waiting"
    PROVE  /\ plock' \in Seq(Tickets) /\ Queued'
           /\ plock # << >> => plock' # << >> /\ Holder' = Holder
<1>1. plock \in Seq(Tickets)
  BY Zenon DEF RowTypeOK
<1>2. /\ plock' \in Seq(Tickets) /\ plock' # << >>
      /\ DOMAIN plock = 1 .. Len(plock) /\ Len(plock) \in Nat
      /\ DOMAIN plock' = 1 .. Len(plock) + 1
      /\ \A i \in DOMAIN plock : plock'[i] = plock[i]
      /\ plock'[Len(plock) + 1] = t
  BY <1>1, Appended
<1>3. \A i \in DOMAIN plock :
         /\ plock[i].kind = "seed" => seed'[plock[i].conn] = "queued"
         /\ plock[i].kind = "mutate" => mut'[plock[i].conn].stage = "waiting"
  BY TicketsTyped, Zenon DEF Queued
<1>4. \A i \in DOMAIN plock' :
         /\ plock'[i].kind = "seed" => seed'[plock'[i].conn] = "queued"
         /\ plock'[i].kind = "mutate" => mut'[plock'[i].conn].stage = "waiting"
  BY <1>2, <1>3
<1>5. \A i, j \in DOMAIN plock' :
         /\ plock'[i] = plock'[j] => i = j
         /\ i < j => plock'[i].conn <= plock'[j].conn
  BY <1>2, TicketsClaimed DEF Queued
<1>6. \A d \in Conns, i \in DOMAIN plock' : live'[d] >= 0 => plock'[i].conn = d
  BY <1>2 DEF Queued, Claimed
<1>7. plock # << >> => Holder' = Holder
  BY <1>1, <1>2 DEF Holder
<1> QED
  BY <1>2, <1>4, <1>5, <1>6, <1>7, Zenon DEF Queued

\* The holder leaves the persistence lock, and the next ticket holds it.  A
\* ratchet goes live only under the last connection's own seed, so no ticket of
\* a replaced connection is behind it.
LEMMA TicketReleased ==
    ASSUME RowTypeOK, Claimed, Queued, plock # << >>, plock' = Tail(plock),
           \A d \in Conns : ~(Holder.conn = d /\ Holder.kind = "seed")
                              => (seed[d] = "queued" => seed'[d] = "queued"),
           \A d \in Conns : ~(Holder.conn = d /\ Holder.kind = "mutate")
                              => (mut[d].stage = "waiting" => mut'[d].stage = "waiting"),
           \A d \in Conns : live'[d] >= 0 => live[d] >= 0 \/ (owner = d /\ Holder.conn = d)
    PROVE  plock' \in Seq(Tickets) /\ Queued'
<1>1. plock \in Seq(Tickets)
  BY Zenon DEF RowTypeOK
<1>2. /\ plock' \in Seq(Tickets) /\ Len(plock) \in Nat /\ DOMAIN plock = 1 .. Len(plock)
      /\ DOMAIN plock' = 1 .. Len(plock) - 1
      /\ \A i \in DOMAIN plock' : i \in Nat /\ i + 1 \in DOMAIN plock /\ plock'[i] = plock[i + 1]
      /\ 1 \in DOMAIN plock /\ Holder = plock[1]
  BY <1>1, Shortened DEF Holder
<1>3. ASSUME NEW i \in DOMAIN plock, i # 1
      PROVE  /\ plock[i].kind = "seed" => seed'[plock[i].conn] = "queued"
             /\ plock[i].kind = "mutate" => mut'[plock[i].conn].stage = "waiting"
  <2>1. plock[i] # Holder
    BY <1>2, <1>3, Zenon DEF Queued
  <2>2. plock[i].conn \in Conns /\ ~(Holder.conn = plock[i].conn /\ Holder.kind = plock[i].kind)
    <3>1. plock[i] \in Tickets /\ Holder \in Tickets
      BY <1>1, <1>2
    <3> QED BY <2>1, <3>1 DEF Tickets
  <2> QED
    BY <2>1, <2>2, Zenon DEF Queued
<1>4. \A i \in DOMAIN plock' :
         /\ plock'[i].kind = "seed" => seed'[plock'[i].conn] = "queued"
         /\ plock'[i].kind = "mutate" => mut'[plock'[i].conn].stage = "waiting"
  BY <1>2, <1>3
<1>5. \A i, j \in DOMAIN plock' :
         /\ plock'[i] = plock'[j] => i = j
         /\ i < j => plock'[i].conn <= plock'[j].conn
  BY <1>2 DEF Queued
<1>6. ASSUME NEW d \in Conns, NEW i \in DOMAIN plock', live'[d] >= 0
      PROVE  plock'[i].conn = d
  <2>1. CASE live[d] >= 0
    BY <1>2, <2>1 DEF Queued
  <2>2. CASE owner = d /\ Holder.conn = d
    <3>1. d <= plock[i + 1].conn
      BY <1>2, <2>2 DEF Queued
    <3>2. plock[i + 1].conn <= d /\ plock[i + 1].conn \in Conns
      BY <1>2, <2>2, TicketsClaimed, TicketsTyped, Zenon
    <3> QED
      BY <1>2, <3>1, <3>2, RowAssumption DEF Conns
  <2> QED
    BY <1>6, <2>1, <2>2, Zenon
<1> QED
  BY <1>2, <1>4, <1>5, <1>6, Zenon DEF Queued

\* A new connection claims the edge: it is later than every one before it.
LEMMA ClaimKeeps ==
    ASSUME DurableInv, NEW c \in Conns, Claim(c) PROVE DurableInv'
<1> USE RowAssumption DEF Conns
<1>1. RowTypeOK'
  BY DEF Claim, DurableInv, RowTypeOK
<1>2. Claimed'
  BY DEF Claim, DurableInv, RowTypeOK, Claimed, Indices
<1>3. Queued'
  BY DEF Claim, DurableInv, RowTypeOK, Queued, Claimed, Tickets
<1>4. Called'
  <2>1. Holder' = Holder /\ Candidate' = Candidate
    BY Zenon DEF Claim, Holder, Candidate
  <2>2. row.conn <= owner'
    <3>1. owner < c /\ row.conn <= owner /\ owner' = c /\ owner \in 0 .. NConns
      BY DEF Claim, DurableInv, Called, Claimed, RowTypeOK
    <3>2. row.conn \in 0 .. NConns
      BY RowTyped, Zenon DEF DurableInv
    <3> QED BY <3>1, <3>2
  <2>3. row # NoRow /\ seed[row.conn] = "up" => seed'[row.conn] = "up"
    BY RowTyped, Zenon DEF Claim, DurableInv, RowTypeOK
  <2> QED
    BY <2>1, <2>2, <2>3, Zenon DEF Claim, DurableInv, Called
<1>5. Ahead'
  BY Zenon DEF Claim, DurableInv, RowTypeOK, Ahead
<1>6. NoKeyReuseAfterRestart' /\ OwnerIsDurable'
  BY Zenon DEF Claim, DurableInv, RowTypeOK, Claimed,
     NoKeyReuseAfterRestart, OwnerIsDurable
<1> QED BY <1>1, <1>2, <1>3, <1>4, <1>5, <1>6, Zenon DEF DurableInv

\* A connection is torn down.
LEMMA CloseKeeps ==
    ASSUME DurableInv, NEW c \in Conns, Close(c) PROVE DurableInv'
<1> USE RowAssumption DEF Conns
<1>1. RowTypeOK'
  BY Zenon DEF Close, DurableInv, RowTypeOK
<1>2. Claimed'
  BY DEF Close, DurableInv, RowTypeOK, Claimed
<1>3. Queued'
  BY DEF Close, DurableInv, RowTypeOK, Queued
<1>4. Called'
  <2>1. Holder' = Holder /\ Candidate' = Candidate
    BY Zenon DEF Close, Holder, Candidate
  <2> QED
    BY <2>1, Zenon DEF Close, DurableInv, Called
<1>5. Ahead'
  BY DEF Close, DurableInv, RowTypeOK, Ahead
<1>6. NoKeyReuseAfterRestart' /\ OwnerIsDurable'
  BY DEF Close, DurableInv, RowTypeOK, Claimed,
     NoKeyReuseAfterRestart, OwnerIsDurable
<1> QED BY <1>1, <1>2, <1>3, <1>4, <1>5, <1>6, Zenon DEF DurableInv

\* A handshake ends, and its seed waits for the lock or has failed.
LEMMA HandshakeDoneKeeps ==
    ASSUME DurableInv, NEW c \in Conns, HandshakeDone(c) PROVE DurableInv'
<1> USE RowAssumption DEF Conns
<1>1. plock' \in Seq(Tickets) /\ Queued' /\ (plock # << >> => plock' # << >> /\ Holder' = Holder)
  <2>1. CASE owner = c /\ seed' = [seed EXCEPT ![c] = "queued"] /\ Wait(c, "seed")
    <3> DEFINE t == [conn |-> c, kind |-> "seed"]
    <3>1. t \in Tickets /\ t.conn = c /\ t.kind = "seed" /\ plock' = Append(plock, t)
      BY <2>1, Zenon DEF Tickets, Wait
    <3> HIDE DEF t
    <3>2. \A i \in DOMAIN plock : plock[i] # t
      BY <3>1, Zenon DEF DurableInv, Queued, HandshakeDone
    <3> QED
      BY <2>1, <3>1, <3>2, TicketAdded, Zenon DEF DurableInv, RowTypeOK, HandshakeDone
  <2>2. CASE seed' = [seed EXCEPT ![c] = "failed"] /\ UNCHANGED plock
    <3>1. \A i \in DOMAIN plock : plock[i].kind = "seed" => seed'[plock[i].conn] = "queued"
      BY <2>2, TicketsTyped, Zenon DEF HandshakeDone, DurableInv, RowTypeOK,
         Queued
    <3> QED
      BY <2>2, <3>1 DEF HandshakeDone, DurableInv, RowTypeOK, Queued,
         Holder
  <2> QED
    BY <2>1, <2>2, Zenon DEF HandshakeDone
<1>2. RowTypeOK'
  BY <1>1, Zenon DEF HandshakeDone, DurableInv, RowTypeOK
<1>3. Claimed'
  BY DEF HandshakeDone, DurableInv, RowTypeOK, Claimed, Indices
<1>4. Called'
  BY <1>1, RowTyped, HolderTyped, Zenon DEF HandshakeDone, DurableInv, RowTypeOK,
     Called, Claimed, Candidate
<1>5. Ahead'
  BY Zenon DEF HandshakeDone, DurableInv, RowTypeOK, Ahead
<1>6. NoKeyReuseAfterRestart' /\ OwnerIsDurable'
  BY Zenon DEF HandshakeDone, DurableInv, RowTypeOK, Claimed,
     NoKeyReuseAfterRestart, OwnerIsDurable
<1> QED BY <1>1, <1>2, <1>3, <1>4, <1>5, <1>6, Zenon DEF DurableInv

\* Whoever holds the lock is waiting for what it asked for.
LEMMA HolderWaits ==
    ASSUME DurableInv, NEW c \in Conns, NEW kind \in {"seed", "mutate"}, Holds(c, kind)
    PROVE  /\ plock # << >> /\ Holder.conn = c /\ Holder.kind = kind
           /\ kind = "seed" => seed[c] = "queued"
           /\ kind = "mutate" => mut[c].stage = "waiting" /\ seed[c] = "up"
           /\ c <= owner
BY HolderTyped, TicketsClaimed DEF Holds, DurableInv, Queued, Claimed

\* A seed gets the lock: only the owner's is posted.
LEMMA SeedGrantedKeeps ==
    ASSUME DurableInv, NEW c \in Conns, SeedGranted(c) PROVE DurableInv'
<1> USE RowAssumption DEF Conns
<1>0. Holds(c, "seed") /\ io = "idle" /\ row' = row /\ lost' = lost
  BY Zenon DEF SeedGranted
<1>1. /\ plock # << >> /\ Holder.conn = c /\ Holder.kind = "seed" /\ seed[c] = "queued"
  BY <1>0, HolderWaits, Zenon
<1>2. CASE owner = c
  <2>1. io' = "posted" /\ plock' = plock /\ seed' = seed
    BY <1>2, Zenon DEF SeedGranted
  <2>2. Holder' = Holder
    BY <2>1, Zenon DEF Holder
  <2>3. RowTypeOK' /\ Claimed' /\ Queued'
    BY <2>1 DEF SeedGranted, DurableInv, RowTypeOK, Claimed, Queued
  <2>4. Called'
    BY <1>0, <1>1, <1>2, <2>1, <2>2, RowTyped, Zenon DEF SeedGranted, DurableInv,
       Called
  <2>5. Ahead' /\ NoKeyReuseAfterRestart' /\ OwnerIsDurable'
    BY Zenon DEF SeedGranted, DurableInv, Ahead, NoKeyReuseAfterRestart,
       OwnerIsDurable
  <2> QED
    BY <2>3, <2>4, <2>5, Zenon DEF DurableInv
<1>3. CASE owner # c
  <2>1. plock' = Tail(plock) /\ io' = "idle" /\ seed' = [seed EXCEPT ![c] = "failed"]
    BY <1>3, Zenon DEF SeedGranted, Release
  <2>2. plock' \in Seq(Tickets) /\ Queued'
    BY <1>1, <2>1, TicketReleased, Zenon DEF SeedGranted, DurableInv, RowTypeOK
  <2>3. RowTypeOK' /\ Claimed'
    BY <1>1, <2>1, <2>2, Zenon DEF SeedGranted, DurableInv, RowTypeOK,
       Claimed, Indices
  <2>4. Called'
    BY <1>0, <1>1, <2>1, RowTyped, Zenon DEF SeedGranted, DurableInv, RowTypeOK,
       Called
  <2>5. Ahead' /\ NoKeyReuseAfterRestart' /\ OwnerIsDurable'
    BY Zenon DEF SeedGranted, DurableInv, Ahead, NoKeyReuseAfterRestart,
       OwnerIsDurable
  <2> QED
    BY <2>2, <2>3, <2>4, <2>5, Zenon DEF DurableInv
<1> QED
  BY <1>2, <1>3, Zenon

\* The answer of a seed's write: activation finds the seed in the row.
LEMMA SeedAnsweredKeeps ==
    ASSUME DurableInv, NEW c \in Conns, SeedAnswered(c) PROVE DurableInv'
<1> USE RowAssumption DEF Conns
<1>0. Holds(c, "seed") /\ io \in {"ok", "error"} /\ row' = row /\ lost' = lost /\ mut' = mut /\ owner' = owner
  BY Zenon DEF SeedAnswered
<1>1. /\ plock # << >> /\ Holder.conn = c /\ Holder.kind = "seed" /\ seed[c] = "queued"
  BY <1>0, HolderWaits, Zenon
<1>2. CASE io = "ok" /\ owner = c /\ open[c]
  <2>1. /\ plock' = Tail(plock) /\ io' = "idle" /\ seed' = [seed EXCEPT ![c] = "up"]
        /\ live' = [live EXCEPT ![c] = 0]
    BY <1>2, Zenon DEF SeedAnswered, Release
  <2>2. plock' \in Seq(Tickets) /\ Queued'
    BY <1>0, <1>1, <1>2, <2>1, TicketReleased, Zenon DEF DurableInv, RowTypeOK
  <2>3. RowTypeOK' /\ Claimed'
    BY <1>1, <1>2, <2>1, <2>2 DEF SeedAnswered, DurableInv, RowTypeOK,
       Claimed, Indices
  <2>4. row.conn = c /\ row.n = 0
    BY <1>1, <1>2 DEF DurableInv, Called, Candidate
  <2>5. Called'
    BY <1>0, <1>1, <1>2, <2>1, <2>4, Zenon DEF DurableInv, RowTypeOK, Called
  <2>6. mut[c].stage = "idle" /\ \A k \in used : k.conn # c
    BY <1>1, Zenon DEF DurableInv, Claimed
  <2>7. used' = used /\ row' = row
    BY Zenon DEF SeedAnswered
  <2>8. NoKeyReuseAfterRestart' /\ OwnerIsDurable'
    BY <1>0, <1>2, <2>1, <2>4, <2>7 DEF DurableInv, RowTypeOK,
       NoKeyReuseAfterRestart, OwnerIsDurable
  <2>9. Ahead'
    BY <1>0, <2>1, <2>6, <2>7, Zenon DEF DurableInv, RowTypeOK, Ahead
  <2> QED
    BY <2>2, <2>3, <2>5, <2>8, <2>9, Zenon DEF DurableInv
<1>3. CASE ~(io = "ok" /\ owner = c /\ open[c])
  <2>1. io' = "rollback" /\ plock' = plock /\ seed' = seed /\ live' = live
    BY <1>3, Zenon DEF SeedAnswered
  <2>2. Holder' = Holder
    BY <2>1, Zenon DEF Holder
  <2>3. RowTypeOK' /\ Claimed' /\ Queued'
    <3>1. UNCHANGED <<owner, open, seed, live, want, mut, plock, row, used, faults, lost>>
      BY <2>1, Zenon DEF SeedAnswered
    <3>2. RowTypeOK'
      BY <2>1, <3>1, Zenon DEF DurableInv, RowTypeOK
    <3>3. Claimed'
      BY <3>1, Zenon DEF DurableInv, Claimed
    <3> QED BY <3>1, <3>2, <3>3 DEF DurableInv, Queued
  <2>4. Called'
    BY <1>0, <1>1, <2>1, <2>2, RowTyped, Zenon DEF DurableInv, Called
  <2>5. Ahead' /\ NoKeyReuseAfterRestart' /\ OwnerIsDurable'
    BY <2>1, Zenon DEF SeedAnswered, DurableInv, Ahead,
       NoKeyReuseAfterRestart, OwnerIsDurable
  <2> QED
    BY <2>3, <2>4, <2>5, Zenon DEF DurableInv
<1> QED
  BY <1>2, <1>3, Zenon

\* A seed is rolled back: no ratchet is live while one is queued.
LEMMA SeedRollbackKeeps ==
    ASSUME DurableInv, NEW c \in Conns, SeedRollback(c) PROVE DurableInv'
<1> USE RowAssumption DEF Conns
<1>0. /\ Holds(c, "seed") /\ io = "rollback" /\ plock' = Tail(plock) /\ io' = "idle"
      /\ seed' = [seed EXCEPT ![c] = "failed"] /\ mut' = mut /\ owner' = owner /\ live' = live /\ used' = used
      /\ (row' = NoRow /\ lost' = lost) \/ (row' = row /\ lost' = lost + 1)
  BY Zenon DEF SeedRollback, Release
<1>1. /\ plock # << >> /\ Holder.conn = c /\ Holder.kind = "seed" /\ seed[c] = "queued"
  BY <1>0, HolderWaits, Zenon
<1>2. plock' \in Seq(Tickets) /\ Queued'
  BY <1>0, <1>1, TicketReleased, Zenon DEF DurableInv, RowTypeOK
<1>3. RowTypeOK'
  <2>1. row' \in Indices \union {NoRow} /\ lost' \in 0 .. MaxDeleteFaults
    BY DEF SeedRollback, DurableInv, RowTypeOK
  <2>2. seed' \in [Conns -> {"none", "claimed", "queued", "up", "failed"}] /\ plock' \in Seq(Tickets)
    BY <1>0, <1>2, Zenon DEF DurableInv, RowTypeOK
  <2>3. UNCHANGED <<owner, open, live, want, mut, used, faults>> /\ io' = "idle"
    BY <1>0, Zenon DEF SeedRollback
  <2> QED
    BY <2>1, <2>2, <2>3, Zenon DEF DurableInv, RowTypeOK
<1>4. Claimed'
  BY <1>0, <1>1, SMTT(30) DEF SeedRollback, DurableInv, RowTypeOK, Claimed,
     Indices
<1>5. Called'
  BY <1>0, <1>1, RowTyped DEF DurableInv, RowTypeOK, Called, NoRow
<1>6. \A d \in Conns : live[d] >= 0 => d = c
  BY <1>1, HolderTyped, Zenon DEF DurableInv, Queued
<1>7. ~(live[c] >= 0)
  BY <1>1, Zenon DEF DurableInv, Claimed
<1>8. (\A d \in Conns : NoRow.conn # d) /\ \A k \in used : k.conn \in Conns
  <2>1. NoRow.conn = 0 /\ \A k \in used : k.conn \in Conns
    BY Zenon DEF NoRow, DurableInv, RowTypeOK, Indices
  <2>2. \A d \in Conns : 0 # d
    OBVIOUS
  <2> QED
    BY <2>1, <2>2, Zenon
<1>9. Ahead'
  BY <1>0, <1>8, Zenon DEF DurableInv, Ahead
<1>10. NoKeyReuseAfterRestart'
  BY <1>0, <1>8, Zenon DEF DurableInv, NoKeyReuseAfterRestart
<1>11. OwnerIsDurable'
  BY <1>0, <1>6, <1>7, Zenon DEF OwnerIsDurable
<1> QED
  BY <1>2, <1>3, <1>4, <1>5, <1>9, <1>10, <1>11, Zenon DEF DurableInv

\* A mutation clones the live ratchet and waits for the lock.
LEMMA MutateKeeps ==
    ASSUME DurableInv, NEW c \in Conns, Mutate(c) PROVE DurableInv'
<1> USE RowAssumption DEF Conns
<1> DEFINE t == [conn |-> c, kind |-> "mutate"]
<1>1. /\ mut[c].stage = "idle" /\ want[c] > 0 /\ live[c] >= 0
      /\ mut' = [mut EXCEPT ![c] = [stage |-> "waiting", n |-> live[c]]]
      /\ plock' = Append(plock, t)
      /\ UNCHANGED <<owner, open, seed, live, io, row, used, faults, lost>>
  BY Zenon DEF Mutate, Wait
<1>2. t \in Tickets /\ t.conn = c /\ t.kind = "mutate"
  BY Zenon DEF Tickets
<1> HIDE DEF t
<1>3. owner = c /\ live[c] \in Nat
  BY <1>1 DEF DurableInv, Claimed, RowTypeOK
<1>4. /\ mut'[c].stage = "waiting" /\ mut'[c].n = live[c]
      /\ \A d \in Conns : d # c => mut'[d] = mut[d]
      /\ mut' \in [Conns -> Mutations]
  BY <1>1, <1>3, Zenon DEF DurableInv, RowTypeOK, Mutations
<1>5. /\ plock' \in Seq(Tickets) /\ Queued'
      /\ plock # << >> => plock' # << >> /\ Holder' = Holder
  <2>1. \A i \in DOMAIN plock : plock[i] # t
    BY <1>1, <1>2, Zenon DEF DurableInv, Queued
  <2> QED
    BY <1>1, <1>2, <1>3, <1>4, <2>1, TicketAdded, Zenon DEF DurableInv
<1>6. RowTypeOK'
  <2>1. want' \in [Conns -> 0 .. MaxSends]
    BY <1>1 DEF Mutate, DurableInv, RowTypeOK
  <2> QED
    BY <1>1, <1>4, <1>5, <2>1, Zenon DEF DurableInv, RowTypeOK
<1>7. Claimed'
  BY <1>1, <1>4, Zenon DEF DurableInv, Claimed
<1>8. Called'
  <2>1. io # "idle" => plock # << >>
    BY Zenon DEF DurableInv, Called
  <2>2. io = "ok" => Candidate' = Candidate
    <3> SUFFICES ASSUME io = "ok" PROVE Candidate' = Candidate
      BY Zenon
    <3>1. plock # << >> /\ Holder' = Holder
      BY <1>5, <2>1, Zenon
    <3>2. Holder.kind = "mutate" => mut[Holder.conn].stage = "waiting" /\ Holder.conn \in Conns
      BY <3>1, HolderTyped, Zenon DEF DurableInv, Queued
    <3>3. Holder.kind \in {"seed", "mutate"}
      BY <3>1, HolderTyped, Zenon DEF DurableInv
    <3> QED
      BY <1>1, <1>4, <3>1, <3>2, <3>3, Zenon DEF Candidate
  <2> QED
    BY <1>1, <1>5, <2>1, <2>2, Zenon DEF DurableInv, Called
<1>9. Ahead'
  BY <1>1, <1>4 DEF DurableInv, Ahead
<1>10. NoKeyReuseAfterRestart' /\ OwnerIsDurable'
  BY <1>1, Zenon DEF DurableInv, NoKeyReuseAfterRestart, OwnerIsDurable
<1> QED
  BY <1>5, <1>6, <1>7, <1>8, <1>9, <1>10, Zenon DEF DurableInv

\* A mutation gets the lock: only one of the owner's live ratchet is posted.
LEMMA MutationGrantedKeeps ==
    ASSUME DurableInv, NEW c \in Conns, MutationGranted(c) PROVE DurableInv'
<1> USE RowAssumption DEF Conns
<1>0. /\ Holds(c, "mutate") /\ io = "idle"
      /\ UNCHANGED <<owner, open, seed, live, row, used, lost>>
  BY Zenon DEF MutationGranted
<1>1. /\ plock # << >> /\ Holder.conn = c /\ Holder.kind = "mutate"
      /\ mut[c].stage = "waiting" /\ seed[c] = "up"
  BY <1>0, HolderWaits, Zenon
<1>2. CASE owner = c /\ live[c] >= 0
  <2>1. io' = "posted" /\ plock' = plock /\ mut' = mut
    BY <1>2, Zenon DEF MutationGranted
  <2>2. Holder' = Holder
    BY <2>1, Zenon DEF Holder
  <2>3. RowTypeOK' /\ Claimed' /\ Queued'
    BY <2>1, Zenon DEF MutationGranted, DurableInv, RowTypeOK, Claimed,
       Queued
  <2>4. Called'
    BY <1>0, <1>1, <1>2, <2>1, <2>2, RowTyped, Zenon DEF DurableInv, Called
  <2>5. Ahead' /\ NoKeyReuseAfterRestart' /\ OwnerIsDurable'
    BY <1>0, <2>1, Zenon DEF DurableInv, Ahead, NoKeyReuseAfterRestart,
       OwnerIsDurable
  <2> QED
    BY <2>3, <2>4, <2>5, Zenon DEF DurableInv
<1>3. CASE ~(owner = c /\ live[c] >= 0)
  <2>1. plock' = Tail(plock) /\ io' = "idle" /\ mut' = [mut EXCEPT ![c] = NoMutation]
    BY <1>3, Zenon DEF MutationGranted, Release
  <2>2. /\ mut' \in [Conns -> Mutations] /\ mut'[c].stage = "idle"
        /\ \A d \in Conns : d # c => mut'[d] = mut[d]
    BY <2>1, Zenon DEF DurableInv, RowTypeOK, NoMutation, Mutations
  <2>3. plock' \in Seq(Tickets) /\ Queued'
    BY <1>0, <1>1, <2>1, <2>2, TicketReleased DEF DurableInv
  <2>4. RowTypeOK' /\ Claimed'
    BY <1>0, <2>1, <2>2, <2>3, SMTT(30) DEF MutationGranted, DurableInv, RowTypeOK,
       Claimed
  <2>5. Called'
    BY <1>0, <1>1, <2>1, RowTyped, Zenon DEF DurableInv, RowTypeOK, Called
  <2>6. Ahead' /\ NoKeyReuseAfterRestart' /\ OwnerIsDurable'
    BY <1>0, <2>2 DEF DurableInv, Ahead, NoKeyReuseAfterRestart,
       OwnerIsDurable
  <2> QED
    BY <2>3, <2>4, <2>5, <2>6, Zenon DEF DurableInv
<1> QED
  BY <1>2, <1>3, Zenon

\* The answer of a mutation's write: a durable one is in the row.
LEMMA MutationAnsweredKeeps ==
    ASSUME DurableInv, NEW c \in Conns, MutationAnswered(c) PROVE DurableInv'
<1> USE RowAssumption DEF Conns
<1>0. /\ Holds(c, "mutate") /\ io \in {"ok", "error"} /\ plock' = Tail(plock) /\ io' = "idle"
      /\ UNCHANGED <<owner, open, seed, live, row, used, lost>>
  BY Zenon DEF MutationAnswered, Release
<1>1. /\ plock # << >> /\ Holder.conn = c /\ Holder.kind = "mutate"
      /\ mut[c].stage = "waiting" /\ seed[c] = "up"
  BY <1>0, HolderWaits, Zenon
<1>2. /\ mut' \in [Conns -> Mutations]
      /\ \/ mut'[c].stage = "idle"
         \/ mut'[c].stage = "durable" /\ mut'[c].n = mut[c].n /\ io = "ok"
      /\ \A d \in Conns : d # c => mut'[d] = mut[d]
  BY Zenon DEF MutationAnswered, DurableInv, RowTypeOK, NoMutation,
     Mutations
<1>3. plock' \in Seq(Tickets) /\ Queued'
  BY <1>0, <1>1, <1>2, TicketReleased, Zenon DEF DurableInv
<1>4. RowTypeOK' /\ Claimed'
  BY <1>0, <1>1, <1>2, <1>3 DEF MutationAnswered, DurableInv, RowTypeOK,
     Claimed
<1>5. Called'
  BY <1>0, <1>1, RowTyped, SMTT(30) DEF DurableInv, RowTypeOK, Called
<1>6. io = "ok" => row.n = mut[c].n + 1 /\ mut[c].n \in Nat
  BY <1>1, SMTT(30) DEF DurableInv, Called, Candidate, RowTypeOK, Mutations
<1>7. Ahead'
  <2> SUFFICES ASSUME NEW d \in Conns
               PROVE  /\ mut'[d].stage # "idle" /\ live[d] >= 0 => live[d] = mut'[d].n
                      /\ mut'[d].stage = "durable" /\ row.conn = d => row.n > mut'[d].n
                      /\ \A k \in used : k.conn = d =>
                           /\ mut'[d].stage # "idle" => k.n < mut'[d].n
                           /\ live[d] >= 0 => k.n < live[d]
    BY <1>0, Zenon DEF Ahead
  <2>1. CASE d # c
    BY <1>2, <2>1, Zenon DEF DurableInv, Ahead
  <2>2. CASE d = c
    <3>1. \A n \in Nat : n + 1 > n
      OBVIOUS
    <3>2. io = "ok" => row.n > mut[c].n
      BY <1>6, <3>1, Zenon
    <3> QED
      BY <1>1, <1>2, <2>2, <3>2, Zenon DEF DurableInv, Ahead
  <2> QED BY <2>1, <2>2, Zenon
<1>8. NoKeyReuseAfterRestart' /\ OwnerIsDurable'
  BY <1>0, Zenon DEF DurableInv, NoKeyReuseAfterRestart, OwnerIsDurable
<1> QED
  BY <1>3, <1>4, <1>5, <1>7, <1>8, Zenon DEF DurableInv

\* A durable mutation is adopted: its key is new, and behind the row.
LEMMA AdoptKeeps ==
    ASSUME DurableInv, NEW c \in Conns, Adopt(c) PROVE DurableInv'
<1> USE RowAssumption DEF Conns
<1> DEFINE k0 == [conn |-> c, n |-> mut[c].n]
<1>1. /\ mut[c].stage = "durable" /\ mut' = [mut EXCEPT ![c] = NoMutation]
      /\ UNCHANGED <<owner, open, seed, want, plock, io, row, faults, lost>>
      /\ \/ live[c] >= 0 /\ live' = [live EXCEPT ![c] = mut[c].n + 1] /\ used' = used \union {k0}
         \/ live' = live /\ used' = used
  BY Zenon DEF Adopt
<1>2. mut[c].n \in Nat /\ k0 \in Indices /\ k0.conn = c /\ k0.n = mut[c].n
  BY Zenon DEF DurableInv, RowTypeOK, Mutations, Indices
<1> HIDE DEF k0
<1>3. /\ mut' \in [Conns -> Mutations] /\ mut'[c].stage = "idle"
      /\ \A d \in Conns : d # c => mut'[d] = mut[d]
  BY <1>1, Zenon DEF DurableInv, RowTypeOK, NoMutation, Mutations
<1>4. /\ \A d \in Conns : d # c => live'[d] = live[d]
      /\ live'[c] >= 0 => live[c] >= 0 /\ live'[c] = mut[c].n + 1
      /\ live' \in [Conns -> Nat \union {-1}]
  <2>1. CASE live[c] >= 0 /\ live' = [live EXCEPT ![c] = mut[c].n + 1] /\ used' = used \union {k0}
    BY <1>2, <2>1 DEF DurableInv, RowTypeOK
  <2>2. CASE live' = live /\ used' = used
    <3>1. CASE live[c] >= 0
      BY <3>1, <2>2, Zenon DEF Adopt, DurableInv, RowTypeOK, k0
    <3>2. CASE ~(live[c] >= 0)
      BY <3>2, <2>2, Zenon DEF DurableInv, RowTypeOK
    <3> QED BY <3>1, <3>2, Zenon
  <2> QED
    BY <1>1, <2>1, <2>2, Zenon
<1>5. \A k \in used' : k \in used \/ (k = k0 /\ live[c] >= 0)
  BY <1>1, Zenon
<1>6. RowTypeOK'
  BY <1>1, <1>2, <1>3, <1>4, SMTT(30) DEF DurableInv, RowTypeOK
<1>7. Claimed'
  BY <1>1, <1>2, <1>3, <1>4, <1>5 DEF DurableInv, Claimed
<1>8. Queued'
  <2>1. \A i \in DOMAIN plock : plock[i].conn \in Conns
    BY TicketsTyped, Zenon DEF DurableInv
  <2>2. ASSUME NEW d \in Conns
        PROVE  (live'[d] >= 0 => live[d] >= 0) /\ (mut[d].stage = "waiting" => mut'[d].stage = "waiting")
    <3>1. CASE d = c
      BY <1>1, <1>4, <3>1, Zenon
    <3>2. CASE d # c
      BY <1>3, <1>4, <3>2, Zenon
    <3> QED
      BY <3>1, <3>2, Zenon
  <2>3. plock' = plock /\ seed' = seed /\ Queued
    BY <1>1, Zenon DEF DurableInv
  <2>4. \A i \in DOMAIN plock :
          /\ plock[i].kind = "seed" => seed'[plock[i].conn] = "queued"
          /\ plock[i].kind = "mutate" => mut'[plock[i].conn].stage = "waiting"
    BY <2>1, <2>2, <2>3, Zenon DEF Queued
  <2>5. \A d \in Conns, i \in DOMAIN plock : live'[d] >= 0 => plock[i].conn = d
    BY <2>2, <2>3, Zenon DEF Queued
  <2>6. \A i \in DOMAIN plock' :
          /\ plock'[i].kind = "seed" => seed'[plock'[i].conn] = "queued"
          /\ plock'[i].kind = "mutate" => mut'[plock'[i].conn].stage = "waiting"
    BY <2>3, <2>4, Zenon
  <2>7. \A d \in Conns, i \in DOMAIN plock' : live'[d] >= 0 => plock'[i].conn = d
    BY <2>3, <2>5, Zenon
  <2>8. \A i, j \in DOMAIN plock' :
          /\ plock'[i] = plock'[j] => i = j
          /\ i < j => plock'[i].conn =< plock'[j].conn
    BY <2>3, Zenon DEF Queued
  <2> QED
    BY <2>6, <2>7, <2>8, Zenon DEF Queued
<1>9. Called'
  <2>1. Holder' = Holder
    BY <1>1, Zenon DEF Holder
  <2>2. io = "ok" => Candidate' = Candidate
    <3> SUFFICES ASSUME io = "ok" PROVE Candidate' = Candidate
      BY Zenon
    <3>1. plock # << >>
      BY Zenon DEF DurableInv, Called
    <3>2. Holder.kind = "mutate" => mut[Holder.conn].stage = "waiting" /\ Holder.conn \in Conns
      BY <3>1, HolderTyped, Zenon DEF DurableInv, Queued
    <3>3. Holder.kind \in {"seed", "mutate"}
      BY <3>1, HolderTyped, Zenon DEF DurableInv
    <3> QED
      BY <1>1, <1>3, <2>1, <3>2, <3>3, Zenon DEF Candidate
  <2> QED
    BY <1>1, <2>1, <2>2, Zenon DEF DurableInv, Called
<1>10. \A k \in used : k.conn = c => k.n < mut[c].n /\ k.n \in Nat
  BY <1>1, Zenon DEF DurableInv, Ahead, RowTypeOK, Indices
<1>11. live[c] >= 0 => row.conn = c /\ row.n > mut[c].n /\ row.n \in Nat
  BY <1>1, RowTyped, Zenon DEF DurableInv, Claimed, OwnerIsDurable, Ahead
<1>12. Ahead'
  BY <1>1, <1>2, <1>3, <1>4, <1>5, <1>10 DEF DurableInv, Ahead
<1>13. NoKeyReuseAfterRestart' /\ OwnerIsDurable'
  BY <1>1, <1>2, <1>4, <1>5, <1>10, <1>11 DEF DurableInv,
     NoKeyReuseAfterRestart, OwnerIsDurable
<1> QED
  BY <1>6, <1>7, <1>8, <1>9, <1>12, <1>13, Zenon DEF DurableInv

\* What a posted write holds: index 0 of a session that has not started, or the
\* successor of a session's live index, of no connection before the row's.
LEMMA CandidateIs ==
    ASSUME DurableInv, io # "idle"
    PROVE  /\ plock # << >> /\ Holder.conn \in Conns /\ Candidate \in Indices
           /\ Candidate.conn = Holder.conn
           /\ Holder.kind = "seed" => Candidate.n = 0 /\ seed[Holder.conn] = "queued"
           /\ Holder.kind = "mutate" =>
                /\ mut[Holder.conn].stage = "waiting" /\ seed[Holder.conn] = "up"
                /\ mut[Holder.conn].n \in Nat /\ Candidate.n = mut[Holder.conn].n + 1
           /\ Holder.kind \in {"seed", "mutate"} /\ Holder.conn <= owner
           /\ row.conn <= Holder.conn
<1>1. plock # << >> /\ row.conn <= Holder.conn
  BY Zenon DEF DurableInv, Called
<1>2. /\ Holder = plock[1] /\ 1 \in DOMAIN plock
      /\ Holder.conn \in Conns /\ Holder.kind \in {"seed", "mutate"}
  BY <1>1, HolderTyped, Zenon DEF DurableInv
<1>3. /\ Holder.kind = "seed" => seed[Holder.conn] = "queued"
      /\ Holder.kind = "mutate" => mut[Holder.conn].stage = "waiting" /\ seed[Holder.conn] = "up"
  BY <1>2, Zenon DEF DurableInv, Queued, Claimed
<1>4. Holder.conn <= owner
  BY <1>2, TicketsClaimed, Zenon DEF DurableInv
<1>5. mut[Holder.conn].n \in Nat
  BY <1>2, Zenon DEF DurableInv, RowTypeOK, Mutations
<1> QED
  BY <1>1, <1>2, <1>3, <1>4, <1>5 DEF Candidate, Indices

\* The worker writes the row, or answers with an error before or after.
LEMMA WorkerPutKeeps ==
    ASSUME DurableInv, WorkerPut PROVE DurableInv'
<1> USE RowAssumption DEF Conns
<1> DEFINE h == Holder.conn
<1>1. /\ io = "posted" /\ io' \in {"ok", "error"} /\ row' \in {row, Candidate}
      /\ io' = "ok" => row' = Candidate
      /\ faults' \in 0 .. MaxFaults
      /\ UNCHANGED <<owner, open, seed, live, want, mut, plock, used, lost>>
  BY DEF WorkerPut, DurableInv, RowTypeOK
<1>2. Holder' = Holder /\ Candidate' = Candidate
  BY <1>1, Zenon DEF Holder, Candidate
<1>3. /\ plock # << >> /\ h \in Conns /\ Candidate \in Indices
      /\ Candidate.conn = h
      /\ Holder.kind = "seed" => Candidate.n = 0 /\ seed[h] = "queued"
      /\ Holder.kind = "mutate" =>
           /\ mut[h].stage = "waiting" /\ seed[h] = "up"
           /\ mut[h].n \in Nat /\ Candidate.n = mut[h].n + 1
      /\ Holder.kind \in {"seed", "mutate"} /\ h <= owner
      /\ row.conn <= h
  BY <1>1, CandidateIs, Zenon
<1>4. RowTypeOK'
  BY <1>1, <1>3, SMTT(30) DEF DurableInv, RowTypeOK
<1>5. Claimed' /\ Queued'
  BY <1>1 DEF DurableInv, Claimed, Queued
<1>6. Holder = [conn |-> h, kind |-> Holder.kind]
  <2>1. Holder \in Tickets
    BY <1>3, HolderTyped DEF DurableInv, RowTypeOK
  <2> QED
    BY <2>1, Zenon DEF Tickets
<1>7. Called'
  <2>1. CASE row' = row
    BY <1>1, <1>2, <1>3, <2>1, Zenon DEF DurableInv, Called
  <2>2. CASE row' = Candidate
    BY <1>1, <1>2, <1>3, <1>6, <2>2, SMTT(30) DEF DurableInv, Called
  <2> QED
    BY <1>1, <2>1, <2>2, Zenon
<1>8. Ahead'
  <2>1. mut[h].stage # "durable"
    BY <1>3, Zenon DEF DurableInv, Claimed
  <2> QED
    BY <1>1, <1>3, <2>1, Zenon DEF DurableInv, Ahead
<1>9. NoKeyReuseAfterRestart'
  <2> SUFFICES ASSUME NEW k \in used, row' = Candidate, h = k.conn
               PROVE  Candidate.n > k.n
    BY <1>1, <1>3, Zenon DEF DurableInv, NoKeyReuseAfterRestart
  <2>1. k.n \in Nat /\ seed[h] = "up"
    BY Zenon DEF DurableInv, RowTypeOK, Indices, Claimed
  <2>2. Holder.kind = "mutate" /\ k.n < mut[h].n
    BY <1>3, <2>1, Zenon DEF DurableInv, Ahead
  <2>3. \A a, b \in Nat : a < b => b + 1 > a
    OBVIOUS
  <2> QED
    BY <1>3, <2>1, <2>2, <2>3, Zenon
<1>10. OwnerIsDurable'
  <2>1. \A d \in Conns : live[d] >= 0 => d = h
    BY <1>3, HolderTyped DEF DurableInv, Queued
  <2>2. live[h] >= 0 => Holder.kind = "mutate" /\ live[h] = mut[h].n
    BY <1>3, Zenon DEF DurableInv, Claimed, Ahead
  <2>3. \A n : n >= 0 /\ n \in Int => n + 1 >= n
    OBVIOUS
  <2>4. live[h] >= 0 => live[h] \in Int /\ Candidate.n >= live[h]
    BY <1>3, <2>2, <2>3 DEF DurableInv, RowTypeOK
  <2> QED
    BY <1>1, <1>3, <2>1, <2>4, Zenon DEF DurableInv, OwnerIsDurable
<1> QED
  BY <1>4, <1>5, <1>7, <1>8, <1>9, <1>10, Zenon DEF DurableInv

\* Every step of the persistence keeps the invariant.
LEMMA DurableStep == DurableInv /\ [RowNext]_rowVars => DurableInv'
<1> SUFFICES ASSUME DurableInv, [RowNext]_rowVars PROVE DurableInv'
  BY Zenon
<1>1. CASE UNCHANGED rowVars
  <2>1. RowTypeOK' /\ Claimed' /\ Queued'
    BY <1>1 DEF rowVars, DurableInv, RowTypeOK, Claimed, Queued
  <2>2. Called'
    BY <1>1, Zenon DEF rowVars, DurableInv, Called, Holder, Candidate
  <2>3. Ahead' /\ NoKeyReuseAfterRestart' /\ OwnerIsDurable'
    BY <1>1, Zenon DEF rowVars, DurableInv, Ahead, NoKeyReuseAfterRestart, OwnerIsDurable
  <2> QED BY <2>1, <2>2, <2>3, Zenon DEF DurableInv
<1>2. CASE RowNext
  BY <1>2, ClaimKeeps, CloseKeeps, HandshakeDoneKeeps, SeedGrantedKeeps,
     SeedAnsweredKeeps, SeedRollbackKeeps, MutateKeeps, MutationGrantedKeeps,
     MutationAnsweredKeeps, AdoptKeeps, WorkerPutKeeps, Zenon DEF RowNext, Seeding,
     Mutating
<1> QED BY <1>1, <1>2, Zenon

\* The invariant holds before the first connection.
LEMMA DurableInit == RowInit => DurableInv
BY RowAssumption DEF RowInit, DurableInv, RowTypeOK, Claimed,
   Queued, Called, Ahead, NoKeyReuseAfterRestart,
   OwnerIsDurable, Conns, NoRow, NoMutation, Mutations,
   Holder

\* Every step that writes the row writes one of no earlier connection.
LEMMA WritesLastStep ==
    DurableInv /\ [RowNext]_rowVars
      => [row.conn # 0 /\ row'.conn # 0 => row'.conn >= row.conn]_rowVars
<1> SUFFICES ASSUME DurableInv, RowNext PROVE row.conn # 0 /\ row'.conn # 0 => row'.conn >= row.conn
  BY Zenon
<1>1. CASE row' = row
  BY <1>1, RowTyped, RowAssumption DEF DurableInv
<1>2. CASE WorkerPut
  <2>1. row' \in {row, Candidate} /\ io # "idle"
    BY <1>2, Zenon DEF WorkerPut
  <2>2. Candidate.conn = Holder.conn /\ row.conn <= Holder.conn /\ Holder.conn \in Conns
    BY <2>1, CandidateIs, Zenon
  <2> QED
    BY <2>1, <2>2, RowTyped, RowAssumption DEF DurableInv, Conns
<1>3. CASE \E c \in Conns : SeedRollback(c)
  BY <1>3, RowTyped, RowAssumption DEF SeedRollback, NoRow, DurableInv
<1> QED
  BY <1>1, <1>2, <1>3 DEF RowNext, Claim, Close, Seeding,
     HandshakeDone, SeedGranted, SeedAnswered, Mutate,
     Mutating, MutationGranted, MutationAnswered, Adopt

\* Every step that hands out a key hands out a new one.
LEMMA HandedOnceStep ==
    DurableInv /\ [RowNext]_rowVars
      => [\A c \in Conns : Adopt(c) /\ live[c] >= 0
            => [conn |-> c, n |-> mut[c].n] \notin used]_rowVars
<1> SUFFICES ASSUME DurableInv, NEW c \in Conns, Adopt(c), live[c] >= 0
             PROVE  [conn |-> c, n |-> mut[c].n] \notin used
  BY Zenon
<1>1. \A k \in used : k.conn = c => k.n < mut[c].n
  BY Zenon DEF DurableInv, Ahead, Adopt
<1>2. mut[c].n \in Nat
  BY Zenon DEF DurableInv, RowTypeOK, Mutations
<1> QED
  BY <1>1, <1>2

-----------------------------------------------------------------------------
(***************************************************************************)
(* The inductive invariant of the write-ahead transaction of               *)
(* ratchetPersist.ts holds in every state.                                 *)
(***************************************************************************)
THEOREM DurableInvariant == RowSpec => []DurableInv
BY DurableInit, DurableStep, PTL DEF RowSpec

(***************************************************************************)
(* No row ever holds a message key that was handed out: whatever state a   *)
(* crash stops the page in, the restored ratchet is past every used key.   *)
(***************************************************************************)
THEOREM NoKeyReuseTheorem == RowSpec => []NoKeyReuseAfterRestart
<1>1. DurableInv => NoKeyReuseAfterRestart
  BY Zenon DEF DurableInv, NoKeyReuseAfterRestart
<1> QED BY <1>1, DurableInvariant, PTL

(***************************************************************************)
(* While an edge's owner has a live ratchet, the row is its own and is not *)
(* behind it: the write-ahead of withDurableRatchetMutation.               *)
(***************************************************************************)
THEOREM OwnerIsDurableTheorem == RowSpec => []OwnerIsDurable
<1>1. DurableInv => OwnerIsDurable
  BY Zenon DEF DurableInv
<1> QED BY <1>1, DurableInvariant, PTL

(***************************************************************************)
(* Between worker calls, and unless the worker lost a delete, the row is   *)
(* of a session that was activated: the rollback of a failed activation.   *)
(***************************************************************************)
THEOREM RowWasEstablishedTheorem == RowSpec => []RowWasEstablished
<1>1. DurableInv => RowWasEstablished
  BY Zenon DEF DurableInv, Called, RowWasEstablished
<1> QED BY <1>1, DurableInvariant, PTL

(***************************************************************************)
(* A replaced connection never writes over its replacement: the lock of    *)
(* the edge and the ownership token order the writes.                      *)
(***************************************************************************)
THEOREM WritesLastTheorem == RowSpec => ReplacementWritesLast
BY WritesLastStep, DurableInvariant, PTL DEF RowSpec, ReplacementWritesLast

(***************************************************************************)
(* No message key is handed to two callers.                                *)
(***************************************************************************)
THEOREM KeyHandedOnceTheorem == RowSpec => KeyHandedOnce
BY HandedOnceStep, DurableInvariant, PTL DEF RowSpec, KeyHandedOnce

=============================================================================
