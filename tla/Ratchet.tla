------------------------------- MODULE Ratchet -------------------------------
(***************************************************************************)
(* The Double Ratchet of one edge after its handshake, and the receive     *)
(* keys it feeds.  A message takes one ratchet step at its sender, and one *)
(* at its receiver, with whichever of its chunks arrives first; the        *)
(* others use the key that step left in a bounded cache, until the         *)
(* transfer is complete and its channel closed.  Chunks of all messages    *)
(* arrive in any order, any number of times or never, also after their key *)
(* is gone.                                                                *)
(*                                                                         *)
(* Keys are terms.  The pair of a secret and a public key is the set of    *)
(* both; a root is the sequence of the pairs mixed into it; a chain is     *)
(* named by the root it came from, and a message key by its chain and      *)
(* place.  A frame authenticates under the key it was sealed with only.    *)
(* PQ epochs, which are mixed into every message key, do not change here   *)
(* (PqEdge), and every step is durable before it is used (EdgePersistence).*)
(***************************************************************************)
EXTENDS Integers, Sequences, FiniteSets

CONSTANTS
    MaxSent,         \* messages both ends send
    Chunks,          \* chunks of a message
    MaxSkip,         \* MAX_SKIP
    MaxSkipSession,  \* MAX_SKIP_SESSION
    CacheMax         \* MESSAGE_KEY_CACHE_MAX

ASSUME RatchetAssumption ==
    /\ MaxSent \in Nat /\ Chunks \in Nat \ {0} /\ MaxSkip \in Nat
    /\ MaxSkipSession \in Nat \ {0} /\ CacheMax \in Nat \ {0}

Ends == {"initiator", "responder"}
Other(e) == CHOOSE o \in Ends : o # e
None == << >>

VARIABLES
    st,        \* st[e]: the RatchetState of e
    sent,      \* sent[e]: the headers and keys of the messages e has sent
    cache,     \* cache[e]: messageKeyCache, oldest first
    bound,     \* bound[e]: messages in messageKeyByMerkleRoot
    got,       \* got[e][m]: how many chunks of its peer's message m e has stored
    dropped    \* dropped[e]: messages whose cached key was evicted or cancelled

vars == <<st, sent, cache, bound, got, dropped>>

Id(x) == <<x.dh, x.n>>
Ids(s) == {Id(s[i]) : i \in DOMAIN s}
Opened(e, m) == got[e][m] > 0
Complete(e, m) == got[e][m] = Chunks

TypeOK ==
    \A e \in Ends :
        /\ got[e] \in [1 .. MaxSent -> 0 .. Chunks] /\ Len(st[e].skipped) <= MaxSkipSession /\ Len(cache[e]) <= CacheMax
        /\ st[e].Ns \in 0 .. MaxSent /\ st[e].PN \in 0 .. MaxSent /\ st[e].Nr \in 0 .. MaxSent
        /\ Cardinality(Ids(st[e].skipped)) = Len(st[e].skipped) /\ Cardinality(Ids(cache[e])) = Len(cache[e])
        /\ bound[e] \subseteq DOMAIN sent[Other(e)] /\ dropped[e] \subseteq DOMAIN sent[Other(e)]
-----------------------------------------------------------------------------
\* kdfRk and kdfCk: the next root, whose other half opens a chain, and the key
\* at place n of a chain.
Dh(a, b) == {a, b}
KdfRk(root, dh) == Append(root, dh)
KdfCk(chain, n) == [chain |-> chain, n |-> n]

\* A DH step: the receiving chain of the peer's new key, a new key of one's
\* own, and its sending chain.
DhRatchet(s, dh) ==
    LET root == KdfRk(s.root, Dh(s.self, dh))
        self == <<s.self[1], s.self[2] + 1>>
        next == KdfRk(root, Dh(self, dh))
    IN [s EXCEPT !.PN = s.Ns, !.Ns = 0, !.Nr = 0, !.remote = dh, !.rc = root,
                 !.self = self, !.root = next, !.sc = next]

\* The initiator sends at once; the responder is primed with the initiator's
\* first key, and may send too.
InitRatchet(e) ==
    LET blank == [root |-> None, sc |-> None, rc |-> None, self |-> <<e, 1>>, remote |-> None,
                  Ns |-> 0, Nr |-> 0, PN |-> 0, skipped |-> << >>, gone |-> {}]
        first == KdfRk(None, Dh(<<e, 1>>, <<Other(e), 1>>))
    IN IF e = "initiator" THEN [blank EXCEPT !.remote = <<Other(e), 1>>, !.root = first, !.sc = first]
       ELSE DhRatchet(blank, <<Other(e), 1>>)

RatchetEncrypt(s) == [dh |-> s.self, n |-> s.Ns, pn |-> s.PN, key |-> KdfCk(s.sc, s.Ns)]

\* Keys beyond MAX_SKIP_SESSION are forgotten, oldest first; which ones is
\* recorded.
EvictOldest(s) ==
    LET over == IF Len(s.skipped) > MaxSkipSession THEN Len(s.skipped) - MaxSkipSession ELSE 0
    IN [s EXCEPT !.skipped = SubSeq(@, over + 1, Len(@)), !.gone = @ \cup Ids(SubSeq(s.skipped, 1, over))]

\* skipMessageKeys stashes the keys before place until; it refuses a jump of
\* more than MAX_SKIP, and without a chain there is nothing to stash.
SkipAllowed(s, until) == s.Nr + MaxSkip >= until
SkipMessageKeys(s, until) ==
    IF s.rc = None \/ s.Nr >= until THEN EvictOldest(s)
    ELSE EvictOldest([s EXCEPT !.Nr = until,
                               !.skipped = @ \o [i \in 1 .. until - s.Nr |->
                                                   [dh |-> s.remote, n |-> s.Nr + i - 1, key |-> KdfCk(s.rc, s.Nr + i - 1)]]])

\* trySkipped takes the key out.
TrySkipped(s, h) ==
    LET i == CHOOSE j \in DOMAIN s.skipped : Id(s.skipped[j]) = Id(h)
    IN [key |-> s.skipped[i].key, next |-> [s EXCEPT !.skipped = SubSeq(@, 1, i - 1) \o SubSeq(@, i + 1, Len(@))]]

\* ratchetDecrypt of header h, not yet authenticated: the next state and the
\* message's key, or nothing when it throws.
Throws == [key |-> None, next |-> None]
RatchetDecrypt(s, h) ==
    LET isNewDh == h.dh # s.remote
        now == IF isNewDh THEN DhRatchet(SkipMessageKeys(s, h.pn), h.dh) ELSE s
        at == SkipMessageKeys(now, h.n)
    IN IF Id(h) \in Ids(s.skipped) THEN TrySkipped(s, h)
       ELSE IF (isNewDh /\ ~SkipAllowed(s, h.pn)) \/ h.n < now.Nr \/ ~SkipAllowed(now, h.n) THEN Throws
       ELSE [key |-> KdfCk(at.rc, at.Nr), next |-> [at EXCEPT !.Nr = @ + 1]]
-----------------------------------------------------------------------------
Init ==
    /\ st = [e \in Ends |-> InitRatchet(e)] /\ sent = [e \in Ends |-> << >>]
    /\ cache = [e \in Ends |-> << >>] /\ bound = [e \in Ends |-> {}]
    /\ got = [e \in Ends |-> [m \in 1 .. MaxSent |-> 0]] /\ dropped = [e \in Ends |-> {}]

\* ratchetEncryptDurably: one step for the whole message.
Send(e) ==
    /\ Len(sent[e]) + Len(sent[Other(e)]) < MaxSent
    /\ sent' = [sent EXCEPT ![e] = Append(@, RatchetEncrypt(st[e]))]
    /\ st' = [st EXCEPT ![e].Ns = @ + 1]
    /\ UNCHANGED <<cache, bound, got, dropped>>

\* handleReceiveMessage makes room in a full cache, before it looks whether
\* the chunk's own key is there.
Spared(e) == IF Len(cache[e]) >= CacheMax THEN Tail(cache[e]) ELSE cache[e]

\* Steps the live state, and does not roll it back.
DecryptMessageChunk_Faulty(s, keys, h) ==
    LET d == RatchetDecrypt(s, h)
    IN IF Id(h) \in Ids(keys) THEN [ok |-> TRUE, st |-> s, cache |-> keys]
       ELSE IF d.key = h.key THEN [ok |-> TRUE, st |-> d.next, cache |-> Append(keys, [dh |-> h.dh, n |-> h.n, key |-> d.key])]
       ELSE [ok |-> FALSE, st |-> IF d = Throws THEN s ELSE d.next, cache |-> keys]

\* decryptMessageChunk: the cached key, or a step on a clone, which is adopted
\* once the chunk authenticates.
DecryptMessageChunk(s, keys, h) ==
    LET d == RatchetDecrypt(s, h)
    IN IF Id(h) \in Ids(keys) THEN [ok |-> TRUE, st |-> s, cache |-> keys]
       ELSE IF d.key = h.key THEN [ok |-> TRUE, st |-> d.next, cache |-> Append(keys, [dh |-> h.dh, n |-> h.n, key |-> d.key])]
       ELSE [ok |-> FALSE, st |-> s, cache |-> keys]

\* A chunk of message m arrives at e, one that is stored already or a new one.
Arrive(e, m, new) ==
    LET from == sent[Other(e)]
        keys == Spared(e)
        evicted == {i \in DOMAIN from : Id(from[i]) \in Ids(cache[e]) \ Ids(keys)}
        d == DecryptMessageChunk(st[e], keys, from[m])
    IN /\ m \in DOMAIN from /\ IF new THEN ~Complete(e, m) ELSE Opened(e, m)
       /\ st' = [st EXCEPT ![e] = d.st] /\ cache' = [cache EXCEPT ![e] = d.cache]
       /\ bound' = [bound EXCEPT ![e] = IF d.ok THEN (@ \ evicted) \cup {m} ELSE @ \ evicted]
       /\ got' = [got EXCEPT ![e][m] = IF d.ok /\ new THEN @ + 1 ELSE @]
       /\ dropped' = [dropped EXCEPT ![e] = @ \cup evicted]
       /\ UNCHANGED sent

\* forgetMappedReceiveMessageKey.
Forget(e, m) ==
    /\ cache' = [cache EXCEPT ![e] = SelectSeq(@, LAMBDA x : Id(x) # Id(sent[Other(e)][m]))]
    /\ bound' = [bound EXCEPT ![e] = @ \ {m}]
    /\ UNCHANGED <<st, sent, got>>

\* Forgets the key of an interrupted transfer as well.
ForgetCompleted_Faulty(e, m) == m \in bound[e] /\ Forget(e, m) /\ UNCHANGED dropped

\* The channel of a transfer closes with all its bytes stored.
ForgetCompleted(e, m) == m \in bound[e] /\ Complete(e, m) /\ Forget(e, m) /\ UNCHANGED dropped

\* ... or the transfer is cancelled.
CancelReceive(e, m) == m \in bound[e] /\ ~Complete(e, m) /\ Forget(e, m) /\ dropped' = [dropped EXCEPT ![e] = @ \cup {m}]

Next ==
    \E e \in Ends :
        \/ Send(e)
        \/ \E m \in DOMAIN sent[Other(e)] :
              (\E new \in BOOLEAN : Arrive(e, m, new)) \/ ForgetCompleted(e, m) \/ CancelReceive(e, m)

Spec == Init /\ [][Next]_vars
-----------------------------------------------------------------------------
\* What e has not read of its peer, and what the peer would send next.
Unread(e) ==
    {sent[Other(e)][m] : m \in {i \in DOMAIN sent[Other(e)] : ~Opened(e, i)}} \cup {RatchetEncrypt(st[Other(e)])}

\* A message is too far ahead: its sender sent more than MAX_SKIP messages on
\* one chain that have not arrived.
Far(s, h) == IF h.dh = s.remote THEN h.n > s.Nr + MaxSkip ELSE h.pn > s.Nr + MaxSkip \/ h.n > MaxSkip

\* The ends never lose step: whatever arrived, late, twice or not at all, the
\* key of every message that was not read yet, and of the next one, can be
\* derived (ratchetDecrypt, and the rollback of decryptMessageChunk), unless
\* too much is missing before it, or its skipped key was evicted.
OnlyLimitsLoseMessages ==
    \A e \in Ends : \A h \in Unread(e) :
        RatchetDecrypt(st[e], h).key = h.key \/ Far(st[e], h) \/ Id(h) \in st[e].gone

\* A key is used up: once a message was read, neither the skipped keys nor the
\* receiving chain give its key again; only the cache does, until it is
\* forgotten.
ConsumedKeysAreGone ==
    \A e \in Ends : \A m \in DOMAIN sent[Other(e)] :
        Opened(e, m) => RatchetDecrypt(st[e], sent[Other(e)][m]).key # sent[Other(e)][m].key

\* A transfer of which something arrived can be finished: its key is cached
\* until all chunks are stored, unless the cache was full or it is cancelled.
OnlyEvictionStrandsTransfers ==
    \A e \in Ends : \A m \in DOMAIN sent[Other(e)] :
        Opened(e, m) /\ ~Complete(e, m) => m \in dropped[e] \/ Id(sent[Other(e)][m]) \in Ids(cache[e])
=============================================================================
