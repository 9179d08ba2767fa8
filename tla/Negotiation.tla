---------------------------- MODULE Negotiation -----------------------------
(***************************************************************************)
(* How the two ends of an edge agree on one offer and one answer, and on   *)
(* the ICE candidates that belong to them: onnegotiationneeded, which is   *)
(* not serialised with anything, setDescription and setCandidate, which    *)
(* share the mutex of the room and peer, and the queues of candidates that *)
(* arrive too early.  End "p" has the smaller peerId and is the polite one.*)
(* The signaling server relays in order; a message is lost while a socket  *)
(* is down, and a handler that waits longer for the blacklist is overtaken *)
(* by the next one.                                                        *)
(***************************************************************************)
EXTENDS Integers, Sequences, FiniteSets, SequencesExt

CONSTANTS
    MaxPending,   \* MAX_PENDING_ICE_PER_EDGE
    MaxRestarts,  \* ICE restarts that the transports ask for
    MaxFaults     \* lost and overtaken messages, failed operations

ASSUME NegotiationAssumption == MaxPending \in Nat \ {0} /\ MaxRestarts \in Nat /\ MaxFaults \in Nat

Ends == {"p", "q"}
Other(e) == IF e = "p" THEN "q" ELSE "p"

VARIABLES
    opener,    \* the end whose identity opens the main channel
    conn,      \* conn[e]: e has a connection for the other
    sig,       \* sig[e]: signalingState
    making,    \* making[e]: makingOffer, with setLocalDescription under way
    fired,     \* fired[e]: negotiationneeded has been fired since e was last stable
    restart,   \* restart[e]: an ICE restart is asked for and not negotiated yet
    offer,     \* offer[e]: the local offer of have-local-offer
    asked,     \* asked[e]: the remote offer of have-remote-offer
    applied,   \* applied[e]: the local and the remote description of the last stable state
    desc,      \* desc[e]: the setDescription that holds the mutex, and what it awaits
    ignoring,  \* ignoring[e]: ignoreOffer
    queue,     \* queue[e]: candidates the connection keeps until it is stable
    pending,   \* pending[e]: candidates that came before there was a connection
    draining,  \* draining[e]: handleQueuedIceCandidates runs
    added,     \* added[e]: the ICE generation whose candidate the connection has
    made,      \* made[e]: descriptions e has made
    trickle,   \* trickle[e]: the candidate of the last one is still to come
    wire,      \* wire[e]: the messages on their way to e
    damage,    \* what went wrong so far
    faults, restarts

vars == <<opener, conn, sig, making, fired, restart, offer, asked, applied, desc, ignoring, queue, pending,
          draining, added, trickle, made, wire, damage, faults, restarts>>
session == <<sig, fired, restart, offer, asked, applied>>
candidates == <<queue, pending, draining, added>>
gathering == <<trickle, made>>
budget == <<damage, faults, restarts>>

None == [kind |-> "none"]
Idle == [pc |-> "idle", m |-> None]
Offers(m) == m.kind = "offer"
Remote(e) == IF sig[e] = "asked" THEN asked[e] ELSE applied[e].remote

TypeOK ==
    /\ opener \in Ends /\ conn \in [Ends -> BOOLEAN] /\ making \in [Ends -> BOOLEAN]
    /\ sig \in [Ends -> {"stable", "offered", "asked"}]
    /\ \A e \in Ends : /\ desc[e].pc \in {"idle", "rollback", "remote", "local"}
                       /\ desc[e].pc = "idle" <=> desc[e].m = None
                       /\ sig[e] = "offered" <=> offer[e] # None
                       /\ sig[e] = "asked" <=> asked[e] # None
                       /\ Len(pending[e]) <= MaxPending /\ Len(queue[e]) <= 2 * MaxPending
                       /\ ignoring[e] => e = "q" /\ conn[e]
    /\ faults \in 0 .. MaxFaults /\ restarts \in 0 .. MaxRestarts

Fault(what) == faults < MaxFaults /\ faults' = faults + 1 /\ damage' = damage \cup {what}
Send(e, m) == wire' = [wire EXCEPT ![Other(e)] = Append(@, m)]
-----------------------------------------------------------------------------
Init ==
    /\ opener \in Ends /\ conn = [e \in Ends |-> FALSE] /\ sig = [e \in Ends |-> "stable"]
    /\ making = [e \in Ends |-> FALSE] /\ fired = [e \in Ends |-> FALSE] /\ restart = [e \in Ends |-> FALSE]
    /\ offer = [e \in Ends |-> None] /\ asked = [e \in Ends |-> None]
    /\ applied = [e \in Ends |-> [local |-> None, remote |-> None]]
    /\ desc = [e \in Ends |-> Idle] /\ ignoring = [e \in Ends |-> FALSE]
    /\ queue = [e \in Ends |-> << >>] /\ pending = [e \in Ends |-> << >>] /\ draining = [e \in Ends |-> FALSE]
    /\ added = [e \in Ends |-> 0] /\ trickle = [e \in Ends |-> FALSE] /\ made = [e \in Ends |-> 0]
    /\ wire = [e \in Ends |-> << >>] /\ damage = {} /\ faults = 0 /\ restarts = 0

\* webrtcBaseQuery makes the connection; the opener's main channel is what
\* needs the first negotiation.
Connect(e) ==
    /\ ~conn[e] /\ desc[e] = Idle /\ conn' = [conn EXCEPT ![e] = TRUE]
    /\ UNCHANGED <<opener, making, session, desc, ignoring, candidates, gathering, wire, budget>>

\* The browser: what makes a negotiation needed, and when it says so.
Needed(e) == (e = opener /\ applied[e].local = None) \/ restart[e]
ChainEmpty(e) == ~making[e] /\ desc[e] = Idle

\* A description e makes.  Only a first description, a restart and what answers
\* them are negotiated, so each starts an ICE generation of its own, and ends
\* the gathering of the one before.
Describe(e, kind, of) == [kind |-> kind, by |-> e, ufrag |-> made[e] + 1, of |-> of]
Gathers(e) == made' = [made EXCEPT ![e] = @ + 1] /\ trickle' = [trickle EXCEPT ![e] = TRUE]

\* onnegotiationneeded: the flag goes up before setLocalDescription.
OnNegotiationNeeded(e) ==
    /\ conn[e] /\ Needed(e) /\ ~fired[e] /\ sig[e] = "stable" /\ ChainEmpty(e)
    /\ making' = [making EXCEPT ![e] = TRUE] /\ fired' = [fired EXCEPT ![e] = TRUE]
    /\ UNCHANGED <<opener, conn, sig, restart, offer, asked, applied, desc, ignoring, candidates, gathering, wire, budget>>

\* The offer is set, sent, and the flag comes down.
SetLocalOffer(e) ==
    LET d == Describe(e, "offer", 0)
    IN /\ making[e] /\ making' = [making EXCEPT ![e] = FALSE]
       /\ sig' = [sig EXCEPT ![e] = "offered"] /\ offer' = [offer EXCEPT ![e] = d]
       /\ Gathers(e) /\ Send(e, d)
       /\ UNCHANGED <<opener, conn, fired, restart, asked, applied, desc, ignoring, candidates, budget>>

\* The connection is stable again with this pair: the event drains the queue,
\* a restart that the local description answers is done with.
Stable(e, local, remote) ==
    /\ sig' = [sig EXCEPT ![e] = "stable"] /\ fired' = [fired EXCEPT ![e] = FALSE]
    /\ offer' = [offer EXCEPT ![e] = None] /\ asked' = [asked EXCEPT ![e] = None]
    /\ applied' = [applied EXCEPT ![e] = [local |-> local, remote |-> remote]]
    /\ restart' = [restart EXCEPT ![e] = @ /\ local = applied[e].local]
    /\ draining' = [draining EXCEPT ![e] = remote # None /\ queue[e] # << >>]

\* discardIceCandidatesForAttempt.
Discard(e) == queue' = [queue EXCEPT ![e] = << >>] /\ pending' = [pending EXCEPT ![e] = << >>]

\* takePendingIceCandidates, onto the connection's own queue.
TakePending(e) ==
    queue' = [queue EXCEPT ![e] = @ \o pending[e]] /\ pending' = [pending EXCEPT ![e] = << >>]

Awaits(e, pc, m) == desc' = [desc EXCEPT ![e] = [pc |-> pc, m |-> m]]
Returns(e) == desc' = [desc EXCEPT ![e] = Idle]

\* offerCollision, isPolite and ignoreOffer, as setDescription sees them.
Collides_Faulty(e) == sig[e] # "stable"

Collides(e) == making[e] \/ sig[e] # "stable"

Polite_Faulty(e) == FALSE

Polite(e) == e = "p"

Ignores_Faulty(e, ignore) == ignoring' = [ignoring EXCEPT ![e] = @ \/ ignore]

Ignores(e, ignore) == ignoring' = [ignoring EXCEPT ![e] = ignore]

\* setDescription up to its first await: the impolite end ignores an offer
\* that collides with its own, the polite one gives up its own, and an answer
\* nobody waits for is dropped with the candidates of its attempt.
ReceiveDescription(e) ==
    LET m == Head(wire[e])
        collision == Offers(m) /\ Collides(e)
        ignore == collision /\ ~Polite(e)
        stale == ~Offers(m) /\ sig[e] # "offered"
    IN /\ wire[e] # << >> /\ m.kind # "candidate" /\ desc[e] = Idle
       /\ wire' = [wire EXCEPT ![e] = Tail(@)] /\ conn' = [conn EXCEPT ![e] = TRUE]
       /\ Ignores(e, ignore)
       /\ \/ (ignore \/ stale) /\ Discard(e) /\ UNCHANGED desc
          \/ collision /\ ~ignore /\ Awaits(e, "rollback", m) /\ UNCHANGED <<queue, pending>>
          \/ ~collision /\ ~stale /\ Awaits(e, "remote", m) /\ TakePending(e)
       /\ UNCHANGED <<opener, making, session, draining, added, gathering, budget>>

\* The polite end's rollback, after whatever its connection was doing.
Rollback(e) ==
    /\ desc[e].pc = "rollback" /\ ~making[e]
    /\ Stable(e, applied[e].local, applied[e].remote)
    /\ TakePending(e) /\ Awaits(e, "remote", desc[e].m)
    /\ UNCHANGED <<opener, conn, making, ignoring, added, gathering, wire, budget>>

\* setRemoteDescription: an offer is to be answered, an answer ends it.
SetRemote(e) ==
    LET m == desc[e].m
    IN /\ desc[e].pc = "remote"
       /\ \/ /\ Offers(m) /\ Awaits(e, "local", m)
             /\ sig' = [sig EXCEPT ![e] = "asked"] /\ asked' = [asked EXCEPT ![e] = m]
             /\ UNCHANGED <<fired, restart, offer, applied, draining>>
          \/ ~Offers(m) /\ Returns(e) /\ Stable(e, offer[e], m)
       /\ UNCHANGED <<opener, conn, making, ignoring, queue, pending, added, gathering, wire, budget>>

\* setRemoteDescription fails and the attempt is given up; when the browser
\* speaks of an ICE restart, only after a rollback and a second try, which an
\* answer cannot pass.
RemoteFails(e) ==
    /\ desc[e].pc = "remote" /\ Returns(e) /\ Discard(e)
    /\ \/ Fault("failed") /\ UNCHANGED <<session, draining>>
       \/ sig[e] = "offered" /\ Fault("restart mismatch") /\ Stable(e, applied[e].local, applied[e].remote)
    /\ UNCHANGED <<opener, conn, making, ignoring, added, gathering, wire, restarts>>

\* The answer is set and sent.
SetLocalAnswer(e) ==
    LET d == Describe(e, "answer", desc[e].m.ufrag)
    IN /\ desc[e].pc = "local" /\ Returns(e)
       /\ Stable(e, d, desc[e].m) /\ Gathers(e) /\ Send(e, d)
       /\ UNCHANGED <<opener, conn, making, ignoring, queue, pending, added, budget>>

LocalFails(e) ==
    /\ desc[e].pc = "local" /\ Returns(e) /\ Discard(e) /\ Fault("failed")
    /\ UNCHANGED <<opener, conn, making, session, ignoring, draining, added, gathering, wire, restarts>>
-----------------------------------------------------------------------------
\* onicecandidate, for one candidate of the generation.
OnIceCandidate(e) ==
    /\ trickle[e] /\ trickle' = [trickle EXCEPT ![e] = FALSE]
    /\ Send(e, [kind |-> "candidate", ufrag |-> made[e]])
    /\ UNCHANGED <<opener, conn, making, session, desc, ignoring, candidates, made, budget>>

\* A queue at its bound loses its oldest.
Enqueue(q, u) == Append(IF Len(q) >= MaxPending THEN Tail(q) ELSE q, u)

\* candidateMatchesRemoteIceGeneration.
Matches(e, u) == Remote(e).ufrag = u

\* repairIceTransportAfterCandidateFailure, on a connection that is not closed.
RepairIce(e) == restart' = [restart EXCEPT ![e] = TRUE]

\* The candidate is handed to the connection, or that fails: unless the
\* collision explains it, the ICE transport is restarted.
AddIceCandidate(e, u) ==
    \/ added' = [added EXCEPT ![e] = u] /\ UNCHANGED <<restart, budget>>
    \/ /\ Fault("failed") /\ UNCHANGED <<added, restarts>>
       /\ IF ~Polite(e) /\ Collides(e) THEN UNCHANGED restart ELSE RepairIce(e)

\* setCandidate.
ReceiveCandidate(e) ==
    LET u == Head(wire[e]).ufrag
        early == Remote(e) = None \/ sig[e] # "stable"
        usable == conn[e] /\ ~ignoring[e] /\ ~early
    IN /\ wire[e] # << >> /\ Head(wire[e]).kind = "candidate" /\ desc[e] = Idle
       /\ wire' = [wire EXCEPT ![e] = Tail(@)]
       /\ pending' = IF conn[e] THEN pending ELSE [pending EXCEPT ![e] = Enqueue(@, u)]
       /\ queue' = IF conn[e] /\ ~ignoring[e] /\ early THEN [queue EXCEPT ![e] = Enqueue(@, u)] ELSE queue
       /\ IF usable /\ Matches(e, u) THEN AddIceCandidate(e, u) ELSE UNCHANGED <<added, restart, budget>>
       /\ UNCHANGED <<opener, conn, sig, making, fired, offer, asked, applied, desc, ignoring, draining, gathering>>

\* handleQueuedIceCandidates, one candidate at a time while the connection
\* stays stable; one that cannot be added is dropped.
Drain(e) ==
    /\ draining[e]
    /\ \/ /\ queue[e] # << >> /\ sig[e] = "stable" /\ queue' = [queue EXCEPT ![e] = Tail(@)]
          /\ added' = IF Matches(e, Head(queue[e])) THEN [added EXCEPT ![e] = Head(queue[e])] ELSE added
          /\ UNCHANGED draining
       \/ (queue[e] = << >> \/ sig[e] # "stable") /\ draining' = [draining EXCEPT ![e] = FALSE] /\ UNCHANGED <<queue, added>>
    /\ UNCHANGED <<opener, conn, making, session, desc, ignoring, pending, gathering, wire, budget>>

\* oniceconnectionstatechange, onconnectionstatechange: the transport of an
\* edge that was negotiated fails, and is restarted.
RestartIce(e) ==
    /\ applied[e].local # None /\ ~restart[e] /\ restarts < MaxRestarts
    /\ restarts' = restarts + 1 /\ RepairIce(e)
    /\ UNCHANGED <<opener, conn, sig, making, fired, offer, asked, applied, desc, ignoring, candidates, gathering, wire, damage, faults>>

\* sendMessage drops what it is given while the socket is not open.
Lose(e) ==
    /\ wire[e] # << >> /\ Fault("lost") /\ wire' = [wire EXCEPT ![e] = Front(@)]
    /\ UNCHANGED <<opener, conn, making, session, desc, ignoring, candidates, gathering, restarts>>

\* handleWebSocketMessage awaits the database before it queues for the mutex.
Overtake(e) ==
    /\ Len(wire[e]) > 1 /\ Fault("overtaken")
    /\ wire' = [wire EXCEPT ![e] = <<@[2], @[1]>> \o SubSeq(@, 3, Len(@))]
    /\ UNCHANGED <<opener, conn, making, session, desc, ignoring, candidates, gathering, restarts>>

Step(e) ==
    \/ OnNegotiationNeeded(e) \/ SetLocalOffer(e) \/ ReceiveDescription(e) \/ Rollback(e) \/ SetRemote(e)
    \/ SetLocalAnswer(e) \/ OnIceCandidate(e) \/ ReceiveCandidate(e) \/ Drain(e)

Next == \E e \in Ends : Step(e) \/ Connect(e) \/ RestartIce(e) \/ RemoteFails(e) \/ LocalFails(e) \/ Lose(e) \/ Overtake(e)

\* The event loops run what is ready.
Spec == Init /\ [][Next]_vars /\ WF_vars(\E e \in Ends : Step(e))
-----------------------------------------------------------------------------
Quiet ==
    \A e \in Ends : /\ sig[e] = "stable" /\ ChainEmpty(e) /\ ~(conn[e] /\ Needed(e))
                    /\ wire[e] = << >> /\ ~trickle[e] /\ ~draining[e]

\* When nothing is under way and both ends are stable, they are so with the
\* same offer and the same answer, whatever was lost, rolled back or failed;
\* only a message that overtook the one before it makes them differ for good
\* (setDescription and onnegotiationneeded).
OnlyOvertakingDisagrees ==
    Quiet /\ "overtaken" \notin damage => \A e \in Ends : applied[e].local = applied[Other(e)].remote

\* The candidate of the description an end has applied gets to its connection,
\* however early or late it came: no queue, rollback, ignored offer or discard
\* of another attempt takes it (setCandidate, handleQueuedIceCandidates).
CandidatesArrive ==
    Quiet /\ damage = {} => \A e \in Ends : applied[e].remote # None => added[e] = applied[e].remote.ufrag

\* What needs a negotiation gets it: a first offer and a restart, at one end or
\* at both at once, end in a stable pair (onnegotiationneeded, isPolite).
NegotiationSettles == \A e \in Ends : (conn[e] /\ Needed(e)) ~> (damage # {} \/ (Quiet /\ ~Needed(e)))
=============================================================================
