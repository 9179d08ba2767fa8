------------------------------ MODULE Registry ------------------------------
(***************************************************************************)
(* The connections a page keeps to one identity in one room.  The identity *)
(* comes under several signaling handles (a reloaded page has a new        *)
(* peerId), and may have one live transport.  connectWithPeer and          *)
(* setDescription hold the mutex of their handle, handleConnectToPeer also *)
(* that of the identity; disconnectFromPeer holds neither, and runs at any *)
(* await of the others.  A handler reads the registry again only where the *)
(* code does.                                                              *)
(***************************************************************************)
EXTENDS Integers, Sequences, FiniteSets

CONSTANTS Handles, NoHandle, MaxConns, MaxQueue

ASSUME RegistryAssumption == NoHandle \notin Handles /\ MaxConns \in Nat \ {0} /\ MaxQueue \in Nat \ {0}

VARIABLES
    made,      \* RTCPeerConnections made so far; they are numbered
    live,      \* those that are not closed
    reg,       \* reg[h]: the connection registered for handle h, 0 for none
    task,      \* task[h]: who holds the mutex of h, where it waits and with which connection
    queue,     \* queue[h]: who waits for the mutex of h
    identity,  \* the handle whose task holds the mutex of the identity
    peers,     \* the room's peers, by handle
    leaving,   \* handles that a disconnectFromRoom has still to tear down
    inflight,  \* a signal was under way when the room was last left
    failed,    \* connections that were closed by a failed edge, and stay registered
    revived,   \* handles torn down while their setDescription awaited its rollback
    last       \* the last thing that happened from outside

registryVars == <<made, live, reg, task, queue, identity, peers, leaving, inflight, failed, revived, last>>

NoTask == [pc |-> "idle", describes |-> FALSE, c |-> 0]
Others(h) == Handles \ {h}
Busy(h) == task[h] # NoTask \/ queue[h] # << >>
Registered == {reg[h] : h \in Handles} \ {0}

RegistryTypeOK ==
    /\ made \in 0 .. MaxConns /\ live \subseteq 1 .. made /\ reg \in [Handles -> 0 .. made]
    /\ \A h \in Handles : /\ task[h].pc \in {"idle", "lookup", "identity", "reserve", "init", "rollback", "remote"}
                          /\ task[h].c \in 0 .. made /\ queue[h] \in Seq({"connect", "describe"})
                          /\ task[h].pc \in {"reserve", "init"} <=> identity = h
                          /\ task[h].pc = "reserve" => reg[h] = 0
    /\ identity \in Handles \cup {NoHandle} /\ peers \subseteq Handles
    /\ leaving \subseteq Handles /\ inflight \in BOOLEAN /\ failed \subseteq 1 .. made /\ revived \subseteq Handles
    /\ last \in {"none", "signal", "offer", "teardown", "leave"}

RegistryInit ==
    /\ made = 0 /\ live = {} /\ reg = [h \in Handles |-> 0] /\ task = [h \in Handles |-> NoTask]
    /\ queue = [h \in Handles |-> << >>] /\ identity = NoHandle /\ peers = {} /\ leaving = {}
    /\ inflight = FALSE /\ failed = {} /\ revived = {} /\ last = "none"
-----------------------------------------------------------------------------
\* Closes the connection and leaves it registered.
Teardown_Faulty(H) ==
    /\ live' = live \ {reg[h] : h \in H} /\ peers' = peers \ H /\ UNCHANGED <<reg, revived>>

\* webrtcDisconnectPeerQuery: whatever is registered for these handles is
\* closed, removed, and off the roster.
Teardown(H) ==
    /\ live' = live \ {reg[h] : h \in H} /\ reg' = [h \in Handles |-> IF h \in H THEN 0 ELSE reg[h]]
    /\ peers' = peers \ H
    /\ revived' = (revived \cup {h \in H : task[h].pc = "rollback" /\ task[h].c = reg[h]})

\* Somebody asks for it: the user, a failed or closed connection, a
\* disconnection that lasted, the close of its main channel.
DisconnectFromPeer(h) ==
    /\ reg[h] # 0 /\ Teardown({h}) /\ last' = "teardown"
    /\ UNCHANGED <<made, task, queue, identity, leaving, inflight, failed>>

\* failEdge, the failed handshake and the refused main channel close the
\* transport; only an event of the closed transport, or the user, tears down
\* what is registered.
FailEdge(h) ==
    /\ reg[h] \in live /\ task[h].pc # "init"
    /\ live' = live \ {reg[h]} /\ failed' = failed \cup {reg[h]}
    /\ UNCHANGED <<made, reg, task, queue, identity, peers, leaving, inflight, revived, last>>

\* webrtcDisconnectRoomQuery goes through the handles it found, one at a time,
\* and so do the queries for all rooms and for everything.
LeaveNext(H) ==
    /\ \E h \in H : /\ Teardown({h}) /\ leaving' = H \ {h}
                   /\ last' = IF leaving = {} THEN "leave" ELSE IF last = "signal" /\ reg[h] # 0 THEN "teardown" ELSE last
    /\ inflight' = IF leaving = {} THEN \E h \in Handles : Busy(h) ELSE inflight
    /\ UNCHANGED <<made, task, queue, identity, failed>>
DisconnectFromRoom == leaving = {} /\ LeaveNext({h \in Handles : reg[h] # 0})
LeaveProceeds == LeaveNext(leaving)

Queue(h, what) == Len(queue[h]) < MaxQueue /\ queue' = [queue EXCEPT ![h] = Append(@, what)]

\* The server's "peers": mergePeerRosterDelta takes a handle only while no
\* other handle of the identity is listed.
PeersMessage(h) ==
    /\ peers \cap Others(h) = {} /\ peers' = peers \cup {h} /\ Queue(h, "connect") /\ last' = "signal"
    /\ UNCHANGED <<made, live, reg, task, identity, leaving, inflight, failed, revived>>

\* The server's "connection": establishSignaledConnection records the peer
\* in any case.
ConnectionMessage(h) ==
    /\ peers' = peers \cup {h} /\ Queue(h, "connect") /\ last' = "signal"
    /\ UNCHANGED <<made, live, reg, task, identity, leaving, inflight, failed, revived>>

\* A description, of the peer that has the handle.
DescriptionMessage(h) ==
    /\ Queue(h, "describe") /\ last' = "offer"
    /\ UNCHANGED <<made, live, reg, task, identity, peers, leaving, inflight, failed, revived>>
-----------------------------------------------------------------------------
Goto(h, pc, c) == task' = [task EXCEPT ![h] = [pc |-> pc, describes |-> @.describes, c |-> c]]
Ends(h) == task' = [task EXCEPT ![h] = NoTask]

\* The mutex of the handle is taken.  webrtcBaseQuery looks the blacklist up;
\* webrtcSetDescriptionQuery takes the connection it finds, and rolls a
\* colliding offer of its own back, or has one made.
Start(h) ==
    /\ task[h] = NoTask /\ queue[h] # << >> /\ queue' = [queue EXCEPT ![h] = Tail(@)]
    /\ \/ Head(queue[h]) = "connect" /\ task' = [task EXCEPT ![h] = [pc |-> "lookup", describes |-> FALSE, c |-> 0]]
       \/ /\ Head(queue[h]) = "describe"
          /\ \E pc \in IF reg[h] = 0 THEN {"identity"} ELSE {"rollback", "remote"} :
                task' = [task EXCEPT ![h] = [pc |-> pc, describes |-> TRUE, c |-> reg[h]]]
    /\ UNCHANGED <<made, live, reg, identity, peers, leaving, inflight, failed, revived, last>>

\* Takes any registered connection for a live one.
Lookup_Faulty(h) ==
    /\ task[h].pc = "lookup" /\ IF reg[h] # 0 THEN Ends(h) ELSE Goto(h, "identity", 0)
    /\ UNCHANGED <<made, live, reg, queue, identity, peers, leaving, inflight, failed, revived, last>>

\* webrtcBaseQuery, after the lookup: a connection that is not closed stays,
\* one that is closed makes room for a new one.
Lookup(h) ==
    /\ task[h].pc = "lookup"
    /\ \/ reg[h] \in live /\ Ends(h) /\ UNCHANGED reg
       \/ reg[h] \notin live /\ Goto(h, "identity", 0) /\ reg' = [reg EXCEPT ![h] = 0]
    /\ UNCHANGED <<made, live, queue, identity, peers, leaving, inflight, failed, revived, last>>

\* Leaves the connections under the other handles alone.
Acquire_Faulty(h) ==
    /\ task[h].pc = "identity" /\ identity = NoHandle /\ identity' = h /\ Goto(h, "reserve", 0)
    /\ UNCHANGED <<made, live, reg, peers, revived, queue, leaving, inflight, failed, last>>

\* handleConnectToPeer: the mutex of the identity is taken, and the other
\* handles of the identity are torn down.
Acquire(h) ==
    /\ task[h].pc = "identity" /\ identity = NoHandle /\ identity' = h /\ Goto(h, "reserve", 0)
    /\ Teardown({o \in Others(h) : reg[o] # 0})
    /\ UNCHANGED <<made, queue, leaving, inflight, failed, last>>

\* ... a connection is made, and registered before the first await.  The code
\* looks once more for one that is there; the mutex of the handle is held, and
\* there is none (RegistryTypeOK).
Reserve(h) ==
    /\ task[h].pc = "reserve" /\ made < MaxConns /\ made' = made + 1 /\ live' = live \cup {made + 1}
    /\ reg' = [reg EXCEPT ![h] = made + 1] /\ Goto(h, "init", made + 1)
    /\ UNCHANGED <<queue, identity, peers, leaving, inflight, failed, revived, last>>

\* ... it is initialised, and still the registered one, or it is closed and
\* the call fails.  connectWithPeer records the peer while the socket is up.
InitDone(h, online) ==
    LET c == task[h].c
    IN /\ task[h].pc = "init" /\ identity' = NoHandle
       /\ IF reg[h] = c
          THEN /\ peers' = IF online THEN peers \cup {h} ELSE peers
               /\ IF task[h].describes THEN Goto(h, "remote", c) ELSE Ends(h)
               /\ UNCHANGED live
          ELSE live' = live \ {c} /\ Ends(h) /\ UNCHANGED peers
       /\ UNCHANGED <<made, reg, queue, leaving, inflight, failed, revived, last>>

\* ... or the initialisation fails: the connection is closed and removed.
InitFails(h) ==
    LET c == task[h].c
    IN /\ task[h].pc = "init" /\ reg[h] = c /\ identity' = NoHandle /\ Ends(h)
       /\ reg' = [reg EXCEPT ![h] = 0] /\ live' = live \ {c} /\ last' = "teardown"
       /\ UNCHANGED <<made, queue, peers, leaving, inflight, failed, revived>>

\* webrtcSetDescriptionQuery after the rollback: a connection that is no
\* longer registered is registered again, closed as it may be.
Rollback(h) ==
    LET c == task[h].c
    IN /\ task[h].pc = "rollback"
       /\ reg' = [reg EXCEPT ![h] = IF @ = 0 THEN c ELSE @]
       /\ IF c \in live THEN Goto(h, "remote", c) ELSE Ends(h)
       /\ UNCHANGED <<made, live, queue, identity, peers, leaving, inflight, failed, revived, last>>

\* The descriptions are set, or the connection is closed and they fail.
Describe(h) ==
    /\ task[h].pc = "remote" /\ Ends(h)
    /\ UNCHANGED <<made, live, reg, queue, identity, peers, leaving, inflight, failed, revived, last>>

RegistryStep(online) ==
    \/ LeaveProceeds
    \/ \E h \in Handles : Start(h) \/ Lookup(h) \/ Acquire(h) \/ Reserve(h) \/ InitDone(h, online) \/ Rollback(h) \/ Describe(h)
=============================================================================
