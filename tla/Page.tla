-------------------------------- MODULE Page --------------------------------
(***************************************************************************)
(* One page: its signaling socket and rooms (Signaling) together with the  *)
(* connections it keeps to an identity of room Home (Registry).  Signals   *)
(* reach the registry over a verified socket, of a room that is joined; a  *)
(* transport that fails while there is no socket opens one.                *)
(***************************************************************************)
EXTENDS Signaling, Registry

CONSTANTS
    Home,       \* the room whose connections are modelled
    MaxEvents   \* what the application, the server and the network do

ASSUME PageAssumption == Home \in Rooms /\ MaxEvents \in Nat

VARIABLE events

vars == <<signalingVars, registryVars, events>>

TypeOK == SignalingTypeOK /\ RegistryTypeOK /\ events \in 0 .. MaxEvents

Init == (SignalingInit \/ SignalingJoined(Home)) /\ RegistryInit /\ events = 0

Event == events < MaxEvents /\ events' = events + 1

\* handleWebSocketMessage, for what concerns the registry: the socket is open
\* and verified, the room known by its id, and a roster comes only when it was
\* asked for.
Hears == Usable(ws) /\ socks[ws].auth = "verified" /\ rooms[Home] = "joined"
RosterSignal(h) == Hears /\ Home \in polled /\ PeersMessage(h)
ConnectionSignal(h) == Hears /\ ConnectionMessage(h)
DescriptionSignal(h) == Hears /\ DescriptionMessage(h)

\* oniceconnectionstatechange of a transport: without a socket, one is opened.
IceFails(h) ==
    /\ reg[h] \in live /\ ~flags.con /\ ~flags.est /\ ConnectWebSocket
    /\ UNCHANGED <<ws, socks, self, rooms, current, calls, asks, loading, polled, mishaps>>

\* Whether handleConnectToPeer, which read the flag when it was called, and
\* connectWithPeer, which looks at the socket, record the peer.
PageStep ==
    \/ SignalingStep /\ UNCHANGED <<registryVars, events>>
    \/ \E online \in {CanSend, FALSE} : RegistryStep(online) /\ UNCHANGED <<signalingVars, events>>

PageEvent ==
    \/ /\ \/ Disconnect \/ OpenFails
          \/ \E r \in Rooms : Connect(r) \/ ConnectToSignalingServer(r)
          \/ \E s \in Sockets : Drop(s) \/ Reject(s)
          \/ \E h \in Handles : IceFails(h)
       /\ UNCHANGED registryVars
    \/ /\ \/ DisconnectFromRoom
          \/ \E h \in Handles : \/ DisconnectFromPeer(h) \/ FailEdge(h) \/ InitFails(h)
                                \/ RosterSignal(h) \/ ConnectionSignal(h) \/ DescriptionSignal(h)
       /\ UNCHANGED signalingVars

Next == PageStep \/ (Event /\ PageEvent)

\* The event loop runs what is ready, and the server answers.
Spec == Init /\ [][Next]_vars /\ WF_vars(PageStep)
-----------------------------------------------------------------------------
\* Until the application disconnects, there is one socket at most, and the
\* flags tell its state: isConnected that it was opened and its close event
\* has not come, isVerified that the identity is proved on it.  What an
\* earlier disconnect left behind, a close event or a socket still being
\* opened, is what hits the wrong socket.
OnlyDisconnectConfusesSockets ==
    "disconnected" \notin mishaps =>
        /\ \A s \in Sockets : socks[s].state # "closed" => ws = s
        /\ flags.con => ws # 0 /\ socks[ws].state \in {"open", "closing"}
        /\ flags.ver => socks[ws].auth = "verified"

\* A join ends with the room joined, unless the socket was lost, another join
\* began while it was being set up, or connectToSignalingServer was used on a
\* verified one: then a room has no id, and nobody asks for it again.
OnlyOverlappingJoinsStrand ==
    \A r \in Rooms : (Waits(r) \/ rooms[r] = "known") ~> (rooms[r] = "joined" \/ mishaps # {})

\* An identity has one live transport in the room, whatever handles it comes
\* under, and a live transport is registered: no teardown, replacement or
\* failed initialization leaves one behind that nobody can close.
OneTransport == (\A c, d \in live : c = d) /\ live \subseteq Registered

\* What is registered is live, except a connection that a failed edge has
\* closed and nobody torn down yet, and where a teardown came while a
\* setDescription awaited its rollback, which then registers the closed
\* connection again.
OnlyFailureOrRollbackKeepsClosed ==
    \A h \in Handles : reg[h] # 0 /\ reg[h] \notin live => reg[h] \in failed \/ h \in revived

\* Once the room was left and nothing runs, there is no transport, unless a
\* signal was already being handled when it was left.
OnlySignalsInFlightOutliveLeave ==
    leaving = {} /\ (\A h \in Handles : ~Busy(h)) /\ last = "leave" /\ ~inflight => live = {}

\* A roster or connection signal ends in a live transport to the identity,
\* through both mutexes and past a closed connection that is registered,
\* unless it is torn down, fails to initialise, or the room is left.
SignalsConnect ==
    \A h \in Handles : (\E n \in DOMAIN queue[h] : queue[h][n] = "connect") ~> (live # {} \/ last \in {"teardown", "leave"})
=============================================================================
