----------------------------- MODULE Signaling ------------------------------
(***************************************************************************)
(* The page's side of the signaling service: the one socket it keeps, the  *)
(* proof of identity on it, and the rooms it asks for.  Every await of the *)
(* code is a point where another call or event runs: a socket is opened    *)
(* after the identity is read from the database, connect() goes on with    *)
(* the state it read before it waited, and a socket that is closing is     *)
(* kept, and fires its close event later, when there may be another.  The  *)
(* server answers in order on a socket that is open.                       *)
(***************************************************************************)
EXTENDS Integers, Sequences, FiniteSets

CONSTANTS Rooms, NoRoom

ASSUME SignalingAssumption == NoRoom \notin Rooms

VARIABLES
    ws,       \* the socket the module keeps, 0 when null
    socks,    \* socks[s]: the state of socket s and how far its proof of identity is
    opening,  \* connectWebSocket calls that still provision the identity
    flags,    \* isEstablishingConnection, isConnected, isVerified
    self,     \* the socket that keyPair.peerId and its proof are of, 0 for none
    rooms,    \* rooms[r]: not in the store, in it without an id, with its id
    current,  \* currentRoomUrl
    calls,    \* calls[r][v]: the connect(r) that wait for the database, by whether they read a verified socket
    asks,     \* room requests the server has and has not answered
    loading,  \* loading[r][v]: the setRoom effects that wait for the database, likewise
    polled,   \* rooms whose roster the kept socket has asked for
    mishaps   \* what has happened that may leave a room without its id

signalingVars == <<ws, socks, opening, flags, self, rooms, current, calls, asks, loading, polled, mishaps>>

Sockets == 1 .. Len(socks)
Usable(s) == s # 0 /\ socks[s].state = "open"
Verified == flags.con /\ flags.ver
Down == [est |-> FALSE, con |-> FALSE, ver |-> FALSE]
Waits(r) == \E v \in BOOLEAN : calls[r][v] > 0
None == [r \in Rooms |-> [v \in BOOLEAN |-> 0]]

SignalingTypeOK ==
    /\ ws \in 0 .. Len(socks) /\ opening \in Nat
    /\ \A s \in Sockets : /\ socks[s].state \in {"connecting", "open", "closing", "closed"}
                          /\ socks[s].auth \in {"none", "signing", "proved", "verified", "lost"}
    /\ flags \in [est : BOOLEAN, con : BOOLEAN, ver : BOOLEAN] /\ self \in 0 .. Len(socks)
    /\ rooms \in [Rooms -> {"absent", "known", "joined"}] /\ current \in Rooms \cup {NoRoom}
    /\ calls \in [Rooms -> [BOOLEAN -> Nat]] /\ loading \in [Rooms -> [BOOLEAN -> Nat]]
    /\ asks \subseteq Sockets \X Rooms /\ polled \subseteq Rooms
    /\ mishaps \subseteq {"lost", "disconnected", "overlap", "silent"}

SignalingInit ==
    /\ ws = 0 /\ socks = << >> /\ opening = 0 /\ flags = Down /\ self = 0
    /\ rooms = [r \in Rooms |-> "absent"] /\ current = NoRoom
    /\ calls = None /\ asks = {} /\ loading = None /\ polled = {} /\ mishaps = {}

\* A page that has joined room r over its first socket.
SignalingJoined(r) ==
    /\ ws = 1 /\ socks = <<[state |-> "open", auth |-> "verified"]>> /\ opening = 0
    /\ flags = [est |-> FALSE, con |-> TRUE, ver |-> TRUE] /\ self = 1
    /\ rooms = [q \in Rooms |-> IF q = r THEN "joined" ELSE "absent"] /\ current = r
    /\ calls = None /\ asks = {} /\ loading = None /\ polled = {r} /\ mishaps = {}
-----------------------------------------------------------------------------
\* sendMessage: what is sent while the kept socket is not open, or before
\* there is a peerId, is dropped.  The server serves verified sockets.
CanSend == Usable(ws) /\ self # 0
AskRoom(r) == asks' = IF CanSend /\ socks[ws].auth = "verified" THEN asks \cup {<<ws, r>>} ELSE asks

\* setConnectingToPeers and its effect: the roster is asked for, unless that
\* was done a moment ago.
PollPeers(r) ==
    \/ rooms[r] = "joined" /\ flags.con /\ flags.ver /\ CanSend /\ polled' = polled \cup {r}
    \/ polled' = polled

\* Opens a socket whether or not there is one.
ConnectWebSocket_Faulty == flags' = [flags EXCEPT !.est = TRUE] /\ opening' = opening + 1

\* connectWebSocket up to its first await.
ConnectWebSocket ==
    IF ws # 0 \/ flags.con \/ flags.est THEN UNCHANGED <<flags, opening>>
    ELSE flags' = [flags EXCEPT !.est = TRUE] /\ opening' = opening + 1

\* What connect() does without a verified socket, when it has one or not.
NeedsSocket == ConnectWebSocket /\ UNCHANGED <<asks, polled>>

\* A join of r begins while no socket is verified and another is under way.
Overlaps(r) == ~flags.ver /\ ((\E q \in Rooms : Waits(q)) \/ \E q \in Rooms \ {r} : rooms[q] # "absent")

\* connect(): a room that is not in the store is looked up first, one that is
\* has its roster asked for.
Connect(r) ==
    /\ mishaps' = mishaps \cup {m \in {"overlap"} : Overlaps(r)}
    /\ IF rooms[r] = "absent"
       THEN /\ calls' = [calls EXCEPT ![r][Verified] = @ + 1]
            /\ UNCHANGED <<flags, opening, current, asks, polled>>
       ELSE /\ IF Verified THEN PollPeers(r) /\ UNCHANGED <<flags, opening, asks>> ELSE NeedsSocket
            /\ current' = r /\ UNCHANGED calls
    /\ UNCHANGED <<ws, socks, self, rooms, loading>>

\* ... it goes on with what it read at the start: the room is entered without
\* an id, also when it has one by now, and asked for if there was a verified
\* socket then.
ConnectProceeds(r) ==
    \E v \in BOOLEAN :
        /\ calls[r][v] > 0 /\ calls' = [calls EXCEPT ![r][v] = @ - 1]
        /\ IF v THEN AskRoom(r) /\ UNCHANGED <<flags, opening, polled>> ELSE NeedsSocket
        /\ rooms' = [rooms EXCEPT ![r] = "known"] /\ current' = r
        /\ UNCHANGED <<ws, socks, self, loading, mishaps>>

\* connectToSignalingServer() enters the room at once and never asks for it:
\* that is left to the verification of the socket.
ConnectToSignalingServer(r) ==
    /\ mishaps' = mishaps \cup {m \in {"overlap"} : Overlaps(r)}
                           \cup {m \in {"silent"} : rooms[r] = "absent" /\ flags.ver}
    /\ rooms' = [rooms EXCEPT ![r] = IF @ = "absent" THEN "known" ELSE @] /\ current' = r
    /\ NeedsSocket
    /\ UNCHANGED <<ws, socks, self, calls, loading>>

\* The identity is provisioned and the socket made; whatever was kept is not
\* looked at again.
OpenSocket ==
    /\ opening > 0 /\ opening' = opening - 1
    /\ socks' = Append(socks, [state |-> "connecting", auth |-> "none"]) /\ ws' = Len(socks) + 1
    /\ polled' = {}
    /\ UNCHANGED <<flags, self, rooms, current, calls, asks, loading, mishaps>>

OnOpen(s) ==
    /\ socks[s].state = "connecting" /\ socks' = [socks EXCEPT ![s].state = "open"]
    /\ flags' = [est |-> FALSE, con |-> TRUE, ver |-> FALSE]
    /\ UNCHANGED <<ws, opening, self, rooms, current, calls, asks, loading, polled, mishaps>>

\* onclose and onerror of s, and disconnectWebSocket: the socket that is kept
\* by then is closed and forgotten, whichever it is.
Forget(s, state) ==
    /\ socks' = [t \in Sockets |->
                    IF t = s THEN [socks[t] EXCEPT !.state = state]
                    ELSE IF t = ws /\ socks[t].state \in {"connecting", "open"} THEN [socks[t] EXCEPT !.state = "closing"]
                    ELSE socks[t]]
    /\ ws' = 0 /\ flags' = Down /\ polled' = {}
    /\ asks' = {a \in asks : a[1] \notin {s, ws}}

\* Provisioning the identity fails: the kept socket, if there is one, is
\* closed all the same.
OpenFails ==
    /\ opening > 0 /\ opening' = opening - 1
    /\ IF ws # 0 THEN Forget(ws, "closing") ELSE flags' = Down /\ UNCHANGED <<ws, socks, polled, asks>>
    /\ mishaps' = mishaps \cup {"lost"}
    /\ UNCHANGED <<self, rooms, current, calls, loading>>

\* The close event of a socket, and the error event before it.
OnClose(s) ==
    /\ socks[s].state = "closing" /\ Forget(s, "closed")
    /\ UNCHANGED <<opening, self, rooms, current, calls, loading, mishaps>>

\* A socket begins to close, and is kept: the flags change with its event.
Closes(s) ==
    /\ socks' = [socks EXCEPT ![s].state = "closing"] /\ mishaps' = mishaps \cup {"lost"}
    /\ UNCHANGED <<ws, opening, flags, self, rooms, current, calls, asks, loading, polled>>

\* The network or the server ends a socket.
Drop(s) == socks[s].state \in {"connecting", "open"} /\ Closes(s)

\* disconnectFromSignalingServer.
Disconnect ==
    /\ IF ws # 0 THEN Forget(ws, "closing") ELSE flags' = Down /\ UNCHANGED <<ws, socks, polled, asks>>
    /\ mishaps' = mishaps \cup {"disconnected"}
    /\ UNCHANGED <<opening, self, rooms, current, calls, loading>>
-----------------------------------------------------------------------------
\* The server challenges a socket once, handleChallenge signs, and the
\* server's success answers a proof it was sent.
Fresh(s) == Usable(s) /\ socks[s].auth = "none"
Signed(s) == socks[s].auth = "signing"
Proved(s) == Usable(s) /\ socks[s].auth = "proved"

\* The server's peerId and challenge; handleChallenge starts to sign it.
OnChallenge(s) ==
    /\ Fresh(s) /\ socks' = [socks EXCEPT ![s].auth = "signing"]
    /\ UNCHANGED <<ws, opening, flags, self, rooms, current, calls, asks, loading, polled, mishaps>>

\* A challenge or a success that is malformed, or of another version, makes
\* the page close the socket it came on.
Reject(s) == (Fresh(s) \/ Proved(s)) /\ Closes(s)

\* setPeerData and its effect: the proof goes out on the socket that is kept,
\* and is good only on the one it answers.
SetPeerData(s) ==
    /\ Signed(s) /\ self' = s
    /\ socks' = [socks EXCEPT ![s].auth = IF ws = s /\ Usable(s) THEN "proved" ELSE "lost"]
    /\ UNCHANGED <<ws, opening, flags, rooms, current, calls, asks, loading, polled, mishaps>>

\* Leaves the room that was waiting for the proof unasked.
OnVerified_Faulty(s) ==
    /\ Proved(s) /\ socks' = [socks EXCEPT ![s].auth = "verified"]
    /\ flags' = [est |-> FALSE, con |-> TRUE, ver |-> TRUE]
    /\ UNCHANGED <<ws, opening, self, rooms, current, calls, asks, loading, polled, mishaps>>

\* The server's success: setChallengeId and its effect, which asks for the
\* current room, or for its roster: a socket is only opened for a room.
OnVerified(s) ==
    /\ Proved(s) /\ socks' = [socks EXCEPT ![s].auth = "verified"]
    /\ flags' = [est |-> FALSE, con |-> TRUE, ver |-> TRUE]
    /\ \/ rooms[current] # "joined" /\ UNCHANGED polled
          /\ asks' = IF Usable(ws) THEN asks \cup {<<ws, current>>} ELSE asks
       \/ rooms[current] = "joined" /\ UNCHANGED asks
          /\ polled' \in {polled, IF Usable(ws) THEN polled \cup {current} ELSE polled}
    /\ UNCHANGED <<ws, opening, self, rooms, current, calls, loading, mishaps>>

\* The server's roomId answers a request on the same socket.
Answered(s, r) == Usable(s) /\ <<s, r>> \in asks

\* ... setRoom, and its effect up to the database.
OnRoomId(s, r) ==
    /\ Answered(s, r) /\ asks' = asks \ {<<s, r>>}
    /\ rooms' = [rooms EXCEPT ![r] = "joined"]
    /\ loading' = [loading EXCEPT ![r][Verified] = @ + 1]
    /\ UNCHANGED <<ws, socks, opening, flags, self, current, calls, polled, mishaps>>

\* The room and its old messages are stored and read; the roster is asked for.
RoomLoaded(r) ==
    \E v \in BOOLEAN :
        /\ loading[r][v] > 0 /\ loading' = [loading EXCEPT ![r][v] = @ - 1]
        /\ polled' = IF v /\ CanSend THEN polled \cup {r} ELSE polled
        /\ UNCHANGED <<ws, socks, opening, flags, self, rooms, current, calls, asks, mishaps>>

SignalingStep ==
    \/ OpenSocket
    \/ \E r \in Rooms : ConnectProceeds(r) \/ RoomLoaded(r)
    \/ \E s \in Sockets : \/ OnOpen(s) \/ OnClose(s) \/ OnChallenge(s) \/ SetPeerData(s) \/ OnVerified(s)
                          \/ \E r \in Rooms : OnRoomId(s, r)
=============================================================================
