-------------------------- MODULE Handshake_proofs --------------------------
(***************************************************************************)
(* Who owns the gate and the inbox of an edge, and what the frames of a    *)
(* handshake carry, proved for any number of connections, attempts, faults *)
(* and PINs.                                                               *)
(*                                                                         *)
(* LeaseInv ties the leases to the registered connection: a gate that has  *)
(* not settled and an inbox that is open belong to it, installed keys are  *)
(* those of its open gate, and the attempt that owns the inbox has passed  *)
(* the throttle with no other failure counted since. Each primitive of the *)
(* actions has a lemma that says what it changes, each action one that     *)
(* says it keeps LeaseInv. KeysBelongToGate and NoGuessDuringBackoff       *)
(* follow.                                                                 *)
(*                                                                         *)
(* FlightInv, in the second half, rests on LeaseInv. It says of every      *)
(* connection that each frame under way was made by the attempt of the     *)
(* other end, from the secret it holds, and that the frames taken, queued  *)
(* and on the wire are no more than the other end has sent. An end that    *)
(* derived keys has therefore taken every flight there is, the channel of  *)
(* that connection is empty, and the MACs it compared show that the two    *)
(* ends hold one secret.                                                   *)
(***************************************************************************)
EXTENDS Handshake, TLAPS

\* The typed state, one fact per variable.
GateType == [Ends -> [lease : 0 .. MaxConns, outcome : {"pending", "open", "rejected"}]]
InboxType == [Ends -> [lease : 0 .. MaxConns, next : 1 .. 4, queue : Queues]]
WireType == [Conns -> [Ends -> Lines]]
HsType == [Ends -> [Conns -> [pc : Stages, pin : Pins]]]
BucketType == [Ends -> [failures : Nat, wait : 0 .. BackoffMax]]

\* Zero is no connection, and every other number in range is one.
LEMMA ConnFacts ==
  ASSUME NEW c \in Conns
  PROVE  c \in Int /\ c # 0 /\ c \in 0 .. MaxConns
  BY HandshakeAssumption DEF Conns

\* A lease that is not zero names a connection that can be registered (reg).
LEMMA Registered ==
  ASSUME NEW k \in 0 .. MaxConns, k # 0
  PROVE  k \in Conns
  BY DEF Conns

\* What is beyond the last connection is not one of those made.
LEMMA NotBeyond ==
  ASSUME NEW c \in Int, NEW d \in Int, NEW n \in Int, c <= n, d > n
  PROVE  d # c
  OBVIOUS

\* What the primitives of the actions do, field by field.  An attempt moves
\* (the pc of runHandshake).
LEMMA AtMoves ==
  ASSUME Shapes, NEW e \in Ends, NEW c \in Conns, NEW p \in Stages, At(e, c, p)
  PROVE  /\ hs' \in [Ends -> [Conns -> [pc : Stages, pin : Pins]]]
         /\ hs'[e][c].pc = p /\ hs'[e][c].pin = hs[e][c].pin
         /\ \A x \in Ends, d \in Conns : x # e \/ d # c => hs'[x][d] = hs[x][d]
<1> DEFINE one == [hs[e][c] EXCEPT !.pc = p]
           all == [hs[e] EXCEPT ![c] = one]
<1>. hs[e] \in [Conns -> [pc : Stages, pin : Pins]] /\ hs[e][c] \in [pc : Stages, pin : Pins]
  BY DEF Shapes
<1>. one \in [pc : Stages, pin : Pins] /\ one.pc = p /\ one.pin = hs[e][c].pin
  BY Zenon
<1>. /\ all \in [Conns -> [pc : Stages, pin : Pins]] /\ all[c] = one
      /\ \A d \in Conns : d # c => all[d] = hs[e][d]
  BY Zenon
<1>4. hs' = [hs EXCEPT ![e] = all]
  BY Zenon DEF At
<1> HIDE DEF all, one
<1>5. /\ hs' \in [Ends -> [Conns -> [pc : Stages, pin : Pins]]] /\ hs'[e] = all
      /\ \A x \in Ends : x # e => hs'[x] = hs[x]
  BY <1>4, Zenon DEF Shapes
<1> QED
  BY <1>5, Zenon

\* The inbox of one end changes (setHandshakeChannel, clearHandshakeChannel,
\* deliverHandshakeFrame, recv).
LEMMA InboxChanges ==
  ASSUME Shapes, NEW e \in Ends, NEW Q, NEW box \in [lease : 0 .. MaxConns, next : 1 .. 4, queue : Q],
         inbox' = [inbox EXCEPT ![e] = box]
  PROVE  /\ inbox' \in [Ends -> [lease : 0 .. MaxConns, next : 1 .. 4, queue : Queues']]
         /\ inbox'[e] = box
         /\ \A x \in Ends : x # e => inbox'[x] = inbox[x]
<1>. /\ inbox'[e] = box
      /\ inbox' = [x \in Ends |-> inbox'[x]] /\ \A x \in Ends : x # e => inbox'[x] = inbox[x]
  BY Zenon DEF Shapes
<1>. \A x \in Ends : inbox'[x].queue \in Queues'
  BY Zenon DEF Queues
<1>3. inbox'[e] \in [lease : 0 .. MaxConns, next : 1 .. 4, queue : Queues']
  BY Zenon
<1>4. ASSUME NEW x \in Ends, x # e PROVE inbox'[x] \in [lease : 0 .. MaxConns, next : 1 .. 4, queue : Queues']
  <2>. inbox[x] \in [lease : 0 .. MaxConns, next : 1 .. 4, queue : Queues] /\ inbox'[x] = inbox[x]
    BY <1>4, Zenon DEF Shapes
  <2> QED
    BY Zenon
<1>5. \A x \in Ends : inbox'[x] \in [lease : 0 .. MaxConns, next : 1 .. 4, queue : Queues']
  BY <1>3, <1>4, Zenon
<1> QED
  BY <1>5, Zenon

\* runHandshake gives up its gate and its inbox (rejectRatchetGate,
\* clearHandshakeChannel).
LEMMA AbandonGives ==
  ASSUME Shapes, NEW e \in Ends, NEW c \in Conns, Abandon(e, c)
  PROVE  /\ gate' \in [Ends -> [lease : 0 .. MaxConns, outcome : {"pending", "open", "rejected"}]]
         /\ gate'[e].lease = gate[e].lease
         /\ gate'[e].outcome = IF Pending(gate[e], c) THEN "rejected" ELSE gate[e].outcome
         /\ inbox' \in [Ends -> [lease : 0 .. MaxConns, next : 1 .. 4, queue : Queues']]
         /\ inbox'[e].lease # c
         /\ inbox'[e] = inbox[e] \/ inbox'[e].lease = 0
         /\ inbox[e].lease # c => inbox'[e] = inbox[e]
         /\ \A x \in Ends : x # e => gate'[x] = gate[x] /\ inbox'[x] = inbox[x]
<1> USE DEF Conns
<1>1. gate[e] \in [lease : 0 .. MaxConns, outcome : {"pending", "open", "rejected"}]
  BY Zenon DEF Shapes
<1>. /\ RejectGate(gate[e], c) \in [lease : 0 .. MaxConns, outcome : {"pending", "open", "rejected"}]
      /\ RejectGate(gate[e], c).lease = gate[e].lease
      /\ RejectGate(gate[e], c).outcome = IF Pending(gate[e], c) THEN "rejected" ELSE gate[e].outcome
  BY <1>1, Zenon DEF RejectGate, Pending
<1>. /\ gate' = [gate EXCEPT ![e] = RejectGate(gate[e], c)]
      /\ inbox' = [inbox EXCEPT ![e] = ClearInbox(inbox[e], c)]
  BY Zenon DEF Abandon
<1>4. /\ gate' \in [Ends -> [lease : 0 .. MaxConns, outcome : {"pending", "open", "rejected"}]]
      /\ gate'[e] = RejectGate(gate[e], c) /\ \A x \in Ends : x # e => gate'[x] = gate[x]
  BY Zenon DEF Shapes
<1>5. /\ inbox' \in [Ends -> [lease : 0 .. MaxConns, next : 1 .. 4, queue : Queues']]
      /\ inbox'[e] = ClearInbox(inbox[e], c) /\ \A x \in Ends : x # e => inbox'[x] = inbox[x]
  <2>. inbox[e] \in [lease : 0 .. MaxConns, next : 1 .. 4, queue : Queues \cup {<< >>}]
    BY Zenon DEF Shapes
  <2>. NoInbox \in [lease : 0 .. MaxConns, next : 1 .. 4, queue : Queues \cup {<< >>}]
    BY HandshakeAssumption DEF NoInbox
  <2>. ClearInbox(inbox[e], c) \in [lease : 0 .. MaxConns, next : 1 .. 4, queue : Queues \cup {<< >>}]
    BY Zenon DEF ClearInbox
  <2> QED
    BY InboxChanges, Zenon
<1>6. /\ ClearInbox(inbox[e], c).lease # c /\ (ClearInbox(inbox[e], c) = inbox[e] \/ ClearInbox(inbox[e], c).lease = 0)
      /\ inbox[e].lease # c => ClearInbox(inbox[e], c) = inbox[e]
  BY DEF ClearInbox, NoInbox
<1> QED
  BY <1>4, <1>5, <1>6, Zenon

\* The frames on the way on one connection change.
LEMMA LinesChange ==
  ASSUME Shapes, NEW c \in Conns, NEW L, NEW both \in [Ends -> L], wire' = [wire EXCEPT ![c] = both]
  PROVE  /\ wire' \in WireType' /\ wire'[c] = both
         /\ \A d \in Conns : d # c => wire'[d] = wire[d]
<1>. wire'[c] = both /\ wire' = [d \in Conns |-> wire'[d]] /\ \A d \in Conns : d # c => wire'[d] = wire[d]
  BY Zenon DEF Shapes
<1>. \A d \in Conns, x \in Ends : wire'[d][x] \in Lines'
  BY DEF Lines
<1>3. wire'[c] \in [Ends -> Lines']
  BY Zenon
<1>4. ASSUME NEW d \in Conns, d # c PROVE wire'[d] \in [Ends -> Lines']
  <2>. wire[d] \in [Ends -> Lines] /\ wire'[d] = wire[d]
    BY <1>4, Zenon DEF Shapes
  <2> QED
    BY Zenon
<1> QED
  BY <1>3, <1>4, Zenon DEF WireType

\* A channel towards one end.
Line(c, to, line) == wire' = [wire EXCEPT ![c][to] = line]

\* The frames on the way to one end of one connection change, and no others
\* (send, onmessage and onclose of main).
LEMMA LineChanges ==
  ASSUME Shapes, NEW c \in Conns, NEW to \in Ends, NEW line, Line(c, to, line)
  PROVE  /\ wire' \in WireType' /\ wire'[c][to] = line
         /\ \A d \in Conns, x \in Ends : d # c \/ x # to => wire'[d][x] = wire[d][x]
<1> DEFINE both == [wire[c] EXCEPT ![to] = line]
<1>. both \in [Ends -> Lines \cup {line}] /\ both[to] = line /\ \A x \in Ends : x # to => both[x] = wire[c][x]
  BY DEF Shapes
<1>2. wire' = [wire EXCEPT ![c] = both]
  BY Zenon DEF Line
<1> HIDE DEF both
<1>3. wire' \in WireType' /\ wire'[c] = both /\ \A d \in Conns : d # c => wire'[d] = wire[d]
  BY <1>2, LinesChange, Zenon
<1> QED
  BY <1>3, Zenon

\* Frames leave on the channel of c only.
LEMMA SendFills ==
  ASSUME Shapes, NEW c \in Conns, NEW to \in Ends, NEW frames, Send(c, to, frames)
  PROVE  /\ wire' \in WireType'
         /\ wire'[c][to] = IF closed[to] \/ reg[to] > c THEN << >> ELSE wire[c][to] \o frames
         /\ \A d \in Conns, x \in Ends : d # c \/ x # to => wire'[d][x] = wire[d][x]
<1>. PICK line : line = IF closed[to] \/ reg[to] > c THEN << >> ELSE wire[c][to] \o frames
  BY Zenon
<1>2. Line(c, to, line)
  BY Zenon DEF Send, Line
<1>3. /\ wire' \in WireType' /\ wire'[c][to] = line
      /\ \A d \in Conns, x \in Ends : d # c \/ x # to => wire'[d][x] = wire[d][x]
  BY <1>2, LineChanges
<1> QED
  BY <1>3, Zenon

\* recv takes the first frame of the queue.
LEMMA TakeTakes ==
  ASSUME Shapes, NEW e \in Ends, Take(e)
  PROVE  /\ inbox' \in [Ends -> [lease : 0 .. MaxConns, next : 1 .. 4, queue : Queues']]
         /\ inbox'[e] = [lease |-> inbox[e].lease, next |-> inbox[e].next, queue |-> Tail(inbox[e].queue)]
         /\ \A x \in Ends : x # e => inbox'[x] = inbox[x]
<1>1. PICK rest : rest = Tail(inbox[e].queue)
  BY Zenon
<1>2. PICK box : box = [inbox[e] EXCEPT !.queue = rest]
  BY Zenon
<1>3. inbox' = [inbox EXCEPT ![e] = box]
  BY <1>1, <1>2, Zenon DEF Take
<1>4. box = [lease |-> inbox[e].lease, next |-> inbox[e].next, queue |-> rest]
  <2>. inbox[e] \in [lease : 0 .. MaxConns, next : 1 .. 4, queue : Queues]
    BY Zenon DEF Shapes
  <2> QED
    BY <1>2
<1>5. box \in [lease : 0 .. MaxConns, next : 1 .. 4, queue : {rest}]
  BY <1>4, Zenon DEF Shapes
<1> QED
  BY <1>1, <1>3, <1>4, <1>5, InboxChanges, Zenon

\* What a lost inbox, a failed attempt or a step of an attempt on c leaves of
\* the frames of every other connection.
OnlyOn(c) == wire' \in WireType' /\ \A d \in Conns, x \in Ends : d # c => wire'[d][x] = wire[d][x]

\* An attempt that has begun is on a connection both ends have made.
LEMMA BegunIsMade ==
  ASSUME LeaseInv, NEW e \in Ends, NEW c \in Conns, hs[e][c].pc # "off"
  PROVE  \A x \in Ends : c <= last[x]
<1>1. SUFFICES ASSUME NEW x \in Ends, ~(c <= last[x]) PROVE FALSE
  BY Zenon
<1>2. c \in Int /\ last[x] \in Int
  BY DEF LeaseInv, Shapes, Conns
<1> QED
  BY <1>1, <1>2 DEF LeaseInv, Fresh

\* A PIN failure changes the bucket of the end that records it
\* (fnIncrementPinAttemptState).
LEMMA FailureCounts ==
  ASSUME Shapes, NEW e \in Ends, RecordPinFailure(e)
  PROVE  /\ bucket' \in BucketType /\ bucket'[e].failures = bucket[e].failures + 1
         /\ \A x \in Ends : x # e => bucket'[x] = bucket[x]
<1>. PICK w : w = PinBackoff(bucket[e].failures + 1)
  BY Zenon
<1>2. w \in 0 .. BackoffMax
  BY HandshakeAssumption DEF PinBackoff
<1>3. bucket' = [bucket EXCEPT ![e] = [failures |-> bucket[e].failures + 1, wait |-> w]]
  BY Zenon DEF RecordPinFailure
<1> QED
  BY <1>2, <1>3 DEF Shapes, BucketType

\* A failing attempt keeps the leases: it gives up its own gate and inbox, and
\* only the owner of the inbox counts a PIN failure (runHandshake).
LEMMA FailKeepsLeases ==
  ASSUME LeaseInv, NEW e \in Ends, NEW c \in Conns, NEW why, Fail(e, c, why), hs[e][c].pc \in Running,
         why = "key-confirmation" => inbox[e].lease = c, OnlyOn(c)
  PROVE  LeaseInv'
<1>1. Shapes /\ At(e, c, "report") /\ Abandon(e, c) /\ "report" \in Stages
  BY Zenon DEF LeaseInv, Fail, Stages, Running
<1>2. /\ hs' \in HsType /\ hs'[e][c].pc = "report"
      /\ \A x \in Ends, d \in Conns : x # e \/ d # c => hs'[x][d] = hs[x][d]
  BY <1>1, AtMoves DEF HsType
<1>3. /\ gate' \in GateType /\ gate'[e].lease = gate[e].lease
      /\ gate'[e].outcome = IF Pending(gate[e], c) THEN "rejected" ELSE gate[e].outcome
      /\ inbox' \in InboxType' /\ inbox'[e].lease # c /\ (inbox'[e] = inbox[e] \/ inbox'[e].lease = 0)
      /\ \A x \in Ends : x # e => gate'[x] = gate[x] /\ inbox'[x] = inbox[x]
  BY <1>1, AbandonGives, Zenon DEF GateType, InboxType
<1>4. UNCHANGED <<policy, pin, reg, closed, last, keys, status, late>>
  BY Zenon DEF Fail
<1>5. /\ bucket' \in BucketType /\ \A x \in Ends : x # e => bucket'[x] = bucket[x]
      /\ bucket'[e] = bucket[e] \/ inbox[e].lease = c
  <2>. CASE RecordPinFailure(e) /\ inbox[e].lease = c
    BY <1>1, FailureCounts, Zenon
  <2>. CASE UNCHANGED attempts
    BY <1>1, Zenon DEF attempts, BucketType, Shapes
  <2> QED
    BY Zenon DEF Fail
<1>6. Shapes'
  BY <1>1, <1>2, <1>3, <1>4, <1>5, Zenon DEF Shapes, OnlyOn, GateType, InboxType, HsType, BucketType, WireType
<1>7. \A x \in Ends : c <= last[x]
  BY BegunIsMade, Zenon DEF Running, Waiting
<1>8. ASSUME NEW x \in Ends PROVE Leases(x)'
  <2>. Leases(x) /\ keys[x] \in 0 .. MaxConns /\ gate[x] \in [lease : 0 .. MaxConns, outcome : {"pending", "open", "rejected"}]
    BY Zenon DEF LeaseInv, Shapes
  <2>. CASE x # e
    BY <1>2, <1>3, <1>4, ConnFacts, Registered, Zenon DEF Leases
  <2>. CASE x = e
    <3>. keys[e] # 0 => keys[e] # c
      BY Zenon DEF Leases, Running, Waiting
    <3>. gate'[e] = gate[e] \/ (gate[e].outcome = "pending" /\ gate'[e].outcome = "rejected")
      BY <1>3 DEF Pending, GateType
    <3> QED
      BY <1>2, <1>3, <1>4 DEF Leases, Conns
  <2> QED
    BY Zenon
<1>9. ASSUME NEW x \in Ends, NEW d \in Conns PROVE Fresh(x, d)' /\ Owns(x, d)'
  <2>. Fresh(x, d) /\ Owns(x, d) /\ c \in Int /\ d \in Int /\ last[x] \in Int
    BY DEF LeaseInv, Shapes, Conns
  <2>. Fresh(x, d)'
    BY <1>2, <1>4, <1>7 DEF Fresh, OnlyOn
  <2>. Owns(x, d)'
    BY <1>2, <1>3, <1>4, <1>5 DEF Owns, Conns
  <2> QED
    BY Zenon
<1> QED
  BY <1>6, <1>8, <1>9, Zenon DEF LeaseInv

\* A step of an attempt that owns the inbox keeps the leases
\* (performHandshakeCore).
LEMMA MoveKeepsLeases ==
  ASSUME LeaseInv, NEW e \in Ends, NEW c \in Conns, NEW p \in Waiting \cup {"write"}, At(e, c, p),
         hs[e][c].pc \in Waiting \cup {"prepare"}, inbox[e].lease = c, OnlyOn(c),
         inbox' \in InboxType', \A x \in Ends : inbox'[x].lease = inbox[x].lease,
         UNCHANGED <<policy, pin, reg, closed, last, gate, keys, status, attempts, late>>
  PROVE  LeaseInv'
<1>. Shapes /\ p \in Stages /\ UNCHANGED bucket
  BY Zenon DEF LeaseInv, Stages, Running, attempts
<1>. /\ hs' \in HsType /\ hs'[e][c].pc = p
      /\ \A x \in Ends, d \in Conns : x # e \/ d # c => hs'[x][d] = hs[x][d]
  BY AtMoves, Zenon DEF HsType
<1>3. Shapes'
  BY Zenon DEF Shapes, OnlyOn, InboxType, HsType, WireType
<1>4. \A x \in Ends : c <= last[x]
  BY BegunIsMade, Zenon DEF Waiting
<1>5. ASSUME NEW x \in Ends PROVE Leases(x)'
  <2>. Leases(x) /\ keys[x] \in 0 .. MaxConns
    BY Zenon DEF LeaseInv, Shapes
  <2>. x = e /\ keys[e] # 0 => keys[e] # c
    BY Zenon DEF Leases, Waiting
  <2> QED
    BY ConnFacts, Registered, Zenon DEF Leases
<1>6. ASSUME NEW x \in Ends, NEW d \in Conns PROVE Fresh(x, d)' /\ Owns(x, d)'
  <2>. Fresh(x, d) /\ Owns(x, d) /\ Owns(e, c) /\ last[x] \in 0 .. MaxConns
    BY Zenon DEF LeaseInv, Shapes
  <2>. c \in Int /\ d \in Int /\ last[x] \in Int
    BY DEF Conns
  <2>. d > last[x] => d # c
    BY <1>4
  <2>. Fresh(x, d)'
    BY Zenon DEF Fresh, OnlyOn
  <2>. Owns(x, d)'
    BY Zenon DEF Owns
  <2> QED
    BY Zenon
<1> QED
  BY <1>3, <1>5, <1>6, Zenon DEF LeaseInv

\* A new connection takes the gate and the inbox over (webrtcBaseQuery,
\* resetRatchetGate, setHandshakeChannel).
LEMMA ConnectKeepsLeases ==
  ASSUME LeaseInv, NEW e \in Ends, Connect(e)
  PROVE  LeaseInv'
<1>. Shapes /\ Other(e) \in Ends
  BY Zenon DEF LeaseInv, Other, Ends
<1>. PICK c \in Conns :
        /\ c > last[e]
        /\ reg' = [reg EXCEPT ![e] = c] /\ last' = [last EXCEPT ![e] = c] /\ closed' = [closed EXCEPT ![e] = FALSE]
        /\ gate' = [gate EXCEPT ![e] = ResetGate(c)]
        /\ inbox' = [inbox EXCEPT ![e] = SetHandshakeChannel(c)]
        /\ keys' = [keys EXCEPT ![e] = 0]
        /\ UNCHANGED <<policy, pin, wire, hs, status, attempts, late, faults>>
  <2>. last[e] \in Int /\ last[Other(e)] \in Int
    BY DEF Shapes
  <2>. PICK c : c = IF last[Other(e)] > last[e] THEN last[Other(e)] ELSE last[e] + 1
    BY Zenon
  <2>. c > last[e]
    OBVIOUS
  <2> QED
    BY Zenon DEF Connect
<1>. /\ c \in 0 .. MaxConns /\ c \in Int /\ c # 0 /\ last[e] \in 0 .. MaxConns /\ UNCHANGED bucket
      /\ hs[e][c].pc = "off"
  BY ConnFacts, Registered, Zenon DEF LeaseInv, Shapes, Fresh, attempts
<1>4. SetHandshakeChannel(c) \in [lease : 0 .. MaxConns, next : 1 .. 4, queue : {<< >>}] /\ SetHandshakeChannel(c).lease = c
  BY DEF SetHandshakeChannel, NoInbox
<1>. /\ inbox' \in InboxType' /\ inbox'[e].lease = c
      /\ \A x \in Ends : x # e => inbox'[x] = inbox[x]
  BY <1>4, InboxChanges, Zenon DEF InboxType
<1>. /\ gate' \in GateType /\ gate'[e] = [lease |-> c, outcome |-> "pending"]
      /\ \A x \in Ends : x # e => gate'[x] = gate[x]
  BY Zenon DEF Shapes, ResetGate, GateType
<1>. /\ reg' \in [Ends -> 0 .. MaxConns] /\ closed' \in [Ends -> BOOLEAN] /\ last' \in [Ends -> 0 .. MaxConns]
      /\ keys' \in [Ends -> 0 .. MaxConns]
      /\ reg'[e] = c /\ last'[e] = c /\ closed'[e] = FALSE /\ keys'[e] = 0
      /\ \A x \in Ends : x # e => /\ reg'[x] = reg[x] /\ last'[x] = last[x]
                                  /\ closed'[x] = closed[x] /\ keys'[x] = keys[x]
  <2>. /\ reg \in [Ends -> 0 .. MaxConns] /\ closed \in [Ends -> BOOLEAN] /\ last \in [Ends -> 0 .. MaxConns]
        /\ keys \in [Ends -> 0 .. MaxConns] /\ 0 \in 0 .. MaxConns
    BY HandshakeAssumption DEF Shapes
  <2> QED
    BY Zenon
<1>8. Shapes'
  <2>. Lines' = Lines
    BY DEF Lines
  <2> QED
    BY Zenon DEF Shapes, InboxType, GateType
<1>9. ASSUME NEW x \in Ends PROVE Leases(x)'
  <2>. Leases(x)
    BY Zenon DEF LeaseInv
  <2> QED
    BY DEF Leases
<1>10. ASSUME NEW x \in Ends, NEW d \in Conns PROVE Fresh(x, d)' /\ Owns(x, d)'
  <2>. Fresh(x, d) /\ Owns(x, d) /\ d \in Int /\ last[x] \in Int
    BY DEF LeaseInv, Shapes, Conns
  <2>. Fresh(x, d)'
    BY DEF Fresh
  <2>. Owns(x, d)'
    BY DEF Owns, Waiting
  <2> QED
    BY Zenon
<1> QED
  BY <1>8, <1>9, <1>10, Zenon DEF LeaseInv

\* A connection that is torn down keeps nothing leased (disconnectFromPeer).
LEMMA DisconnectKeepsLeases ==
  ASSUME LeaseInv, NEW e \in Ends, reg[e] # 0, DisconnectFromPeer(e)
  PROVE  LeaseInv'
<1>1. Shapes /\ reg[e] \in Conns /\ 0 \in 0 .. MaxConns
  <2>. Shapes
    BY Zenon DEF LeaseInv
  <2>. reg[e] \in 0 .. MaxConns
    BY Zenon DEF Shapes
  <2> QED
    BY HandshakeAssumption DEF Conns
<1>2. /\ wire' \in WireType'
      /\ \A d \in Conns, x \in Ends : wire'[d][x] = wire[d][x] \/ wire'[d][x] = << >>
  <2>1. PICK k \in Conns : k = reg[e]
    BY <1>1, Zenon
  <2>2. Line(k, e, << >>)
    BY <2>1, Zenon DEF DisconnectFromPeer, Line
  <2>3. /\ wire' \in WireType' /\ wire'[k][e] = << >>
        /\ \A d \in Conns, x \in Ends : d # k \/ x # e => wire'[d][x] = wire[d][x]
    BY <1>1, <2>2, LineChanges
  <2> QED
    BY <2>3, Zenon DEF WireType
<1>3. /\ inbox' \in InboxType' /\ inbox'[e].lease = 0
      /\ \A x \in Ends : x # e => inbox'[x] = inbox[x]
  <2>1. NoInbox \in [lease : 0 .. MaxConns, next : 1 .. 4, queue : {<< >>}] /\ NoInbox.lease = 0
    BY <1>1 DEF NoInbox
  <2> QED
    BY <1>1, <2>1, InboxChanges, Zenon DEF DisconnectFromPeer, InboxType
<1>4. /\ gate' \in GateType /\ gate'[e].outcome # "pending" /\ (gate'[e].outcome = "open" => gate'[e] = gate[e])
      /\ \A x \in Ends : x # e => gate'[x] = gate[x]
  <2>1. gate[e] \in [lease : 0 .. MaxConns, outcome : {"pending", "open", "rejected"}]
    BY <1>1, Zenon DEF Shapes
  <2>2. PICK g : g = RejectGate(gate[e], gate[e].lease)
    BY Zenon
  <2>3. /\ g \in [lease : 0 .. MaxConns, outcome : {"pending", "open", "rejected"}]
        /\ g.outcome # "pending" /\ (g.outcome = "open" => g = gate[e])
    BY <2>1, <2>2, Zenon DEF RejectGate, Pending
  <2>4. gate' = [gate EXCEPT ![e] = g]
    BY <2>2, Zenon DEF DisconnectFromPeer
  <2> QED
    BY <1>1, <2>3, <2>4, Zenon DEF Shapes, GateType
<1>5. /\ reg' \in [Ends -> 0 .. MaxConns] /\ closed' \in [Ends -> BOOLEAN] /\ keys' \in [Ends -> 0 .. MaxConns]
      /\ reg'[e] = 0 /\ keys'[e] = 0
      /\ \A x \in Ends : x # e => reg'[x] = reg[x] /\ closed'[x] = closed[x] /\ keys'[x] = keys[x]
  BY <1>1, Zenon DEF Shapes, DisconnectFromPeer
<1>6. status' \in [Ends -> {"none", "authenticating", "authenticated", "failed"}]
  BY <1>1, Zenon DEF Shapes, DisconnectFromPeer
<1>7. UNCHANGED <<policy, pin, last, hs, bucket, late>>
  BY Zenon DEF DisconnectFromPeer, attempts
<1>8. Shapes'
  BY <1>1, <1>2, <1>3, <1>4, <1>5, <1>6, <1>7, Zenon DEF Shapes, InboxType, GateType, WireType
<1>9. ASSUME NEW x \in Ends PROVE Leases(x)'
  <2>1. Leases(x)
    BY Zenon DEF LeaseInv
  <2> QED
    BY <1>3, <1>4, <1>5, <1>7, <2>1 DEF Leases
<1>10. ASSUME NEW x \in Ends, NEW d \in Conns PROVE Fresh(x, d)' /\ Owns(x, d)'
  BY <1>2, <1>3, <1>7 DEF Fresh, Owns, LeaseInv, Conns
<1> QED
  BY <1>8, <1>9, <1>10, Zenon DEF LeaseInv

\* A reload forgets the connection, and every attempt of the page with it.
LEMMA RestartKeepsLeases ==
  ASSUME LeaseInv, NEW e \in Ends, Restart(e)
  PROVE  LeaseInv'
<1>1. Shapes /\ reg[e] \in Conns /\ 0 \in 0 .. MaxConns
  <2>. reg[e] # 0 /\ reg[e] \in 0 .. MaxConns /\ Shapes
    BY Zenon DEF LeaseInv, Shapes, Restart
  <2> QED
    BY HandshakeAssumption DEF Conns
<1>2. /\ wire' \in WireType'
      /\ \A d \in Conns, x \in Ends : wire'[d][x] = wire[d][x] \/ wire'[d][x] = << >>
  <2>. PICK k \in Conns : k = reg[e]
    BY <1>1, Zenon
  <2>. Line(k, e, << >>)
    BY Zenon DEF Restart, Line
  <2>. /\ wire' \in WireType' /\ wire'[k][e] = << >>
        /\ \A d \in Conns, x \in Ends : d # k \/ x # e => wire'[d][x] = wire[d][x]
    BY <1>1, LineChanges
  <2> QED
    BY Zenon DEF WireType
<1>3. /\ inbox' \in InboxType' /\ inbox'[e].lease = 0
      /\ \A x \in Ends : x # e => inbox'[x] = inbox[x]
  <2>. NoInbox \in [lease : 0 .. MaxConns, next : 1 .. 4, queue : {<< >>}] /\ NoInbox.lease = 0
    BY <1>1 DEF NoInbox
  <2> QED
    BY <1>1, InboxChanges, Zenon DEF Restart, InboxType
<1>4. /\ gate' \in GateType /\ gate'[e] = [lease |-> 0, outcome |-> "pending"]
      /\ \A x \in Ends : x # e => gate'[x] = gate[x]
  BY <1>1, Zenon DEF Shapes, Restart, ResetGate, GateType
<1>5. /\ reg' \in [Ends -> 0 .. MaxConns] /\ closed' \in [Ends -> BOOLEAN] /\ keys' \in [Ends -> 0 .. MaxConns]
      /\ reg'[e] = 0 /\ keys'[e] = 0
      /\ \A x \in Ends : x # e => reg'[x] = reg[x] /\ closed'[x] = closed[x] /\ keys'[x] = keys[x]
  BY <1>1, Zenon DEF Shapes, Restart
<1>6. /\ hs' \in HsType
      /\ \A d \in Conns : hs'[e][d].pc = IF hs[e][d].pc \in Running THEN "failed" ELSE hs[e][d].pc
      /\ \A x \in Ends : x # e => hs'[x] = hs[x]
  <2>. PICK all : all = [c \in Conns |-> IF hs[e][c].pc \in Running THEN [hs[e][c] EXCEPT !.pc = "failed"] ELSE hs[e][c]]
    BY Zenon
  <2>. ASSUME NEW d \in Conns
        PROVE  /\ all[d] \in [pc : Stages, pin : Pins]
               /\ all[d].pc = IF hs[e][d].pc \in Running THEN "failed" ELSE hs[e][d].pc
    <3>. hs[e][d] \in [pc : Stages, pin : Pins] /\ "failed" \in Stages
      BY <1>1 DEF Shapes, Stages
    <3>. all[d] = IF hs[e][d].pc \in Running THEN [hs[e][d] EXCEPT !.pc = "failed"] ELSE hs[e][d]
      BY Zenon
    <3> QED
      BY Zenon
  <2>. all \in [Conns -> [pc : Stages, pin : Pins]]
    BY Zenon
  <2>. hs' = [hs EXCEPT ![e] = all]
    BY Zenon DEF Restart
  <2> QED
    BY <1>1, Zenon DEF Shapes, HsType
<1>7. status' \in [Ends -> {"none", "authenticating", "authenticated", "failed"}] /\ late' \in [Ends -> BOOLEAN]
  BY <1>1, Zenon DEF Shapes, Restart
<1>8. pin' \in [Ends -> Pins]
  <2>. pin[e] \in Pins
    BY <1>1, Zenon DEF Shapes
  <2>. AnyPin \in Pins
    BY Zenon DEF AnyPin
  <2>. PICK p \in Pins : PutRoomPin(e, p)
    BY Zenon DEF Restart
  <2> QED
    BY <1>1, Zenon DEF Shapes, PutRoomPin
<1>9. UNCHANGED <<policy, last, bucket>>
  BY Zenon DEF Restart
<1>10. Shapes'
  BY <1>1, <1>2, <1>3, <1>4, <1>5, <1>6, <1>7, <1>8, <1>9, Zenon DEF Shapes, InboxType, GateType, WireType, HsType
<1>11. ASSUME NEW x \in Ends PROVE Leases(x)'
  <2>. Leases(x)
    BY Zenon DEF LeaseInv
  <2> QED
    BY <1>3, <1>4, <1>5, <1>6, <1>9 DEF Leases
<1>12. ASSUME NEW x \in Ends, NEW d \in Conns PROVE Fresh(x, d)' /\ Owns(x, d)'
  <2>. \A y \in Ends : hs[y][d].pc = "off" => hs'[y][d].pc = "off"
    BY <1>6, Zenon DEF Running, Waiting
  <2> QED
    BY <1>2, <1>3, <1>6, <1>9 DEF Fresh, Owns, LeaseInv, Conns
<1> QED
  BY <1>10, <1>11, <1>12, Zenon DEF LeaseInv

\* The attempts counted change, and nothing else the leases speak of: a
\* backoff only gets shorter (connect() with a PIN, Date.now).
LEMMA CountsKeepLeases ==
  ASSUME LeaseInv, pin' \in [Ends -> Pins], bucket' \in BucketType,
         \A x \in Ends : bucket[x].wait = 0 => bucket'[x].wait = 0,
         UNCHANGED <<policy, reg, closed, last, gate, inbox, wire, hs, keys, status, late>>
  PROVE  LeaseInv'
<1>1. Shapes'
  BY DEF LeaseInv, Shapes, BucketType, Queues, Lines
<1>2. ASSUME NEW x \in Ends PROVE Leases(x)'
  BY Zenon DEF LeaseInv, Leases
<1>3. ASSUME NEW x \in Ends, NEW d \in Conns PROVE Fresh(x, d)' /\ Owns(x, d)'
  <2>. Fresh(x, d) /\ Owns(x, d)
    BY Zenon DEF LeaseInv
  <2> QED
    BY Zenon DEF Fresh, Owns
<1> QED
  BY <1>1, <1>2, <1>3, Zenon DEF LeaseInv

\* A new PIN, and the passing of time, keep the leases.
LEMMA EnterPinKeepsLeases ==
  ASSUME LeaseInv, NEW e \in Ends, EnterPin(e)
  PROVE  LeaseInv'
<1>. Shapes
  BY Zenon DEF LeaseInv
<1>2. pin' \in [Ends -> Pins]
  <2>. PICK p \in Pins : PutRoomPin(e, p)
    BY Zenon DEF EnterPin
  <2> QED
    BY Zenon DEF Shapes, PutRoomPin
<1>3. bucket' \in BucketType /\ \A x \in Ends : bucket[x].wait = 0 => bucket'[x].wait = 0
  <2>. NoBucket \in [failures : Nat, wait : 0 .. BackoffMax] /\ NoBucket.wait = 0
    BY HandshakeAssumption DEF NoBucket
  <2>. bucket' = [bucket EXCEPT ![e] = NoBucket]
    BY Zenon DEF EnterPin, ClearRoomPinAttempts
  <2> QED
    BY Zenon DEF Shapes, BucketType
<1> QED
  BY <1>2, <1>3, CountsKeepLeases, Zenon DEF EnterPin

\* Time only shortens a backoff (Date.now in assertPinAttemptAllowed).
LEMMA TickKeepsLeases ==
  ASSUME LeaseInv, Tick
  PROVE  LeaseInv' /\ \A x \in Ends : bucket'[x].failures = bucket[x].failures
<1>. Shapes
  BY Zenon DEF LeaseInv
<1>2. ASSUME NEW x \in Ends
      PROVE  /\ bucket'[x] \in [failures : Nat, wait : 0 .. BackoffMax]
             /\ bucket'[x].failures = bucket[x].failures
             /\ bucket[x].wait = 0 => bucket'[x].wait = 0
  <2>. bucket[x] \in [failures : Nat, wait : 0 .. BackoffMax]
    BY Zenon DEF Shapes
  <2>. bucket'[x] = [bucket[x] EXCEPT !.wait = IF bucket[x].wait > 0 THEN bucket[x].wait - 1 ELSE 0]
    BY Zenon DEF Tick
  <2> QED
    BY HandshakeAssumption
<1>3. bucket' \in BucketType
  BY <1>2, Zenon DEF Tick, BucketType
<1>4. pin' \in [Ends -> Pins]
  BY Zenon DEF Shapes, Tick
<1>5. UNCHANGED <<policy, reg, closed, last, gate, inbox, wire, hs, keys, status, late>>
  BY Zenon DEF Tick
<1>6. LeaseInv'
  BY <1>2, <1>3, <1>4, <1>5, CountsKeepLeases, Zenon
<1> QED
  BY <1>2, <1>6, Zenon

\* The channel opens: an attempt the throttle lets pass owns the inbox of its
\* connection and starts with no backoff left (onopen of main).
LEMMA OnOpenKeepsLeases ==
  ASSUME LeaseInv, NEW e \in Ends, NEW c \in Conns, OnOpen(e, c)
  PROVE  LeaseInv'
<1>1. /\ Shapes /\ pin[e] \in Pins /\ hs[e][c].pc = "off" /\ \A x \in Ends : reg[x] = c /\ ~closed[x]
      /\ \A x \in Ends : Leases(x) /\ last[x] = c
  BY ConnFacts, Registered, Zenon DEF LeaseInv, Shapes, OnOpen, Leases
<1>2. PICK p : p = IF Throttled(e) THEN "report" ELSE "prepare"
  BY Zenon
<1>3. /\ hs' \in HsType /\ hs'[e][c].pc = p
      /\ \A x \in Ends, d \in Conns : x # e \/ d # c => hs'[x][d] = hs[x][d]
  <2>1. [pc |-> p, pin |-> pin[e]] \in [pc : Stages, pin : Pins]
    BY <1>1, <1>2, Zenon DEF Stages, Running
  <2>2. hs[e] \in [Conns -> [pc : Stages, pin : Pins]]
    BY <1>1, Zenon DEF Shapes
  <2>3. PICK all : all = [hs[e] EXCEPT ![c] = [pc |-> p, pin |-> pin[e]]]
    BY Zenon
  <2>4. /\ all \in [Conns -> [pc : Stages, pin : Pins]] /\ all[c].pc = p
        /\ \A d \in Conns : d # c => all[d] = hs[e][d]
    BY <2>1, <2>2, <2>3, Zenon
  <2>5. hs' = [hs EXCEPT ![e] = all]
    BY <1>2, <2>3, Zenon DEF OnOpen
  <2> QED
    BY <1>1, <2>4, <2>5, Zenon DEF Shapes, HsType
<1>4. status' \in [Ends -> {"none", "authenticating", "authenticated", "failed"}]
  BY <1>1, Zenon DEF Shapes, OnOpen
<1>5. UNCHANGED <<policy, pin, reg, closed, last, wire, keys, bucket, late>> /\ Lines' = Lines
  BY DEF OnOpen, attempts, Lines
<1>6. /\ gate' \in GateType /\ inbox' \in InboxType'
      /\ gate'[e] = gate[e] \/ (gate[e].outcome = "pending" /\ gate'[e].outcome = "rejected")
      /\ inbox'[e] = inbox[e] \/ inbox'[e].lease = 0
      /\ Throttled(e) => inbox'[e].lease # c
      /\ \A x \in Ends : x # e => gate'[x] = gate[x] /\ inbox'[x] = inbox[x]
  <2>1. CASE Throttled(e)
    <3>1. Abandon(e, c)
      BY <2>1, Zenon DEF OnOpen
    <3>2. gate[e] \in [lease : 0 .. MaxConns, outcome : {"pending", "open", "rejected"}]
      BY <1>1, Zenon DEF Shapes
    <3>3. /\ gate' \in GateType /\ inbox' \in InboxType' /\ inbox'[e].lease # c
          /\ gate'[e].lease = gate[e].lease
          /\ gate'[e].outcome = IF Pending(gate[e], c) THEN "rejected" ELSE gate[e].outcome
          /\ inbox'[e] = inbox[e] \/ inbox'[e].lease = 0
          /\ \A x \in Ends : x # e => gate'[x] = gate[x] /\ inbox'[x] = inbox[x]
      BY <1>1, <3>1, AbandonGives, Zenon DEF GateType, InboxType
    <3>4. gate'[e] \in [lease : 0 .. MaxConns, outcome : {"pending", "open", "rejected"}]
      BY <3>3, Zenon DEF GateType
    <3>5. gate'[e] = gate[e] \/ (gate[e].outcome = "pending" /\ gate'[e].outcome = "rejected")
      BY <3>2, <3>3, <3>4 DEF Pending
    <3> QED
      BY <2>1, <3>3, <3>5, Zenon
  <2>2. CASE ~Throttled(e)
    <3>1. UNCHANGED <<gate, inbox>>
      BY <2>2, Zenon DEF OnOpen
    <3>2. Queues' = Queues
      BY <3>1, Zenon DEF Queues
    <3>3. gate \in GateType /\ inbox \in InboxType
      BY <1>1, Zenon DEF Shapes, GateType, InboxType
    <3> QED
      BY <2>2, <3>1, <3>2, <3>3, Zenon DEF GateType, InboxType
  <2> QED
    BY <2>1, <2>2, Zenon
<1>7. Shapes'
  BY <1>1, <1>3, <1>4, <1>5, <1>6, Zenon DEF Shapes, GateType, InboxType, HsType
<1>8. ASSUME NEW x \in Ends PROVE Leases(x)'
  <2>1. x = e => keys[x] # c
    <3>1. Leases(x) /\ c # 0
      BY <1>1, ConnFacts, Registered, Zenon
    <3> QED
      BY <1>1, <3>1, Zenon DEF Leases
  <2>2. keys[x] \in 0 .. MaxConns
    BY <1>1, Zenon DEF Shapes
  <2> QED
    BY <1>1, <1>3, <1>5, <1>6, <2>1, <2>2 DEF Leases, Conns
<1>9. ASSUME NEW x \in Ends, NEW d \in Conns PROVE Fresh(x, d)' /\ Owns(x, d)'
  <2>1. Fresh(x, d) /\ Owns(x, d) /\ d \in Int /\ d # 0
    BY ConnFacts, Registered, Zenon DEF LeaseInv
  <2>2. Fresh(x, d)'
    BY <1>1, <1>3, <1>5, <2>1 DEF Fresh
  <2>3. ~Throttled(e) /\ policy[e] = "pin" => bucket[e].wait = 0
    BY <1>1 DEF Throttled, Shapes
  <2>4. Owns(x, d)'
    BY <1>2, <1>3, <1>5, <1>6, <2>1, <2>3, Zenon DEF Owns, Waiting
  <2> QED
    BY <2>2, <2>4, Zenon
<1> QED
  BY <1>7, <1>8, <1>9, Zenon DEF LeaseInv

\* A frame comes in: the inbox keeps its owner, or loses it with the channel
\* (deliverHandshakeFrame).
LEMMA DeliverKeepsLeases ==
  ASSUME LeaseInv, NEW e \in Ends, NEW c \in Conns, DeliverHandshakeFrame(e, c)
  PROVE  LeaseInv'
<1>1. Shapes /\ Leases(e) /\ reg[e] = c /\ ~closed[e] /\ wire[c][e] # << >>
  BY Zenon DEF LeaseInv, DeliverHandshakeFrame
<1>2. PICK f : f = Head(wire[c][e])
  BY Zenon
<1>3. PICK ok \in BOOLEAN : ok = (inbox[e].lease = c /\ inbox[e].next = f.step)
  BY Zenon
<1>4. PICK after \in 1 .. 4 : after = IF inbox[e].next = 1 THEN 2 ELSE IF inbox[e].next = 2 /\ e = "i" THEN 3 ELSE 4
  OBVIOUS
<1>5. PICK q : q = Append(inbox[e].queue, f)
  BY Zenon
<1>6. PICK box : box = IF ok THEN [inbox[e] EXCEPT !.next = after, !.queue = q] ELSE ClearInbox(inbox[e], c)
  BY Zenon
<1>7. /\ inbox' = [inbox EXCEPT ![e] = box] /\ closed' = [closed EXCEPT ![e] = ~ok]
      /\ Line(c, e, Tail(wire[c][e]))
      /\ UNCHANGED <<policy, pin, reg, last, gate, hs, keys, status, bucket, late>>
  BY <1>1, <1>2, <1>3, <1>4, <1>5, <1>6, Zenon DEF DeliverHandshakeFrame, attempts, Line, Shapes
<1>8. /\ box \in [lease : 0 .. MaxConns, next : 1 .. 4, queue : Queues \cup {q, << >>}]
      /\ ok => box.lease = inbox[e].lease
      /\ ~ok => box.lease = 0
  <2>. inbox[e] \in [lease : 0 .. MaxConns, next : 1 .. 4, queue : Queues]
    BY <1>1, Zenon DEF Shapes
  <2>. CASE ok
    <3>. box = [lease |-> inbox[e].lease, next |-> after, queue |-> q]
      BY <1>6, Zenon
    <3> QED
      BY Zenon
  <2>. CASE ~ok
    BY <1>1, <1>6, HandshakeAssumption DEF ClearInbox, NoInbox, Leases
  <2> QED
    BY Zenon
<1>9. /\ inbox' \in InboxType' /\ inbox'[e] = box /\ \A x \in Ends : x # e => inbox'[x] = inbox[x]
  BY <1>1, <1>7, <1>8, InboxChanges, Zenon DEF InboxType
<1>10. /\ wire' \in WireType' /\ \A d \in Conns, x \in Ends : d # c \/ x # e => wire'[d][x] = wire[d][x]
  BY <1>1, <1>7, LineChanges
<1>11. closed' \in [Ends -> BOOLEAN] /\ closed'[e] = ~ok /\ \A x \in Ends : x # e => closed'[x] = closed[x]
  BY <1>1, <1>7, Zenon DEF Shapes
<1>12. Shapes'
  BY <1>1, <1>7, <1>9, <1>10, <1>11, Zenon DEF Shapes, InboxType, WireType
<1>13. ASSUME NEW x \in Ends PROVE Leases(x)'
  <2>. Leases(x)
    BY Zenon DEF LeaseInv
  <2>0. reg' = reg /\ gate' = gate /\ last' = last /\ keys' = keys /\ hs' = hs
    BY <1>7, Zenon
  <2>1. CASE x = e
    <3>1. inbox'[x].lease # 0 => inbox'[x].lease = reg[x] /\ ~closed'[x]
      BY <1>1, <1>8, <1>9, <1>11, <2>1, Zenon DEF Leases
    <3>2. ~closed[x]
      BY <1>1, <2>1, Zenon
    <3> QED
      BY <2>0, <3>1, <3>2, Zenon DEF Leases
  <2>2. CASE x # e
    <3>1. inbox'[x] = inbox[x] /\ closed'[x] = closed[x]
      BY <1>9, <1>11, <2>2, Zenon
    <3> QED
      BY <2>0, <3>1, Zenon DEF Leases
  <2> QED
    BY <2>1, <2>2, Zenon
<1>14. ASSUME NEW x \in Ends, NEW d \in Conns PROVE Fresh(x, d)' /\ Owns(x, d)'
  <2>. Fresh(x, d) /\ Owns(x, d) /\ d # 0
    BY ConnFacts, Registered, Zenon DEF LeaseInv
  <2>. Fresh(x, d)'
    BY <1>1, <1>7, <1>10, Zenon DEF Fresh
  <2>. Owns(x, d)'
    BY <1>7, <1>8, <1>9, Zenon DEF Owns
  <2> QED
    BY Zenon
<1> QED
  BY <1>12, <1>13, <1>14, Zenon DEF LeaseInv

\* The activation opens the gate its connection still leases, and installs
\* the keys with it (openRatchetGate, runHandshake).
Succeeds(e, c) ==
    /\ hs[e][c].pc = "write" /\ Pending(gate[e], c)
    /\ At(e, c, "open") /\ gate' = [gate EXCEPT ![e] = OpenGate(@, c)] /\ keys' = [keys EXCEPT ![e] = c]
    /\ inbox' = [inbox EXCEPT ![e] = ClearInbox(@, c)]
    /\ status' = [status EXCEPT ![e] = "authenticated"]
    /\ UNCHANGED <<policy, pin, reg, closed, last, wire, late, faults>>
    /\ IF policy[e] = "pin" THEN ClearPinAttempts(e) ELSE UNCHANGED attempts

\* What a successful activation changes, field by field.
Succeeded(e, c) ==
    /\ hs' \in HsType /\ hs'[e][c].pc = "open" /\ hs'[e][c].pin = hs[e][c].pin
    /\ \A x \in Ends, d \in Conns : x # e \/ d # c => hs'[x][d] = hs[x][d]
    /\ gate' \in GateType /\ gate'[e] = [lease |-> c, outcome |-> "open"] /\ reg[e] = c
    /\ keys' \in [Ends -> 0 .. MaxConns] /\ keys'[e] = c
    /\ inbox' \in InboxType' /\ inbox'[e].lease = 0
    /\ status' \in [Ends -> {"none", "authenticating", "authenticated", "failed"}] /\ status'[e] = "authenticated"
    /\ \A x \in Ends : x # e => /\ gate'[x] = gate[x] /\ keys'[x] = keys[x] /\ inbox'[x] = inbox[x]
                                /\ status'[x] = status[x] /\ bucket'[x] = bucket[x]
    /\ bucket' \in BucketType /\ (bucket'[e] = bucket[e] \/ bucket'[e] = NoBucket)
    /\ UNCHANGED <<policy, pin, reg, closed, last, wire, late>>

\* The activation of runHandshake, as it opens the gate and installs the keys.
LEMMA SuccessGives ==
  ASSUME LeaseInv, NEW e \in Ends, NEW c \in Conns, Succeeds(e, c)
  PROVE  Succeeded(e, c)
<1>. Shapes /\ Leases(e) /\ c \in 0 .. MaxConns /\ c # 0 /\ "open" \in Stages
  BY ConnFacts, Registered, Zenon DEF LeaseInv, Stages
<1>2. /\ hs' \in HsType /\ hs'[e][c].pc = "open" /\ hs'[e][c].pin = hs[e][c].pin
      /\ \A x \in Ends, d \in Conns : x # e \/ d # c => hs'[x][d] = hs[x][d]
  BY AtMoves DEF HsType, Succeeds
<1>. gate[e] \in [lease : 0 .. MaxConns, outcome : {"pending", "open", "rejected"}] /\ gate[e].lease = c /\ reg[e] = c
  BY Zenon DEF Shapes, Succeeds, Pending, Leases
<1>4. OpenGate(gate[e], c) = [lease |-> c, outcome |-> "open"]
  BY Zenon DEF OpenGate, Pending, Succeeds
<1>5. /\ gate' \in GateType /\ gate'[e] = [lease |-> c, outcome |-> "open"]
      /\ \A x \in Ends : x # e => gate'[x] = gate[x]
  <2>. gate' = [gate EXCEPT ![e] = [lease |-> c, outcome |-> "open"]]
    BY <1>4, Zenon DEF Succeeds
  <2> QED
    BY Zenon DEF Shapes, GateType
<1>6. /\ inbox' \in InboxType' /\ inbox'[e].lease = 0 /\ \A x \in Ends : x # e => inbox'[x] = inbox[x]
  <2>. PICK box : box = ClearInbox(inbox[e], c)
    BY Zenon
  <2>. inbox[e] \in [lease : 0 .. MaxConns, next : 1 .. 4, queue : Queues]
    BY Zenon DEF Shapes
  <2>. box \in [lease : 0 .. MaxConns, next : 1 .. 4, queue : Queues \cup {<< >>}] /\ box.lease = 0
    BY HandshakeAssumption DEF ClearInbox, NoInbox, Leases
  <2>. inbox' = [inbox EXCEPT ![e] = box]
    BY Zenon DEF Succeeds
  <2> QED
    BY InboxChanges, Zenon DEF InboxType
<1>7. /\ keys' \in [Ends -> 0 .. MaxConns] /\ keys'[e] = c
      /\ status' \in [Ends -> {"none", "authenticating", "authenticated", "failed"}] /\ status'[e] = "authenticated"
      /\ \A x \in Ends : x # e => keys'[x] = keys[x] /\ status'[x] = status[x]
  BY Zenon DEF Shapes, Succeeds
<1>8. /\ bucket' \in BucketType /\ (bucket'[e] = bucket[e] \/ bucket'[e] = NoBucket)
      /\ \A x \in Ends : x # e => bucket'[x] = bucket[x]
  <2>. NoBucket \in [failures : Nat, wait : 0 .. BackoffMax]
    BY HandshakeAssumption DEF NoBucket
  <2>. bucket' = bucket \/ bucket' = [bucket EXCEPT ![e] = NoBucket]
    BY Zenon DEF Succeeds, ClearPinAttempts, attempts
  <2>. bucket \in BucketType
    BY Zenon DEF Shapes, BucketType
  <2> QED
    BY DEF BucketType
<1> QED
  BY <1>2, <1>5, <1>6, <1>7, <1>8, Zenon DEF Succeeds, Succeeded

\* The keys belong to the connection that leases the gate.
LEMMA SuccessKeepsLeases ==
  ASSUME LeaseInv, NEW e \in Ends, NEW c \in Conns, Succeeds(e, c)
  PROVE  LeaseInv'
<1>. Shapes /\ hs[e][c].pc = "write" /\ Succeeded(e, c)
  BY SuccessGives, Zenon DEF LeaseInv, Succeeds
<1>2. Lines' = Lines
  BY DEF Lines, Succeeded
<1>3. Shapes'
  BY <1>2, Zenon DEF Shapes, GateType, InboxType, HsType, BucketType, Succeeded
<1>4. ASSUME NEW x \in Ends PROVE Leases(x)'
  <2>1. Leases(x) /\ keys[x] \in 0 .. MaxConns
    BY Zenon DEF LeaseInv, Shapes
  <2>2. CASE x = e
    <3>1. /\ gate'[e] = [lease |-> c, outcome |-> "open"] /\ keys'[e] = c /\ inbox'[e].lease = 0
          /\ hs'[e][c].pc = "open" /\ reg'[e] = c /\ reg' = reg /\ last' = last /\ c # 0
      BY ConnFacts, Zenon DEF Succeeded
    <3> QED
      BY <2>1, <2>2, <3>1 DEF Leases
  <2>3. CASE x # e
    <3>1. /\ gate'[x] = gate[x] /\ keys'[x] = keys[x] /\ inbox'[x] = inbox[x]
          /\ reg' = reg /\ last' = last /\ closed' = closed /\ \A d \in Conns : hs'[x][d] = hs[x][d]
      BY <2>3, Zenon DEF Succeeded
    <3>2. keys[x] # 0 => keys[x] \in Conns
      BY <2>1, Registered, Zenon
    <3> QED
      BY <2>1, <3>1, <3>2, Zenon DEF Leases
  <2> QED
    BY <2>2, <2>3, Zenon
<1>5. ASSUME NEW x \in Ends, NEW d \in Conns PROVE Fresh(x, d)' /\ Owns(x, d)'
  <2>. Fresh(x, d) /\ Owns(x, d) /\ last[x] \in 0 .. MaxConns
    BY Zenon DEF LeaseInv, Shapes
  <2>. last[x] \in Int
    OBVIOUS
  <2>. d # 0 /\ (d > last[x] => d # c)
    BY BegunIsMade, NotBeyond, ConnFacts, Zenon
  <2>. Fresh(x, d)'
    BY ZenonT(40) DEF Fresh, Succeeded
  <2>. Owns(x, d)'
    BY Zenon DEF Owns, Succeeded
  <2> QED
    BY Zenon
<1> QED
  BY <1>3, <1>4, <1>5, Zenon DEF LeaseInv

\* What a failed installation changes, field by field (onopen of main).
Uninstalled(e, c) ==
    /\ hs' \in HsType /\ hs[e][c].pc = "write" /\ hs'[e][c].pc = "failed" /\ hs'[e][c].pin = hs[e][c].pin
    /\ \A x \in Ends, d \in Conns : x # e \/ d # c => hs'[x][d] = hs[x][d]
    /\ gate' \in GateType /\ gate'[e] = [lease |-> c, outcome |-> "open"] /\ reg[e] = c
    /\ keys' \in [Ends -> 0 .. MaxConns] /\ keys'[e] = c
    /\ inbox' \in InboxType' /\ inbox'[e].lease = 0
    /\ status' \in [Ends -> {"none", "authenticating", "authenticated", "failed"}] /\ status'[e] = "failed"
    /\ closed' \in [Ends -> BOOLEAN] /\ closed'[e]
    /\ wire' \in WireType' /\ wire'[c][e] = << >>
    /\ \A d \in Conns, x \in Ends : d # c \/ x # e => wire'[d][x] = wire[d][x]
    /\ \A x \in Ends : x # e => /\ gate'[x] = gate[x] /\ keys'[x] = keys[x] /\ inbox'[x] = inbox[x]
                                /\ status'[x] = status[x] /\ closed'[x] = closed[x]
    /\ UNCHANGED <<policy, pin, reg, last, bucket, late>>

\* The catch block of onopen over an open gate, field by field.
LEMMA InstallFailsGives ==
  ASSUME LeaseInv, NEW e \in Ends, NEW c \in Conns, InstallFails(e, c)
  PROVE  Uninstalled(e, c)
<1>. /\ Shapes /\ Leases(e) /\ c \in 0 .. MaxConns /\ c # 0 /\ "failed" \in Stages
     /\ At(e, c, "failed") /\ Line(c, e, << >>)
  BY ConnFacts, Registered, Zenon DEF LeaseInv, Stages, InstallFails, Line
<1>2. /\ hs' \in HsType /\ hs'[e][c].pc = "failed" /\ hs'[e][c].pin = hs[e][c].pin
      /\ \A x \in Ends, d \in Conns : x # e \/ d # c => hs'[x][d] = hs[x][d]
  BY AtMoves DEF HsType
<1>3. /\ wire' \in WireType' /\ wire'[c][e] = << >>
      /\ \A d \in Conns, x \in Ends : d # c \/ x # e => wire'[d][x] = wire[d][x]
  BY LineChanges, Zenon
<1>. gate[e] \in [lease : 0 .. MaxConns, outcome : {"pending", "open", "rejected"}] /\ gate[e].lease = c /\ reg[e] = c
  BY Zenon DEF Shapes, InstallFails, Pending, Leases
<1>4. OpenGate(gate[e], c) = [lease |-> c, outcome |-> "open"]
  BY Zenon DEF OpenGate, Pending, InstallFails
<1>5. /\ gate' \in GateType /\ gate'[e] = [lease |-> c, outcome |-> "open"]
      /\ \A x \in Ends : x # e => gate'[x] = gate[x]
  <2>. gate' = [gate EXCEPT ![e] = [lease |-> c, outcome |-> "open"]]
    BY <1>4, Zenon DEF InstallFails
  <2> QED
    BY Zenon DEF Shapes, GateType
<1>6. /\ inbox' \in InboxType' /\ inbox'[e].lease = 0 /\ \A x \in Ends : x # e => inbox'[x] = inbox[x]
  <2>. PICK box : box = ClearInbox(inbox[e], c)
    BY Zenon
  <2>. inbox[e] \in [lease : 0 .. MaxConns, next : 1 .. 4, queue : Queues]
    BY Zenon DEF Shapes
  <2>. box \in [lease : 0 .. MaxConns, next : 1 .. 4, queue : Queues \cup {<< >>}] /\ box.lease = 0
    BY HandshakeAssumption DEF ClearInbox, NoInbox, Leases
  <2>. inbox' = [inbox EXCEPT ![e] = box]
    BY Zenon DEF InstallFails
  <2> QED
    BY InboxChanges, Zenon DEF InboxType
<1>7. /\ keys' \in [Ends -> 0 .. MaxConns] /\ keys'[e] = c
      /\ status' \in [Ends -> {"none", "authenticating", "authenticated", "failed"}] /\ status'[e] = "failed"
      /\ closed' \in [Ends -> BOOLEAN] /\ closed'[e]
      /\ \A x \in Ends : x # e => keys'[x] = keys[x] /\ status'[x] = status[x] /\ closed'[x] = closed[x]
  BY Zenon DEF Shapes, InstallFails
<1> QED
  BY <1>2, <1>3, <1>5, <1>6, <1>7, Zenon DEF InstallFails, attempts, Uninstalled

\* The keys stay with the gate of a connection that is closed, until it is
\* disconnected or replaced.
LEMMA InstallFailsKeepsLeases ==
  ASSUME LeaseInv, NEW e \in Ends, NEW c \in Conns, InstallFails(e, c)
  PROVE  LeaseInv'
<1>. Shapes /\ hs[e][c].pc = "write" /\ Uninstalled(e, c)
  BY InstallFailsGives, Zenon DEF LeaseInv, InstallFails
<1>3. Shapes'
  BY Zenon DEF Shapes, GateType, InboxType, HsType, WireType, Uninstalled
<1>4. ASSUME NEW x \in Ends PROVE Leases(x)'
  <2>1. Leases(x) /\ keys[x] \in 0 .. MaxConns
    BY Zenon DEF LeaseInv, Shapes
  <2>2. CASE x = e
    <3>1. /\ gate'[e] = [lease |-> c, outcome |-> "open"] /\ keys'[e] = c /\ inbox'[e].lease = 0 /\ closed'[e]
          /\ hs'[e][c].pc = "failed" /\ reg'[e] = c /\ reg' = reg /\ last' = last /\ c # 0
      BY ConnFacts, Zenon DEF Uninstalled
    <3> QED
      BY <2>1, <2>2, <3>1 DEF Leases
  <2>3. CASE x # e
    <3>1. /\ gate'[x] = gate[x] /\ keys'[x] = keys[x] /\ inbox'[x] = inbox[x]
          /\ reg' = reg /\ last' = last /\ closed'[x] = closed[x] /\ \A d \in Conns : hs'[x][d] = hs[x][d]
      BY <2>3, Zenon DEF Uninstalled
    <3>2. keys[x] # 0 => keys[x] \in Conns
      BY <2>1, Registered, Zenon
    <3> QED
      BY <2>1, <3>1, <3>2, Zenon DEF Leases
  <2> QED
    BY <2>2, <2>3, Zenon
<1>5. ASSUME NEW x \in Ends, NEW d \in Conns PROVE Fresh(x, d)' /\ Owns(x, d)'
  <2>. Fresh(x, d) /\ Owns(x, d) /\ last[x] \in 0 .. MaxConns /\ last' = last
    BY Zenon DEF LeaseInv, Shapes, Uninstalled
  <2>. last[x] \in Int
    OBVIOUS
  <2>. d # 0 /\ (d > last[x] => d # c)
    BY BegunIsMade, NotBeyond, ConnFacts, Zenon
  <2>. d > last[x] => \A y \in Ends : hs'[y][d] = hs[y][d] /\ wire'[d][y] = wire[d][y]
    BY ZenonT(40) DEF Uninstalled
  <2>. Fresh(x, d)'
    BY Zenon DEF Fresh
  <2>. Owns(x, d)'
    BY ZenonT(40) DEF Owns, Uninstalled
  <2> QED
    BY Zenon
<1> QED
  BY <1>3, <1>4, <1>5, Zenon DEF LeaseInv

\* What the report of a failure changes, field by field (the catch block of
\* onopen).
Reported(e, c) ==
    /\ hs' \in HsType /\ hs[e][c].pc = "report" /\ hs'[e][c].pc = "failed" /\ hs'[e][c].pin = hs[e][c].pin
    /\ \A x \in Ends, d \in Conns : x # e \/ d # c => hs'[x][d] = hs[x][d]
    /\ status' \in [Ends -> {"none", "authenticating", "authenticated", "failed"}] /\ status'[e] = "failed"
    /\ late' \in [Ends -> BOOLEAN] /\ (late'[e] <=> late[e] \/ last[e] > c)
    /\ closed' \in [Ends -> BOOLEAN] /\ (closed'[e] <=> closed[e] \/ reg[e] = c)
    /\ wire' \in WireType' /\ wire'[c][e] = << >>
    /\ \A d \in Conns, x \in Ends : d # c \/ x # e => wire'[d][x] = wire[d][x]
    /\ \A x \in Ends : x # e => status'[x] = status[x] /\ late'[x] = late[x] /\ closed'[x] = closed[x]
    /\ UNCHANGED <<policy, pin, reg, last, gate, inbox, keys, bucket>>

\* The end of the catch block of runHandshake, field by field.
LEMMA ReportGives ==
  ASSUME Shapes, NEW e \in Ends, NEW c \in Conns, Report(e, c)
  PROVE  Reported(e, c)
<1>. "failed" \in Stages /\ At(e, c, "failed") /\ hs[e][c].pc = "report" /\ Line(c, e, << >>)
  BY Zenon DEF Stages, Report, Line
<1>2. /\ hs' \in HsType /\ hs'[e][c].pc = "failed" /\ hs'[e][c].pin = hs[e][c].pin
      /\ \A x \in Ends, d \in Conns : x # e \/ d # c => hs'[x][d] = hs[x][d]
  BY AtMoves DEF HsType
<1>3. /\ wire' \in WireType' /\ wire'[c][e] = << >>
      /\ \A d \in Conns, x \in Ends : d # c \/ x # e => wire'[d][x] = wire[d][x]
  BY LineChanges, Zenon
<1>4. /\ status' \in [Ends -> {"none", "authenticating", "authenticated", "failed"}] /\ status'[e] = "failed"
      /\ \A x \in Ends : x # e => status'[x] = status[x]
  BY Zenon DEF Shapes, Report
<1>. late \in [Ends -> BOOLEAN] /\ closed \in [Ends -> BOOLEAN]
  BY Zenon DEF Shapes
<1>6. /\ late' \in [Ends -> BOOLEAN] /\ (late'[e] <=> late[e] \/ last[e] > c)
      /\ \A x \in Ends : x # e => late'[x] = late[x]
  BY Zenon DEF Report
<1>7. /\ closed' \in [Ends -> BOOLEAN] /\ (closed'[e] <=> closed[e] \/ reg[e] = c)
      /\ \A x \in Ends : x # e => closed'[x] = closed[x]
  BY Zenon DEF Report
<1> QED
  BY <1>2, <1>3, <1>4, <1>6, <1>7, Zenon DEF Report, attempts, Reported

\* A failure that is reported closes its own connection only.
LEMMA ReportKeepsLeases ==
  ASSUME LeaseInv, NEW e \in Ends, NEW c \in Conns, Report(e, c)
  PROVE  LeaseInv'
<1>. Shapes /\ Reported(e, c)
  BY ReportGives, Zenon DEF LeaseInv
<1>2. Shapes'
  <2>. Queues' = Queues
    BY DEF Queues, Reported
  <2>. /\ hs' \in HsType /\ wire' \in WireType' /\ closed' \in [Ends -> BOOLEAN] /\ late' \in [Ends -> BOOLEAN]
        /\ status' \in [Ends -> {"none", "authenticating", "authenticated", "failed"}]
        /\ UNCHANGED <<policy, pin, reg, last, gate, inbox, keys, bucket>>
    BY Zenon DEF Reported
  <2> QED
    BY Zenon DEF Shapes, HsType, WireType
<1>3. ASSUME NEW x \in Ends PROVE Leases(x)'
  <2>. Leases(x) /\ Owns(e, c) /\ keys[x] \in 0 .. MaxConns
    BY Zenon DEF LeaseInv, Shapes
  <2>. CASE x = e
    <3>. inbox[e].lease # c /\ (keys[e] # 0 => keys[e] # c)
      BY Zenon DEF Owns, Leases, Waiting, Reported
    <3> QED
      BY ConnFacts, Registered, Zenon DEF Leases, Reported
  <2>. CASE x # e
    BY ConnFacts, Registered, Zenon DEF Leases, Reported
  <2> QED
    BY Zenon
<1>4. ASSUME NEW x \in Ends, NEW d \in Conns PROVE Fresh(x, d)' /\ Owns(x, d)'
  <2>. Fresh(x, d) /\ Owns(x, d) /\ last[x] \in 0 .. MaxConns /\ last' = last /\ hs[e][c].pc = "report"
    BY Zenon DEF LeaseInv, Shapes, Reported
  <2>. last[x] \in Int
    OBVIOUS
  <2>. d # 0 /\ (d > last[x] => d # c)
    BY BegunIsMade, NotBeyond, ConnFacts, Zenon
  <2>. d > last[x] => \A y \in Ends : hs'[y][d] = hs[y][d] /\ wire'[d][y] = wire[d][y]
    BY ZenonT(40) DEF Reported
  <2>. Fresh(x, d)'
    BY Zenon DEF Fresh
  <2>. Owns(x, d)'
    BY Zenon DEF Owns, Waiting, Reported
  <2> QED
    BY Zenon
<1> QED
  BY <1>2, <1>3, <1>4, Zenon DEF LeaseInv

\* A step that writes no frame, and one that does, touch only their connection.
LEMMA QuietIsOnlyOn ==
  ASSUME Shapes, NEW c \in Conns, UNCHANGED wire
  PROVE  OnlyOn(c)
  BY DEF Shapes, OnlyOn, WireType, Lines

\* A frame on the main channel of c touches no other channel
\* (performHandshakeCore).
LEMMA SendIsOnlyOn ==
  ASSUME Shapes, NEW c \in Conns, NEW to \in Ends, NEW frames, Send(c, to, frames)
  PROVE  OnlyOn(c)
  BY SendFills DEF OnlyOn

\* The steps of one attempt keep the leases: it moves on while it owns the
\* inbox, or it fails (runHandshake, performHandshakeCore).
LEMMA GoesKeepsLeases ==
  ASSUME LeaseInv, NEW e \in Ends, NEW c \in Conns, NEW p \in Waiting, NEW q \in Waiting \cup {"write"},
         Receives(e, c, p), Goes(e, c, q), OnlyOn(c)
  PROVE  LeaseInv'
<1>. Shapes /\ Take(e) /\ At(e, c, q)
  BY Zenon DEF LeaseInv, Goes
<1>2. inbox' \in InboxType' /\ \A x \in Ends : inbox'[x].lease = inbox[x].lease
  <2>. /\ inbox' \in [Ends -> [lease : 0 .. MaxConns, next : 1 .. 4, queue : Queues']]
        /\ inbox'[e] = [lease |-> inbox[e].lease, next |-> inbox[e].next, queue |-> Tail(inbox[e].queue)]
        /\ \A x \in Ends : x # e => inbox'[x] = inbox[x]
    BY TakeTakes, Zenon
  <2>. inbox'[e].lease = inbox[e].lease
    OBVIOUS
  <2> QED
    BY Zenon DEF InboxType
<1>3. hs[e][c].pc \in Waiting \cup {"prepare"} /\ inbox[e].lease = c
  BY Zenon DEF Receives
<1>4. UNCHANGED <<policy, pin, reg, closed, last, gate, keys, status, attempts, late>>
  BY Zenon DEF Goes
<1> QED
  BY <1>2, <1>3, <1>4, MoveKeepsLeases, Zenon

\* Every step of an attempt keeps the leases: the cases of runHandshake, of
\* performHandshakeCore and of the handlers of main.
LEMMA StepKeepsLeases ==
  ASSUME LeaseInv, NEW e \in Ends, NEW c \in Conns, Step(e, c) \/ RecvEnds(e, c)
  PROVE  LeaseInv'
<1>. Shapes /\ "i" \in Ends /\ "r" \in Ends
  BY Zenon DEF LeaseInv, Ends
<1>2. CASE Prepare(e, c)
  <2>. hs[e][c].pc = "prepare" /\ hs[e][c].pc \in Running
    BY <1>2, Zenon DEF Prepare, Running
  <2>. CASE inbox[e].lease = c /\ FirstFlight(e, c)
             /\ UNCHANGED <<policy, pin, reg, closed, last, gate, inbox, keys, status, attempts, late, faults>>
    <3>. OnlyOn(c)
      BY QuietIsOnlyOn, SendIsOnlyOn, Zenon DEF FirstFlight
    <3>. inbox' \in InboxType'
      BY Zenon DEF Shapes, InboxType, Queues
    <3>. At(e, c, "hello") /\ "hello" \in Waiting \cup {"write"}
      BY Zenon DEF FirstFlight, Waiting
    <3> QED
      BY MoveKeepsLeases, Zenon
  <2>. CASE Fail(e, c, "transport") /\ UNCHANGED wire
    BY QuietIsOnlyOn, FailKeepsLeases, Zenon
  <2> QED
    BY <1>2, Zenon DEF Prepare
<1>3. CASE ReceiveHello(e, c)
  <2>. OnlyOn(c)
    BY <1>3, QuietIsOnlyOn, SendIsOnlyOn, Zenon DEF ReceiveHello
  <2> QED
    BY <1>3, GoesKeepsLeases, Zenon DEF ReceiveHello, Waiting
<1>4. CASE e = "i" /\ InitiatorConfirms(c)
  <2>. OnlyOn(c)
    BY <1>4, SendIsOnlyOn, Zenon DEF InitiatorConfirms
  <2>. Receives(e, c, "confirm") /\ inbox[e].lease = c /\ hs[e][c].pc \in Running
    BY <1>4, Zenon DEF InitiatorConfirms, Receives, Running, Waiting
  <2>. CASE Goes("i", c, "finish")
    BY <1>4, GoesKeepsLeases, Zenon DEF Waiting
  <2>. CASE Fail("i", c, "key-confirmation")
    BY <1>4, FailKeepsLeases, Zenon
  <2> QED
    BY <1>4, Zenon DEF InitiatorConfirms
<1>5. CASE e = "i" /\ InitiatorFinishes(c)
  <2>. OnlyOn(c)
    BY <1>5, QuietIsOnlyOn, Zenon DEF InitiatorFinishes
  <2>. Receives(e, c, "finish") /\ inbox[e].lease = c /\ hs[e][c].pc \in Running
    BY <1>5, Zenon DEF InitiatorFinishes, Receives, Running, Waiting
  <2>. CASE Goes("i", c, "write")
    BY <1>5, GoesKeepsLeases, Zenon DEF Waiting
  <2>. CASE Fail("i", c, "final-confirmation")
    BY <1>5, FailKeepsLeases, Zenon
  <2> QED
    BY <1>5, Zenon DEF InitiatorFinishes
<1>6. CASE e = "r" /\ ResponderConfirms(c)
  <2>. Receives(e, c, "confirm") /\ inbox[e].lease = c /\ hs[e][c].pc \in Running
    BY <1>6, Zenon DEF ResponderConfirms, Receives, Running, Waiting
  <2>. OnlyOn(c)
    BY <1>6, QuietIsOnlyOn, SendIsOnlyOn, Zenon DEF ResponderConfirms
  <2>. CASE Goes("r", c, "write")
    BY <1>6, GoesKeepsLeases, Zenon DEF Waiting
  <2>. CASE Fail("r", c, "key-confirmation")
    BY <1>6, FailKeepsLeases, Zenon
  <2> QED
    BY <1>6, Zenon DEF ResponderConfirms
<1>7. CASE Activate(e, c)
  <2>. hs[e][c].pc \in Running
    BY <1>7, Zenon DEF Activate, Running
  <2>. CASE Fail(e, c, "transport") /\ UNCHANGED wire
    BY QuietIsOnlyOn, FailKeepsLeases, Zenon
  <2>. CASE Succeeds(e, c)
    BY SuccessKeepsLeases, Zenon
  <2> QED
    BY <1>7, Zenon DEF Activate, Succeeds
<1>8. CASE RecvEnds(e, c)
  <2>. hs[e][c].pc \in Running /\ Fail(e, c, "transport") /\ UNCHANGED wire
    BY <1>8, Zenon DEF RecvEnds, Running
  <2> QED
    BY QuietIsOnlyOn, FailKeepsLeases, Zenon
<1> QED
  BY <1>2, <1>3, <1>4, <1>5, <1>6, <1>7, <1>8, OnOpenKeepsLeases, DeliverKeepsLeases, ReportKeepsLeases,
     InstallFailsKeepsLeases, Zenon DEF Step

\* Nothing has begun when the page loads.
LEMMA InitLeases ==
  ASSUME Init
  PROVE  LeaseInv
<1>. /\ policy \in [Ends -> {"pin", "nopin"}] /\ pin \in [Ends -> Pins] /\ 0 \in 0 .. MaxConns
      /\ reg = [e \in Ends |-> 0] /\ closed = [e \in Ends |-> FALSE] /\ last = [e \in Ends |-> 0]
      /\ gate = [e \in Ends |-> [lease |-> 0, outcome |-> "pending"]]
      /\ keys = [e \in Ends |-> 0] /\ status = [e \in Ends |-> "none"] /\ late = [e \in Ends |-> FALSE]
  BY HandshakeAssumption DEF Init, ResetGate
<1>. inbox = [e \in Ends |-> [lease |-> 0, next |-> 1, queue |-> << >>]] /\ Queues = {<< >>}
  BY Zenon DEF Init, NoInbox, Queues, Ends
<1>. wire = [c \in Conns |-> [e \in Ends |-> << >>]] /\ wire \in [Conns -> [Ends -> Lines]]
  <2>. wire = [c \in Conns |-> [e \in Ends |-> << >>]]
    BY Zenon DEF Init
  <2>. \A c \in Conns, e \in Ends : << >> \in Lines
    BY DEF Lines
  <2> QED
    BY Zenon
<1>. hs = [e \in Ends |-> [c \in Conns |-> [pc |-> "off", pin |-> pin[e]]]] /\ "off" \in Stages
  BY Zenon DEF Init, Stages
<1>5. bucket \in [Ends -> [failures : Nat, wait : 0 .. BackoffMax]]
  BY HandshakeAssumption DEF Init, NoBucket
<1>6. Shapes
  BY <1>5 DEF Shapes
<1>7. \A e \in Ends : Leases(e)
  BY Zenon DEF Leases
<1>8. \A e \in Ends, c \in Conns : Fresh(e, c) /\ Owns(e, c)
  BY ConnFacts, Registered, Zenon DEF Fresh, Owns
<1> QED
  BY <1>6, <1>7, <1>8, Zenon DEF LeaseInv

\* Every step of either page keeps the leases.
LEMMA NextKeepsLeases ==
  ASSUME LeaseInv, [Next]_vars
  PROVE  LeaseInv'
<1>1. CASE UNCHANGED vars
  <2>. UNCHANGED <<policy, pin, reg, closed, last, gate, inbox, wire, hs, keys, status, bucket, late>>
    BY <1>1, Zenon DEF vars
  <2>. bucket' \in BucketType /\ pin' \in [Ends -> Pins]
    BY Zenon DEF LeaseInv, Shapes, BucketType
  <2> QED
    BY CountsKeepLeases, Zenon
<1>2. CASE Tick
  BY <1>2, TickKeepsLeases, Zenon
<1>3. ASSUME NEW e \in Ends, Connect(e) \/ EnterPin(e) \/ Restart(e)
      PROVE  LeaseInv'
  BY <1>3, ConnectKeepsLeases, EnterPinKeepsLeases, RestartKeepsLeases, Zenon
<1>4. ASSUME NEW e \in Ends, ConnectionLost(e) \/ UserDisconnects(e)
      PROVE  LeaseInv'
  BY <1>4, DisconnectKeepsLeases, Zenon DEF ConnectionLost, UserDisconnects, Lost
<1>5. ASSUME NEW e \in Ends, NEW c \in Conns, Step(e, c) \/ RecvEnds(e, c)
      PROVE  LeaseInv'
  BY <1>5, StepKeepsLeases, Zenon
<1> QED
  BY <1>1, <1>2, <1>3, <1>4, <1>5, Zenon DEF Next

\* At every moment the gate, the inbox and the keys of an end belong to its
\* registered connection, and the owner of the inbox passed the throttle.
THEOREM LeaseInvariant == Spec => []LeaseInv
  BY InitLeases, NextKeepsLeases, PTL DEF Spec

\* The gate is open only over keys of its own connection, and keys are only
\* installed while their connection is the registered one (runHandshake,
\* openRatchetGate, disconnectFromPeer).
THEOREM KeysBelongToGateTheorem == Spec => []KeysBelongToGate
<1>1. LeaseInv => KeysBelongToGate
  BY Zenon DEF LeaseInv, Leases, KeysBelongToGate
<1> QED
  BY <1>1, LeaseInvariant, PTL

\* A failing attempt that counts had no backoff to wait for: it still owns the
\* inbox, so no other attempt has counted since it asked the throttle
\* (recordPinFailure).
Guessed == \A x \in Ends : bucket'[x].failures > bucket[x].failures => bucket[x].wait = 0

\* A step that counts no failure guesses nothing.
LEMMA SameCounts ==
  ASSUME Shapes, \A x \in Ends : bucket'[x].failures \in {0, bucket[x].failures}
  PROVE  Guessed
<1>1. SUFFICES ASSUME NEW x \in Ends PROVE ~(bucket'[x].failures > bucket[x].failures)
  BY Zenon DEF Guessed
<1>2. bucket[x].failures \in Nat
  BY Zenon DEF Shapes
<1> QED
  BY <1>2

\* Only a failed key confirmation counts, and of an attempt that owns its inbox.
LEMMA FailGuesses ==
  ASSUME LeaseInv, NEW e \in Ends, NEW c \in Conns, NEW why, Fail(e, c, why),
         why = "key-confirmation" => inbox[e].lease = c /\ hs[e][c].pc = "confirm"
  PROVE  Guessed
<1>. Shapes /\ Owns(e, c)
  BY Zenon DEF LeaseInv
<1>2. CASE UNCHANGED attempts
  BY <1>2, SameCounts, Zenon DEF attempts
<1>3. CASE RecordPinFailure(e) /\ why = "key-confirmation" /\ policy[e] = "pin"
  <2>. bucket[e].wait = 0
    BY <1>3, Zenon DEF Owns, Waiting
  <2>. \A x \in Ends : x # e => bucket'[x] = bucket[x]
    BY <1>3, FailureCounts, Zenon
  <2>. \A x \in Ends : bucket[x].failures \in Nat
    BY Zenon DEF Shapes
  <2> QED
    BY DEF Guessed
<1> QED
  BY <1>2, <1>3, Zenon DEF Fail

\* The steps of an attempt, by what they count (recordPinFailure).
LEMMA StepGuesses ==
  ASSUME LeaseInv, NEW e \in Ends, NEW c \in Conns, Step(e, c) \/ RecvEnds(e, c)
  PROVE  Guessed
<1>. Shapes /\ "i" \in Ends /\ "r" \in Ends
  BY Zenon DEF LeaseInv, Ends
<1>2. CASE UNCHANGED attempts
  BY <1>2, SameCounts, Zenon DEF attempts
<1>3. CASE Fail(e, c, "transport") \/ Fail(e, c, "final-confirmation")
  BY <1>3, FailGuesses, Zenon
<1>4. CASE Receives(e, c, "confirm") /\ Fail(e, c, "key-confirmation")
  BY <1>4, FailGuesses, Zenon DEF Receives
<1>5. CASE Succeeds(e, c)
  <2>. Succeeded(e, c)
    BY <1>5, SuccessGives, Zenon
  <2>. \A x \in Ends : bucket'[x].failures \in {0, bucket[x].failures}
    BY DEF Succeeded, NoBucket
  <2> QED
    BY SameCounts, Zenon
<1>6. CASE OnOpen(e, c) \/ DeliverHandshakeFrame(e, c) \/ ReceiveHello(e, c) \/ InstallFails(e, c) \/ Report(e, c)
  BY <1>2, <1>6, Zenon DEF OnOpen, DeliverHandshakeFrame, ReceiveHello, Goes, InstallFails, Report
<1>7. CASE Prepare(e, c) \/ RecvEnds(e, c)
  BY <1>2, <1>3, <1>7, Zenon DEF Prepare, RecvEnds
<1>8. CASE Activate(e, c)
  BY <1>3, <1>5, <1>8, Zenon DEF Activate, Succeeds
<1>9. CASE e = "i" /\ (InitiatorConfirms(c) \/ InitiatorFinishes(c))
  BY <1>2, <1>3, <1>4, <1>9, Zenon DEF InitiatorConfirms, InitiatorFinishes, Goes
<1>10. CASE e = "r" /\ ResponderConfirms(c)
  BY <1>2, <1>4, <1>10, Zenon DEF ResponderConfirms, Goes
<1> QED
  BY <1>6, <1>7, <1>8, <1>9, <1>10, Zenon DEF Step

\* No step counts a failure while the backoff of the last one runs
\* (assertPinAttemptAllowed).
LEMMA NextGuesses ==
  ASSUME LeaseInv, [Next]_vars
  PROVE  Guessed
<1>. Shapes
  BY Zenon DEF LeaseInv
<1>2. CASE UNCHANGED attempts
  BY <1>2, SameCounts, Zenon DEF attempts
<1>3. CASE Tick
  BY <1>3, TickKeepsLeases, SameCounts, Zenon
<1>4. ASSUME NEW e \in Ends, EnterPin(e)
      PROVE  Guessed
  <2>. bucket' = [bucket EXCEPT ![e] = NoBucket]
    BY <1>4, Zenon DEF EnterPin, ClearRoomPinAttempts
  <2>. \A x \in Ends : bucket'[x].failures \in {0, bucket[x].failures}
    BY Zenon DEF Shapes, NoBucket
  <2> QED
    BY SameCounts, Zenon
<1>5. ASSUME NEW e \in Ends, Restart(e)
      PROVE  Guessed
  BY <1>5, SameCounts, Zenon DEF Restart
<1>6. ASSUME NEW e \in Ends, Connect(e) \/ ConnectionLost(e) \/ UserDisconnects(e)
      PROVE  Guessed
  BY <1>2, <1>6, Zenon DEF Connect, ConnectionLost, UserDisconnects, DisconnectFromPeer
<1>7. ASSUME NEW e \in Ends, NEW c \in Conns, Step(e, c) \/ RecvEnds(e, c)
      PROVE  Guessed
  BY <1>7, StepGuesses, Zenon
<1>8. CASE UNCHANGED vars
  BY <1>2, <1>8, Zenon DEF vars, attempts
<1> QED
  BY <1>3, <1>4, <1>5, <1>6, <1>7, <1>8, Zenon DEF Next

\* No PIN failure is counted while the backoff of the one before still runs,
\* whatever is reloaded, replaced or retried in between
\* (assertPinAttemptAllowed, fnIncrementPinAttemptState).
THEOREM NoGuessTheorem == Spec => NoGuessDuringBackoff
<1>1. LeaseInv /\ [Next]_vars => [\A e \in Ends : bucket'[e].failures > bucket[e].failures => bucket[e].wait = 0]_vars
  BY NextGuesses, Zenon DEF Guessed
<1> QED
  BY <1>1, LeaseInvariant, PTL DEF Spec, NoGuessDuringBackoff
-----------------------------------------------------------------------------

\* A status that says authenticated has keys behind it, on a connection that
\* is not closed; and keys show, unless the connection is closed or a late
\* failure hid them.
Statuses(e) ==
    /\ status[e] = "authenticated" => keys[e] # 0 /\ ~closed[e]
    /\ keys[e] # 0 /\ ~closed[e] /\ ~late[e] => status[e] = "authenticated"

\* The frames towards e on c that only the other end can have made, of the
\* secret it derived: none before it started, and its last one only when it
\* accepted the confirmation of an initiator with the same secret.
Agreed(c) ==
    /\ Secret("i", c) = Secret("r", c) /\ hs["i"][c].pc # "off"
    /\ hs["r"][c].pc \in {"write", "open", "report", "failed"}
FinishOf(s) == Finish(MacFinish(s, MacResponder(s), MacInitiator(s, MacResponder(s))))
FromResponder(c) ==
    {f \in {Hello, Confirm(MacResponder(Secret("r", c))), FinishOf(Secret("r", c))} :
       hs["r"][c].pc # "off" /\ (f.step = 3 => Agreed(c))}
FromInitiator(c) ==
    {f \in {Hello} \cup {Confirm(MacInitiator(Secret("i", c), g.mac)) : g \in FromResponder(c)} :
       hs["i"][c].pc # "off"}
Genuine(e, c) == IF e = "i" THEN FromResponder(c) ELSE FromInitiator(c)
Authentic(e, c) ==
    /\ wire[c][e] \in Seq(Genuine(e, c))
    /\ inbox[e].lease = c => inbox[e].queue \in Seq(Genuine(e, c))

\* How many frames e has to take before it is done, how many it has taken at
\* the stage own, and how many the other end has sent at most at the stage peer.
Flights(e) == IF e = "i" THEN 3 ELSE 2
Took(e, own) ==
    IF own = "confirm" THEN 1 ELSE IF own = "finish" THEN 2 ELSE IF own = "write" THEN Flights(e) ELSE 0
Sent(e, peer) ==
    IF peer \in {"off", "prepare"} THEN 0
    ELSE IF e = "r" THEN (IF peer \in {"hello", "confirm"} THEN 1 ELSE 2)
    ELSE IF peer = "hello" THEN 0 ELSE IF peer = "confirm" THEN 2 ELSE 3

\* While e owns the inbox no frame comes twice or from nowhere; and an attempt
\* that has finished the core finds its channel open, empty and at its end.
Counted(e, c) ==
    LET own == hs[e][c].pc
        peer == hs[Other(e)][c].pc
    IN /\ inbox[e].lease = c => Took(e, own) + Len(inbox[e].queue) + Len(wire[c][e]) <= Sent(e, peer)
       /\ reg[e] = c /\ Derived(e, c) =>
            ~closed[e] /\ Len(wire[c][e]) = 0 /\ Sent(e, peer) = Flights(e)

FlightInv ==
    /\ \A e \in Ends : Statuses(e) /\ \A c \in Conns : Authentic(e, c) /\ Counted(e, c)
    /\ \A e \in Ends, c \in Conns : Derived(e, c) => Agreed(c)

-----------------------------------------------------------------------------
\* A sequence over a set is one over any larger set.
LEMMA SeqWiden ==
  ASSUME NEW S, NEW T, S \subseteq T, NEW s \in Seq(S)
  PROVE  s \in Seq(T)
  OBVIOUS

\* The first of the frames, and the others.
LEMMA SeqEnds ==
  ASSUME NEW S, NEW s \in Seq(S), s # << >>
  PROVE  Tail(s) \in Seq(S) /\ Head(s) \in S
  OBVIOUS

\* A frame that joins a queue makes it longer by one.
LEMMA Appended ==
  ASSUME NEW S, NEW s \in Seq(S), NEW x \in S
  PROVE  Append(s, x) \in Seq(S) /\ Len(s) \in Nat /\ Len(Append(s, x)) = Len(s) + 1
  OBVIOUS

\* No attempt goes back: a started one keeps its PIN, has sent no less than
\* before, and a responder that has accepted stays past that.
Past == {"write", "open", "report", "failed"}
Forward(c) ==
    /\ policy' = policy
    /\ \A x \in Ends : /\ hs[x][c].pc # "off" => hs'[x][c].pc # "off" /\ hs'[x][c].pin = hs[x][c].pin
                       /\ Sent(Other(x), hs[x][c].pc) <= Sent(Other(x), hs'[x][c].pc)
    /\ hs["r"][c].pc \in Past => hs'["r"][c].pc \in Past

\* So what the other end made stays what it made (performHandshakeCore).
LEMMA GenuineGrows ==
  ASSUME NEW c \in Conns, Forward(c)
  PROVE  /\ Agreed(c) => Agreed(c)'
         /\ \A e \in Ends : Genuine(e, c) \subseteq Genuine(e, c)'
<1>. "i" \in Ends /\ "r" \in Ends
  BY Zenon DEF Ends
<1>1. \A x \in Ends : hs[x][c].pc # "off" => Secret(x, c)' = Secret(x, c)
  BY Zenon DEF Forward, Secret, ChannelInput
<1>2. Agreed(c) => Agreed(c)'
  <2>. SUFFICES ASSUME Agreed(c) PROVE Agreed(c)'
    BY Zenon
  <2>. hs["r"][c].pc # "off"
    BY Zenon DEF Agreed
  <2> QED
    BY <1>1, Zenon DEF Agreed, Forward, Past
<1>3. FromResponder(c) \subseteq FromResponder(c)'
  <2>. SUFFICES ASSUME hs["r"][c].pc # "off" PROVE FromResponder(c) \subseteq FromResponder(c)'
    BY Zenon DEF FromResponder
  <2>. Secret("r", c)' = Secret("r", c) /\ hs'["r"][c].pc # "off"
    BY <1>1, Zenon DEF Forward
  <2> QED
    BY <1>2, Zenon DEF FromResponder
<1>4. FromInitiator(c) \subseteq FromInitiator(c)'
  <2>. SUFFICES ASSUME hs["i"][c].pc # "off" PROVE FromInitiator(c) \subseteq FromInitiator(c)'
    BY Zenon DEF FromInitiator
  <2>. Secret("i", c)' = Secret("i", c) /\ hs'["i"][c].pc # "off"
    BY <1>1, Zenon DEF Forward
  <2> QED
    BY <1>3, Zenon DEF FromInitiator
<1> QED
  BY <1>2, <1>3, <1>4, Zenon DEF Genuine

\* The counts of frames due, taken and sent.
LEMMA CountsTyped ==
  ASSUME NEW e \in Ends, NEW p
  PROVE  /\ Flights(e) \in Nat /\ Took(e, p) \in Nat /\ Sent(e, p) \in Nat
         /\ Took(e, p) <= Flights(e) /\ Sent(e, p) <= Flights(e)
  BY DEF Flights, Took, Sent, Ends

\* Who is who.
LEMMA TwoEnds ==
  ASSUME NEW e \in Ends
  PROVE  Other(e) \in Ends /\ Other(e) # e /\ Other(Other(e)) = e /\ \A x \in Ends : x \in {e, Other(e)}
  BY Zenon DEF Ends, Other

\* An end never has sent fewer frames at a later stage, and takes one frame
\* from each stage of the core to the next (performHandshakeCore).
LEMMA SentGrows ==
  ASSUME NEW x \in Ends, NEW q
  PROVE  /\ Sent(Other(x), q) <= Sent(Other(x), q) /\ Sent(Other(x), q) <= Sent(Other(x), "failed")
         /\ Sent(Other(x), "off") <= Sent(Other(x), q)
  BY CountsTyped, TwoEnds DEF Sent, Flights

\* An attempt that moves on has sent no less and taken one frame more (the
\* frames runHandshake sends and awaits, in order).
LEMMA StageCounts ==
  ASSUME NEW x \in Ends
  PROVE  /\ Sent(x, "hello") <= Sent(x, "confirm") /\ Sent(x, "confirm") <= Sent(x, "finish")
         /\ Sent(x, "confirm") <= Sent(x, "write") /\ Sent(x, "finish") <= Sent(x, "write")
         /\ Took(x, "confirm") = Took(x, "hello") + 1 /\ Took(x, "finish") = Took(x, "confirm") + 1
         /\ Took("r", "write") = Took("r", "confirm") + 1 /\ Took("i", "write") = Took("i", "finish") + 1
         /\ Sent("i", "confirm") + 1 <= Sent("i", "write")
  BY DEF Sent, Took, Flights, Ends

\* Nothing was sent to e on c, delivered to it or taken by it: the channel may
\* have been lost, and the inbox given up.
Kept(e, c) ==
    /\ wire'[c][e] \in {wire[c][e], << >>}
    /\ inbox'[e].lease = c => /\ inbox[e].lease = c /\ inbox'[e].queue = inbox[e].queue
                              /\ Took(e, hs'[e][c].pc) = Took(e, hs[e][c].pc)
    /\ reg'[e] = c /\ Derived(e, c)' => reg[e] = c /\ Derived(e, c) /\ closed'[e] = closed[e]

\* Then its frames are as genuine, and as many, as before.
LEMMA KeptStays ==
  ASSUME NEW e \in Ends, NEW c \in Conns, Authentic(e, c), Counted(e, c), Forward(c), Kept(e, c)
  PROVE  Authentic(e, c)' /\ Counted(e, c)'
<1>1. PICK S : S = Genuine(e, c)' /\ Genuine(e, c) \subseteq S
  BY GenuineGrows, Zenon
<1>2. wire[c][e] \in Seq(S) /\ (inbox[e].lease = c => inbox[e].queue \in Seq(S))
  BY <1>1, SeqWiden, Zenon DEF Authentic
<1>3. wire'[c][e] \in Seq(S)
  <2>1. wire'[c][e] = wire[c][e] \/ wire'[c][e] = << >>
    BY Zenon DEF Kept
  <2>2. << >> \in Seq(S)
    OBVIOUS
  <2> QED
    BY <1>2, <2>1, <2>2, Zenon
<1>4. Authentic(e, c)'
  BY <1>1, <1>2, <1>3, Zenon DEF Authentic, Kept
<1>5. PICK l \in Nat, k \in Nat : l = Len(wire[c][e]) /\ k = Len(wire'[c][e]) /\ k <= l
  <2>1. Len(wire[c][e]) \in Nat /\ Len(wire'[c][e]) \in Nat
    BY <1>2, <1>3
  <2>2. Len(wire'[c][e]) = Len(wire[c][e]) \/ Len(wire'[c][e]) = 0
    BY DEF Kept
  <2> QED
    BY <2>1, <2>2
<1>6. PICK o \in Ends : o = Other(e) /\ Other(o) = e
  BY TwoEnds, Zenon
<1>7. PICK m \in Nat, n \in Nat : /\ m = Sent(e, hs[o][c].pc) /\ n = Sent(e, hs'[o][c].pc)
                                /\ m <= n /\ n <= Flights(e) /\ Flights(e) \in Nat
  BY <1>6, CountsTyped, Zenon DEF Forward
<1>8. ASSUME inbox'[e].lease = c
      PROVE  Took(e, hs'[e][c].pc) + Len(inbox'[e].queue) + Len(wire'[c][e]) <= n
  <2>1. PICK t \in Nat : t = Took(e, hs[e][c].pc) /\ t = Took(e, hs'[e][c].pc)
    BY <1>8, CountsTyped, Zenon DEF Kept
  <2>2. PICK q \in Nat : q = Len(inbox[e].queue) /\ q = Len(inbox'[e].queue)
    BY <1>8, <1>2 DEF Kept
  <2>3. t + q + l <= m
    BY <1>5, <1>6, <1>7, <1>8, <2>1, <2>2, Zenon DEF Counted, Kept
  <2>4. k <= l /\ m <= n
    BY <1>5, <1>7, Zenon
  <2>5. t + q + k <= n
    BY <2>3, <2>4
  <2> QED
    BY <1>5, <2>1, <2>2, <2>5, Zenon
<1>9. ASSUME reg'[e] = c, Derived(e, c)'
      PROVE  ~closed'[e] /\ Len(wire'[c][e]) = 0 /\ n = Flights(e)
  <2>1. ~closed'[e] /\ l = 0 /\ m = Flights(e)
    BY <1>5, <1>6, <1>7, <1>9, Zenon DEF Kept, Counted
  <2> QED
    BY <1>5, <1>7, <2>1
<1>10. Counted(e, c)'
  BY <1>6, <1>7, <1>8, <1>9, Zenon DEF Counted
<1> QED
  BY <1>4, <1>10, Zenon

\* What a step has to show to keep the flights.
LEMMA FlightsFollow ==
  ASSUME FlightInv, \A d \in Conns : Forward(d), \A x \in Ends : Statuses(x)',
         \A x \in Ends, d \in Conns : Kept(x, d) \/ (Authentic(x, d)' /\ Counted(x, d)'),
         \A x \in Ends, d \in Conns : Derived(x, d)' => Derived(x, d) \/ Agreed(d)'
  PROVE  FlightInv'
<1>1. \A x \in Ends, d \in Conns : Authentic(x, d)' /\ Counted(x, d)'
  BY KeptStays, Zenon DEF FlightInv
<1>2. \A x \in Ends, d \in Conns : Derived(x, d)' => Agreed(d)'
  BY GenuineGrows, Zenon DEF FlightInv
<1> QED
  BY <1>1, <1>2, Zenon DEF FlightInv

\* The other end sends frames it made (send of main).
LEMMA SentStays ==
  ASSUME NEW e \in Ends, NEW o \in Ends, o = Other(e), NEW c \in Conns, Authentic(e, c), Counted(e, c), Forward(c),
         NEW frames \in Seq(Genuine(e, c)'),
         wire'[c][e] = IF closed[e] \/ reg[e] > c THEN << >> ELSE wire[c][e] \o frames,
         Sent(e, hs[o][c].pc) + Len(frames) <= Sent(e, hs'[o][c].pc),
         hs'[e][c] = hs[e][c], inbox'[e] = inbox[e], reg'[e] = reg[e], closed'[e] = closed[e]
  PROVE  Authentic(e, c)' /\ Counted(e, c)'
<1>1. Derived(e, c)' <=> Derived(e, c)
  BY Zenon DEF Derived
<1>2. CASE closed[e] \/ reg[e] > c
  BY <1>1, <1>2, KeptStays, Zenon DEF Kept
<1>3. CASE wire'[c][e] = wire[c][e] \o frames
  <2>1. PICK S : S = Genuine(e, c)' /\ Genuine(e, c) \subseteq S
    BY GenuineGrows, Zenon
  <2>2. wire[c][e] \in Seq(S) /\ (inbox[e].lease = c => inbox[e].queue \in Seq(S)) /\ frames \in Seq(S)
    BY <2>1, SeqWiden, Zenon DEF Authentic
  <2>3. PICK l \in Nat, k \in Nat : l = Len(wire[c][e]) /\ k = Len(frames)
    BY <2>2
  <2>4. wire'[c][e] \in Seq(S) /\ Len(wire'[c][e]) = l + k
    BY <1>3, <2>2, <2>3
  <2>5. Authentic(e, c)'
    BY <2>1, <2>2, <2>4, Zenon DEF Authentic
  <2>6. PICK m \in Nat, n \in Nat : m = Sent(e, hs[o][c].pc) /\ n = Sent(e, hs'[o][c].pc)
    BY CountsTyped, Zenon
  <2>7. m + k <= n
    BY <2>3, <2>6, Zenon
  <2>8. ASSUME inbox[e].lease = c
        PROVE  Took(e, hs[e][c].pc) + Len(inbox[e].queue) + (l + k) <= n
    <3>1. PICK t \in Nat, q \in Nat : t = Took(e, hs[e][c].pc) /\ q = Len(inbox[e].queue)
      BY <2>2, <2>8, CountsTyped
    <3>2. t + q + l <= m
      BY <2>3, <2>6, <2>8, <3>1, Zenon DEF Counted
    <3>3. t + q + (l + k) <= n
      BY <2>7, <3>2
    <3> QED
      BY <3>1, <3>3, Zenon
  <2>9. ASSUME reg[e] = c, Derived(e, c)
        PROVE  ~closed[e] /\ l + k = 0 /\ n = Flights(e)
    <3>1. ~closed[e] /\ l = 0 /\ m = Flights(e) /\ n <= Flights(e)
      BY <2>3, <2>6, <2>9, CountsTyped, Zenon DEF Counted
    <3> QED
      BY <2>7, <3>1
  <2>10. Counted(e, c)'
    BY <1>1, <2>4, <2>6, <2>8, <2>9, Zenon DEF Counted
  <2> QED
    BY <2>5, <2>10, Zenon
<1> QED
  BY <1>2, <1>3, Zenon

\* The attempt takes the head of its queue (recv); with the last one it has
\* finished the core.
LEMMA TakenStays ==
  ASSUME NEW e \in Ends, NEW c \in Conns, Authentic(e, c), Counted(e, c), Forward(c),
         inbox[e].lease = c, inbox[e].queue # << >>, ~closed'[e],
         inbox'[e].queue = Tail(inbox[e].queue), wire'[c][e] = wire[c][e],
         NEW p, p = hs'[e][c].pc, p # "open", Took(e, p) = Took(e, hs[e][c].pc) + 1
  PROVE  Authentic(e, c)' /\ Counted(e, c)'
<1>1. PICK S : S = Genuine(e, c)' /\ Genuine(e, c) \subseteq S
  BY GenuineGrows, Zenon
<1>2. wire[c][e] \in Seq(S) /\ inbox[e].queue \in Seq(S)
  BY <1>1, SeqWiden, Zenon DEF Authentic
<1>3. PICK l \in Nat, q \in Nat : l = Len(wire[c][e]) /\ q = Len(Tail(inbox[e].queue)) /\ Len(inbox[e].queue) = q + 1
  <2>1. Len(wire[c][e]) \in Nat /\ Len(inbox[e].queue) \in Nat \ {0}
    BY <1>2
  <2>2. Len(Tail(inbox[e].queue)) = Len(inbox[e].queue) - 1
    BY <1>2
  <2>3. Len(Tail(inbox[e].queue)) \in Nat /\ Len(inbox[e].queue) = Len(Tail(inbox[e].queue)) + 1
    BY <2>1, <2>2
  <2> QED
    BY <2>1, <2>3, Zenon
<1>4. Authentic(e, c)'
  BY <1>1, <1>2 DEF Authentic
<1>5. PICK o \in Ends : o = Other(e) /\ Other(o) = e
  BY TwoEnds, Zenon
<1>6. PICK m \in Nat, n \in Nat : m = Sent(e, hs[o][c].pc) /\ n = Sent(e, hs'[o][c].pc) /\ m <= n
  BY <1>5, CountsTyped, Zenon DEF Forward
<1>7. PICK t \in Nat : t = Took(e, hs[e][c].pc) /\ Took(e, p) = t + 1
  BY CountsTyped, Zenon
<1>8. t + (q + 1) + l <= m
  BY <1>3, <1>5, <1>6, <1>7, Zenon DEF Counted
<1>9. m <= n
  BY <1>6, Zenon
<1>10. (t + 1) + q + l <= n
  BY <1>8, <1>9
<1>11. Derived(e, c)' => l = 0 /\ n = Flights(e)
  <2>1. SUFFICES ASSUME p = "write" PROVE l = 0 /\ n = Flights(e)
    BY Zenon DEF Derived
  <2>2. t + 1 = Flights(e)
    BY <1>7, <2>1, Zenon DEF Took
  <2>3. n <= Flights(e) /\ Flights(e) \in Nat
    BY <1>6, CountsTyped, Zenon
  <2> QED
    BY <1>10, <2>2, <2>3
<1>12. Counted(e, c)'
  BY <1>3, <1>5, <1>6, <1>7, <1>10, <1>11, Zenon DEF Counted
<1> QED
  BY <1>4, <1>12, Zenon

\* An attempt moves on.
LEMMA AtForward ==
  ASSUME Shapes, NEW e \in Ends, NEW c \in Conns, NEW p \in Stages, At(e, c, p), policy' = policy,
         hs[e][c].pc # "off", p # "off", Sent(Other(e), hs[e][c].pc) <= Sent(Other(e), p),
         hs[e][c].pc \in Past => p \in Past
  PROVE  \A d \in Conns : Forward(d)
<1>1. \A x \in Ends, d \in Conns : Sent(Other(x), hs[x][d].pc) <= Sent(Other(x), hs[x][d].pc)
  <2>1. ASSUME NEW x \in Ends, NEW q PROVE Sent(Other(x), q) <= Sent(Other(x), q)
    BY SentGrows, Zenon
  <2> QED
    BY <2>1, Zenon
<1>2. /\ hs'[e][c].pc = p /\ hs'[e][c].pin = hs[e][c].pin /\ "r" \in Ends
      /\ \A x \in Ends, d \in Conns : x # e \/ d # c => hs'[x][d] = hs[x][d]
  BY AtMoves DEF Ends
<1> QED
  BY <1>1, <1>2, Zenon DEF Forward

\* e touches no inbox and no gate but its own, and its own only for its
\* connection c.
Aside(e, c) ==
  /\ UNCHANGED reg
  /\ \A x \in Ends : x # e => inbox'[x] = inbox[x] /\ closed'[x] = closed[x]
  /\ inbox'[e].lease # c => inbox'[e] = inbox[e] \/ inbox'[e].lease = 0
  /\ closed'[e] = closed[e] \/ reg[e] = c

\* What an attempt does on its connection is nothing to the other connections,
\* nor to the other end when it sends it nothing.
LEMMA ElsewhereKept ==
  ASSUME Shapes, NEW e \in Ends, NEW c \in Conns, NEW p \in Stages, At(e, c, p), Aside(e, c),
         NEW x \in Ends, NEW d \in Conns, x # e \/ d # c, wire'[d][x] = wire[d][x]
  PROVE  Kept(x, d)
<1>1. hs'[x][d] = hs[x][d] /\ (Derived(x, d)' <=> Derived(x, d)) /\ d # 0
  BY AtMoves DEF Derived, Conns
<1>2. inbox'[x].lease = d => inbox'[x] = inbox[x]
  BY <1>1, Zenon DEF Aside
<1>3. UNCHANGED reg /\ (reg[x] = d => closed'[x] = closed[x])
  BY Zenon DEF Aside
<1> QED
  BY <1>1, <1>2, <1>3, Zenon DEF Kept

\* The step sends nothing, or what it sends is counted.
Sends(o, c) ==
    /\ \A x \in Ends, d \in Conns : x # o \/ d # c => wire'[d][x] = wire[d][x]
    /\ wire'[c][o] = wire[c][o] \/ (Authentic(o, c)' /\ Counted(o, c)')

\* An end sends frames as it moves on (send of main in performHandshakeCore).
LEMMA SendingStays ==
  ASSUME LeaseInv, FlightInv, NEW e \in Ends, NEW o \in Ends, o = Other(e), NEW c \in Conns, NEW p \in Stages,
         At(e, c, p), Forward(c), NEW frames \in Seq(Genuine(o, c)'), Send(c, o, frames),
         Sent(o, hs[e][c].pc) + Len(frames) <= Sent(o, p),
         inbox'[o] = inbox[o], UNCHANGED <<reg, closed>>
  PROVE  Sends(o, c)
<1>1. Shapes /\ Authentic(o, c) /\ Counted(o, c) /\ e = Other(o) /\ e # o
  BY TwoEnds, Zenon DEF LeaseInv, FlightInv
<1>2. hs'[e][c].pc = p /\ hs'[o][c] = hs[o][c]
  BY <1>1, AtMoves
<1>3. /\ wire'[c][o] = IF closed[o] \/ reg[o] > c THEN << >> ELSE wire[c][o] \o frames
      /\ \A x \in Ends, d \in Conns : x # o \/ d # c => wire'[d][x] = wire[d][x]
  BY <1>1, SendFills
<1>4. Authentic(o, c)' /\ Counted(o, c)'
  BY <1>1, <1>2, <1>3, SentStays, Zenon
<1> QED
  BY <1>3, <1>4, Zenon DEF Sends

\* A failing attempt gives up its inbox, and sends at most what is due
\* (runHandshake).
LEMMA FailKeepsFlights ==
  ASSUME LeaseInv, FlightInv, NEW e \in Ends, NEW c \in Conns, NEW why, Fail(e, c, why), hs[e][c].pc \in Running,
         Sends(Other(e), c)
  PROVE  FlightInv'
<1>1. Shapes /\ "report" \in Stages /\ At(e, c, "report") /\ Abandon(e, c) /\ Other(e) \in Ends /\ Other(e) # e
  BY TwoEnds, Zenon DEF LeaseInv, Fail, Stages, Running
<1>2. UNCHANGED <<policy, reg, closed, keys, status, late>>
  BY Zenon DEF Fail
<1>3. /\ inbox'[e].lease # c /\ (inbox'[e] = inbox[e] \/ inbox'[e].lease = 0)
      /\ \A x \in Ends : x # e => inbox'[x] = inbox[x]
  BY <1>1, AbandonGives, Zenon
<1>4. \A d \in Conns : Forward(d)
  <2>1. Sent(Other(e), hs[e][c].pc) <= Sent(Other(e), "report")
    BY <1>1, CountsTyped DEF Sent, Flights
  <2> QED
    BY <1>1, <1>2, <2>1, AtForward, Zenon DEF Past, Running, Waiting
<1>5. hs'[e][c].pc = "report" /\ \A x \in Ends, d \in Conns : x # e \/ d # c => hs'[x][d] = hs[x][d]
  BY <1>1, AtMoves
<1>6. Kept(e, c)
  BY <1>1, <1>3, <1>5, Zenon DEF Kept, Derived, Sends
<1>7. ASSUME NEW x \in Ends, NEW d \in Conns, x # e \/ d # c
      PROVE  Kept(x, d) \/ (Authentic(x, d)' /\ Counted(x, d)')
  <2>1. CASE wire'[d][x] = wire[d][x]
    <3>1. Aside(e, c)
      BY <1>1, <1>2, <1>3, Zenon DEF Aside
    <3> QED
      BY <1>1, <1>7, <2>1, <3>1, ElsewhereKept, Zenon
  <2>2. CASE wire'[d][x] # wire[d][x]
    BY <2>2, Zenon DEF Sends
  <2> QED
    BY <2>1, <2>2, Zenon
<1>8. \A x \in Ends : Statuses(x)'
  BY <1>2, Zenon DEF FlightInv, Statuses
<1>9. \A x \in Ends, d \in Conns : Derived(x, d)' => Derived(x, d)
  BY <1>5, Zenon DEF Derived
<1> QED
  BY <1>4, <1>6, <1>7, <1>8, <1>9, FlightsFollow, Zenon

\* The attempt of e on c takes the frame it waits for at p and goes on to q.
Advances(e, c, p, q) ==
  /\ \A d \in Conns : Forward(d)
  /\ At(e, c, q) /\ hs[e][c].pc = p /\ hs'[e][c].pc = q /\ hs'[e][c].pin = hs[e][c].pin
  /\ \A x \in Ends, d \in Conns : x # e \/ d # c => hs'[x][d] = hs[x][d]
  /\ inbox[e].lease = c /\ inbox[e].queue # << >> /\ ~closed[e]
  /\ inbox'[e].lease = c /\ inbox'[e].queue = Tail(inbox[e].queue)
  /\ \A x \in Ends : x # e => inbox'[x] = inbox[x]
  /\ UNCHANGED <<policy, reg, closed, keys, status, late>>

\* What the step that takes a frame gives, field by field (recv).
LEMMA GoesGives ==
  ASSUME LeaseInv, NEW e \in Ends, NEW c \in Conns, NEW p \in Waiting, NEW q \in {"confirm", "finish", "write"},
         Receives(e, c, p), Goes(e, c, q), Sent(Other(e), p) <= Sent(Other(e), q)
  PROVE  Advances(e, c, p, q)
<1>1. Shapes /\ q \in Stages /\ At(e, c, q) /\ hs[e][c].pc = p /\ p # "off" /\ p \notin Past
  BY Zenon DEF LeaseInv, Goes, Receives, Stages, Running, Waiting, Past
<1>2. inbox[e].lease = c /\ inbox[e].queue # << >> /\ Take(e)
  BY Zenon DEF Goes, Receives
<1>3. UNCHANGED <<policy, reg, closed, keys, status, late>>
  BY Zenon DEF Goes
<1>4. \A d \in Conns : Forward(d)
  BY <1>1, <1>3, AtForward, Zenon
<1>5. ~closed[e]
  <2>1. Leases(e) /\ c # 0
    BY DEF LeaseInv, Conns
  <2> QED
    BY <1>2, <2>1, Zenon DEF Leases
<1>6. /\ inbox'[e] = [lease |-> inbox[e].lease, next |-> inbox[e].next, queue |-> Tail(inbox[e].queue)]
      /\ \A x \in Ends : x # e => inbox'[x] = inbox[x]
  BY <1>1, <1>2, TakeTakes, Zenon
<1>7. /\ hs'[e][c].pc = q /\ hs'[e][c].pin = hs[e][c].pin
      /\ \A x \in Ends, d \in Conns : x # e \/ d # c => hs'[x][d] = hs[x][d]
  BY <1>1, AtMoves, Zenon
<1>8. inbox'[e].lease = inbox[e].lease /\ inbox'[e].queue = Tail(inbox[e].queue)
  BY <1>6
<1> QED
  BY <1>1, <1>2, <1>3, <1>4, <1>5, <1>6, <1>7, <1>8, Zenon DEF Advances

\* An attempt that takes a frame and goes on (performHandshakeCore).
LEMMA GoesKeepsFlights ==
  ASSUME LeaseInv, FlightInv, NEW e \in Ends, NEW c \in Conns, NEW p \in Waiting, NEW q \in {"confirm", "finish", "write"},
         Receives(e, c, p), Goes(e, c, q), Sent(Other(e), p) <= Sent(Other(e), q), Took(e, q) = Took(e, p) + 1,
         Sends(Other(e), c), q = "write" => Agreed(c)'
  PROVE  FlightInv'
<1>1. /\ \A d \in Conns : Forward(d)
      /\ At(e, c, q) /\ hs[e][c].pc = p /\ hs'[e][c].pc = q
      /\ \A x \in Ends, d \in Conns : x # e \/ d # c => hs'[x][d] = hs[x][d]
      /\ inbox[e].lease = c /\ inbox[e].queue # << >> /\ ~closed[e]
      /\ inbox'[e].lease = c /\ inbox'[e].queue = Tail(inbox[e].queue)
      /\ \A x \in Ends : x # e => inbox'[x] = inbox[x]
      /\ UNCHANGED <<policy, reg, closed, keys, status, late>>
  <2>1. Advances(e, c, p, q)
    BY GoesGives, Zenon
  <2> QED
    BY <2>1, Zenon DEF Advances
<1>2. Shapes /\ q \in Stages /\ Other(e) # e
  BY TwoEnds, Zenon DEF LeaseInv, Stages, Running, Waiting
<1>3. Authentic(e, c)' /\ Counted(e, c)'
  <2>1. Authentic(e, c) /\ Counted(e, c) /\ wire'[c][e] = wire[c][e]
    BY <1>2, Zenon DEF FlightInv, Sends
  <2> QED
    BY <1>1, <2>1, TakenStays, Zenon
<1>4. ASSUME NEW x \in Ends, NEW d \in Conns, x # e \/ d # c
      PROVE  Kept(x, d) \/ (Authentic(x, d)' /\ Counted(x, d)')
  <2>1. CASE wire'[d][x] = wire[d][x]
    <3>1. Aside(e, c)
      BY <1>1, Zenon DEF Aside
    <3>2. At(e, c, q) /\ q \in Stages /\ Shapes
      BY <1>1, <1>2, Zenon
    <3> QED
      BY <1>4, <2>1, <3>1, <3>2, ElsewhereKept, Zenon
  <2>2. CASE wire'[d][x] # wire[d][x]
    BY <2>2, Zenon DEF Sends
  <2> QED
    BY <2>1, <2>2, Zenon
<1>5. \A x \in Ends : Statuses(x)'
  BY <1>1, Zenon DEF FlightInv, Statuses
<1>6. \A x \in Ends, d \in Conns : Derived(x, d)' => Derived(x, d) \/ Agreed(d)'
  BY <1>1, Zenon DEF Derived
<1> QED
  BY <1>1, <1>3, <1>4, <1>5, <1>6, FlightsFollow, Zenon

\* The first flight: the initiator's HELLO (runHandshake).
LEMMA FirstFlightKeepsFlights ==
  ASSUME LeaseInv, FlightInv, NEW e \in Ends, NEW c \in Conns, hs[e][c].pc = "prepare", FirstFlight(e, c),
         UNCHANGED <<policy, reg, closed, inbox, keys, status, late>>
  PROVE  FlightInv'
<1>1. Shapes /\ "hello" \in Stages /\ At(e, c, "hello") /\ Other(e) \in Ends /\ Other(e) # e
  BY TwoEnds, Zenon DEF LeaseInv, FirstFlight, Stages, Running, Waiting
<1>2. hs'[e][c].pc = "hello" /\ \A x \in Ends, d \in Conns : x # e \/ d # c => hs'[x][d] = hs[x][d]
  BY <1>1, AtMoves
<1>3. \A d \in Conns : Forward(d)
  <2>1. Sent(Other(e), hs[e][c].pc) <= Sent(Other(e), "hello")
    BY <1>1 DEF Sent
  <2> QED
    BY <1>1, <2>1, AtForward, Zenon DEF Past
<1>4. Sends(Other(e), c)
  <2>1. CASE e = "i"
    <3>1. PICK o, frames : o \in Ends /\ o = Other(e) /\ o = "r" /\ frames = <<Hello>>
      BY <1>1, <2>1, Zenon DEF Other
    <3>2. Send(c, o, frames)
      BY <2>1, <3>1, Zenon DEF FirstFlight
    <3>3. Hello \in Genuine(o, c)'
      BY <1>2, <2>1, <3>1, Zenon DEF Genuine, FromInitiator
    <3>4. frames \in Seq(Genuine(o, c)') /\ Len(frames) = 1
      BY <3>1, <3>3
    <3>5. Sent(o, hs[e][c].pc) + Len(frames) <= Sent(o, "hello")
      BY <3>1, <3>4 DEF Sent
    <3>6. Sends(o, c)
      BY <1>1, <1>3, <3>1, <3>2, <3>4, <3>5, SendingStays, Zenon
    <3> QED
      BY <3>1, <3>6, Zenon
  <2>2. CASE e # "i"
    BY <2>2, Zenon DEF FirstFlight, Sends
  <2> QED
    BY <2>1, <2>2, Zenon
<1>5. Kept(e, c)
  BY <1>1, <1>2, <1>4, Zenon DEF Kept, Derived, Sends, Took
<1>6. ASSUME NEW x \in Ends, NEW d \in Conns, x # e \/ d # c
      PROVE  Kept(x, d) \/ (Authentic(x, d)' /\ Counted(x, d)')
  <2>1. CASE wire'[d][x] = wire[d][x]
    <3>1. Aside(e, c)
      BY Zenon DEF Aside
    <3> QED
      BY <1>1, <1>6, <2>1, <3>1, ElsewhereKept, Zenon
  <2>2. CASE wire'[d][x] # wire[d][x]
    BY <1>4, <2>2, Zenon DEF Sends
  <2> QED
    BY <2>1, <2>2, Zenon
<1>7. \A x \in Ends : Statuses(x)'
  BY Zenon DEF FlightInv, Statuses
<1>8. \A x \in Ends, d \in Conns : Derived(x, d)' => Derived(x, d)
  BY <1>2, Zenon DEF Derived
<1> QED
  BY <1>3, <1>5, <1>6, <1>7, <1>8, FlightsFollow, Zenon

\* The second flight: the responder answers with HELLO and its confirmation
\* (performHandshakeCore).
LEMMA ReceiveHelloKeepsFlights ==
  ASSUME LeaseInv, FlightInv, NEW e \in Ends, NEW c \in Conns, ReceiveHello(e, c)
  PROVE  FlightInv'
<1>1. Receives(e, c, "hello") /\ Goes(e, c, "confirm") /\ "hello" \in Waiting
  BY Zenon DEF ReceiveHello, Waiting
<1>2. Sent(Other(e), "hello") <= Sent(Other(e), "confirm") /\ Took(e, "confirm") = Took(e, "hello") + 1
  BY TwoEnds, StageCounts, Zenon
<1>3. /\ \A d \in Conns : Forward(d)
      /\ At(e, c, "confirm") /\ hs[e][c].pc = "hello" /\ hs'[e][c].pc = "confirm" /\ "confirm" \in Stages
      /\ hs'[e][c].pin = hs[e][c].pin
      /\ \A x \in Ends : x # e => inbox'[x] = inbox[x]
      /\ UNCHANGED <<policy, reg, closed>>
  <2>1. Advances(e, c, "hello", "confirm")
    BY <1>1, <1>2, GoesGives, Zenon
  <2> QED
    BY <2>1, Zenon DEF Advances, Stages, Running, Waiting
<1>4. Sends(Other(e), c)
  <2>1. CASE e = "r"
    <3>1. PICK o, f : o \in Ends /\ o = Other(e) /\ o = "i" /\ o # e /\ f = Confirm(MacResponder(Secret("r", c)))
      BY <2>1, TwoEnds, Zenon DEF Other
    <3>2. PICK frames : frames = <<Hello, f>> /\ Send(c, o, frames)
      BY <2>1, <3>1, Zenon DEF ReceiveHello
    <3>3. Hello \in Genuine(o, c)' /\ f \in Genuine(o, c)'
      <4>1. Secret("r", c)' = Secret("r", c) /\ hs'["r"][c].pc # "off"
        BY <1>3, <2>1, Zenon DEF Secret, ChannelInput
      <4>2. Hello.step = 1 /\ f.step = 2
        BY <3>1, Zenon DEF Hello, Confirm
      <4> QED
        BY <3>1, <4>1, <4>2 DEF Genuine, FromResponder
    <3>4. frames \in Seq(Genuine(o, c)') /\ Len(frames) = 2
      BY <3>2, <3>3
    <3>5. Sent(o, hs[e][c].pc) + Len(frames) <= Sent(o, "confirm")
      BY <1>3, <3>1, <3>4 DEF Sent
    <3>6. Sends(o, c)
      BY <1>3, <3>1, <3>2, <3>4, <3>5, SendingStays, Zenon
    <3> QED
      BY <3>1, <3>6, Zenon
  <2>2. CASE e # "r"
    BY <2>2, Zenon DEF ReceiveHello, Sends
  <2> QED
    BY <2>1, <2>2, Zenon
<1> QED
  BY <1>1, <1>2, <1>4, GoesKeepsFlights, Zenon

\* The attempt that takes a frame takes one the other end made.
LEMMA TakenIsGenuine ==
  ASSUME FlightInv, NEW e \in Ends, NEW c \in Conns, NEW p, Receives(e, c, p)
  PROVE  Taken(e) \in Genuine(e, c)
<1>1. inbox[e].queue \in Seq(Genuine(e, c)) /\ inbox[e].queue # << >>
  BY Zenon DEF FlightInv, Authentic, Receives
<1> QED
  BY <1>1 DEF Taken

\* The third flight, sent before the responder's confirmation is checked
\* (performHandshakeCore).
LEMMA InitiatorConfirmsKeepsFlights ==
  ASSUME LeaseInv, FlightInv, NEW c \in Conns, InitiatorConfirms(c)
  PROVE  FlightInv'
<1>1. PICK e \in Ends, o \in Ends : e = "i" /\ o = "r" /\ o = Other(e) /\ o # e
  BY Zenon DEF Ends, Other
<1>2. Receives(e, c, "confirm") /\ hs[e][c].pc = "confirm" /\ "confirm" \in Waiting /\ "confirm" \in Running
  BY <1>1, Zenon DEF InitiatorConfirms, Receives, Waiting, Running
<1>3. PICK f : f = Confirm(MacInitiator(Secret("i", c), Taken("i").mac)) /\ Send(c, o, <<f>>)
  BY <1>1, Zenon DEF InitiatorConfirms
<1>4. ASSUME NEW q \in {"finish", "report"}, At(e, c, q), inbox'[o] = inbox[o], UNCHANGED <<policy, reg, closed>>
      PROVE  Sends(o, c)
  <2>1. Shapes /\ q \in Stages /\ Sent(o, "confirm") + 1 <= Sent(o, q) /\ Sent(o, "confirm") <= Sent(o, q)
    BY <1>1, <1>4 DEF LeaseInv, Stages, Running, Waiting, Sent
  <2>2. Forward(c)
    BY <1>1, <1>2, <1>4, <2>1, AtForward, Zenon DEF Past
  <2>3. f \in Genuine(o, c)'
    <3>1. Taken("i") \in FromResponder(c)'
      BY <1>1, <1>2, <2>2, TakenIsGenuine, GenuineGrows, Zenon DEF Genuine
    <3>2. hs'["i"][c].pc = q /\ hs'["i"][c].pin = hs["i"][c].pin
      BY <1>1, <1>4, <2>1, AtMoves
    <3>3. Secret("i", c)' = Secret("i", c) /\ hs'["i"][c].pc # "off"
      BY <1>4, <3>2, Zenon DEF Secret, ChannelInput
    <3> QED
      BY <1>1, <1>3, <3>1, <3>3, Zenon DEF Genuine, FromInitiator
  <2>4. <<f>> \in Seq(Genuine(o, c)') /\ Len(<<f>>) = 1
    BY <2>3
  <2>5. Sent(o, hs[e][c].pc) + Len(<<f>>) <= Sent(o, q)
    BY <1>2, <2>1, <2>4, Zenon
  <2> QED
    BY <1>1, <1>3, <1>4, <2>1, <2>2, <2>4, <2>5, SendingStays, Zenon
<1>5. CASE Goes("i", c, "finish")
  <2>1. Sent(o, "confirm") <= Sent(o, "finish") /\ Took(e, "finish") = Took(e, "confirm") + 1
    BY <1>1, StageCounts, Zenon
  <2>2. At(e, c, "finish") /\ inbox'[o] = inbox[o] /\ UNCHANGED <<policy, reg, closed>>
    <3>1. Advances(e, c, "confirm", "finish")
      BY <1>1, <1>2, <1>5, <2>1, GoesGives, Zenon
    <3> QED
      BY <1>1, <3>1, Zenon DEF Advances
  <2> QED
    BY <1>1, <1>2, <1>4, <1>5, <2>1, <2>2, GoesKeepsFlights, Zenon
<1>6. CASE Fail("i", c, "key-confirmation")
  <2>1. At(e, c, "report") /\ Abandon(e, c) /\ UNCHANGED <<policy, reg, closed>> /\ Shapes
    BY <1>1, <1>6, Zenon DEF Fail, LeaseInv
  <2>2. inbox'[o] = inbox[o]
    BY <1>1, <2>1, AbandonGives, Zenon
  <2> QED
    BY <1>1, <1>2, <1>4, <1>6, <2>1, <2>2, FailKeepsFlights, Zenon
<1> QED
  BY <1>5, <1>6, Zenon DEF InitiatorConfirms

\* A confirmation is made of the secret it confirms, and no two kinds of
\* confirmation are alike.
LEMMA MacsOpen ==
  ASSUME NEW s, NEW t, NEW m, NEW n, NEW k
  PROVE  /\ MacInitiator(s, m) = MacInitiator(t, n) => s = t
         /\ MacInitiator(s, m) # << >>
         /\ MacFinish(s, m, n) # << >> /\ MacFinish(s, m, n) # MacResponder(t)
<1>1. MacInitiator(s, m)[2] = s /\ MacInitiator(t, n)[2] = t /\ Len(MacInitiator(s, m)) = 3
  BY DEF MacInitiator, Mac
<1>2. MacFinish(s, m, n)[1] = "finish" /\ Len(MacFinish(s, m, n)) = 4
  BY DEF MacFinish, Mac
<1>3. MacResponder(t)[1] = "responder" /\ Len(<< >>) = 0
  BY DEF MacResponder, Mac
<1> QED
  BY <1>1, <1>2, <1>3

\* The responder accepts only the confirmation of an initiator with its own
\* secret, and then sends the last flight (performHandshakeCore).
LEMMA ResponderConfirmsKeepsFlights ==
  ASSUME LeaseInv, FlightInv, NEW c \in Conns, ResponderConfirms(c)
  PROVE  FlightInv'
<1>1. PICK e \in Ends, o \in Ends : e = "r" /\ o = "i" /\ o = Other(e) /\ o # e
  BY Zenon DEF Ends, Other
<1>2. Receives(e, c, "confirm") /\ hs[e][c].pc = "confirm" /\ "confirm" \in Waiting /\ "confirm" \in Running
  BY <1>1, Zenon DEF ResponderConfirms, Receives, Waiting, Running
<1>3. PICK s, expect : s = Secret("r", c) /\ expect = MacInitiator(s, MacResponder(s))
  BY Zenon
<1>4. CASE Taken("r").mac = expect /\ Goes("r", c, "write")
  <2>1. Sent(o, "confirm") + 1 <= Sent(o, "write") /\ Sent(o, "confirm") <= Sent(o, "write")
        /\ Took(e, "write") = Took(e, "confirm") + 1
    BY <1>1, StageCounts, Zenon
  <2>2. /\ \A d \in Conns : Forward(d)
        /\ At(e, c, "write") /\ hs'[e][c].pc = "write" /\ "write" \in Stages /\ hs'[e][c].pin = hs[e][c].pin
        /\ hs'[o][c] = hs[o][c] /\ inbox'[o] = inbox[o] /\ UNCHANGED <<policy, reg, closed>>
    <3>1. Advances(e, c, "confirm", "write")
      BY <1>1, <1>2, <1>4, <2>1, GoesGives, Zenon
    <3> QED
      BY <1>1, <3>1, Zenon DEF Advances, Stages, Running
  <2>3. Secret("i", c) = s /\ hs["i"][c].pc # "off"
    <3>1. Taken("r") \in FromInitiator(c)
      BY <1>1, <1>2, TakenIsGenuine, Zenon DEF Genuine
    <3>2. Taken("r") # Hello
      BY <1>3, <1>4, MacsOpen DEF Hello
    <3>3. PICK g \in FromResponder(c) : Taken("r") = Confirm(MacInitiator(Secret("i", c), g.mac))
      BY <3>1, <3>2, Zenon DEF FromInitiator
    <3>4. MacInitiator(Secret("i", c), g.mac) = expect
      BY <1>4, <3>3 DEF Confirm
    <3>5. Secret("i", c) = s
      BY <1>3, <3>4, MacsOpen
    <3> QED
      BY <3>1, <3>5, Zenon DEF FromInitiator
  <2>4. Secret("r", c)' = s /\ Secret("i", c)' = s /\ Agreed(c)'
    <3>1. Secret("r", c)' = s /\ Secret("i", c)' = s
      BY <1>1, <1>3, <2>2, <2>3, Zenon DEF Secret, ChannelInput
    <3> QED
      BY <1>1, <2>2, <2>3, <3>1, Zenon DEF Agreed
  <2>5. PICK f : f = FinishOf(s) /\ Send(c, o, <<f>>)
    BY <1>1, <1>3, <1>4, Zenon DEF ResponderConfirms, FinishOf
  <2>6. f \in Genuine(o, c)'
    BY <1>1, <2>2, <2>4, <2>5, Zenon DEF Genuine, FromResponder
  <2>7. <<f>> \in Seq(Genuine(o, c)') /\ Len(<<f>>) = 1
    BY <2>6
  <2>8. Sent(o, hs[e][c].pc) + Len(<<f>>) <= Sent(o, "write")
    BY <1>2, <2>1, <2>7, Zenon
  <2>9. Sends(o, c)
    BY <1>1, <2>2, <2>5, <2>7, <2>8, SendingStays, Zenon
  <2> QED
    BY <1>1, <1>2, <1>4, <2>1, <2>4, <2>9, GoesKeepsFlights, Zenon
<1>5. CASE Fail("r", c, "key-confirmation") /\ UNCHANGED wire
  BY <1>1, <1>2, <1>5, FailKeepsFlights, Zenon DEF Sends
<1> QED
  BY <1>3, <1>4, <1>5, Zenon DEF ResponderConfirms

\* The initiator accepts only the last flight of a responder that accepted its
\* own (performHandshakeCore).
LEMMA InitiatorFinishesKeepsFlights ==
  ASSUME LeaseInv, FlightInv, NEW c \in Conns, InitiatorFinishes(c)
  PROVE  FlightInv'
<1>1. PICK e \in Ends, o \in Ends : e = "i" /\ o = "r" /\ o = Other(e) /\ o # e
  BY Zenon DEF Ends, Other
<1>2. Receives(e, c, "finish") /\ hs[e][c].pc = "finish" /\ "finish" \in Waiting /\ "finish" \in Running
  BY <1>1, Zenon DEF InitiatorFinishes, Receives, Waiting, Running
<1>3. Sends(o, c)
  BY Zenon DEF InitiatorFinishes, Sends
<1>4. PICK s, m, n : s = Secret("i", c) /\ m = MacResponder(s) /\ n = MacInitiator(s, m)
  BY Zenon
<1>5. CASE Taken("i").mac = MacFinish(s, m, n) /\ Goes("i", c, "write")
  <2>1. Sent(o, "finish") <= Sent(o, "write") /\ Took(e, "write") = Took(e, "finish") + 1
    BY <1>1, StageCounts, Zenon
  <2>2. Taken("i") \in FromResponder(c)
    BY <1>1, <1>2, TakenIsGenuine, Zenon DEF Genuine
  <2>3. Taken("i") # Hello /\ Taken("i") # Confirm(MacResponder(Secret("r", c)))
    BY <1>5, MacsOpen DEF Hello, Confirm
  <2>4. Agreed(c)
    BY <2>2, <2>3 DEF FromResponder, FinishOf, Finish
  <2>5. Agreed(c)'
    <3>1. Forward(c)
      <4>1. Advances(e, c, "finish", "write")
        BY <1>1, <1>2, <1>5, <2>1, GoesGives, Zenon
      <4> QED
        BY <4>1, Zenon DEF Advances
    <3> QED
      BY <2>4, <3>1, GenuineGrows, Zenon
  <2> QED
    BY <1>1, <1>2, <1>3, <1>5, <2>1, <2>5, GoesKeepsFlights
<1>6. CASE Fail("i", c, "final-confirmation")
  BY <1>1, <1>2, <1>3, <1>6, FailKeepsFlights, Zenon
<1> QED
  BY <1>4, <1>5, <1>6, Zenon DEF InitiatorFinishes

\* The activation: the channel of an attempt that finished the core is open,
\* so the status it shows is that of a live connection (runHandshake).
LEMMA SuccessKeepsFlights ==
  ASSUME LeaseInv, FlightInv, NEW e \in Ends, NEW c \in Conns, Succeeds(e, c)
  PROVE  FlightInv'
<1>1. /\ Shapes /\ At(e, c, "open") /\ hs[e][c].pc = "write" /\ "open" \in Stages /\ Other(e) \in Ends
      /\ UNCHANGED <<policy, reg, closed, wire, late>>
  BY TwoEnds, Zenon DEF LeaseInv, Succeeds, Stages
<1>2. /\ hs'[e][c].pc = "open" /\ \A x \in Ends, d \in Conns : x # e \/ d # c => hs'[x][d] = hs[x][d]
      /\ reg[e] = c /\ inbox'[e].lease = 0 /\ keys'[e] = c /\ status'[e] = "authenticated"
      /\ \A x \in Ends : x # e => keys'[x] = keys[x] /\ inbox'[x] = inbox[x] /\ status'[x] = status[x]
  <2>1. Succeeded(e, c)
    BY SuccessGives, Zenon
  <2> QED
    BY <2>1, Zenon DEF Succeeded
<1>3. \A d \in Conns : Forward(d)
  <2>1. Sent(Other(e), hs[e][c].pc) <= Sent(Other(e), "open")
    BY <1>1 DEF Sent
  <2> QED
    BY <1>1, <2>1, AtForward, Zenon DEF Past
<1>4. Derived(e, c) /\ ~closed[e] /\ c # 0
  <2>1. Derived(e, c) /\ Counted(e, c) /\ c # 0
    BY <1>1 DEF Derived, FlightInv, Conns
  <2> QED
    BY <1>2, <2>1, Zenon DEF Counted
<1>5. Kept(e, c)
  BY <1>1, <1>2, <1>4, Zenon DEF Kept
<1>6. \A x \in Ends, d \in Conns : x # e \/ d # c => Kept(x, d)
  <2> SUFFICES ASSUME NEW x \in Ends, NEW d \in Conns, x # e \/ d # c PROVE Kept(x, d)
    BY Zenon
  <2>1. Aside(e, c) /\ wire'[d][x] = wire[d][x]
    BY <1>1, <1>2, Zenon DEF Aside
  <2> QED
    BY <1>1, <2>1, ElsewhereKept, Zenon
<1>7. \A x \in Ends : Statuses(x)'
  BY <1>1, <1>2, <1>4 DEF FlightInv, Statuses
<1>8. \A x \in Ends, d \in Conns : Derived(x, d)' => Derived(x, d)
  BY <1>2, <1>4, Zenon DEF Derived
<1> QED
  BY <1>3, <1>5, <1>6, <1>7, <1>8, FlightsFollow, Zenon

\* A failed installation: the connection is closed, so the keys need not show
\* (onopen of main).
LEMMA InstallFailsKeepsFlights ==
  ASSUME LeaseInv, FlightInv, NEW e \in Ends, NEW c \in Conns, InstallFails(e, c)
  PROVE  FlightInv'
<1>1. Shapes /\ At(e, c, "failed") /\ hs[e][c].pc = "write" /\ "failed" \in Stages /\ Other(e) \in Ends /\ c # 0
  BY TwoEnds, ConnFacts, Zenon DEF LeaseInv, InstallFails, Stages
<1>2. /\ hs'[e][c].pc = "failed" /\ \A x \in Ends, d \in Conns : x # e \/ d # c => hs'[x][d] = hs[x][d]
      /\ reg[e] = c /\ inbox'[e].lease = 0 /\ keys'[e] = c /\ status'[e] = "failed" /\ closed'[e]
      /\ wire'[c][e] = << >> /\ \A d \in Conns, x \in Ends : d # c \/ x # e => wire'[d][x] = wire[d][x]
      /\ \A x \in Ends : x # e => /\ keys'[x] = keys[x] /\ inbox'[x] = inbox[x]
                                  /\ status'[x] = status[x] /\ closed'[x] = closed[x]
      /\ UNCHANGED <<policy, reg, late>>
  <2>1. Uninstalled(e, c)
    BY InstallFailsGives, Zenon
  <2> QED
    BY <2>1, Zenon DEF Uninstalled
<1>3. \A d \in Conns : Forward(d)
  <2>1. Sent(Other(e), hs[e][c].pc) <= Sent(Other(e), "failed")
    BY <1>1 DEF Sent
  <2> QED
    BY <1>1, <1>2, <2>1, AtForward, Zenon DEF Past
<1>4. Kept(e, c)
  BY <1>1, <1>2, Zenon DEF Kept, Derived
<1>5. \A x \in Ends, d \in Conns : x # e \/ d # c => Kept(x, d)
  <2> SUFFICES ASSUME NEW x \in Ends, NEW d \in Conns, x # e \/ d # c PROVE Kept(x, d)
    BY Zenon
  <2>1. Aside(e, c) /\ wire'[d][x] = wire[d][x]
    BY <1>1, <1>2, Zenon DEF Aside
  <2> QED
    BY <1>1, <2>1, ElsewhereKept, Zenon
<1>6. \A x \in Ends : Statuses(x)'
  <2> SUFFICES ASSUME NEW x \in Ends PROVE Statuses(x)'
    BY Zenon
  <2>1. CASE x = e
    <3>1. status'[x] = "failed" /\ closed'[x]
      BY <1>2, <2>1, Zenon
    <3> QED
      BY <3>1, Zenon DEF Statuses
  <2>2. CASE x # e
    <3>1. keys'[x] = keys[x] /\ status'[x] = status[x] /\ closed'[x] = closed[x] /\ late' = late
      BY <1>2, <2>2, Zenon
    <3> QED
      BY <3>1, Zenon DEF FlightInv, Statuses
  <2> QED
    BY <2>1, <2>2, Zenon
<1>7. \A x \in Ends, d \in Conns : Derived(x, d)' => Derived(x, d)
  BY <1>2, Zenon DEF Derived
<1> QED
  BY <1>3, <1>4, <1>5, <1>6, <1>7, FlightsFollow, Zenon

\* The report of a failure: if keys are installed, they are those of a newer
\* connection (the catch block of onopen).
LEMMA ReportKeepsFlights ==
  ASSUME LeaseInv, FlightInv, NEW e \in Ends, NEW c \in Conns, Report(e, c)
  PROVE  FlightInv'
<1>1. Shapes /\ At(e, c, "failed") /\ "failed" \in Stages /\ Other(e) \in Ends
  BY TwoEnds, Zenon DEF LeaseInv, Report, Stages
<1>2. /\ hs[e][c].pc = "report" /\ hs'[e][c].pc = "failed"
      /\ \A x \in Ends, d \in Conns : x # e \/ d # c => hs'[x][d] = hs[x][d]
      /\ status'[e] = "failed" /\ (late'[e] <=> late[e] \/ last[e] > c)
      /\ (closed'[e] <=> closed[e] \/ reg[e] = c) /\ closed[e] \in BOOLEAN /\ closed'[e] \in BOOLEAN
      /\ wire'[c][e] = << >> /\ \A d \in Conns, x \in Ends : d # c \/ x # e => wire'[d][x] = wire[d][x]
      /\ \A x \in Ends : x # e => status'[x] = status[x] /\ late'[x] = late[x] /\ closed'[x] = closed[x]
      /\ UNCHANGED <<policy, reg, inbox, keys>>
  <2>1. Reported(e, c)
    BY <1>1, ReportGives, Zenon
  <2>2. closed[e] \in BOOLEAN /\ closed'[e] \in BOOLEAN
    BY <1>1, <2>1, Zenon DEF Reported, Shapes
  <2> QED
    BY <2>1, <2>2, Zenon DEF Reported
<1>3. \A d \in Conns : Forward(d)
  <2>1. Sent(Other(e), hs[e][c].pc) <= Sent(Other(e), "failed")
    BY <1>1, <1>2 DEF Sent
  <2> QED
    BY <1>1, <1>2, <2>1, AtForward, Zenon DEF Past
<1>4. Kept(e, c)
  BY <1>2, Zenon DEF Kept, Took, Derived
<1>5. \A x \in Ends, d \in Conns : x # e \/ d # c => Kept(x, d)
  <2> SUFFICES ASSUME NEW x \in Ends, NEW d \in Conns, x # e \/ d # c PROVE Kept(x, d)
    BY Zenon
  <2>1. Aside(e, c) /\ wire'[d][x] = wire[d][x]
    BY <1>1, <1>2, Zenon DEF Aside
  <2> QED
    BY <1>1, <2>1, ElsewhereKept, Zenon
<1>6. ASSUME NEW x \in Ends PROVE Statuses(x)'
  <2>1. CASE x = e
    <3>1. keys[e] # 0 => last[e] > c
      <4>1. Leases(e) /\ last[e] \in Int /\ c \in Int /\ c <= last[e]
        <5>1. c <= last[e]
          BY <1>2, BegunIsMade, Zenon
        <5>2. last[e] \in 0 .. MaxConns
          BY <1>1, Zenon DEF Shapes
        <5> QED
          BY <5>1, <5>2 DEF LeaseInv, Conns
      <4>2. keys[e] # 0 => keys[e] # c /\ keys[e] = last[e]
        BY <1>2, <4>1, Zenon DEF Leases
      <4> QED
        BY <4>1, <4>2
    <3> QED
      BY <1>2, <2>1, <3>1, Zenon DEF Statuses
  <2>2. CASE x # e
    BY <1>2, <2>2 DEF FlightInv, Statuses
  <2> QED
    BY <2>1, <2>2, Zenon
<1>7. \A x \in Ends, d \in Conns : Derived(x, d)' => Derived(x, d)
  BY <1>2, Zenon DEF Derived
<1> QED
  BY <1>3, <1>4, <1>5, <1>6, <1>7, FlightsFollow, Zenon

\* An end that forgets its connection.
LEMMA ForgettingKeepsFlights ==
  ASSUME FlightInv, NEW e \in Ends, \A d \in Conns : Forward(d), reg'[e] = 0, inbox'[e].lease = 0,
         keys'[e] = 0, status'[e] # "authenticated",
         \A x \in Ends : x # e => /\ reg'[x] = reg[x] /\ closed'[x] = closed[x] /\ inbox'[x] = inbox[x]
                                   /\ keys'[x] = keys[x] /\ status'[x] = status[x] /\ late'[x] = late[x]
                                   /\ hs'[x] = hs[x],
         \A x \in Ends, d \in Conns : wire'[d][x] = wire[d][x] \/ wire'[d][x] = << >>,
         \A d \in Conns : Derived(e, d)' => Derived(e, d)
  PROVE  FlightInv'
<1>1. \A x \in Ends, d \in Conns : Derived(x, d)' => Derived(x, d)
  BY Zenon DEF Derived
<1>2. \A x \in Ends, d \in Conns : Kept(x, d)
  BY <1>1 DEF Kept, Conns
<1>3. \A x \in Ends : Statuses(x)'
  BY DEF FlightInv, Statuses
<1> QED
  BY <1>1, <1>2, <1>3, FlightsFollow, Zenon

\* A step that moves no attempt.
LEMMA StillForward ==
  ASSUME UNCHANGED <<policy, hs>>
  PROVE  \A d \in Conns : Forward(d)
<1>1. ASSUME NEW x \in Ends, NEW q PROVE Sent(Other(x), q) <= Sent(Other(x), q)
  BY SentGrows, Zenon
<1> QED
  BY <1>1, Zenon DEF Forward

\* A lost peer is forgotten with its status (disconnectFromPeer).
LEMMA DisconnectKeepsFlights ==
  ASSUME LeaseInv, FlightInv, NEW e \in Ends, reg[e] # 0, DisconnectFromPeer(e)
  PROVE  FlightInv'
<1>1. PICK k \in Conns : k = reg[e] /\ Line(k, e, << >>)
  <2>1. reg[e] \in 0 .. MaxConns
    BY Zenon DEF LeaseInv, Shapes
  <2>2. PICK k : k = reg[e]
    BY Zenon
  <2>3. k \in Conns
    BY <2>1, <2>2 DEF Conns
  <2>4. Line(k, e, << >>)
    BY <2>2, Zenon DEF DisconnectFromPeer, Line
  <2> QED
    BY <2>2, <2>3, <2>4, Zenon
<1>2. \A x \in Ends, d \in Conns : wire'[d][x] = wire[d][x] \/ wire'[d][x] = << >>
  <2>1. Shapes
    BY Zenon DEF LeaseInv
  <2> QED
    BY <1>1, <2>1, LineChanges
<1>3. /\ reg \in [Ends -> 0 .. MaxConns] /\ closed \in [Ends -> BOOLEAN] /\ keys \in [Ends -> 0 .. MaxConns]
      /\ inbox = [x \in Ends |-> inbox[x]] /\ status = [x \in Ends |-> status[x]]
  BY Zenon DEF LeaseInv, Shapes
<1>4. reg'[e] = 0 /\ keys'[e] = 0 /\ \A x \in Ends : x # e => reg'[x] = reg[x] /\ closed'[x] = closed[x] /\ keys'[x] = keys[x]
  BY <1>3, Zenon DEF DisconnectFromPeer
<1>5. inbox'[e].lease = 0 /\ \A x \in Ends : x # e => inbox'[x] = inbox[x]
  BY <1>3, Zenon DEF DisconnectFromPeer, NoInbox
<1>6. status'[e] # "authenticated" /\ \A x \in Ends : x # e => status'[x] = status[x]
  BY <1>3, Zenon DEF DisconnectFromPeer
<1>7. UNCHANGED <<policy, hs, late>> /\ \A d \in Conns : Derived(e, d)' => Derived(e, d)
  BY Zenon DEF DisconnectFromPeer, Derived
<1> QED
  BY <1>2, <1>4, <1>5, <1>6, <1>7, StillForward, ForgettingKeepsFlights, Zenon

\* A reload ends every attempt of the page (connect of a new page).
LEMMA RestartKeepsFlights ==
  ASSUME LeaseInv, FlightInv, NEW e \in Ends, Restart(e)
  PROVE  FlightInv'
<1>1. PICK k \in Conns : k = reg[e] /\ Line(k, e, << >>)
  <2>1. reg[e] \in 0 .. MaxConns /\ reg[e] # 0
    BY Zenon DEF LeaseInv, Shapes, Restart
  <2>2. PICK k : k = reg[e]
    BY Zenon
  <2>3. k \in Conns
    BY <2>1, <2>2 DEF Conns
  <2>4. Line(k, e, << >>)
    BY <2>2, Zenon DEF Restart, Line
  <2> QED
    BY <2>2, <2>3, <2>4, Zenon
<1>2. \A x \in Ends, d \in Conns : wire'[d][x] = wire[d][x] \/ wire'[d][x] = << >>
  <2>1. Shapes
    BY Zenon DEF LeaseInv
  <2> QED
    BY <1>1, <2>1, LineChanges
<1>3. /\ reg \in [Ends -> 0 .. MaxConns] /\ closed \in [Ends -> BOOLEAN] /\ keys \in [Ends -> 0 .. MaxConns]
      /\ inbox = [x \in Ends |-> inbox[x]] /\ status = [x \in Ends |-> status[x]] /\ late = [x \in Ends |-> late[x]]
  BY Zenon DEF LeaseInv, Shapes
<1>4. reg'[e] = 0 /\ keys'[e] = 0 /\ \A x \in Ends : x # e => reg'[x] = reg[x] /\ closed'[x] = closed[x] /\ keys'[x] = keys[x]
  BY <1>3, Zenon DEF Restart
<1>5. inbox'[e].lease = 0 /\ \A x \in Ends : x # e => inbox'[x] = inbox[x]
  BY <1>3, Zenon DEF Restart, NoInbox
<1>6. status'[e] # "authenticated" /\ \A x \in Ends : x # e => status'[x] = status[x] /\ late'[x] = late[x]
  BY <1>3, Zenon DEF Restart
<1>7. /\ policy' = policy /\ \A x \in Ends : x # e => hs'[x] = hs[x]
      /\ \A d \in Conns : hs'[e][d].pin = hs[e][d].pin
      /\ \A d \in Conns : hs'[e][d].pc = IF hs[e][d].pc \in Running THEN "failed" ELSE hs[e][d].pc
  <2>1. hs \in HsType
    BY Zenon DEF LeaseInv, Shapes, HsType
  <2>2. hs' = [hs EXCEPT ![e] = [c \in Conns |-> IF hs[e][c].pc \in Running
                                                  THEN [hs[e][c] EXCEPT !.pc = "failed"] ELSE hs[e][c]]]
    BY Zenon DEF Restart
  <2>3. \A d \in Conns : hs'[e][d] = IF hs[e][d].pc \in Running THEN [hs[e][d] EXCEPT !.pc = "failed"] ELSE hs[e][d]
    BY <2>1, <2>2, Zenon DEF HsType
  <2>4. \A d \in Conns : hs[e][d] \in [pc : Stages, pin : Pins]
    BY <2>1, Zenon DEF HsType
  <2>5. \A d \in Conns : /\ hs'[e][d].pin = hs[e][d].pin
                          /\ hs'[e][d].pc = IF hs[e][d].pc \in Running THEN "failed" ELSE hs[e][d].pc
    BY <2>3, <2>4, Zenon
  <2>6. \A x \in Ends : x # e => hs'[x] = hs[x]
    BY <2>1, <2>2, Zenon DEF HsType
  <2> QED
    BY <2>5, <2>6, Zenon DEF Restart
<1>8. \A d \in Conns : Forward(d)
  <2>1. ASSUME NEW x \in Ends, NEW q PROVE Sent(Other(x), q) <= Sent(Other(x), q) /\ Sent(Other(x), q) <= Sent(Other(x), "failed")
    BY SentGrows, Zenon
  <2>2. "r" \in Ends
    BY Zenon DEF Ends
  <2> QED
    BY <1>7, <2>1, <2>2 DEF Forward, Past
<1>9. \A d \in Conns : Derived(e, d)' => Derived(e, d)
  BY <1>7, Zenon DEF Derived
<1> QED
  BY <1>2, <1>4, <1>5, <1>6, <1>7, <1>8, <1>9, ForgettingKeepsFlights, Zenon

\* A step that moves no attempt and touches no frame, inbox or status.
LEMMA QuietKeepsFlights ==
  ASSUME FlightInv, UNCHANGED <<policy, reg, closed, inbox, wire, hs, keys, status, late>>
  PROVE  FlightInv'
<1>1. \A x \in Ends, d \in Conns : Kept(x, d) /\ (Derived(x, d)' => Derived(x, d))
  BY Zenon DEF Kept, Derived
<1>2. \A x \in Ends : Statuses(x)'
  BY Zenon DEF FlightInv, Statuses
<1> QED
  BY <1>1, <1>2, StillForward, FlightsFollow, Zenon

\* A new connection starts empty, and replaces one that was closed, so none
\* that shows as authenticated (handleConnectToPeer).
LEMMA ConnectKeepsFlights ==
  ASSUME LeaseInv, FlightInv, NEW e \in Ends, Connect(e)
  PROVE  FlightInv'
<1>1. PICK c \in Conns :
        /\ c > last[e] /\ (reg[e] = 0 \/ closed[e])
        /\ reg' = [reg EXCEPT ![e] = c] /\ closed' = [closed EXCEPT ![e] = FALSE]
        /\ inbox' = [inbox EXCEPT ![e] = SetHandshakeChannel(c)] /\ keys' = [keys EXCEPT ![e] = 0]
        /\ UNCHANGED <<policy, wire, hs, status, late>>
  <2>1. last[e] \in Int /\ last[Other(e)] \in Int
    BY TwoEnds DEF LeaseInv, Shapes
  <2>2. PICK c : c = IF last[Other(e)] > last[e] THEN last[Other(e)] ELSE last[e] + 1
    BY Zenon
  <2>3. c > last[e]
    BY <2>1, <2>2
  <2> QED
    BY <2>2, <2>3, Zenon DEF Connect
<1>2. /\ reg = [x \in Ends |-> reg[x]] /\ closed = [x \in Ends |-> closed[x]] /\ keys = [x \in Ends |-> keys[x]]
      /\ inbox = [x \in Ends |-> inbox[x]]
  BY Zenon DEF LeaseInv, Shapes
<1>3. /\ reg'[e] = c /\ ~closed'[e] /\ keys'[e] = 0
      /\ \A x \in Ends : x # e => reg'[x] = reg[x] /\ closed'[x] = closed[x] /\ keys'[x] = keys[x]
  BY <1>1, <1>2, Zenon
<1>4. inbox'[e].lease = c /\ inbox'[e].queue = << >> /\ \A x \in Ends : x # e => inbox'[x] = inbox[x]
  BY <1>1, <1>2, Zenon DEF SetHandshakeChannel, NoInbox
<1>5. hs[e][c].pc = "off" /\ wire[c][e] = << >>
  BY <1>1, Zenon DEF LeaseInv, Fresh
<1>6. Authentic(e, c)' /\ Counted(e, c)'
  <2>1. Took(e, "off") = 0 /\ Len(<< >>) = 0 /\ ~Derived(e, c)'
    BY <1>1, <1>5, Zenon DEF Took, Derived
  <2>2. 0 + 0 + 0 <= Sent(e, hs'[Other(e)][c].pc)
    <3>1. PICK n \in Nat : n = Sent(e, hs'[Other(e)][c].pc)
      BY CountsTyped, Zenon
    <3> QED
      BY <3>1
  <2>3. wire'[c][e] = << >> /\ inbox'[e].queue = << >> /\ Took(e, hs'[e][c].pc) = 0
    BY <1>1, <1>4, <1>5, <2>1, Zenon
  <2>4. Authentic(e, c)'
    BY <2>3 DEF Authentic
  <2>5. Took(e, hs'[e][c].pc) + Len(inbox'[e].queue) + Len(wire'[c][e]) = 0 + 0 + 0
    BY <2>1, <2>3, Zenon
  <2>6. Counted(e, c)'
    BY <2>1, <2>2, <2>5, Zenon DEF Counted
  <2> QED
    BY <2>4, <2>6, Zenon
<1>7. \A x \in Ends, d \in Conns : x # e \/ d # c => Kept(x, d)
  BY <1>1, <1>3, <1>4, Zenon DEF Kept, Derived
<1>8. ASSUME NEW x \in Ends PROVE Statuses(x)'
  <2>1. CASE x = e
    <3>1. status[e] # "authenticated"
      BY <1>1, Zenon DEF FlightInv, LeaseInv, Statuses, Leases
    <3> QED
      BY <1>1, <1>3, <2>1, <3>1, Zenon DEF Statuses
  <2>2. CASE x # e
    BY <1>1, <1>3, <2>2, Zenon DEF FlightInv, Statuses
  <2> QED
    BY <2>1, <2>2, Zenon
<1>9. \A x \in Ends, d \in Conns : Derived(x, d)' => Derived(x, d)
  BY <1>1, Zenon DEF Derived
<1>10. \A d \in Conns : Forward(d)
  BY <1>1, StillForward, Zenon
<1> QED
  BY <1>6, <1>7, <1>8, <1>9, <1>10, FlightsFollow, Zenon

\* An attempt starts, or is throttled: nothing was sent by it, and no keys of
\* its connection are installed (onopen of main).
LEMMA OnOpenKeepsFlights ==
  ASSUME LeaseInv, FlightInv, NEW e \in Ends, NEW c \in Conns, OnOpen(e, c)
  PROVE  FlightInv'
<1>1. Shapes /\ Leases(e) /\ hs[e][c].pc = "off" /\ reg[e] = c
  BY Zenon DEF LeaseInv, OnOpen
<1>2. PICK p \in {"report", "prepare"} : p = IF Throttled(e) THEN "report" ELSE "prepare"
  BY Zenon
<1>3. /\ hs'[e][c].pc = p
      /\ \A x \in Ends, d \in Conns : x # e \/ d # c => hs'[x][d] = hs[x][d]
  <2>1. hs \in HsType
    BY <1>1, Zenon DEF Shapes, HsType
  <2>2. hs' = [hs EXCEPT ![e] = [hs[e] EXCEPT ![c] = [pc |-> p, pin |-> pin[e]]]]
    BY <1>2, Zenon DEF OnOpen
  <2> QED
    BY <2>1, <2>2, Zenon DEF HsType
<1>4. /\ p = "report" => inbox'[e].lease # c
      /\ inbox'[e] = inbox[e] \/ inbox'[e].lease = 0
      /\ \A x \in Ends : x # e => inbox'[x] = inbox[x]
  <2>1. CASE Throttled(e)
    <3>1. Abandon(e, c)
      BY <2>1, Zenon DEF OnOpen
    <3> QED
      BY <1>1, <3>1, AbandonGives
  <2>2. CASE ~Throttled(e)
    BY <1>2, <2>2, Zenon DEF OnOpen
  <2> QED
    BY <2>1, <2>2, Zenon
<1>5. UNCHANGED <<policy, reg, closed, wire, keys, late>>
  BY Zenon DEF OnOpen
<1>6. status'[e] = "authenticating" /\ \A x \in Ends : x # e => status'[x] = status[x]
  BY <1>1, Zenon DEF OnOpen, Shapes
<1>7. ASSUME NEW d \in Conns PROVE Forward(d)
  <2>1. ASSUME NEW x \in Ends, NEW q PROVE Sent(Other(x), q) <= Sent(Other(x), q) /\ Sent(Other(x), "off") <= Sent(Other(x), q)
    BY SentGrows, Zenon
  <2>2. hs["r"][d].pc \in Past => hs'["r"][d].pc \in Past
    BY <1>1, <1>3, Zenon DEF Past, Ends
  <2>3. \A x \in Ends : hs[x][d].pc # "off" => hs'[x][d] = hs[x][d]
    BY <1>1, <1>3, Zenon
  <2>4. \A x \in Ends : Sent(Other(x), hs[x][d].pc) <= Sent(Other(x), hs'[x][d].pc)
    BY <1>1, <1>3, <2>1, Zenon
  <2> QED
    BY <1>5, <2>2, <2>3, <2>4, Zenon DEF Forward
<1>8. \A x \in Ends, d \in Conns : Derived(x, d)' => Derived(x, d)
  BY <1>3, Zenon DEF Derived
<1>9. ASSUME NEW x \in Ends, NEW d \in Conns PROVE Kept(x, d)
  <2>1. Took(e, "off") = 0 /\ Took(e, "report") = 0 /\ Took(e, "prepare") = 0
    BY Zenon DEF Took
  <2>2. Took(x, hs'[x][d].pc) = Took(x, hs[x][d].pc) /\ d # 0
    BY <1>1, <1>3, <2>1 DEF Conns
  <2> QED
    BY <1>4, <1>5, <1>8, <2>2, Zenon DEF Kept
<1>10. ASSUME NEW x \in Ends PROVE Statuses(x)'
  <2>1. CASE x = e
    <3>1. keys[e] = 0
      BY <1>1, Zenon DEF Leases
    <3> QED
      BY <1>5, <1>6, <2>1, <3>1, Zenon DEF Statuses
  <2>2. CASE x # e
    BY <1>5, <1>6, <2>2, Zenon DEF FlightInv, Statuses
  <2> QED
    BY <2>1, <2>2, Zenon
<1> QED
  BY <1>7, <1>8, <1>9, <1>10, FlightsFollow, Zenon

\* A frame comes in (deliverHandshakeFrame): from the channel into the queue,
\* or it closes the channel.  To an attempt that has finished the core none
\* comes.
LEMMA DeliverKeepsFlights ==
  ASSUME LeaseInv, FlightInv, NEW e \in Ends, NEW c \in Conns, DeliverHandshakeFrame(e, c)
  PROVE  FlightInv'
<1>1. /\ Shapes /\ Leases(e) /\ Authentic(e, c) /\ Counted(e, c) /\ Statuses(e)
      /\ wire[c][e] # << >> /\ reg[e] = c /\ ~closed[e] /\ Line(c, e, Tail(wire[c][e]))
      /\ UNCHANGED <<policy, reg, hs, keys, status, late>>
  BY Zenon DEF LeaseInv, FlightInv, DeliverHandshakeFrame, Line
<1>2. wire'[c][e] = Tail(wire[c][e]) /\ \A x \in Ends, d \in Conns : x # e \/ d # c => wire'[d][x] = wire[d][x]
  <2>1. PICK line : line = Tail(wire[c][e]) /\ Line(c, e, line)
    BY <1>1, Zenon
  <2>2. Shapes
    BY <1>1, Zenon
  <2>3. wire'[c][e] = line /\ \A d \in Conns, x \in Ends : d # c \/ x # e => wire'[d][x] = wire[d][x]
    BY <2>1, <2>2, LineChanges
  <2> QED
    BY <2>1, <2>3, Zenon
<1>3. \A x \in Ends : x # e => closed'[x] = closed[x] /\ inbox'[x] = inbox[x]
  BY <1>1, Zenon DEF DeliverHandshakeFrame, Shapes
<1>4. \/ inbox[e].lease = c /\ inbox'[e].lease = c /\ inbox'[e].queue = Append(inbox[e].queue, Head(wire[c][e]))
      \/ inbox'[e].lease # c /\ (inbox'[e] = inbox[e] \/ inbox'[e].lease = 0)
  <2>1. PICK b, ok, n : /\ b = inbox[e] /\ (ok => b.lease = c)
                        /\ inbox' = [inbox EXCEPT ![e] = IF ok THEN [b EXCEPT !.next = n, !.queue = Append(@, Head(wire[c][e]))]
                                                         ELSE ClearInbox(b, c)]
    BY Zenon DEF DeliverHandshakeFrame
  <2>2. b \in [lease : 0 .. MaxConns, next : 1 .. 4, queue : Queues] /\ inbox = [x \in Ends |-> inbox[x]]
    BY <1>1, <2>1, Zenon DEF Shapes
  <2>3. inbox'[e] = IF ok THEN [b EXCEPT !.next = n, !.queue = Append(@, Head(wire[c][e]))] ELSE ClearInbox(b, c)
    BY <2>1, <2>2, Zenon
  <2>4. CASE ok
    BY <2>1, <2>2, <2>3, <2>4, Zenon
  <2>5. CASE ~ok
    <3>1. NoInbox.lease = 0
      BY DEF NoInbox
    <3> QED
      BY <2>1, <2>3, <2>5, <3>1, ConnFacts, Zenon DEF ClearInbox
  <2> QED
    BY <2>4, <2>5, Zenon
<1>5. PICK S : S = Genuine(e, c)' /\ wire[c][e] \in Seq(S) /\ (inbox[e].lease = c => inbox[e].queue \in Seq(S))
  <2>1. Genuine(e, c) \subseteq Genuine(e, c)'
    BY <1>1, StillForward, GenuineGrows, Zenon
  <2> QED
    BY <1>1, <2>1, SeqWiden DEF Authentic
<1>6. PICK l \in Nat : Len(wire[c][e]) = l + 1 /\ Len(wire'[c][e]) = l
  <2>1. Len(wire[c][e]) \in Nat \ {0} /\ Len(Tail(wire[c][e])) = Len(wire[c][e]) - 1
    BY <1>1, <1>5
  <2>2. PICK n \in Nat \ {0} : n = Len(wire[c][e])
    BY <2>1, Zenon
  <2>3. n - 1 \in Nat /\ n = (n - 1) + 1
    OBVIOUS
  <2> QED
    BY <1>2, <2>1, <2>2, <2>3, Zenon
<1>7. ~Derived(e, c) /\ status[e] # "authenticated"
  <2>1. ~Derived(e, c)
    BY <1>1, <1>6 DEF Counted
  <2> QED
    BY <1>1, <2>1, Zenon DEF Statuses, Leases, Derived
<1>8. Authentic(e, c)' /\ Counted(e, c)'
  <2>1. wire'[c][e] \in Seq(S) /\ Head(wire[c][e]) \in S
    BY <1>1, <1>2, <1>5, SeqEnds, Zenon
  <2>2. CASE inbox'[e].lease # c
    BY <1>1, <1>5, <1>7, <2>1, <2>2, Zenon DEF Authentic, Counted, Derived
  <2>3. CASE inbox[e].lease = c /\ inbox'[e].queue = Append(inbox[e].queue, Head(wire[c][e]))
    <3>1. inbox[e].queue \in Seq(S)
      BY <1>5, <2>3, Zenon
    <3>2. PICK q \in Nat : q = Len(inbox[e].queue) /\ Len(inbox'[e].queue) = q + 1 /\ inbox'[e].queue \in Seq(S)
      <4>1. PICK old, new : old = inbox[e].queue /\ new = Head(wire[c][e])
        BY Zenon
      <4>2. old \in Seq(S) /\ new \in S
        BY <2>1, <3>1, <4>1, Zenon
      <4>3. Append(old, new) \in Seq(S) /\ Len(old) \in Nat /\ Len(Append(old, new)) = Len(old) + 1
        BY <4>2, Appended, Zenon
      <4> QED
        BY <2>3, <4>1, <4>3, Zenon
    <3>3. PICK t \in Nat, n \in Nat : t = Took(e, hs[e][c].pc) /\ n = Sent(e, hs[Other(e)][c].pc)
      BY CountsTyped, Zenon
    <3>4. t + q + (l + 1) <= n
      BY <1>1, <1>6, <2>3, <3>2, <3>3, Zenon DEF Counted
    <3>5. t + (q + 1) + l <= n
      BY <3>4
    <3> QED
      BY <1>1, <1>5, <1>6, <1>7, <2>1, <3>2, <3>3, <3>5, Zenon DEF Authentic, Counted, Derived
  <2> QED
    BY <1>4, <2>2, <2>3, Zenon
<1>9. ASSUME NEW x \in Ends, NEW d \in Conns, x # e \/ d # c
      PROVE  Kept(x, d)
  <2>1. d # 0
    BY DEF Conns
  <2>2. inbox'[x].lease = d => inbox'[x] = inbox[x]
    BY <1>3, <1>4, <1>9, <2>1, Zenon
  <2>3. reg'[x] = d => closed'[x] = closed[x]
    BY <1>1, <1>3, <1>9, Zenon
  <2> QED
    BY <1>1, <1>2, <1>9, <2>2, <2>3, Zenon DEF Kept, Derived
<1>10. \A x \in Ends : Statuses(x)'
  BY <1>1, <1>3, <1>7, Zenon DEF FlightInv, Statuses
<1>11. \A x \in Ends, d \in Conns : Derived(x, d)' => Derived(x, d)
  BY <1>1, Zenon DEF Derived
<1>12. \A d \in Conns : Forward(d)
  BY <1>1, StillForward, Zenon
<1> QED
  BY <1>8, <1>9, <1>10, <1>11, <1>12, FlightsFollow, Zenon

\* The steps of the attempts and of main's handlers.
LEMMA StepKeepsFlights ==
  ASSUME LeaseInv, FlightInv, NEW e \in Ends, NEW c \in Conns, Step(e, c) \/ RecvEnds(e, c)
  PROVE  FlightInv'
<1>1. ASSUME Fail(e, c, "transport"), UNCHANGED wire, hs[e][c].pc \in Running
      PROVE  FlightInv'
  BY <1>1, FailKeepsFlights, Zenon DEF Sends
<1>2. CASE Prepare(e, c)
  BY <1>1, <1>2, FirstFlightKeepsFlights, Zenon DEF Prepare, Running
<1>3. CASE RecvEnds(e, c)
  BY <1>1, <1>3, Zenon DEF RecvEnds, Running
<1>4. CASE Activate(e, c)
  <2>1. hs[e][c].pc \in Running
    BY <1>4, Zenon DEF Activate, Running
  <2>2. CASE Succeeds(e, c)
    BY <2>2, SuccessKeepsFlights, Zenon
  <2> QED
    BY <1>1, <1>4, <2>1, <2>2, Zenon DEF Activate, Succeeds
<1>5. CASE OnOpen(e, c) \/ DeliverHandshakeFrame(e, c) \/ InstallFails(e, c) \/ Report(e, c)
  BY <1>5, OnOpenKeepsFlights, DeliverKeepsFlights, InstallFailsKeepsFlights, ReportKeepsFlights, Zenon
<1>6. CASE ReceiveHello(e, c) \/ InitiatorConfirms(c) \/ InitiatorFinishes(c) \/ ResponderConfirms(c)
  BY <1>6, ReceiveHelloKeepsFlights, InitiatorConfirmsKeepsFlights, InitiatorFinishesKeepsFlights,
     ResponderConfirmsKeepsFlights, Zenon
<1> QED
  BY <1>2, <1>3, <1>4, <1>5, <1>6, Zenon DEF Step

\* At the start nothing was sent.
LEMMA InitFlights == Init => FlightInv
<1>1. SUFFICES ASSUME Init PROVE FlightInv
  BY Zenon
<1>2. \A x \in Ends, d \in Conns : wire[d][x] = << >> /\ hs[x][d].pc = "off" /\ ~Derived(x, d)
  BY <1>1, Zenon DEF Init, Derived
<1>3. \A x \in Ends : inbox[x].lease = 0 /\ keys[x] = 0 /\ status[x] = "none"
  BY <1>1, Zenon DEF Init, NoInbox
<1>4. ASSUME NEW x \in Ends, NEW d \in Conns
      PROVE  Authentic(x, d) /\ Counted(x, d)
  <2>1. d # 0
    BY DEF Conns
  <2>2. << >> \in Seq(Genuine(x, d))
    OBVIOUS
  <2>3. Authentic(x, d)
    BY <1>2, <1>3, <2>1, <2>2, Zenon DEF Authentic
  <2> QED
    BY <1>2, <1>3, <2>1, <2>3, Zenon DEF Counted
<1> QED
  BY <1>2, <1>3, <1>4, Zenon DEF FlightInv, Statuses

\* Every step of either end, of time and of the user keeps the flights.
LEMMA NextKeepsFlights ==
  ASSUME LeaseInv, FlightInv, [Next]_vars
  PROVE  FlightInv'
<1>1. CASE UNCHANGED vars
  BY <1>1, QuietKeepsFlights, Zenon DEF vars
<1>2. CASE Tick
  BY <1>2, QuietKeepsFlights, Zenon DEF Tick
<1>3. ASSUME NEW e \in Ends, EnterPin(e)
      PROVE  FlightInv'
  BY <1>3, QuietKeepsFlights, Zenon DEF EnterPin
<1>4. ASSUME NEW e \in Ends, Connect(e) \/ Restart(e)
      PROVE  FlightInv'
  BY <1>4, ConnectKeepsFlights, RestartKeepsFlights, Zenon
<1>5. ASSUME NEW e \in Ends, ConnectionLost(e) \/ UserDisconnects(e)
      PROVE  FlightInv'
  BY <1>5, DisconnectKeepsFlights, Zenon DEF ConnectionLost, UserDisconnects, Lost
<1>6. ASSUME NEW e \in Ends, NEW c \in Conns, Step(e, c) \/ RecvEnds(e, c)
      PROVE  FlightInv'
  BY <1>6, StepKeepsFlights, Zenon
<1> QED
  BY <1>1, <1>2, <1>3, <1>4, <1>5, <1>6, Zenon DEF Next

\* At every moment the frames on their way to an end are the other end's own,
\* and no more than it has sent; an attempt that has finished the core finds
\* its channel open and empty (performHandshakeCore, onmessage of main).
THEOREM FlightInvariant == Spec => []FlightInv
  BY InitFlights, NextKeepsFlights, LeaseInvariant, PTL DEF Spec

\* The status shown is that of the gate, unless an attempt that had already
\* been replaced reported its failure (setPeerHandshakeStatus).
THEOREM OnlyLateFailuresTheorem == Spec => []OnlyLateFailuresMislabel
<1>1. LeaseInv /\ FlightInv => OnlyLateFailuresMislabel
  <2>1. SUFFICES ASSUME LeaseInv, FlightInv, NEW e \in Ends
                 PROVE  /\ status[e] = "authenticated" => gate[e].outcome = "open"
                        /\ keys[e] # 0 /\ ~closed[e] /\ ~late[e] => status[e] = "authenticated"
    BY Zenon DEF OnlyLateFailuresMislabel
  <2>2. Leases(e) /\ Statuses(e)
    BY <2>1, Zenon DEF LeaseInv, FlightInv
  <2> QED
    BY <2>2 DEF Leases, Statuses
<1> QED
  BY <1>1, LeaseInvariant, FlightInvariant, PTL

\* An end that finishes the core has the secret of the other, which confirmed
\* it, and the initiator finishes only after the responder
\* (performHandshakeCore).
THEOREM KeysAgreeTheorem == Spec => []KeysAgree
<1>1. FlightInv => KeysAgree
  BY Zenon DEF FlightInv, Agreed, KeysAgree, Ends
<1> QED
  BY <1>1, FlightInvariant, PTL
=============================================================================
