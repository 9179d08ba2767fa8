----------------------------- MODULE Handshake ------------------------------
(***************************************************************************)
(* The authentication of one room/peer edge: the connection each end keeps *)
(* for the other, the handshake inbox and the ratchet gate that its        *)
(* attempts lease, the three flights of performHandshakeCore on the main   *)
(* channel, the keys and the status a finished attempt leaves behind, and  *)
(* the PIN failures that throttle the next one.  "i" is the end whose      *)
(* identity sorts first: it opens the main channel.  A page may keep an    *)
(* attempt running long after its connection was replaced.                 *)
(***************************************************************************)
EXTENDS Integers, Sequences, FiniteSets

CONSTANTS
    Pins,         \* the PINs a user may enter
    MaxConns,     \* connections tried, numbered from 1
    MaxAttempts,  \* MAX_PIN_ATTEMPTS
    BackoffBase,  \* PIN_BACKOFF_BASE_MS
    BackoffMax,   \* PIN_BACKOFF_MAX_MS
    Window,       \* ROOM_PIN_FAILURE_WINDOW_MS
    WindowLimit,  \* MAX_ROOM_PIN_FAILURES_PER_WINDOW
    MaxFaults     \* lost connections, failed writes, restarts and user calls

ASSUME HandshakeAssumption ==
    /\ MaxConns \in Nat \ {0} /\ MaxAttempts \in Nat \ {0} /\ WindowLimit \in Nat \ {0}
    /\ BackoffBase \in Nat \ {0} /\ BackoffMax \in Nat /\ BackoffMax >= BackoffBase

Ends == {"i", "r"}
Other(e) == IF e = "i" THEN "r" ELSE "i"
Conns == 1 .. MaxConns
AnyPin == CHOOSE p \in Pins : TRUE     \* which one it is makes no difference

VARIABLES
    policy,   \* policy[e]: the room's authMode as end e has it
    pin,      \* pin[e]: the PIN in e's vault
    reg,      \* reg[e]: the connection e has registered for the other, or 0
    closed,   \* closed[e]: that connection is closed
    last,     \* last[e]: the newest connection e has made
    gate,     \* gate[e]: the ratchet gate, with the connection that leases it
    inbox,    \* inbox[e]: the handshake inbox, with the connection that leases it
    wire,     \* wire[c][e]: the frames on the main channel of c towards e
    hs,       \* hs[e][c]: where e's handshake on c is, and the PIN it uses
    keys,     \* keys[e]: the connection whose keys are installed, or 0
    status,   \* status[e]: handshakeStatusByPeer of the other
    bucket,   \* bucket[e]: the durable count of PIN failures and what is left of its backoff
    recent,   \* recent[e]: what is left in the window of each PIN failure of the room
    late,     \* late[e]: an attempt reported its failure after it was replaced
    faults

vars == <<policy, pin, reg, closed, last, gate, inbox, wire, hs, keys, status, bucket, recent, late, faults>>
attempts == <<bucket, recent>>

Waiting == {"hello", "confirm", "finish"}
Running == Waiting \cup {"prepare", "write", "report"}
Stages == Running \cup {"off", "open", "failed"}
NoInbox == [lease |-> 0, next |-> 1, queue |-> << >>]
NoBucket == [failures |-> 0, wait |-> 0]

TypeOK ==
    /\ policy \in [Ends -> {"pin", "nopin"}] /\ pin \in [Ends -> Pins]
    /\ reg \in [Ends -> 0 .. MaxConns] /\ closed \in [Ends -> BOOLEAN] /\ last \in [Ends -> 0 .. MaxConns]
    /\ gate \in [Ends -> [lease : 0 .. MaxConns, outcome : {"pending", "open", "rejected"}]]
    /\ \A e \in Ends : inbox[e].lease \in 0 .. MaxConns /\ inbox[e].next \in 1 .. 4 /\ Len(inbox[e].queue) <= 2
    /\ \A c \in Conns, e \in Ends : Len(wire[c][e]) <= 3
    /\ \A e \in Ends, c \in Conns : hs[e][c].pc \in Stages /\ hs[e][c].pin \in Pins
    /\ keys \in [Ends -> 0 .. MaxConns]
    /\ status \in [Ends -> {"none", "authenticating", "authenticated", "failed"}]
    /\ \A e \in Ends : bucket[e].failures \in 0 .. MaxConns /\ bucket[e].wait \in 0 .. BackoffMax
    /\ \A e \in Ends : Len(recent[e]) <= MaxConns
    /\ late \in [Ends -> BOOLEAN] /\ faults \in 0 .. MaxFaults

Fault == faults < MaxFaults /\ faults' = faults + 1
-----------------------------------------------------------------------------
\* The root secret e derives on c, from both HELLOs, the channel input with
\* its policy, and the PIN; and the three confirmations chained over it.
ChannelInput(e, c) == [conn |-> c, policy |-> policy[e]]
Secret(e, c) == [input |-> ChannelInput(e, c), pake |-> IF policy[e] = "pin" THEN hs[e][c].pin ELSE "-"]
Mac(domain, s, prior) == <<domain, s>> \o prior
MacResponder(s) == Mac("responder", s, << >>)
MacInitiator(s, macR) == Mac("initiator", s, <<macR>>)
MacFinish(s, macR, macI) == Mac("finish", s, <<macR, macI>>)

Hello == [step |-> 1, mac |-> << >>]
Confirm(mac) == [step |-> 2, mac |-> mac]
Finish(mac) == [step |-> 3, mac |-> mac]

\* pinBackoffMs, as fnIncrementPinAttemptState applies it.
PinBackoff(failures) ==
    LET delay == BackoffBase * 2 ^ (failures - MaxAttempts)
    IN IF failures < MaxAttempts THEN 0 ELSE IF delay \in 0 .. BackoffMax THEN delay ELSE BackoffMax

Throttled_Faulty(e) == policy[e] = "pin" /\ Len(recent[e]) >= WindowLimit

\* assertPinAttemptAllowed: the window of the room, then the peer's backoff.
Throttled(e) == policy[e] = "pin" /\ (Len(recent[e]) >= WindowLimit \/ bucket[e].wait > 0)

\* recordPinFailure: the room's window, then the identity's durable bucket.
RecordPinFailure(e) ==
    /\ recent' = [recent EXCEPT ![e] = Append(@, Window)]
    /\ bucket' = [bucket EXCEPT ![e] = [failures |-> @.failures + 1, wait |-> PinBackoff(@.failures + 1)]]

\* clearPinAttempts for the whole room, and for one identity.
ClearRoomPinAttempts(e) == bucket' = [bucket EXCEPT ![e] = NoBucket] /\ recent' = [recent EXCEPT ![e] = << >>]
ClearPinAttempts(e) == bucket' = [bucket EXCEPT ![e] = NoBucket] /\ UNCHANGED recent

\* resetRatchetGate for c; whether c still leases a gate that has not settled;
\* openRatchetGate and rejectRatchetGate by the attempt on c.
ResetGate(c) == [lease |-> c, outcome |-> "pending"]
Pending(g, c) == g.lease = c /\ g.outcome = "pending"
OpenGate(g, c) == IF Pending(g, c) THEN [g EXCEPT !.outcome = "open"] ELSE g
RejectGate(g, c) == IF Pending(g, c) THEN [g EXCEPT !.outcome = "rejected"] ELSE g

\* setHandshakeChannel for c, and clearHandshakeChannel by the attempt on c.
SetHandshakeChannel(c) == [NoInbox EXCEPT !.lease = c]
ClearInbox(b, c) == IF b.lease = c THEN NoInbox ELSE b

\* How runHandshake leaves when it throws.
Abandon(e, c) ==
    /\ gate' = [gate EXCEPT ![e] = RejectGate(@, c)]
    /\ inbox' = [inbox EXCEPT ![e] = ClearInbox(@, c)]

At(e, c, pc) == hs' = [hs EXCEPT ![e][c].pc = pc]
Send(c, to, frames) == wire' = [wire EXCEPT ![c][to] = IF closed[to] \/ reg[to] > c THEN << >> ELSE @ \o frames]

-----------------------------------------------------------------------------
Init ==
    /\ policy \in [Ends -> {"pin", "nopin"}]
    /\ pin \in [Ends -> Pins] /\ \A e \in Ends : e = "i" \/ policy[e] = "nopin" => pin[e] = AnyPin
    /\ reg = [e \in Ends |-> 0] /\ closed = [e \in Ends |-> FALSE] /\ last = [e \in Ends |-> 0]
    /\ gate = [e \in Ends |-> ResetGate(0)]
    /\ inbox = [e \in Ends |-> NoInbox] /\ wire = [c \in Conns |-> [e \in Ends |-> << >>]]
    /\ hs = [e \in Ends |-> [c \in Conns |-> [pc |-> "off", pin |-> pin[e]]]]
    /\ keys = [e \in Ends |-> 0] /\ status = [e \in Ends |-> "none"]
    /\ bucket = [e \in Ends |-> NoBucket] /\ recent = [e \in Ends |-> << >>]
    /\ late = [e \in Ends |-> FALSE] /\ faults = 0

\* webrtcBaseQuery and handleConnectToPeer, up to the configured main channel:
\* a closed connection is replaced, the gate and the inbox change owner.
Connect(e) ==
    LET o == Other(e)
        c == IF last[o] > last[e] THEN last[o] ELSE last[e] + 1
    IN /\ (reg[e] = 0 \/ closed[e]) /\ c \in Conns
       /\ reg' = [reg EXCEPT ![e] = c] /\ last' = [last EXCEPT ![e] = c] /\ closed' = [closed EXCEPT ![e] = FALSE]
       /\ gate' = [gate EXCEPT ![e] = ResetGate(c)]
       /\ inbox' = [inbox EXCEPT ![e] = SetHandshakeChannel(c)]
       /\ keys' = [keys EXCEPT ![e] = 0]
       /\ UNCHANGED <<policy, pin, wire, hs, status, attempts, late, faults>>

\* The main channel is open at both ends: onopen takes the PIN, and asks the
\* throttle whether it may start.
OnOpen(e, c) ==
    /\ hs[e][c].pc = "off" /\ \A x \in Ends : reg[x] = c /\ ~closed[x]
    /\ hs' = [hs EXCEPT ![e][c] = [pc |-> IF Throttled(e) THEN "report" ELSE "prepare", pin |-> pin[e]]]
    /\ status' = [status EXCEPT ![e] = "authenticating"]
    /\ IF Throttled(e) THEN Abandon(e, c) ELSE UNCHANGED <<gate, inbox>>
    /\ UNCHANGED <<policy, pin, reg, closed, last, wire, keys, attempts, late, faults>>

\* The catch blocks of runHandshake and of onopen up to their report: the
\* attempt gives up its gate and its inbox, and a failed key confirmation in a
\* PIN room counts.
Fail(e, c, why) ==
    /\ At(e, c, "report") /\ Abandon(e, c)
    /\ UNCHANGED <<policy, pin, reg, closed, last, keys, status, late>>
    /\ IF why = "key-confirmation" /\ policy[e] = "pin" THEN RecordPinFailure(e) ELSE UNCHANGED attempts

\* The rest of the catch block: the status, then the channel and the connection.
Report(e, c) ==
    /\ hs[e][c].pc = "report" /\ At(e, c, "failed")
    /\ status' = [status EXCEPT ![e] = "failed"]
    /\ late' = [late EXCEPT ![e] = @ \/ (last[e] > c)]
    /\ closed' = [closed EXCEPT ![e] = @ \/ reg[e] = c]
    /\ wire' = [wire EXCEPT ![c][e] = << >>]
    /\ UNCHANGED <<policy, pin, reg, last, gate, inbox, keys, attempts, faults>>

\* verifyDtlsFingerprints throws: a certificate is missing, or differs from the
\* one in the description.
FingerprintsDiffer == Fault

\* The initiator speaks first; the responder needs its session id.
FirstFlight(e, c) ==
    At(e, c, "hello") /\ IF e = "i" THEN Send(c, "r", <<Hello>>) ELSE UNCHANGED wire

\* runHandshake up to the core: the fingerprints and the inbox are there, or
\* the attempt fails.
Prepare(e, c) ==
    /\ hs[e][c].pc = "prepare"
    /\ \/ /\ inbox[e].lease = c /\ FirstFlight(e, c)
          /\ UNCHANGED <<policy, pin, reg, closed, last, gate, inbox, keys, status, attempts, late, faults>>
       \/ inbox[e].lease # c /\ Fail(e, c, "transport") /\ UNCHANGED <<wire, faults>>
       \/ inbox[e].lease = c /\ FingerprintsDiffer /\ Fail(e, c, "transport") /\ UNCHANGED wire

\* onmessage of main: a frame that is not the next step of the inbox's owner
\* empties the inbox and closes the channel.
DeliverHandshakeFrame(e, c) ==
    LET f == Head(wire[c][e])
        b == inbox[e]
        ok == b.lease = c /\ b.next = f.step
        after == IF b.next = 1 THEN 2 ELSE IF b.next = 2 /\ e = "i" THEN 3 ELSE 4
    IN /\ wire[c][e] # << >> /\ reg[e] = c /\ ~closed[e]
       /\ wire' = [wire EXCEPT ![c][e] = Tail(@)]
       /\ inbox' = [inbox EXCEPT ![e] = IF ok THEN [b EXCEPT !.next = after, !.queue = Append(@, f)] ELSE ClearInbox(b, c)]
       /\ closed' = [closed EXCEPT ![e] = @ \/ ~ok]
       /\ UNCHANGED <<policy, pin, reg, last, gate, hs, keys, status, attempts, late, faults>>

\* recv: the next frame of the inbox, for the attempt that owns it.
Receives(e, c, pc) == hs[e][c].pc = pc /\ inbox[e].lease = c /\ inbox[e].queue # << >>
Taken(e) == Head(inbox[e].queue)
Take(e) == inbox' = [inbox EXCEPT ![e].queue = Tail(@)]
Goes(e, c, pc) ==
    At(e, c, pc) /\ Take(e) /\ UNCHANGED <<policy, pin, reg, closed, last, gate, keys, status, attempts, late, faults>>

\* The second flight: the responder answers HELLO and confirms at once.
ReceiveHello(e, c) ==
    /\ Receives(e, c, "hello") /\ Goes(e, c, "confirm")
    /\ IF e = "r" THEN Send(c, "i", <<Hello, Confirm(MacResponder(Secret("r", c)))>>) ELSE UNCHANGED wire

\* The initiator sends its confirmation before it checks the responder's.
InitiatorConfirms(c) ==
    LET s == Secret("i", c)
    IN /\ Receives("i", c, "confirm")
       /\ Send(c, "r", <<Confirm(MacInitiator(s, Taken("i").mac))>>)
       /\ \/ Taken("i").mac = MacResponder(s) /\ Goes("i", c, "finish")
          \/ Taken("i").mac # MacResponder(s) /\ Fail("i", c, "key-confirmation") /\ UNCHANGED faults

ResponderConfirms(c) ==
    LET s == Secret("r", c)
        expect == MacInitiator(s, MacResponder(s))
    IN /\ Receives("r", c, "confirm")
       /\ \/ /\ Taken("r").mac = expect /\ Goes("r", c, "write")
             /\ Send(c, "i", <<Finish(MacFinish(s, MacResponder(s), expect))>>)
          \/ Taken("r").mac # expect /\ Fail("r", c, "key-confirmation") /\ UNCHANGED <<wire, faults>>

InitiatorFinishes(c) ==
    LET s == Secret("i", c)
        expect == MacFinish(s, MacResponder(s), MacInitiator(s, MacResponder(s)))
    IN /\ Receives("i", c, "finish") /\ UNCHANGED wire
       /\ \/ Taken("i").mac = expect /\ Goes("i", c, "write")
          \/ Taken("i").mac # expect /\ Fail("i", c, "final-confirmation") /\ UNCHANGED faults

RecvEnds_Faulty(e, c) ==
    /\ hs[e][c].pc \in Waiting /\ ~Receives(e, c, hs[e][c].pc) /\ inbox[e].lease = c
    /\ Fail(e, c, "transport") /\ UNCHANGED wire /\ Fault

\* A recv that ends without a frame: its inbox was cleared or replaced, or
\* HANDSHAKE_STEP_TIMEOUT_MS passed.
RecvEnds(e, c) ==
    /\ hs[e][c].pc \in Waiting /\ ~Receives(e, c, hs[e][c].pc)
    /\ Fail(e, c, "transport") /\ UNCHANGED wire
    /\ IF inbox[e].lease = c THEN Fault ELSE UNCHANGED faults

Activate_Faulty(e, c) ==
    /\ hs[e][c].pc = "write"
    /\ At(e, c, "open") /\ gate' = [gate EXCEPT ![e].outcome = "open"] /\ keys' = [keys EXCEPT ![e] = c]
    /\ inbox' = [inbox EXCEPT ![e] = ClearInbox(@, c)]
    /\ status' = [status EXCEPT ![e] = "authenticated"]
    /\ UNCHANGED <<policy, pin, reg, closed, last, wire, late, faults>>
    /\ IF policy[e] = "pin" THEN ClearPinAttempts(e) ELSE UNCHANGED attempts

\* runHandshake after the core: the seed is written, and the activation asks
\* the gate, opens it and installs the keys; a write that failed, or a gate
\* that has settled or has another owner, fails the attempt.
Activate(e, c) ==
    /\ hs[e][c].pc = "write"
    /\ \/ /\ Pending(gate[e], c)
          /\ At(e, c, "open") /\ gate' = [gate EXCEPT ![e] = OpenGate(@, c)] /\ keys' = [keys EXCEPT ![e] = c]
          /\ inbox' = [inbox EXCEPT ![e] = ClearInbox(@, c)]
          /\ status' = [status EXCEPT ![e] = "authenticated"]
          /\ UNCHANGED <<policy, pin, reg, closed, last, wire, late, faults>>
          /\ IF policy[e] = "pin" THEN ClearPinAttempts(e) ELSE UNCHANGED attempts
       \/ ~Pending(gate[e], c) /\ Fail(e, c, "transport") /\ UNCHANGED <<wire, faults>>
       \/ Fault /\ Fail(e, c, "transport") /\ UNCHANGED wire

\* The healing orchestrator or the cover runtime cannot be installed on the
\* keys: the catch block finds the gate open, and closes the connection.
InstallFails(e, c) ==
    /\ hs[e][c].pc = "write" /\ Pending(gate[e], c) /\ Fault
    /\ At(e, c, "failed") /\ gate' = [gate EXCEPT ![e] = OpenGate(@, c)] /\ keys' = [keys EXCEPT ![e] = c]
    /\ inbox' = [inbox EXCEPT ![e] = ClearInbox(@, c)]
    /\ status' = [status EXCEPT ![e] = "failed"]
    /\ closed' = [closed EXCEPT ![e] = TRUE] /\ wire' = [wire EXCEPT ![c][e] = << >>]
    /\ UNCHANGED <<policy, pin, reg, last, attempts, late>>

Step(e, c) ==
    \/ OnOpen(e, c) \/ Prepare(e, c) \/ DeliverHandshakeFrame(e, c) \/ ReceiveHello(e, c)
    \/ e = "i" /\ (InitiatorConfirms(c) \/ InitiatorFinishes(c))
    \/ e = "r" /\ ResponderConfirms(c)
    \/ Activate(e, c) \/ InstallFails(e, c) \/ Report(e, c)

-----------------------------------------------------------------------------
DisconnectFromPeer_Faulty(e) ==
    /\ reg' = [reg EXCEPT ![e] = 0] /\ closed' = [closed EXCEPT ![e] = FALSE]
    /\ gate' = [gate EXCEPT ![e] = RejectGate(@, @.lease)] /\ inbox' = [inbox EXCEPT ![e] = NoInbox]
    /\ keys' = [keys EXCEPT ![e] = 0]
    /\ wire' = [wire EXCEPT ![reg[e]][e] = << >>]
    /\ UNCHANGED <<policy, pin, last, hs, status, attempts, late>>

\* disconnectFromPeer: whoever leases the gate and the inbox loses them, and
\* only a failed status outlives the peer.
DisconnectFromPeer(e) ==
    /\ reg' = [reg EXCEPT ![e] = 0] /\ closed' = [closed EXCEPT ![e] = FALSE]
    /\ gate' = [gate EXCEPT ![e] = RejectGate(@, @.lease)] /\ inbox' = [inbox EXCEPT ![e] = NoInbox]
    /\ keys' = [keys EXCEPT ![e] = 0]
    /\ status' = [status EXCEPT ![e] = IF @ = "failed" THEN @ ELSE "none"]
    /\ wire' = [wire EXCEPT ![reg[e]][e] = << >>]
    /\ UNCHANGED <<policy, pin, last, hs, attempts, late>>

\* The connection is lost: the other end closed or forgot it, or this one did.
Lost(e) ==
    LET o == Other(e)
    IN reg[e] # 0 /\ (closed[e] \/ (last[o] >= reg[e] /\ (reg[o] # reg[e] \/ closed[o])))

\* onclose of main, or a connection state of failed or closed.
ConnectionLost(e) == Lost(e) /\ DisconnectFromPeer(e) /\ UNCHANGED faults

UserDisconnects(e) == reg[e] # 0 /\ Fault /\ DisconnectFromPeer(e)

\* The vault keeps one PIN for the room, the latest.
PutRoomPin(e, p) == pin' = [pin EXCEPT ![e] = p]

\* connect() with another PIN for a room that is known.
EnterPin(e) ==
    /\ policy[e] = "pin" /\ Fault
    /\ \E p \in Pins \ {pin[e]} : PutRoomPin(e, p)
    /\ ClearRoomPinAttempts(e)
    /\ UNCHANGED <<policy, reg, closed, last, gate, inbox, wire, hs, keys, status, late>>

\* The page reloads: only the bucket is durable, and connect() is called with
\* a PIN for a room the page does not know yet.
Restart(e) ==
    /\ Fault /\ reg[e] # 0
    /\ reg' = [reg EXCEPT ![e] = 0] /\ closed' = [closed EXCEPT ![e] = FALSE]
    /\ gate' = [gate EXCEPT ![e] = ResetGate(0)] /\ inbox' = [inbox EXCEPT ![e] = NoInbox]
    /\ hs' = [hs EXCEPT ![e] = [c \in Conns |-> IF @[c].pc \in Running THEN [@[c] EXCEPT !.pc = "failed"] ELSE @[c]]]
    /\ keys' = [keys EXCEPT ![e] = 0] /\ status' = [status EXCEPT ![e] = "none"]
    /\ recent' = [recent EXCEPT ![e] = << >>] /\ late' = [late EXCEPT ![e] = FALSE]
    /\ wire' = [wire EXCEPT ![reg[e]][e] = << >>]
    /\ \E p \in IF policy[e] = "pin" THEN Pins ELSE {AnyPin} : PutRoomPin(e, p)
    /\ UNCHANGED <<policy, last, bucket>>

\* Time passes for whatever is waiting for it.
Tick ==
    /\ \E e \in Ends : bucket[e].wait > 0 \/ recent[e] # << >>
    /\ bucket' = [e \in Ends |-> [bucket[e] EXCEPT !.wait = IF @ > 0 THEN @ - 1 ELSE 0]]
    /\ recent' = [e \in Ends |-> LET older == [n \in DOMAIN recent[e] |-> recent[e][n] - 1]
                                 IN SelectSeq(older, LAMBDA t : t > 0)]
    /\ UNCHANGED <<policy, pin, reg, closed, last, gate, inbox, wire, hs, keys, status, late, faults>>

Next ==
    \/ Tick
    \/ \E e \in Ends :
         \/ Connect(e) \/ ConnectionLost(e) \/ UserDisconnects(e) \/ EnterPin(e) \/ Restart(e)
         \/ \E c \in Conns : Step(e, c) \/ RecvEnds(e, c)

\* The event loops run what is ready, and a lost connection is noticed.
Fairness == WF_vars(\E e \in Ends : ConnectionLost(e) \/ \E c \in Conns : Step(e, c) \/ RecvEnds(e, c))

Spec == Init /\ [][Next]_vars /\ Fairness
-----------------------------------------------------------------------------
Derived(e, c) == hs[e][c].pc \in {"write", "open"}

\* Whatever an end accepts as the peer's keys, the peer derived too: a finished
\* core at either end means both ends have the same secret, that is the same
\* policy and PIN; and the initiator installs keys only for a responder that
\* confirmed first (performHandshakeCore).
KeysAgree ==
    \A c \in Conns :
      /\ \A e \in Ends : Derived(e, c) => Secret("i", c) = Secret("r", c)
      /\ Derived("i", c) => hs["r"][c].pc \in {"write", "open", "report", "failed"}

\* The gate is open only over keys of its own connection, and keys are only
\* installed while their connection is the registered one: an attempt whose
\* connection was replaced or torn down installs nothing (runHandshake,
\* openRatchetGate, disconnectFromPeer).
KeysBelongToGate ==
    \A e \in Ends :
      /\ keys[e] # 0 => keys[e] = reg[e] /\ gate[e] = [lease |-> keys[e], outcome |-> "open"]
      /\ gate[e].outcome = "open" /\ reg[e] = gate[e].lease => keys[e] = reg[e]

\* The status shown is that of the gate as long as the connection is open,
\* unless an attempt that had already been replaced reported its failure
\* (setPeerHandshakeStatus).
OnlyLateFailuresMislabel ==
    \A e \in Ends :
      /\ status[e] = "authenticated" => gate[e].outcome = "open"
      /\ keys[e] # 0 /\ ~closed[e] /\ ~late[e] => status[e] = "authenticated"

Mismatched == {c \in Conns : Secret("i", c) # Secret("r", c)}

\* Only attempts in which the PINs or policies really differed count as PIN
\* failures, each at most once: no timeout, close or lost frame does
\* (onopen of main, recordPinFailure).
OnlyMismatchCounts == \A e \in Ends : bucket[e].failures <= Cardinality({c \in Mismatched : hs[e][c].pc \notin {"off"}})

\* No PIN failure is counted while the backoff of the one before still runs:
\* the throttle is asked before every attempt, and survives a restart
\* (assertPinAttemptAllowed, fnIncrementPinAttemptState).
NoGuessDuringBackoff ==
    [][\A e \in Ends : bucket'[e].failures > bucket[e].failures => bucket[e].wait = 0]_vars

\* Every attempt ends, each step of it having a timeout; and when the last
\* confirmation is lost, the keys of the responder do not outlive the attempt
\* of the initiator for long.
AttemptsEnd ==
    /\ \A e \in Ends, c \in Conns : hs[e][c].pc \in Running ~> hs[e][c].pc \in {"open", "failed"}
    /\ \A c \in Conns : (keys["r"] = c /\ hs["i"][c].pc = "failed") ~> keys["r"] # c
-----------------------------------------------------------------------------
\* The inductive invariant behind the properties.  The shapes of the state:
\* what a frame carries, and how long a backoff is, does not matter here.
Queues == {inbox[e].queue : e \in Ends}
Lines == {wire[c][e] : c \in Conns, e \in Ends}
Shapes ==
    /\ policy \in [Ends -> {"pin", "nopin"}] /\ pin \in [Ends -> Pins]
    /\ reg \in [Ends -> 0 .. MaxConns] /\ closed \in [Ends -> BOOLEAN] /\ last \in [Ends -> 0 .. MaxConns]
    /\ gate \in [Ends -> [lease : 0 .. MaxConns, outcome : {"pending", "open", "rejected"}]]
    /\ inbox \in [Ends -> [lease : 0 .. MaxConns, next : 1 .. 4, queue : Queues]]
    /\ wire \in [Conns -> [Ends -> Lines]]
    /\ hs \in [Ends -> [Conns -> [pc : Stages, pin : Pins]]]
    /\ keys \in [Ends -> 0 .. MaxConns]
    /\ status \in [Ends -> {"none", "authenticating", "authenticated", "failed"}]
    /\ bucket \in [Ends -> [failures : Nat, wait : 0 .. BackoffMax]]
    /\ late \in [Ends -> BOOLEAN]

\* Connections only grow: the registered one is the newest, a gate that has
\* not settled belongs to it, and so does the inbox as long as it is open.
Leases(e) ==
    /\ reg[e] # 0 => reg[e] = last[e]
    /\ gate[e].outcome = "pending" => gate[e].lease = reg[e]
    /\ gate[e].outcome = "open" => gate[e].lease # 0
    /\ inbox[e].lease # 0 => inbox[e].lease = reg[e] /\ ~closed[e]
    /\ keys[e] # 0 => /\ keys[e] = reg[e] /\ gate[e] = [lease |-> keys[e], outcome |-> "open"]
                      /\ hs[e][keys[e]].pc = "open" \/ (closed[e] /\ hs[e][keys[e]].pc = "failed")
    /\ gate[e].outcome = "open" /\ reg[e] = gate[e].lease => keys[e] = reg[e]

\* A connection one end has not made has seen no attempt and no frame.
Fresh(e, c) == c > last[e] => \A x \in Ends : hs[x][c].pc = "off" /\ wire[c][x] = << >>

\* The attempt that owns the inbox has passed the throttle and has not ended.
Owns(e, c) ==
    inbox[e].lease = c =>
      /\ hs[e][c].pc \in Waiting \cup {"off", "prepare", "write"}
      /\ policy[e] = "pin" /\ hs[e][c].pc \in Waiting \cup {"prepare"} => bucket[e].wait = 0

LeaseInv == Shapes /\ \A e \in Ends : Leases(e) /\ \A c \in Conns : Fresh(e, c) /\ Owns(e, c)
=============================================================================
