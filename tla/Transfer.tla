------------------------------ MODULE Transfer ------------------------------
(***************************************************************************)
(* The transfer of one message to one peer in immediate mode: the sender's *)
(* passes, receipts, retransmits and resumes (sendWithReconcile,           *)
(* reconcile.ts), the receiver's queue, store and close handler            *)
(* (handleMessageQueueing, handleReceiveMessage, handleOpenChannel), and   *)
(* the connection between them, which may drop and be replaced.  SendJob   *)
(* describes the send this transfer is a part of: here its chunks are      *)
(* staged and stay so until it is cancelled.                               *)
(*                                                                         *)
(* "S" is the sending end, "R" the receiving one.  The message channel is  *)
(* reliable and unordered while its connection lives; an ordinary close    *)
(* is delivered after the frames before it; a drop loses what is in        *)
(* flight.  Every chunk has size 1.                                        *)
(***************************************************************************)
EXTENDS Integers, Sequences, SequencesExt, FiniteSets

CONSTANTS
    Reals,            \* the chunks that carry the message
    Decoys,           \* the chunks that only pad it
    MaxQueue,         \* MAX_QUEUED_FRAMES_PER_CHANNEL
    Window,           \* SEND_RECEIPT_WINDOW
    MaxRetransmits,   \* MAX_RETRANSMITS
    MaxResumes,       \* MAX_RESUME_ATTEMPTS
    MaxConnections,   \* connections between the two peers, one after the other; the last one stays
    MaxFaults         \* failed writes, expired timeouts, cancels and reloads of the room

VARIABLES
    cancel,     \* cancelMessage: "no", "aborted" (the signal is set), "closed" (and all deleted)
    \* the transfer to this peer
    pc,         \* where sendWithReconcile is
    ended,      \* how it ended
    todo,       \* the chunks of the pass still to send
    mark,       \* receipts held when the pass began, and real frames sent since
    acked,      \* the have-set of reconcile.ts
    complete,   \* its completion flag
    retries, resumes,
    using,      \* the connection of currentChannel
    \* the connection
    gen,        \* which connection this is
    live,       \* it carries traffic
    up,         \* up[p]: p has it registered, in state "connected"
    gate,       \* gate[p]: p's ratchet gate is open
    chS, chR,   \* the message channel of this connection, seen from each end
    heldS,      \* it is in the sender's messageChannels
    wire,       \* wire[c]: frames of chunk c in flight
    receipts,   \* receipts in flight
    \* the receiver
    queue,      \* frames waiting, last in first out
    proc,       \* the frame being decrypted and stored
    replay,     \* the open handler has yet to replay the receipts
    stored,     \* chunks in the store
    shown,      \* savedSize of the message in the Redux state
    closing,    \* the close handlers that are running: their connection and how far they got
    stale,      \* the handler of a replaced channel or connection has changed the store
    kept,       \* a close handler could not read or delete what was received
    reloaded,   \* the stored message was loaded again after it was shown
    faults

sendVars == <<pc, ended, todo, mark, acked, complete, retries, resumes, using>>
linkVars == <<gen, live, up, gate>>
chanVars == <<chS, chR, heldS, wire, receipts>>
recvVars == <<queue, proc, replay, stored, shown, closing, stale, kept, reloaded>>
vars == <<cancel, sendVars, linkVars, chanVars, recvVars, faults>>

Chunks == Reals \union Decoys

Gens == 1 .. MaxConnections

Hash == 0           \* the terminal receipt: the hash of the whole message

NoFrame == [chunk |-> 0, gen |-> 0, stop |-> FALSE]

NoWire == [c \in Chunks |-> 0]

TypeOK ==
    /\ cancel \in {"no", "aborted", "closed"} /\ reloaded \in BOOLEAN /\ stale \in BOOLEAN /\ kept \in BOOLEAN
    /\ pc \in {"idle", "gate", "admit", "step", "open", "pass", "confirm", "resume", "reopen", "rebind", "end"}
    /\ ended \in {"no", "delivered", "skipped", "early", "rebind", "run"}
    /\ todo \subseteq Chunks /\ mark \in 0 .. 2 * Cardinality(Reals)
    /\ acked \subseteq Reals /\ complete \in BOOLEAN
    /\ retries \in 0 .. MaxRetransmits /\ resumes \in 0 .. MaxResumes /\ using \in 0 .. MaxConnections
    /\ gen \in Gens /\ live \in BOOLEAN
    /\ up \in [{"S", "R"} -> BOOLEAN] /\ gate \in [{"S", "R"} -> BOOLEAN]
    /\ chS \in {"none", "connecting", "open", "closed"} /\ chR \in {"none", "open", "closed"}
    /\ heldS \in BOOLEAN /\ wire \in [Chunks -> Nat] /\ receipts \subseteq Reals \union {Hash}
    /\ queue \in Seq(Chunks) /\ Len(queue) <= MaxQueue
    /\ proc = NoFrame \/ proc.chunk \in Chunks
    /\ replay \in BOOLEAN /\ stored \subseteq Reals /\ shown \in 0 .. Cardinality(Reals)
    /\ closing \subseteq [gen : Gens, step : {"deciding", "deleting"}]
    /\ faults \in 0 .. MaxFaults

Init ==
    /\ cancel = "no"
    /\ pc = "idle" /\ ended = "no" /\ todo = {} /\ mark = 0 /\ acked = {}
    /\ complete = FALSE /\ retries = 0 /\ resumes = 0 /\ using = 0
    /\ gen = 1 /\ live = TRUE /\ up = [p \in {"S", "R"} |-> TRUE] /\ gate = [p \in {"S", "R"} |-> TRUE]
    /\ chS = "none" /\ chR = "none" /\ heldS = FALSE /\ wire = NoWire /\ receipts = {}
    /\ queue = << >> /\ proc = NoFrame /\ replay = FALSE /\ stored = {} /\ shown = 0
    /\ closing = {} /\ stale = FALSE /\ kept = FALSE /\ reloaded = FALSE /\ faults = 0

Fault == faults < MaxFaults /\ faults' = faults + 1

Aborted == cancel # "no"

\* abortTransfer sets the signal; the rest of cancelMessage closes the channel
\* and deletes the message once the label has been computed.
AbortTransfer ==
    /\ cancel = "no" /\ pc # "end" /\ cancel' = "aborted" /\ Fault
    /\ UNCHANGED <<sendVars, linkVars, chanVars, recvVars>>

CancelMessage ==
    /\ cancel = "aborted" /\ cancel' = "closed"
    /\ IF chS = "open" THEN chS' = "closed" /\ heldS' = FALSE /\ receipts' = {}
                       ELSE UNCHANGED <<chS, heldS, receipts>>
    /\ UNCHANGED <<sendVars, linkVars, chR, wire, recvVars, faults>>

----------------------------------------------------------------------------
(* The transfer to the peer.                                               *)

\* The channel sendWithReconcile currently uses: that of a replaced connection
\* is closed.
Channel == IF using = gen THEN chS ELSE "closed"

\* runPeerSendFanout for this peer: a connected peer gets a channel.
OpenPeerChannel ==
    /\ pc = "idle"
    /\ \/ /\ (Aborted \/ ~up["S"]) /\ pc' = "end" /\ ended' = "skipped"
          /\ UNCHANGED <<using, chS, heldS>>
       \/ /\ ~Aborted /\ up["S"] /\ pc' = "gate" /\ using' = gen /\ heldS' = TRUE
          /\ chS' = IF live THEN "connecting" ELSE "closed"
          /\ UNCHANGED ended
    /\ UNCHANGED <<cancel, todo, mark, acked, complete, retries, resumes, linkVars, chR, wire, receipts, recvVars, faults>>

\* releaseProtocolResources and close.
CloseTransferChannel ==
    IF using = gen THEN chS' = "closed" /\ heldS' = FALSE /\ receipts' = {}
                   ELSE UNCHANGED <<chS, heldS, receipts>>

\* The end of runTransfer: the channel is closed and the have-set dropped.
EndTransfer(how) ==
    /\ pc' = "end" /\ ended' = how /\ CloseTransferChannel
    /\ todo' = {} /\ mark' = 0 /\ acked' = {} /\ complete' = FALSE
    /\ retries' = 0 /\ resumes' = 0 /\ using' = 0
    /\ UNCHANGED <<cancel, linkVars, chR, wire, recvVars>>

\* An error raised before runTransfer: nothing closes the channel.
EndEarly ==
    /\ pc' = "end" /\ ended' = "early" /\ using' = 0
    /\ UNCHANGED <<cancel, todo, mark, acked, complete, retries, resumes, linkVars, chanVars, recvVars>>

Goto(next) ==
    /\ pc' = next
    /\ UNCHANGED <<cancel, ended, todo, mark, acked, complete, retries, resumes, using, linkVars, chanVars, recvVars>>

\* The ratchet gate of this connection; a teardown rejects it.
AwaitGate ==
    /\ pc = "gate" /\ UNCHANGED faults
    /\ \/ (Aborted \/ ~up["S"] \/ gen # using) /\ EndEarly
       \/ ~Aborted /\ up["S"] /\ gen = using /\ gate["S"] /\ Goto("admit")

\* The healing exchange is waited for, up to a timeout.
AwaitAdmission ==
    /\ pc = "admit"
    /\ \/ Aborted /\ EndEarly /\ UNCHANGED faults
       \/ ~Aborted /\ Fault /\ EndEarly
       \/ ~Aborted /\ Goto("step") /\ UNCHANGED faults

\* The durable ratchet step: refused once the connection has lost the edge.
StepRatchet ==
    /\ pc = "step"
    /\ \/ (Aborted \/ ~up["S"] \/ gen # using) /\ EndEarly /\ UNCHANGED faults
       \/ Fault /\ EndEarly
       \/ ~Aborted /\ up["S"] /\ gen = using /\ Goto("open") /\ UNCHANGED faults

StartPass(chunks) ==
    /\ pc' = "pass" /\ todo' = chunks /\ mark' = Cardinality(acked)

\* Waiting for "open" only.
AwaitOpen_Faulty ==
    /\ pc = "open"
    /\ \/ Aborted /\ EndTransfer("run") /\ UNCHANGED faults
       \/ /\ ~Aborted /\ Channel = "open" /\ StartPass(Chunks)
          /\ UNCHANGED <<cancel, ended, acked, complete, retries, resumes, using, linkVars, chanVars, recvVars, faults>>

AwaitOpen ==
    /\ pc = "open"
    /\ \/ (Aborted \/ Channel = "closed") /\ EndTransfer("run") /\ UNCHANGED faults
       \/ Channel = "connecting" /\ Fault /\ EndTransfer("run")
       \/ /\ ~Aborted /\ Channel = "open" /\ StartPass(Chunks)
          /\ UNCHANGED <<cancel, ended, acked, complete, retries, resumes, using, linkVars, chanVars, recvVars, faults>>

\* Real frames sent in this pass and not answered by a receipt since it began
\* (receipts are only added while a transfer runs).
InFlight == mark - Cardinality(acked)

\* A receipt may still come: a real frame is on its way, queued or in hand, or
\* the receipt itself is.
ReceiptComing ==
    \/ receipts # {} \/ proc # NoFrame
    \/ \E c \in Reals : wire[c] > 0 \/ c \in ToSet(queue)

\* sendChunks: one chunk of the pass, in any order.  The window holds real
\* frames back until a receipt comes or the stall timeout passes; one that
\* passes while a receipt is still coming is a fault.
SendChunk ==
    /\ pc = "pass" /\ todo # {} /\ ~Aborted /\ Channel = "open"
    /\ \E c \in todo :
          /\ IF c \in Reals /\ InFlight >= Window /\ ReceiptComing THEN Fault ELSE UNCHANGED faults
          /\ wire' = [wire EXCEPT ![c] = @ + 1]
          /\ todo' = todo \ {c} /\ mark' = IF c \in Reals THEN mark + 1 ELSE mark
    /\ UNCHANGED <<cancel, pc, ended, acked, complete, retries, resumes, using, linkVars, chS, chR, heldS,
                   receipts, recvVars>>

\* The pass ends: all sent, the channel gone, an abort, or a failed write of a
\* chunk's proof and receipt token.
PassEnds ==
    /\ pc = "pass"
    /\ \/ Aborted /\ EndTransfer("run") /\ UNCHANGED faults
       \/ ~Aborted /\ todo # {} /\ Fault /\ EndTransfer("run")
       \/ /\ UNCHANGED faults /\ ~Aborted /\ (todo = {} \/ Channel # "open")
          /\ pc' = "confirm" /\ todo' = {} /\ mark' = 0
          /\ UNCHANGED <<cancel, ended, acked, complete, retries, resumes, using, linkVars, chanVars, recvVars>>

\* A close of the channel alone, while its connection is still registered and
\* connected, is the peer's cancel.
IsAuthenticatedPeerCancel == up["S"] /\ using = gen

\* The reconcile loop: done, out of retries, cancelled by the peer, resume, or
\* send the unreceipted chunks again.  The last round is not waited for.
AwaitCompletion ==
    /\ pc = "confirm"
    /\ \/ ~Aborted /\ retries < MaxRetransmits /\ complete /\ EndTransfer("delivered")
       \/ (Aborted \/ retries = MaxRetransmits) /\ EndTransfer("run")
    /\ UNCHANGED faults

ReconcileTimeout ==
    /\ pc = "confirm" /\ ~Aborted /\ retries < MaxRetransmits /\ ~complete
    /\ \/ /\ Channel = "closed" /\ (IsAuthenticatedPeerCancel \/ resumes = MaxResumes)
          /\ EndTransfer("run")
       \/ /\ Channel = "closed" /\ ~IsAuthenticatedPeerCancel /\ resumes < MaxResumes
          /\ resumes' = resumes + 1 /\ pc' = "resume"
          /\ UNCHANGED <<cancel, ended, todo, mark, acked, complete, retries, using, linkVars, chanVars, recvVars>>
       \/ /\ Channel # "closed" /\ StartPass(Reals \ acked) /\ retries' = retries + 1
          /\ UNCHANGED <<cancel, ended, acked, complete, resumes, using, linkVars, chanVars, recvVars>>
    /\ UNCHANGED faults

\* resumeChannel: wait for a connected transport, open the same label on it,
\* wait for it to open; a channel that does not open is closed and the search
\* goes on.  The have-set is kept.
ResumeChannel ==
    /\ pc = "resume"
    /\ \/ Aborted /\ EndTransfer("run")
       \/ ~Aborted /\ ~up["S"] /\ EndTransfer("run")
       \/ /\ ~Aborted /\ up["S"] /\ pc' = "reopen" /\ heldS' = TRUE
          /\ chS' = IF live THEN "connecting" ELSE "closed"
          /\ UNCHANGED <<cancel, ended, todo, mark, acked, complete, retries, resumes, using, linkVars, chR,
                         wire, receipts, recvVars>>
    /\ UNCHANGED faults

AwaitReopen ==
    /\ pc = "reopen"
    /\ \/ ~Aborted /\ chS = "open" /\ Goto("rebind") /\ UNCHANGED faults
       \/ /\ \/ (Aborted \/ chS \in {"none", "closed"}) /\ UNCHANGED faults
             \/ chS = "connecting" /\ Fault
          /\ pc' = "resume" /\ heldS' = FALSE /\ chS' = IF chS = "none" THEN chS ELSE "closed"
          /\ UNCHANGED <<cancel, ended, todo, mark, acked, complete, retries, resumes, using, linkVars, chR,
                         wire, receipts, recvVars>>

\* bindTransferCipherToConnection: the gate and one step of the new ratchet;
\* only then does the new channel become the current one.
BindTransferCipher ==
    /\ pc = "rebind"
    /\ \/ /\ (Aborted \/ ~up["S"]) /\ UNCHANGED faults /\ EndTransfer("rebind")
       \/ Fault /\ EndTransfer("rebind")
       \/ /\ ~Aborted /\ up["S"] /\ gate["S"]
          /\ using' = gen /\ retries' = 0 /\ pc' = "confirm"
          /\ UNCHANGED <<cancel, ended, todo, mark, acked, complete, resumes, linkVars, chanVars, recvVars, faults>>

\* A receipt reaches the sender: before its gate is open that closes the
\* channel; otherwise the hash completes the transfer and a token is resolved
\* through the staged chunk it was made from.
HandleReadReceipt ==
    /\ chS = "open" /\ live
    /\ \E t \in receipts :
          IF ~gate["S"]
          THEN /\ chS' = "closed" /\ heldS' = FALSE /\ receipts' = {}
               /\ UNCHANGED <<acked, complete>>
          ELSE /\ receipts' = receipts \ {t}
               /\ complete' = (complete \/ (t = Hash /\ cancel # "closed"))
               /\ acked' = IF t \in Reals /\ cancel # "closed" THEN acked \union {t} ELSE acked
               /\ UNCHANGED <<chS, heldS>>
    /\ UNCHANGED <<cancel, pc, ended, todo, mark, retries, resumes, using, linkVars, chR, wire, recvVars, faults>>

----------------------------------------------------------------------------
(* The receiver.                                                           *)

Finished == stored = Reals

\* The close event of the receiving end: its handler starts.  That of an
\* earlier channel with this label may still be running.
CloseBegins == closing' = closing \union {[gen |-> gen, step |-> "deciding"]}

\* release, close: what is queued is dropped, and a frame being handled stops
\* at its next look at the signal.
StopReceiving ==
    /\ chR' = "closed" /\ queue' = << >> /\ wire' = NoWire /\ replay' = FALSE
    /\ CloseBegins
    /\ proc' = IF proc # NoFrame /\ proc.gen = gen THEN [proc EXCEPT !.stop = TRUE] ELSE proc

\* A frame before the gate is open, or one too many, closes the channel.
Enqueue ==
    /\ chR = "open" /\ live
    /\ \E c \in Chunks :
          /\ wire[c] > 0
          /\ IF gate["R"] /\ Len(queue) < MaxQueue
             THEN /\ queue' = Append(queue, c) /\ wire' = [wire EXCEPT ![c] = @ - 1]
                  /\ UNCHANGED <<chR, closing, proc, replay>>
             ELSE StopReceiving
    /\ UNCHANGED <<cancel, sendVars, linkVars, chS, heldS, receipts, stored, shown, stale, kept, reloaded, faults>>

Drain ==
    /\ proc = NoFrame /\ queue # << >>
    /\ proc' = [chunk |-> Last(queue), gen |-> gen, stop |-> FALSE] /\ queue' = Front(queue)
    /\ UNCHANGED <<cancel, sendVars, linkVars, chanVars, replay, stored, shown, closing, stale, kept, reloaded, faults>>

\* Sent only on an open channel, and lost on one the sender has closed.
SendReceipts(set) ==
    receipts' = IF chR = "open" /\ chS = "open" THEN receipts \union set ELSE receipts

\* The room listener on setMessage: a piece that brings the shown size to the
\* total confirms the message to the sender and closes the channel.
FinishesPuzzle(size) == shown > 0 /\ shown + size = Cardinality(Reals)

\* Shown sizes only grow, and never past the total.
ShowMore(size) == IF shown + size <= Cardinality(Reals) THEN shown + size ELSE shown

\* setMessage for `size` more bytes, with what the listener makes of it.
SetMessage(size, tokens) ==
    /\ shown' = ShowMore(size)
    /\ IF FinishesPuzzle(size) /\ chR = "open"
       THEN /\ SendReceipts(tokens \union {Hash}) /\ chR' = "closed" /\ queue' = << >> /\ replay' = FALSE
            /\ wire' = NoWire /\ CloseBegins
       ELSE SendReceipts(tokens) /\ UNCHANGED <<chR, queue, replay, wire, closing>>

\* handleReceiveMessage and what processMessage does with its result.
ProcessMessage ==
    /\ proc # NoFrame /\ proc' = NoFrame
    /\ LET c == proc.chunk
           here == proc.gen = gen
       IN \/ /\ c \in Decoys
             /\ UNCHANGED <<stored, shown, receipts, chR, queue, replay, wire, closing, faults>>
          \/ \* dropped before the store: aborted, or the store refused
             /\ c \in Reals /\ (IF proc.stop \/ ~here THEN UNCHANGED faults ELSE Fault)
             /\ UNCHANGED <<stored, shown, receipts, chR, queue, replay, wire, closing>>
          \/ \* stored, then found aborted: no receipt
             /\ c \in Reals /\ proc.stop /\ stored' = stored \union {c}
             /\ UNCHANGED <<shown, receipts, chR, queue, replay, wire, closing, faults>>
          \/ /\ c \in Reals /\ ~proc.stop /\ stored' = stored \union {c} /\ UNCHANGED faults
             /\ IF Finished' THEN /\ shown' = Cardinality(Reals)
                                  /\ IF here THEN SendReceipts({c, Hash}) ELSE UNCHANGED receipts
                                  /\ UNCHANGED <<chR, queue, replay, wire, closing>>
                ELSE IF here /\ c \notin stored THEN SetMessage(1, {c})
                ELSE /\ IF here THEN SendReceipts({c}) ELSE UNCHANGED receipts
                     /\ shown' = IF c \in stored THEN shown ELSE ShowMore(1)
                     /\ UNCHANGED <<chR, queue, replay, wire, closing>>
    /\ stale' = (stale \/ (proc.gen # gen /\ stored' # stored))
    /\ UNCHANGED <<cancel, sendVars, linkVars, chS, heldS, kept, reloaded>>

\* The hash with every replay.
ReplayReceipts_Faulty ==
    /\ replay /\ gate["R"] /\ chR = "open" /\ replay' = FALSE
    /\ SendReceipts(stored \union IF stored # {} THEN {Hash} ELSE {})
    /\ UNCHANGED <<cancel, sendVars, linkVars, chS, chR, heldS, wire, queue, proc, stored, shown, closing, stale, kept, reloaded, faults>>

\* onopen at the receiving end, once authenticated: a receipt for every chunk
\* held, and the hash if the message is whole.
ReplayReceipts ==
    /\ replay /\ gate["R"] /\ chR = "open" /\ replay' = FALSE
    /\ SendReceipts(stored \union IF Finished THEN {Hash} ELSE {})
    /\ UNCHANGED <<cancel, sendVars, linkVars, chS, chR, heldS, wire, queue, proc, stored, shown, closing, stale, kept, reloaded, faults>>

\* isRemoteCancelClose: a close on a connection still registered cancels an
\* incomplete receive.
IsRemoteCancelClose == up["R"] /\ stored # {} /\ ~Finished

\* Not waiting for the queue to drain.
DecideClose_Faulty(h) ==
    /\ h.step = "deciding"
    /\ closing' = (closing \ {h}) \union IF IsRemoteCancelClose THEN {[h EXCEPT !.step = "deleting"]} ELSE {}
    /\ UNCHANGED <<cancel, sendVars, linkVars, chanVars, queue, proc, replay, stored, shown, stale, kept, reloaded, faults>>

\* Preserves partial state on storage uncertainty.
KeepReceived(h) == Fault /\ kept' = TRUE /\ closing' = closing \ {h}

\* onclose of the receiving end, when its queue has drained; what cannot be
\* read is not deleted.
DecideClose(h) ==
    /\ h.step = "deciding" /\ proc.gen # h.gen /\ queue = << >>
    /\ \/ IsRemoteCancelClose /\ KeepReceived(h)
       \/ /\ closing' = (closing \ {h}) \union IF IsRemoteCancelClose THEN {[h EXCEPT !.step = "deleting"]} ELSE {}
          /\ UNCHANGED <<kept, faults>>
    /\ UNCHANGED <<cancel, sendVars, linkVars, chanVars, queue, proc, replay, stored, shown, stale, reloaded>>

\* cancelReceiveTransfer: the message is deleted, or that fails and it stays.
DeleteCancelled(h) ==
    /\ h.step = "deleting"
    /\ \/ KeepReceived(h) /\ UNCHANGED <<stored, shown, stale>>
       \/ /\ closing' = closing \ {h} /\ UNCHANGED <<kept, faults>>
          /\ stored' = {} /\ shown' = 0 /\ stale' = (stale \/ h.gen # gen \/ chR = "open" \/ Finished)
    /\ UNCHANGED <<cancel, sendVars, linkVars, chanVars, queue, proc, replay, reloaded>>

\* A room response loads the stored messages again, each as one setMessage of
\* its saved size.
ReloadMessages ==
    /\ stored # {} /\ Fault /\ reloaded' = TRUE
    /\ IF shown = 0 THEN /\ shown' = Cardinality(stored)
                         /\ UNCHANGED <<receipts, chR, queue, replay, wire, closing, proc>>
       ELSE /\ SetMessage(Cardinality(stored), {})
            /\ proc' = IF chR' = "closed" /\ proc # NoFrame /\ proc.gen = gen THEN [proc EXCEPT !.stop = TRUE] ELSE proc
    /\ UNCHANGED <<cancel, sendVars, linkVars, chS, heldS, stored, stale, kept>>

----------------------------------------------------------------------------
(* The connection.                                                         *)

ChannelOpens ==
    /\ live /\ chS = "connecting" /\ chS' = "open" /\ chR' = "open" /\ replay' = TRUE
    /\ UNCHANGED <<cancel, sendVars, linkVars, heldS, wire, receipts, queue, proc, stored, shown, closing, stale, kept, reloaded, faults>>

\* A close is seen by the other end after the frames sent before it; at the
\* sender it drops the receipts that wait to be handled.
SenderSeesClose ==
    /\ live /\ chR = "closed" /\ chS = "open"
    /\ chS' = "closed" /\ heldS' = FALSE /\ receipts' = {}
    /\ UNCHANGED <<cancel, sendVars, linkVars, chR, wire, recvVars, faults>>

ReceiverSeesClose ==
    /\ live /\ chS = "closed" /\ chR = "open" /\ wire = NoWire
    /\ chR' = "closed" /\ CloseBegins /\ replay' = FALSE
    /\ UNCHANGED <<cancel, sendVars, linkVars, chS, heldS, wire, receipts, queue, proc, stored, shown, stale, kept, reloaded, faults>>

\* The transport fails: the channel closes at both ends before either
\* connection object reports it.
Drop ==
    /\ live /\ gen < MaxConnections /\ live' = FALSE
    /\ wire' = NoWire /\ receipts' = {} /\ replay' = FALSE
    /\ chS' = IF chS = "none" THEN chS ELSE "closed"
    /\ IF chR = "open" THEN chR' = "closed" /\ CloseBegins
                       ELSE UNCHANGED <<chR, closing>>
    /\ UNCHANGED <<cancel, sendVars, gen, up, gate, heldS, queue, proc, stored, shown, stale, kept, reloaded, faults>>

\* disconnectFromPeer at either end.  It retires the lease, so a close handler
\* that has yet to decide will keep what was received.
DisconnectFromPeer(p) ==
    /\ ~live /\ up[p] /\ up' = [up EXCEPT ![p] = FALSE] /\ gate' = [gate EXCEPT ![p] = FALSE]
    /\ IF p = "S" THEN heldS' = FALSE /\ UNCHANGED <<queue, proc, closing>>
       ELSE /\ queue' = << >> /\ UNCHANGED heldS
            /\ closing' = {h \in closing : h.step = "deleting"}
            /\ proc' = IF proc # NoFrame /\ proc.gen = gen THEN [proc EXCEPT !.stop = TRUE] ELSE proc
    /\ UNCHANGED <<cancel, sendVars, gen, live, chS, chR, wire, receipts, replay, stored, shown, stale, kept, reloaded, faults>>

\* A fresh connection: new leases, gates shut, no message channel yet.
Reconnect ==
    /\ up = [p \in {"S", "R"} |-> FALSE]
    /\ gen' = gen + 1 /\ live' = TRUE /\ up' = [p \in {"S", "R"} |-> TRUE]
    /\ chS' = "none" /\ chR' = "none"
    /\ UNCHANGED <<cancel, sendVars, gate, heldS, wire, receipts, recvVars, faults>>

\* The handshake ends at one end, then at the other.
OpenRatchetGate(p) ==
    /\ live /\ up[p] /\ ~gate[p] /\ gate' = [gate EXCEPT ![p] = TRUE]
    /\ UNCHANGED <<cancel, sendVars, gen, live, up, chanVars, recvVars, faults>>

SendStep == OpenPeerChannel \/ AwaitGate \/ AwaitAdmission \/ StepRatchet \/ AwaitOpen \/ SendChunk \/ PassEnds \/ AwaitCompletion
              \/ ReconcileTimeout \/ ResumeChannel \/ AwaitReopen \/ BindTransferCipher

ReceiveStep == Drain \/ ProcessMessage \/ ReplayReceipts \/ \E h \in closing : DecideClose(h) \/ DeleteCancelled(h)

LinkStep == ChannelOpens \/ SenderSeesClose \/ ReceiverSeesClose \/ HandleReadReceipt \/ Enqueue

LeaseStep == \E p \in {"S", "R"} : DisconnectFromPeer(p) \/ OpenRatchetGate(p)

Environment == AbortTransfer \/ ReloadMessages \/ Drop \/ Reconnect

\* What happens without the user and without a fault of the network.
SystemStep == CancelMessage \/ ReceiveStep \/ LinkStep

Next == SendStep \/ SystemStep \/ LeaseStep \/ Environment

\* Timers and promises of the sender fire; frames, receipts, closes, state
\* changes of the connection and the handshake at either end arrive.
Fairness == WF_vars(SendStep) /\ WF_vars(SystemStep) /\ WF_vars(LeaseStep)

Spec == Init /\ [][Next]_vars /\ Fairness

----------------------------------------------------------------------------
Delivered == ended = "delivered"

\* A transfer reported as delivered is whole in the receiver's store (until
\* the close handler of a channel replaced meanwhile deletes the receive it
\* had found incomplete).
DeliveredIsStored == Delivered => Finished \/ stale

\* ... unless a reload of the room counted the stored bytes a second time:
\* nothing else makes the receiver confirm a message it does not hold.
OnlyReloadFakesDelivery == DeliveredIsStored \/ reloaded

\* A transfer that got as far as its terminal close holds no channel of the
\* edge: healing waits for those.
TerminalCloseReleases == ended \in {"delivered", "run"} => ~heldS

\* A closed channel on a connection that is still registered leaves the
\* receiver with the whole message or with nothing, unless a frame of a
\* replaced connection was still on its way into the store, or the store
\* failed the close handler, which then keeps what there is.
OnlyStorageErrorsKeepPartials ==
    chR = "closed" /\ up["R"] /\ (\A h \in closing : h.gen # gen) /\ proc.gen # gen =>
        stored = {} \/ Finished \/ stale \/ kept

\* Every transfer ends, however the connection behaves and whatever is lost.
TransferEnds == <>(pc = "end")
=============================================================================
