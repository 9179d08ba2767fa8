# p2party-js: a TLA+ verification development

p2party-js connects the peers of a room over WebRTC data channels and protects
every message between two of them (an *edge*) with a Double Ratchet whose root
is mixed, from time to time, with a fresh ML-KEM secret ("sparse PQ healing").
This directory holds TLA+ models of the parts where the order of steps decides
whether the protocol is right, the TLC configurations that check them and TLAPS
proofs of the central invariants. Paths below are relative to `src/src/`.

## Parts of the system

A page keeps one socket to the signaling server (`Signaling`), over which it
joins rooms and hears of peers. For a peer it makes a connection (`Registry`),
which the two ends negotiate (`Negotiation`) and authenticate on its main
channel (`Handshake`). The handshake seeds a ratchet that is kept in a durable
row (`EdgePersistence`); healing exchanges renew its root (`PqHealing`,
`PqExchange`, `PqEdge`). A message is hashed, split and staged (`SendJob`), and
transferred to each peer over a channel of its own (`Transfer`), or cell by
cell on the lanes of scheduled cover (`Cover`, `CoverCells`). Its chunks are
opened with keys of the ratchet (`Ratchet`) and stored by the worker
(`ReceiveStore`).

| Part | Sources | Concurrency, failures | Modules |
|---|---|---|---|
| PQ healing machine and runtime | `cryptography/pqHealing.ts`, `pqHealingFrame.ts`, `handlers/pqHealingRuntime.ts` | frames lost, repeated, reordered; restore from a checkpoint | `PqHealing`, `PqExchange` |
| Session API | `session.ts` | concurrent caller calls, crash and restore | `PqSession` (healing) |
| Healing orchestrator | `handlers/pqHealingOrchestrator.ts` | timer, inbound frame and message path; failing writes | `PqEdge` |
| Durable ratchet | `handlers/ratchetPersist.ts` | two nested async locks, replaced connections, worker errors | `EdgePersistence` |
| Double Ratchet and receive keys | `cryptography/ratchet.ts`, `handlers/messageChunkCrypto.ts`, `handleReceiveMessage.ts` | chunks in any order, limits, cache | `Ratchet` |
| A send | `handlers/handleSendMessage.ts`, `utils/splitToChunks.ts`, `handlers/transferAbort.ts` | several peers, failed writes, cancel at any await | `SendJob` |
| A transfer | `handlers/handleSendMessage.ts`, `reconcile.ts`, `handleMessageQueueing.ts`, `handleOpenChannel.ts` | lost connections, timeouts, resume, close handlers | `Transfer` |
| Receive store | `db/db.worker.ts` | handles, eviction, failed transactions, restart | `ReceiveStore` |
| Cover traffic | `handlers/coverScheduler.ts`, `coverRuntime.ts`, `coverTransfer.ts`, `coverEdge.ts` | timers, generations, suspension, replay window | `Cover`, `CoverCells` |
| Handshake, gate, PIN attempts | `handlers/handshakeCore.ts`, `handleHandshake.ts`, `ratchetGate.ts`, `roomPinAttempts.ts` | lost flights, replaced leases, restart, backoff | `Handshake` |
| Negotiation and ICE | `api/webrtc/setDescriptionQuery.ts`, `setCandidateQuery.ts`, `handlers/handleConnectToPeer.ts` | glare, rollback, overtaking, bounded queues | `Negotiation` |
| Connections of a page | `api/webrtc/*Query.ts`, `handlers/handleConnectToPeer.ts` | two mutexes, teardown at any await | `Registry` |
| Signaling and rooms | `api/signalingServerApi.ts`, `handlers/handleWebSocketMessage.ts`, `middleware/*`, `index.ts` | late close events, overlapping calls | `Signaling`, with `Registry` in `Page` |

`PROJECT.json` lists every part with its status, the lines every definition
translates, and the hazards of each part.

## Modules

### Healing

**`PqHealing`** has no state: it defines the runtime of one end as a record
(`Runtimes`: phase, epoch, the two counters, turn, root, sealed outbox with its
attempt count, the cached inbound OFFER and ADVANCE and the cached ACK) and one
operator per transition of `SparsePqHealingState` together with its
`PqHealingMachine`. `AcceptsX` are the checks of `acceptControlFrame`,
`AnswerOffer`, `CommitAdvance` and `CloseExchange` its three effects,
`DuplicateX` its two exact-duplicate branches; `Rejects` is everything that
throws. A root is the sequence of ADVANCEs mixed into it, a frame is the record
it seals plus the root and epoch of its key, so a frame opens exactly where the
AEAD opens. Epochs and counters are bounded by `MaxU64`, 2^64 - 1 in the code.

**`PqExchange`** puts two runtimes and a wire together. The wire is the set of
all frames ever sent; anything in it may be received at any time, repeatedly or
never. Each step is one clone / mutate / persist / adopt transaction, and its
frame may fail to leave. It is the abstract specification `PqEdge` implements.

**`PqSession`** is the same runtime behind `prepareHealing`,
`acceptControlFrame`, `pendingControl`, `serialize` and `restoreSession`. The
session changes at once; the caller holds the returned frames as jobs, stores a
snapshot, sends, and may crash in between. `PersistAlways` selects the caller:
TRUE follows the interface contract (persist before every send), FALSE follows
`requiresPersistBeforeSend`.

**`PqEdge`** is the WebRTC driver at both ends. `TickRetry`, `TickExhausted`
and `TickOffer` are `tickPqHealing` up to the mutation lock; `Arrive` and
`Drained` are `handleInboundPqControlFrame` up to it; `RunRetry`, `RunOffer`,
`TickStale`, `RunAccept`, `RunDuplicate` and `RunReject` are what
`mutatePqDurably` does with it, including a write that fails. One message per
direction opens its channel, is admitted by `waitForPqTrafficAdmission` (or
times out there, or its ratchet step fails, and the channel it opened stays
listed), derives its key under the same lock and delivers chunks the receiver
opens only in its current epoch. `PqEdge` refers to `PqExchange`
through `Exchange == INSTANCE PqExchange WITH net <- sent`.

### Keys of an edge

**`EdgePersistence`** is `ratchetPersist.ts`: connections to one peer that
replace each other, the owner token, the seed of each handshake
(`HandshakeDone`, `SeedGranted`, `SeedAnswered`, `SeedRollback`), message keys
(`Mutate`, `MutationGranted`, `MutationAnswered`, `Adopt`) and the worker
(`WorkerPut`). A worker call is three steps, so everything may happen while it
is under way. A ratchet is its sending index. There is no crash action: a
crash leaves the row of the state it hits, and the invariants speak of the row
of every state.

**`Ratchet`** is the Double Ratchet of both ends. `RatchetEncrypt`,
`RatchetDecrypt`, the DH step and `SkipMessageKeys` are operators on the state
record; a message key is named by its chain and place and a chain by the pairs
mixed into its root. `Send` and `Arrive` are the transactions of a message and
of a chunk. A chunk tries a clone and keeps it only if the frame
authenticates. The message-key cache evicts its oldest entry, and
`ForgetCompleted` and `CancelReceive` retire keys.

**`CoverCells`** numbers the cells of one direction and accepts them by the
replay window of `coverRuntime.ts` (`#admitInboundCounter`), with epochs that
move at each end.

**`EdgeKeys`** extends these three and puts them under one specification. They
share no variable: a behaviour follows one of them (`side`). Each also has a
specification of its own (`CellsSpec`, `RowSpec`), about which the proofs speak.

### Messages

**`SendJob`** is one page that sends several messages of equal content to a
room: hashing, staging, the sender's own copy, the commit, one transfer per
peer, the end of staging, the failure path, and `cancelMessage` and
`abortRoomTransfers` at any await. A cancel names its message by id, root or
hash, and is three steps: the abort, the removal from the list after an await,
and the deletion by the room listener, whose errors are only logged
(`PurgeMessage`). A deletion in the failure path may fail, too, and so may
the one of the staged chunks, after which the send is never taken out of the
registry of active sends (phase `"stuck"`).

**`Transfer`** is what `SendJob` abstracts: `sendWithReconcile` and its
receiver. The sender opens a channel, waits for gate and admission, steps the
ratchet, sends passes under the receipt window, waits for the receipt of
completion, sends again what is missing, and resumes on a new connection with
its have-set. The receiver queues frames up to a bound, stores, counts and
confirms them, replays receipts on a new channel, and its close handler
decides, after awaiting the queue, whether an incomplete message is deleted;
what cannot be read or deleted then is kept.
`Drop`, `DisconnectFromPeer`, `Reconnect` and `OpenRatchetGate` are the
connection under it.

**`ReceiveStore`** is the receive side of the worker. A call runs under the
lock of its message and is several steps; calls on other messages, eviction
and a restart come between them. The size of a full chunk is not on the wire
and is learnt from lengths (`PlaceReceiveChunk`); bytes are modelled by their
place, so that a misplaced byte is visible. `MCReceiveStore` gives it a file of
three chunks and a message of one that compete for one handle.

### Cover

**`Cover`** is `CoverScheduler` with one record `sched` for its fields. Time is
counted in half slots and kept relative to the deadlines. `TimerFires` runs
the start, a slot or a boundary; `SlotFinishes` is what follows the await of a
production, with the generation check; pages suspend and resume; lanes and
cells fail. `SendScheduled`, `Confirmed`, `Abort`, `DeleteStaged` and `Cancel`
are `sendScheduled` and its callers; the drain job sends receipts.

### Connections

**`Handshake`** has both ends, several connections, each with its own attempt:
the three flights, the inbox and gate leases, a timeout at each wait, the
write of the seed, what is installed on the keys after it (`InstallFails`),
the status reported last, `recordPinFailure` with its
durable backoff, and the room's window of failures in a tab. A page may keep
an attempt running long after its connection was replaced. Whether a flight
authenticates is whether both ends used the same policy and PIN.

**`Negotiation`** has two ends with `onnegotiationneeded` (not serialised),
`setDescription` and `setCandidate` (under the mutex), glare, rollback, ICE
restarts and the two candidate queues. Messages are lost, and one that waits
longer for the blacklist is overtaken by the next. The rules of
`RTCPeerConnection` (operations chain, `signalingState`, when
`negotiationneeded` fires) are external and modelled from how the code uses
them.

**`Signaling`** is the socket, the challenge, `connect`,
`connectToSignalingServer` and `disconnect`, room requests and rosters; every
await is a step, calls of one room may overlap, and an answer may be refused. **`Registry`** is the connections
to one identity that comes under several handles: `connectWithPeer`,
`setDescription` and `handleConnectToPeer` with the mutex of the handle and
that of the identity, the teardown queries, which hold neither, initialisations that fail, and edges
that fail (`FailEdge`: the transport is closed and stays registered). **`Page`**
composes both: signals need a verified socket and a joined room, and a
transport that fails without a socket opens one.

Definitions named `..._Faulty` are deliberate mistakes (a dropped guard, a
missing reset, a swapped order). Substituted for the definition they precede,
each makes TLC report the property it is paired with in `PROJECT.json`.

## Runs

| Run | Configuration | Shows |
|---|---|---|
| `exchange` | `MCPqExchange.cfg` | both ends derive the same roots; no slot is forked; open traffic is in one epoch |
| `session` | `PqSession.cfg` | a crash at any step of a caller that keeps the contract forks nothing, and exchanges complete |
| `edge` | `PqEdge.cfg` | both orchestrators, with a message, a failing write and a slow answer, implement `PqExchange`; exchanges settle, messages end, and nothing honest is rejected unless a write failed or an answer was slow before |
| `edge_keys` | `EdgeKeys.cfg` | messages are lost at the documented limits only; a transfer is stranded only by eviction or a cancel; cells act once; no restart reuses a key; a replacement writes last; locks are handed on |
| `send_job` | `SendJob.cfg` | staged chunks outlive the transfers that read them; a send leaves everything or nothing, or what a failed deletion left; a cancel by name touches its own message |
| `transfer` | `Transfer.cfg` | a delivered message is stored, unless a reload miscounts it; a closed channel leaves a part of a message only on a storage error; every transfer ends |
| `receive_store` | `ReceiveStore.cfg` | bytes are in place unless a failed call is counted twice; row, records and room agree |
| `cover` | `Cover.cfg` | no cell is lost or sent twice unless productions overlap; only a timeout leads to sealing under a wiped key; lanes close at the boundary; jobs settle |
| `handshake` | `Handshake.cfg` | keys belong to the connection that leases the gate; the status of a live edge is wrong only after a late failure; no PIN is tried during its backoff; attempts end, and a half-open one with them |
| `negotiation` | `Negotiation.cfg` | ends that are quiet agree, unless a message was overtaken; candidates arrive; negotiations settle |
| `page` | `Page.cfg` | one transport for an identity; a closed connection is registered only after a failed edge or a rollback; only a disconnect confuses sockets; signals connect; only overlapping joins leave a room unjoined |
| `edge_slow_answer` | `PqEdgeSlowAnswer.cfg` | counterexample: see below |

### Properties with an exception

Several properties have the form "X, unless Y". There the code does not
guarantee X, and the property says that Y is the only way to lose it. `Y` is a
history variable set by the one step that does the harm. Seven
configurations state X alone and end in a counterexample. The first is the run
`edge_slow_answer`, whose finding is in `PROJECT.json`.

| Configuration (module) | Sentence of the repository | What happens |
|---|---|---|
| `PqEdgeSlowAnswer.cfg` (`PqEdge`) | "Exact duplicate records retransmit the persisted exact frame" | a retransmission crosses an answer slower than 5 s; the second ACK finds no outbox and the edge is failed as forked |
| `PqEdgeStaleAdmission.cfg` (`PqEdge`) | "never step the ratchet into a healing exchange" | a send passes the gate, queues behind the OFFER transition and derives its key inside the exchange |
| `PqEdgeStranded.cfg` (`PqEdge`) | "before waiting for old-epoch channels to drain" | a transfer the answering side is still sending stays in the old epoch and cannot be opened |
| `PqSessionFlag.cfg` (`PqSession`) | "the caller MUST persist `serialize()` BEFORE sending that frame" | a caller guided by `requiresPersistBeforeSend` sends a repeated answer whose state was never stored, crashes and forks |
| `TransferReload.cfg` (`Transfer`) | a completed transfer is one the receiver stored | a room response reloads a half-received message, its bytes are counted twice, and the receiver confirms a message it does not hold |
| `CoverWipedKey.cfg` (`Cover`) | "The message key/context are dead once the job's cells are all sealed" | the wait for the confirmation times out with cells still to seal |
| `ReceiveStoreTail.cfg` (`MCReceiveStore`) | a record without bytes has them in the file | a call fails after the handle counted its chunk; the retry counts as a second chunk and a short last chunk gives the size of a full one |

A failed checkpoint write also leads to a rejected ACK (`OnlyMishapsFork`
allows both). `fnDeleteRatchetSession` reports success when a delete fails, so a
rolled-back seed may stay in the row (`RowWasEstablished` assumes no delete was
lost).

### Properties outside the runs

The modules state a few more properties, which the runs leave out in favour of
the ones above: the type invariants, `RootsAgreeAfterCrash`,
`SnapshotsRestorable`, `OwnerIsDurable`, `KeyHandedOnce`, `RowWasEstablished`,
`SeedsSettle`, `KeysAgree`, `OnlyMismatchCounts`,
`OnlySignalsInFlightOutliveLeave`, `TerminalCloseReleases`, `JobHasOnePlace`,
`ReceiptsAreDrained`, `ConsumedKeysAreGone`, `SendEnds`. TLC finds them true
at the bounds of the runs; naming one in the cfg repeats this. The same holds of
the inductive invariants `ExchangeInv`, `CellsInv`, `DurableInv`,
`FramesDispatched`, `CalmInv`, `SendInv`, `PageInv`, `SocketInv`, `LeaseInv`,
`FlightInv` and those of `PqSession` and `Ratchet` (some stand in the modules
of their proofs). These, and `Restorable`, `EpochMovesByOne`, the `TypeOK` of
`PqExchange`, `RootsAgreeAfterCrash`, `SnapshotsRestorable`, `OwnerIsDurable`,
`KeyHandedOnce`, `RowWasEstablished` and `KeysAgree`, are proved.
`PqEdgeBoth.cfg` repeats `edge` with messages both ways and answers in time.

### Bounds

- `exchange`: `MaxU64 = 3` gives three exchanges, so each side offers and
  answers, frames of two earlier exchanges are still on the wire, and the
  counter limit is met; `MaxRetries = 2`; `MaxFresh = 8` only cuts behaviours
  that abandon more candidates than the three exchanges need.
- `session`: one exchange up to the counter limit, and three crashes of either
  side at any step. `MaxRetries` is the code's 8. That each side has both roles
  is covered by `exchange` and `edge`.
- `edge`: two exchanges, two dispatches per outbox, one message of two chunks,
  whose sender offers in one exchange and answers in the other, one failing
  write and one slow answer, which together exhaust the retries.
- `edge_keys`: five messages with `MaxSkip`, `MaxSkipSession` and the cache so
  small that every limit is hit and two DH steps each way happen; five cells,
  a window of two; three connections with two keys each, one failing write,
  one lost delete. Three connections are needed for a replacement to be
  replaced while the first one's write is still queued.
- `send_job`: two sends of equal content, two peers, one failed write or
  deletion, one cancel. `transfer`: two real chunks and a decoy, a queue of two frames, a
  window of one, two rounds, one resume on a second connection, one fault.
- `receive_store`: one handle for two messages, two faults.
- `cover`: one message of two cells on two lanes, two receipts of which one may
  wait, one fault; the message and the drain job compete for lanes over
  several cycles.
- `handshake`: two connections, two PINs, the first failure starts a backoff
  that doubles to its maximum, a window of two failures, one fault.
- `negotiation`: a first offer and two restarts, one fault, one pending
  candidate per edge.
- `page`: two rooms, two handles, five connections, four events of the
  application, the server or the network; only the events bound the sockets. An event starts a chain of
  steps, and four let a second call overlap a first and a teardown and a signal
  come in between.

Deadlock is checked where the system can always go on (`PqSession`, `Cover`,
`ReceiveStore`). The others may stop: counters run out, edges fail,
connections close for good, sends end.

### Fairness

- `PqSession`: the caller retransmits what is pending, finishes the jobs it
  began, and a frame that is always sent again arrives; this is the caller's
  duty in `docs/session-api.md`.
- `PqEdge`: the interval timer ticks, promises continue in order, the reliable
  channel delivers, receive queues drain.
- `EdgePersistence`: promise continuations run and the worker answers.
- `Transfer`: the sender's steps, the receiver's steps and deliveries, and the
  ends of connection and handshake each go on. The last connection stays up.
- `SendJob`: every send goes on. `Cover`: time passes and due timers and
  productions run. `Handshake`, `Negotiation`, `Page`: the event loops run
  what is ready, a lost connection is noticed, the server answers.

Of the application only this is assumed: the sends of `SendJob` and `Transfer`
are started. No fault, no cancel and no other call of the user is fair.

## Proofs

**`PqExchange_proofs`**, for every `MaxU64` in Nat and every positive
`MaxRetries`, with no bound on exchanges, frames or retries:
`ExchangeInvariant` (`Spec => []ExchangeInv`), `TypeCorrect`, `RootsAgree`,
`SlotsNeverFork`, `OpenTrafficAgrees`, `AlwaysRestorable` and, for the action
property, `EpochsMoveByOne`.

`RootAgreement` is not inductive. When one side commits an ADVANCE, the new
roots agree only because the other side derived its root from that very frame,
and it did because everything else on the wire is of a slot already left.
`ExchangeInv` states this. `TurnHolder`: either both sides are in step and one
is idle (`InStep`), or exactly one has committed the answer to the other's
OFFER and is one epoch ahead (`OneAhead`). `Kept`: counters equal the epoch,
the outbox is of the current slot. `WireSlots`: a frame on the wire is of a
slot its sender has left, or is its outbox. `Restorable` and `NoFork` complete
it. The proof has a lemma per action (`StartExchangeKeeps`, `RetransmitKeeps`,
`ReceiveAdvanceKeeps`, ...) over lemmas on what each runtime operator returns.
The two that carry the argument, `OfferIsOutbox` and `AdvanceIsOutbox`, say
that a frame which opens and passes the checks is the outbox of the other side.

**`PqEdge_proofs`**, for every number of faults, slow answers, chunks and
senders. `EdgeImplementsExchange` is the refinement, step by step: a transition
that runs under the lock of the edge is the step of `PqExchange` it names, and
everything else leaves runtimes and dispatched frames alone. It rests on
`DispatchedInvariant`, that a frame on the channel, in a queue or waiting for
the lock was dispatched (`FramesDispatched`): a step of `PqExchange` may only
receive what is in `net`. With it, what `PqExchange_proofs` shows of the runtimes
and of the frames ever sent holds of the two orchestrators.
`OnlyMishapsForkTheorem` says that an honest frame is rejected only after a
slow answer or a failed write. Nothing of the kind follows from `PqExchange`,
where any old frame may come back. `CalmInv` says why: until the first mishap
one frame at a time travels (`OneFrameAtATime`), either none, the OFFER, its
ADVANCE or its ACK (`NoExchange`, `OfferTravels`, `AdvanceTravels`,
`AckTravels`), it is in one of three places (channel, queue, lock), and it is
the one the other end accepts in its state.

**`PqHealing_proofs`** has the lemmas these and the next use: what each
transition of the runtime returns, field by field.

**`PqSession_proofs`**, for a caller that keeps the contract (`PersistAlways`),
any limits and any number of crashes: `CrashNeverForksTheorem`,
`RootsAgreeTheorem` and `SnapshotsRestorableTheorem`, from `SessionInvariant`. A
crash goes back to the stored snapshot, which may be behind the live session,
so a state of the exchange is four runtimes and not two. The invariant says
that the exchange stands between any two the sides may continue from, session or
snapshot (`Paired`), that a frame on the wire, or one whose store is done, is of
a slot its sender's snapshot knows of (`OfSlot`), and that a frame still to be
stored is of one the session knows of.

**`EdgeKeys_proofs`** is about the three sides of `EdgeKeys`.

- `CellsSpec`, for every window, number of cells and epochs:
  `CellsActOnceTheorem` and `OnlyLateCellsTheorem`, from `CellsInvariant`. That
  a cell acts once is not inductive, because old numbers are forgotten: the
  invariant adds that an accepted number is in the window's set or a whole
  window behind the highest, and that nothing in the set is ahead of the highest.
- `RowSpec`, for any number of connections, keys, failed writes and lost
  deletes: `NoKeyReuseTheorem`, `OwnerIsDurableTheorem`,
  `RowWasEstablishedTheorem` and, for the action properties,
  `WritesLastTheorem` and `KeyHandedOnceTheorem`, from `DurableInvariant`. The
  row is past every key handed out only because a mutation under way is, too
  (`Ahead`), and because no old connection can still write behind the seed of
  its replacement. `Claimed` orders the connections, `Queued` says that the
  tickets of a replaced connection are first in the lock and gone once the
  replacement is up, `Called` what a worker call has done to the row.
- `Ratchet`, for every limit and number of messages: `OnlyLimitsTheorem`, from
  `RatchetInvariant`. The key of an unread message can be derived because the
  ends are one DH step apart at most (`Lags`: one has not seen the present key
  of the other), every place on a chain is given to one message (`Sender`), and
  a place the receiving chain is past has its key among the skipped ones or
  lost it to eviction (`Receiver`).

**`SendJob_proofs`**, for any sends, peers, message size, failed writes and
cancels: `StagingOutlivesTransfersTheorem`, `NoOrphanTheorem` and
`CancelIsScopedTheorem`, from `SendInvariant`. That a finished send leaves all
or nothing depends on what it left at every earlier await, with a cancel half
done in between, and a deletion that failed. `SendInv` states it phase by phase: `FanOut` (transfers run
only over staged chunks of a committed message), `Cancels` (who may have deleted
what), `Kept` (all, nothing, or what the pending cancel will delete), and that
the list names no message twice (`ListedOnce`), without which one deletion
would leave an entry.

**`Handshake_proofs`**, for any PINs, number of connections, faults and backoff:
`KeysBelongToGateTheorem` and, for the action property, `NoGuessTheorem`, from
`LeaseInvariant`. Attempts of replaced connections run on, so the invariant says
what the newest one owns: `Leases` (a gate that has not settled, the inbox and the
keys belong to the registered connection, which is the last one made), `Fresh`
(a connection not made yet saw no frame) and `Owns` (the attempt that holds the
inbox asked the throttle, and the backoff has not started since).

Its second part goes on to `FlightInvariant`, `OnlyLateFailuresTheorem` and
`KeysAgreeTheorem`. That both ends have the same
secret needs the flights themselves: a confirmation proves something only if
it is the one the peer computed for this attempt. `Flow` says that, while an
attempt owns the inbox of its end, queue and channel hold, in order, the frames
the other end has sent (`MayHaveSent`) and this one has not taken (`Took`), and
`Confirmed` what each end knows of the other after its last check. `Over`, `Done`
and `Statuses` say what is left when an attempt ends.

**`Page_proofs`**, for any handles, rooms, sockets, connections and events:
`OneTransportTheorem` and `KeepsClosedTheorem`, from `PageInvariant`, and
`OnlyDisconnectTheorem`, from `SocketInvariant`.
`OneTransport` holds at a reservation only because of what the task that holds
the identity's mutex found before and what no other task may do meanwhile.
`TaskInv` says what each waiting task knows of the registry at its await, with
teardowns allowed in between. `Apart` says that no connection is registered or
held under two handles. `TasksUpTo` bounds the connections a task holds by those made.
There is a lemma per step of the registry, and one that signaling leaves it
alone. `SocketInv` adds to the property that a socket is opened only while none
is kept and the flags say so, which is what the two early returns of
`connectWebSocket` rely on.

TLC finds every inductive invariant true at the bounds of its run as well. The
proofs assume no more of the constants than the modules do (the
`ASSUME`s: bounds are natural numbers, sizes are positive, a backoff does not
start above its maximum).

Only model-checked:

- the liveness properties (`ExchangeSettles`, `AttemptsEnd`, `MutationsEnd` and
  the others): they need fairness, and ENABLED is out of the prover's reach;
- the safety of `Negotiation`, `Transfer`, `ReceiveStore` and `Cover`: their
  inductive invariants are not written down yet;
- `OnlyEvictionStrandsTransfers`: the cache is a sequence filtered with
  `SelectSeq`, whose operator parameter the provers cannot instantiate;
- what the folds of `ReceiveStore` (`TotalSize`, the bytes of a file) compute
  for every layout: that needs induction over data, which the installed
  provers do not do.

## Not modelled

- Cryptographic primitives, wiping, Merkle trees, chunk metadata, codecs,
  validation of messages: pure functions of bytes, tested against vectors. In
  the models a frame opens when key, epoch and direction match, and a handshake
  agrees when the inputs do.
- The address book, the blacklist, schema upgrades, row encryption, statistics
  and React bindings: one-step reads and writes without a protocol.
- The byte budgets shared between channels and edges, and the total bound on
  candidates: they need several edges at once. Each module has one edge, or one
  page.
- The healing cadence (an exchange is due at any time, which covers 64 messages
  and 24 hours) and wall-clock time: `MaxSlow` says how often a deadline may
  pass while an answer is under way, and elsewhere a timeout may fire at any
  wait that has one.
- A second handshake on the same connection object; several tabs of a page.
- Compositions that TLC cannot hold: `Ratchet` with `PqEdge` (a PQ transition
  that replaces the key map while a chunk waits for the lock), `Handshake` with
  `EdgePersistence`, `Transfer` with `ReceiveStore`. Each takes the other's
  interface for granted: a step is durable, a seed is written or not, a stored
  chunk is stored.

### Observations

Met while translating, and in the models as the code has them:

- the receipt window is reset on every retransmission pass, and the last pass
  is not followed by a wait for its receipts (`handlers/handleSendMessage.ts`);
- a channel stays listed when `sendWithReconcile` fails before its `try` (a
  timeout of the admission, a failed ratchet step); while it does, the edge is
  not quiescent and starts no healing exchange;
- `connectToSignalingServer` on a verified socket enters a room and never asks
  for its id, and a second `connect` of a room that is being joined enters it
  again without an id: `OnlyOverlappingJoinsStrand` excepts both;
- an edge that fails closes its transport and leaves it registered until an
  event of the transport or the user tears it down;
- when the orchestrator or the cover runtime cannot be installed after an
  authenticated handshake, the gate is open and the keys are in place on a
  connection that is closed and reported as failed;
- a storage error in the close handler keeps an incomplete message, one in the
  room listener keeps the stored data of a message that is no longer listed,
  and one in the cleanup of staging leaves the send among the active ones;
- receipts that are still queued when the sender's channel closes are dropped,
  and replayed on the next channel only;
- data that arrives before the gate opens closes the channel
  (`handlers/handleOpenChannel.ts:544`), where the comment in
  `handlers/handleMessageQueueing.ts:339` lets it wait;
- the message count of a room counts alternations between messages
  (`db/db.worker.ts`), so it is an upper bound, which is what `StoresAgree`
  says;
- concurrent opens may exceed the cap on receive handles.
