------------------------------- MODULE Cover --------------------------------
(***************************************************************************)
(* The scheduled cover of one peer edge: the CoverScheduler with its timer *)
(* and its cycles, the receipts that coverTransfer drains through it, the  *)
(* messages that sendScheduled hands to it, and the edge that installs it  *)
(* and tears it down.  Time is counted in half slots and kept relative: a  *)
(* cycle is Length of them, and every deadline is stored as what is left   *)
(* until it, down to "later than the drift the code tolerates".            *)
(***************************************************************************)
EXTENDS Integers, FiniteSets, FiniteSetsExt

CONSTANTS
    Messages,     \* the messages sent over the edge, a set of strings
    Chunks,       \* cells of a message
    Lanes,        \* coverLanes
    Capacity,     \* cells of a lane in a cycle: coverFramesPerCell x coverDurationEpochs
    MaxReceipts,  \* messages of the peer that complete here
    MaxPending,   \* MAX_PENDING_SCHEDULED_RECEIPTS
    MaxFaults     \* late timers, refused cells, suspensions and other mishaps

ASSUME CoverAssumption == Lanes \in Nat \ {0} /\ Chunks \in 1 .. Capacity /\ MaxPending \in Nat \ {0}

Length == 2 * Lanes * Capacity
Drift == 1                              \* maxTimerDriftMs is just under a slot
Late == -(Drift + 1)
Drain == "drain"                        \* the control job that sends receipts
None == "none"
Jobs == Messages \cup {Drain}
LaneIds == 0 .. Lanes - 1

VARIABLES
    phase,     \* the time since the last point of the room's cycle grid
    sched,     \* the scheduler, with the receipts its drain job feeds on
    flight,    \* the cells being produced, each for the slot that asked for it
    send,      \* send[m]: where sendScheduled is with m
    cursor,    \* cursor[m]: the next chunk that nextRealIndex offers
    key,       \* key[m]: the message key the sealer of m holds
    staged,    \* staged[m]: the chunks of m are still staged
    arrived,   \* arrived[m]: the chunks of m that went out readable
    spoilt,    \* spoilt[m]: the chunks whose production failed or found nothing staged
    dead,      \* dead[m]: the chunks that a wiped key sealed
    received,  \* messages of the peer that completed here, so receipts queued
    confirmed, \* the receipts that went out
    dropped,   \* the receipts dropped at the bound or with the edge
    overlap,   \* the messages with two productions in flight at once
    faults

vars == <<phase, sched, flight, send, cursor, key, staged, arrived, spoilt, dead, received, confirmed, dropped, overlap, faults>>
sendVars == <<send, key, staged>>
cells == <<cursor, arrived, spoilt, dead>>
acks == <<received, confirmed, dropped>>

Settled == {"completed", "failed", "cancelled"}
Live(s, j) == s.job[j].state \in {"queued", "admitted"}

NoTimer == [kind |-> "none", left |-> 0]
NoCycle == [open |-> FALSE, left |-> 0, next |-> 0, lane |-> [l \in LaneIds |-> None]]
NoJob == [state |-> "absent", ever |-> FALSE, sent |-> 0, pending |-> 0, declared |-> 0, seq |-> 0]

TypeOK ==
    /\ phase \in 0 .. Length - 1
    /\ sched.status \in {"starting", "active", "degraded", "suspended", "stopped"}
    /\ sched.timer \in [kind : {"none", "open-boundary", "cycle-boundary", "slot"}, left : Late .. Length]
    /\ sched.cycle \in [open : BOOLEAN, left : -1 .. Length, next : 0 .. Lanes * Capacity, lane : [LaneIds -> Jobs \cup {None}]]
    /\ sched.queue \subseteq Jobs
    /\ sched.job \in [Jobs -> [state : {"absent", "queued", "admitted"} \cup Settled, ever : BOOLEAN, sent : 0 .. Capacity,
                               pending : Int, declared : 0 .. Capacity, seq : Nat]]
    /\ sched.receipts \subseteq 1 .. MaxReceipts /\ Cardinality(sched.receipts) <= MaxPending /\ sched.drain \in BOOLEAN
    /\ \A f \in flight : f.job \in Messages /\ f.cell \in 1 .. Chunks /\ f.stale \in BOOLEAN
    /\ send \in [Messages -> {"idle", "waiting", "delivered", "timedOut", "aborted", "skipped"}]
    /\ cursor \in [Messages -> 1 .. Chunks + 1] /\ key \in [Messages -> {"none", "live", "wiped"}]
    /\ staged \in [Messages -> BOOLEAN]
    /\ arrived \in [Messages -> SUBSET (1 .. Chunks)] /\ spoilt \in [Messages -> SUBSET (1 .. Chunks)]
    /\ dead \in [Messages -> SUBSET (1 .. Chunks)]
    /\ received \in 0 .. MaxReceipts /\ confirmed \subseteq 1 .. MaxReceipts /\ dropped \subseteq 1 .. MaxReceipts
    /\ overlap \subseteq Messages /\ faults \in 0 .. MaxFaults

-----------------------------------------------------------------------------
\* The scheduler's methods, each from a state of it to the next.

\* nextCycleBoundary: what is left until the next point of the grid.
NextCycleBoundary(inclusive) == IF phase = 0 THEN (IF inclusive THEN 0 ELSE Length) ELSE Length - phase

Arm(s, kind, left) == [s EXCEPT !.timer = [kind |-> kind, left |-> left]]
Disarm(s) == [s EXCEPT !.timer = NoTimer]
ArmOpenBoundary(s) == Arm(s, "open-boundary", NextCycleBoundary(FALSE))
ArmCycleBoundary(s) == Arm(s, "cycle-boundary", s.cycle.left)

\* slotAt and armSlot: slot k is centred in the k-th interval of the cycle.
ArmSlot(s) == Arm(s, "slot", s.cycle.left - Length + 2 * s.cycle.next + 1)
SlotLane(s) == s.cycle.next % Lanes

\* compareQueuedJobs: control before real, then in the order of enqueueing.
Before(s, i, j) == i = Drain \/ (j # Drain /\ s.job[i].seq < s.job[j].seq)
Rank(s, j) == Cardinality({i \in s.queue \ {j} : Before(s, i, j)})

Enqueue(s, j, declared) ==
    [s EXCEPT !.queue = @ \cup {j},
              !.job[j] = [NoJob EXCEPT !.state = "queued", !.declared = declared,
                                       !.seq = Cardinality({m \in Messages : s.job[m].state # "absent"})]]

\* ensureReceiptDrainJob.
EnsureReceiptDrainJob(s) ==
    IF s.drain \/ s.receipts = {} THEN s
    ELSE Enqueue([s EXCEPT !.drain = TRUE], Drain, Min({Cardinality(s.receipts), Capacity}))

\* settle, with the onJobSettled callback of the drain job.  A lane whose job
\* has settled sends dummies, as a lane without a job does.
Settle(s, jobs, outcome) ==
    LET done == [s EXCEPT !.job = [j \in Jobs |-> IF j \in jobs THEN [NoJob EXCEPT !.state = outcome] ELSE @[j]],
                          !.queue = @ \ jobs,
                          !.cycle.lane = [l \in LaneIds |-> IF @[l] \in jobs THEN None ELSE @[l]]]
    IN IF Drain \in jobs THEN EnsureReceiptDrainJob([done EXCEPT !.drain = FALSE]) ELSE done

OnLanes(s) == {s.cycle.lane[l] : l \in LaneIds} \ {None}

\* interruptCycle with requeue: the jobs of the open lanes go back to the queue.
InterruptCycle(s) ==
    [s EXCEPT !.queue = @ \cup OnLanes(s),
              !.job = [j \in Jobs |-> IF j \in OnLanes(s) THEN [@[j] EXCEPT !.state = "queued"] ELSE @[j]],
              !.cycle.lane = [l \in LaneIds |-> None]]

FinalizeCycleJobs_Faulty(s) == InterruptCycle(s)

\* finalizeCycleJobs: a job that its cycle did not finish has failed.
FinalizeCycleJobs(s) == Settle(s, OnLanes(s), "failed")

CloseCurrentCycle(s) == [s EXCEPT !.cycle = NoCycle]

\* degrade: the lanes stay open until the end of the cycle, unless it is past.
Degrade(s) ==
    LET d == InterruptCycle([Disarm(s) EXCEPT !.status = "degraded"])
    IN CASE s.status \in {"stopped", "suspended"} -> s
         [] s.status \notin {"stopped", "suspended"} /\ s.cycle.open /\ s.cycle.left >= 0 -> ArmCycleBoundary(d)
         [] OTHER -> ArmOpenBoundary(CloseCurrentCycle(d))

Suspend_Faulty(s) == CloseCurrentCycle(InterruptCycle([Disarm(s) EXCEPT !.status = "suspended"]))

Suspend(s) ==
    LET d == InterruptCycle([Disarm(s) EXCEPT !.status = "suspended"])
    IN IF s.cycle.open /\ s.cycle.left >= 0 THEN ArmCycleBoundary(d) ELSE CloseCurrentCycle(d)

Resume(s) ==
    LET d == [Disarm(s) EXCEPT !.status = "starting"]
    IN IF s.cycle.open /\ s.cycle.left > 0 THEN ArmCycleBoundary(d) ELSE ArmOpenBoundary(CloseCurrentCycle(d))

\* stop, followed by teardownCoverEdge: every job fails and the lanes close.
Stop(s) == CloseCurrentCycle(Settle([Disarm(s) EXCEPT !.status = "stopped"], {j \in Jobs : Live(s, j)}, "failed"))

\* openCycle: the first jobs of the queue are admitted, a lane each.  When a
\* lane does not open, the cycle runs degraded and all of them go back.
OpenCycle(s, left, opens) ==
    LET chosen == {j \in s.queue : Rank(s, j) < Lanes}
        lane == [l \in LaneIds |-> IF \E j \in chosen : Rank(s, j) = l
                                   THEN CHOOSE j \in chosen : Rank(s, j) = l ELSE None]
        o == [s EXCEPT !.queue = @ \ chosen,
                       !.job = [j \in Jobs |-> IF j \in chosen THEN [@[j] EXCEPT !.state = "admitted", !.ever = TRUE] ELSE @[j]],
                       !.cycle = [open |-> TRUE, left |-> left, next |-> 0, lane |-> lane]]
    IN IF opens THEN ArmSlot([o EXCEPT !.status = "active"])
       ELSE ArmCycleBoundary(InterruptCycle([o EXCEPT !.status = "degraded"]))

\* handleCycleBoundary: a clean boundary opens the next cycle at once.
HandleCycleBoundary(s, closes, opens) ==
    LET c == CloseCurrentCycle(FinalizeCycleJobs(Disarm(s)))
    IN CASE ~closes -> ArmOpenBoundary([c EXCEPT !.status = "degraded"])
         [] closes /\ s.status = "suspended" -> c
         [] OTHER -> OpenCycle(c, Length + s.cycle.left, opens)

\* handleLateTimer: a late slot degrades; a late boundary suspends, and only
\* an event of the page resumes.
HandleLateTimer(s) ==
    IF s.timer.kind = "slot" THEN Degrade(s)
    ELSE [CloseCurrentCycle(InterruptCycle(Disarm(s))) EXCEPT !.status = "suspended"]

CacheUnsent_Faulty(s, j, cell) == s

\* cacheUnsent: a cell that was not sent is kept for the next slot of its job.
CacheUnsent(s, j, cell) == IF j \in Jobs /\ Live(s, j) THEN [s EXCEPT !.job[j].pending = cell] ELSE s

\* acceptSent and the end of sendSlot: count the cell, then the next slot.
AcceptSent(s, j) ==
    LET a == CASE j = None -> s
               [] j # None /\ s.job[j].sent + 1 = s.job[j].declared -> Settle(s, {j}, "completed")
               [] OTHER -> [s EXCEPT !.job[j].sent = @ + 1, !.job[j].pending = 0]
        n == [a EXCEPT !.cycle.next = @ + 1]
    IN IF n.cycle.next < Lanes * Capacity THEN ArmSlot(n) ELSE ArmCycleBoundary(n)

-----------------------------------------------------------------------------
Init ==
    /\ phase = 0
    /\ sched = [status |-> "starting", timer |-> [kind |-> "open-boundary", left |-> NextCycleBoundary(TRUE)], cycle |-> NoCycle,
                queue |-> {}, job |-> [j \in Jobs |-> NoJob], receipts |-> {}, drain |-> FALSE]
    /\ flight = {} /\ send = [m \in Messages |-> "idle"] /\ cursor = [m \in Messages |-> 1]
    /\ key = [m \in Messages |-> "none"] /\ staged = [m \in Messages |-> TRUE]
    /\ arrived = [m \in Messages |-> {}] /\ spoilt = [m \in Messages |-> {}] /\ dead = [m \in Messages |-> {}]
    /\ received = 0 /\ confirmed = {} /\ dropped = {} /\ overlap = {} /\ faults = 0

Fault == faults < MaxFaults /\ faults' = faults + 1
NoFault == UNCHANGED faults

\* A disarm changes the generation: the slots in flight are stale.
Stale(fs) == {[f EXCEPT !.stale = TRUE, !.left = 0] : f \in fs}
Current == {f \in flight : ~f.stale}

\* Half a slot passes.  A timer or a producer that overruns its slot is a fault.
Tick ==
    /\ phase' = (phase + 1) % Length
    /\ sched' = [sched EXCEPT !.timer.left = IF sched.timer.kind = "none" THEN 0 ELSE Max({@ - 1, Late}),
                              !.cycle.left = IF sched.cycle.open THEN Max({@ - 1, -1}) ELSE 0]
    /\ flight' = {IF f.stale THEN f ELSE [f EXCEPT !.left = Max({@ - 1, Late})] : f \in flight}
    /\ UNCHANGED <<sendVars, cells, acks, overlap>>
    /\ IF (sched.timer.kind # "none" /\ sched.timer.left = -Drift) \/ (\E f \in Current : f.left = -Drift)
       THEN Fault ELSE NoFault

OnTime(kind) == sched.timer.kind = kind /\ sched.timer.left \in -Drift .. 0

LateTimerFires ==
    /\ sched.timer.kind # "none" /\ sched.timer.left = Late
    /\ sched' = HandleLateTimer(sched) /\ flight' = Stale(flight)
    /\ UNCHANGED <<phase, sendVars, cells, acks, overlap, faults>>

OpenBoundaryFires ==
    /\ OnTime("open-boundary")
    /\ \E opens \in BOOLEAN :
         /\ sched' = OpenCycle(Disarm(sched), Length + sched.timer.left, opens)
         /\ IF opens THEN NoFault ELSE Fault
    /\ UNCHANGED <<phase, flight, sendVars, cells, acks, overlap>>

CycleBoundaryFires ==
    /\ OnTime("cycle-boundary")
    /\ \E closes, opens \in BOOLEAN :
         /\ closes \/ opens
         /\ sched' = HandleCycleBoundary(sched, closes, opens)
         /\ IF closes /\ opens THEN NoFault ELSE Fault
    /\ UNCHANGED <<phase, flight, sendVars, cells, acks, overlap>>

\* What leaves with a cell: a chunk under a wiped key is of no use.
Out(j, cell) ==
    /\ arrived' = [m \in Messages |-> IF m = j /\ cell > 0 THEN arrived[m] \cup {cell} ELSE arrived[m]]
    /\ confirmed' = IF j = Drain THEN confirmed \cup {cell} ELSE confirmed

\* lane.send: the transport takes the cell, or the channel is not open, is
\* full or throws.
LaneSend(s, j, cell) ==
    \/ sched' = AcceptSent(s, j) /\ Out(j, cell) /\ NoFault /\ flight' = flight
    \/ sched' = Degrade(CacheUnsent(s, j, cell)) /\ Fault /\ flight' = Stale(flight) /\ UNCHANGED <<arrived, confirmed>>

SlotJob == sched.cycle.lane[SlotLane(sched)]

\* A slot whose cell is at hand: a dummy, a cell kept from a slot that failed,
\* or the next receipt.
SlotSends ==
    /\ OnTime("slot")
    /\ LET s == Disarm(sched)
           j == SlotJob
       IN \/ /\ j = None \/ (j \in Messages /\ s.job[j].pending = 0 /\ cursor[j] > Chunks)
                         \/ (j = Drain /\ s.job[j].pending = 0 /\ s.receipts = {})
             /\ LaneSend(s, None, 0)
          \/ /\ j # None /\ s.job[j].pending # 0
             /\ LaneSend(s, j, s.job[j].pending)
          \/ /\ j = Drain /\ s.job[j].pending = 0 /\ s.receipts # {}
             /\ LaneSend([s EXCEPT !.receipts = @ \ {Min(@)}], j, Min(s.receipts))
    /\ UNCHANGED <<phase, sendVars, cursor, spoilt, dead, received, dropped, overlap>>

\* A slot of a message: nextRealIndex moves on and the sealer starts.
SlotProduces ==
    /\ OnTime("slot")
    /\ LET m == SlotJob
       IN /\ m \in Messages /\ sched.job[m].pending = 0 /\ cursor[m] <= Chunks
          /\ flight' = flight \cup {[job |-> m, cell |-> cursor[m], left |-> sched.timer.left, has |-> staged[m], stale |-> FALSE]}
          /\ cursor' = [cursor EXCEPT ![m] = @ + 1]
          /\ overlap' = IF \E f \in flight : f.job = m THEN overlap \cup {m} ELSE overlap
    /\ sched' = Disarm(sched)
    /\ UNCHANGED <<phase, sendVars, arrived, spoilt, dead, acks, faults>>

\* The sealer returned: nothing when the chunk is no longer staged.
SealSlotCell(f) ==
    LET m == f.job
        cell == IF key[m] = "wiped" THEN -f.cell ELSE f.cell
    IN \/ /\ f.has \/ staged[m]
          /\ dead' = IF cell < 0 THEN [dead EXCEPT ![m] = @ \cup {f.cell}] ELSE dead
          /\ UNCHANGED spoilt
          /\ \/ /\ f.stale /\ sched' = CacheUnsent(sched, m, cell)
                /\ flight' = flight \ {f} /\ UNCHANGED <<arrived, confirmed, faults>>
             \/ /\ ~f.stale /\ f.left = Late /\ sched' = Degrade(CacheUnsent(sched, m, cell))
                /\ flight' = Stale(flight \ {f}) /\ UNCHANGED <<arrived, confirmed, faults>>
             \/ /\ ~f.stale /\ f.left # Late
                /\ \/ sched' = AcceptSent(sched, m) /\ Out(m, cell) /\ NoFault /\ flight' = flight \ {f}
                   \/ sched' = Degrade(CacheUnsent(sched, m, cell)) /\ Fault
                      /\ flight' = Stale(flight \ {f}) /\ UNCHANGED <<arrived, confirmed>>
       \/ /\ ~(f.has /\ staged[m])
          /\ spoilt' = [spoilt EXCEPT ![m] = @ \cup {f.cell}] /\ UNCHANGED <<dead, arrived, confirmed, faults>>
          /\ \/ f.stale /\ sched' = sched /\ flight' = flight \ {f}
             \/ ~f.stale /\ f.left = Late /\ sched' = Degrade(sched) /\ flight' = Stale(flight \ {f})
             \/ ~f.stale /\ f.left # Late /\ sched' = AcceptSent(sched, None) /\ flight' = flight \ {f}

\* The sealer threw: whatever cycle is open now is degraded.
ProductionFails(f) ==
    /\ Fault /\ sched' = Degrade(sched) /\ flight' = Stale(flight \ {f})
    /\ spoilt' = [spoilt EXCEPT ![f.job] = @ \cup {f.cell}] /\ UNCHANGED <<dead, arrived, confirmed>>

SlotFinishes(f) ==
    /\ SealSlotCell(f) \/ ProductionFails(f)
    /\ UNCHANGED <<phase, sendVars, cursor, received, dropped, overlap>>

-----------------------------------------------------------------------------
\* The page is hidden, frozen or offline; later it is visible or online.
PageSuspends ==
    /\ sched.status \notin {"stopped", "suspended"} /\ Fault
    /\ sched' = Suspend(sched) /\ flight' = Stale(flight)
    /\ UNCHANGED <<phase, sendVars, cells, acks, overlap>>

PageResumes ==
    /\ sched.status = "suspended"
    /\ sched' = Resume(sched) /\ flight' = Stale(flight)
    /\ UNCHANGED <<phase, sendVars, cells, acks, overlap, faults>>

\* The terminal receipt of a message that completed here.
QueueScheduledReceipt ==
    /\ sched.status # "stopped" /\ received < MaxReceipts
    /\ received' = received + 1
    /\ LET all == sched.receipts \cup {received + 1}
           over == Cardinality(all) > MaxPending
       IN /\ sched' = EnsureReceiptDrainJob([sched EXCEPT !.receipts = IF over THEN all \ {Min(all)} ELSE all])
          /\ dropped' = IF over THEN dropped \cup {Min(all)} ELSE dropped
    /\ UNCHANGED <<phase, flight, sendVars, cells, confirmed, overlap, faults>>

HeldReceipt == {sched.job[Drain].pending} \ {0}

\* disconnectFromPeer: teardownCoverEdge, then releaseScheduledReceipts.
DisconnectFromPeer ==
    /\ sched.status # "stopped" /\ Fault
    /\ sched' = [Stop(sched) EXCEPT !.receipts = {}, !.drain = FALSE, !.queue = {}, !.job[Drain] = NoJob]
    /\ dropped' = dropped \cup sched.receipts \cup HeldReceipt
    /\ flight' = Stale(flight)
    /\ UNCHANGED <<phase, sendVars, cells, received, confirmed, overlap>>

-----------------------------------------------------------------------------
\* sendScheduled for one peer: the ratchet steps and the message is a job.
SendScheduled(m) ==
    /\ send[m] = "idle"
    /\ \/ /\ sched.status = "stopped"
          /\ send' = [send EXCEPT ![m] = "skipped"] /\ UNCHANGED <<sched, key>>
       \/ /\ sched.status # "stopped"
          /\ send' = [send EXCEPT ![m] = "waiting"] /\ key' = [key EXCEPT ![m] = "live"]
          /\ sched' = Enqueue(sched, m, Chunks)
    /\ UNCHANGED <<phase, flight, staged, cells, acks, overlap, faults>>

\* waitForCompletion ends: the peer's terminal receipt, or the timeout; both
\* wipe the key.
Confirmed(m) ==
    /\ send[m] = "waiting"
    /\ \/ arrived[m] = 1 .. Chunks /\ send' = [send EXCEPT ![m] = "delivered"]
       \/ send' = [send EXCEPT ![m] = "timedOut"]
    /\ key' = [key EXCEPT ![m] = "wiped"]
    /\ UNCHANGED <<phase, sched, flight, staged, cells, acks, overlap, faults>>

Abort_Faulty(m) ==
    /\ send[m] = "waiting" /\ send' = [send EXCEPT ![m] = "aborted"] /\ key' = [key EXCEPT ![m] = "wiped"]
    /\ UNCHANGED <<phase, sched, flight, staged, cells, acks, overlap, faults>>

\* An abort ends the wait with an exception, past the wipe.
Abort(m) ==
    /\ send[m] = "waiting" /\ send' = [send EXCEPT ![m] = "aborted"]
    /\ UNCHANGED <<phase, sched, flight, key, staged, cells, acks, overlap, faults>>

\* handleSendMessage deletes the staged chunks once no target is left.  Of
\* interest only while a producer may still read them.
DeleteStaged(m) ==
    /\ send[m] \notin {"idle", "waiting"} /\ staged[m] /\ staged' = [staged EXCEPT ![m] = FALSE]
    /\ Live(sched, m) \/ \E f \in flight : f.job = m
    /\ UNCHANGED <<phase, sched, flight, send, key, cells, acks, overlap, faults>>

\* coverRuntime.cancel before the job is admitted; afterwards it throws, for
\* no job has a cancelCell.
Cancel(m) ==
    /\ Live(sched, m) /\ ~sched.job[m].ever
    /\ sched' = Settle(sched, {m}, "cancelled")
    /\ UNCHANGED <<phase, flight, sendVars, cells, acks, overlap, faults>>

TimerFires == LateTimerFires \/ OpenBoundaryFires \/ CycleBoundaryFires \/ SlotSends \/ SlotProduces

Next ==
    \/ Tick \/ TimerFires
    \/ \E f \in flight : SlotFinishes(f)
    \/ PageSuspends \/ PageResumes \/ QueueScheduledReceipt \/ DisconnectFromPeer
    \/ \E m \in Messages : SendScheduled(m) \/ Confirmed(m) \/ Abort(m) \/ DeleteStaged(m) \/ Cancel(m)

\* Time passes, and the event loop runs what is due.
Fairness == WF_vars(Tick) /\ WF_vars(TimerFires \/ \E f \in flight : SlotFinishes(f))

Spec == Init /\ [][Next]_vars /\ Fairness
-----------------------------------------------------------------------------
\* Every job that has not settled is in exactly one place: in the queue, or on
\* one lane of the open cycle.  Interruption, a lane that does not open, a late
\* timer and a cancel all move jobs between the two (requeue, removeQueued).
JobHasOnePlace ==
    \A j \in Jobs :
      LET lanes == {l \in LaneIds : sched.cycle.lane[l] = j}
      IN /\ sched.job[j].state = "queued" <=> j \in sched.queue
         /\ sched.job[j].state = "admitted" => Cardinality(lanes) = 1
         /\ sched.job[j].state # "admitted" => lanes = {}

Whereabouts(m, c) ==
    {p \in {"sent", "kept", "in production"} :
       \/ p = "sent" /\ c \in arrived[m]
       \/ p = "kept" /\ sched.job[m].pending = c
       \/ p = "in production" /\ \E f \in flight : f.job = m /\ f.cell = c}

\* A message that the scheduler calls completed has put every chunk of it on
\* the wire, readable, and while it is not settled every chunk its cursor has
\* passed went out, is kept or is in production, in one of these only, or was
\* spoilt by a sealer that threw, found nothing staged or held a wiped key.
\* The exception is a production that outlives its cycle and meets
\* the next one of the same job (sendSlot, cacheUnsent).
OnlyOverlapLosesCells ==
    \A m \in Messages \ overlap :
      /\ sched.job[m].state = "completed" => arrived[m] \cup spoilt[m] \cup dead[m] = 1 .. Chunks
      /\ Live(sched, m) =>
           /\ \A c \in (1 .. cursor[m] - 1) \ (spoilt[m] \cup dead[m]) : Cardinality(Whereabouts(m, c)) = 1
           /\ sched.job[m].sent >= Cardinality(arrived[m])

\* A chunk is sealed under a wiped key only when the wait for the confirmation
\* of its message timed out: a confirmed or an aborted message leaves the
\* sealer of its job a live key (sendScheduled).
OnlyTimeoutSealsDead == \A m \in Messages \ overlap : dead[m] # {} => send[m] = "timedOut"

\* "The message key/context are dead once the job's cells are all sealed":
\* no chunk is sealed under a wiped key (handleSendMessage.ts:1111).
SealedUnderLiveKey == \A m \in Messages : dead[m] = {}

\* Every receipt owed is waiting, held by the drain job, sent, or was dropped
\* at the bound or with the edge; and waiting receipts have a drain job that
\* will send them (queueScheduledReceipt, ensureReceiptDrainJob).
ReceiptsAreDrained ==
    /\ 1 .. received = sched.receipts \cup HeldReceipt \cup confirmed \cup dropped
    /\ sched.receipts # {} => Live(sched, Drain)

\* The lanes of a cycle close at its end and not before, whatever happens to
\* the jobs on them, unless the whole edge goes (closeCurrentCycle, stop).
LanesCloseAtBoundary ==
    [][sched.cycle.open /\ ~sched'.cycle.open =>
         sched.cycle.left <= 0 \/ sched'.status = "stopped"]_vars

\* A job handed to the scheduler settles, unless cover is suspended or stopped.
JobsSettle ==
    \A m \in Messages : Live(sched, m) ~> (~Live(sched, m) \/ sched.status \in {"suspended", "stopped"})
=============================================================================
