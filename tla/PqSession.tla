------------------------------ MODULE PqSession ------------------------------
(***************************************************************************)
(* The store-free session API (session.ts) driving the healing runtime.    *)
(* The session mutates its live runtime and hands the caller a frame; the  *)
(* caller stores serialize() and sends the frame, and after a crash        *)
(* continues from the last snapshot it stored (restoreSession).  The       *)
(* caller's calls run concurrently: while one waits for its store, another *)
(* may accept the next frame.  The wire loses, repeats and reorders.       *)
(*                                                                         *)
(* The caller is external.  With PersistAlways it follows the contract of  *)
(* the P2PartySession interface (persist before sending any frame);        *)
(* without it, it follows requiresPersistBeforeSend, as the emit() of      *)
(* docs/session-api.md does.  Its store keeps the newest snapshot.         *)
(***************************************************************************)
EXTENDS PqHealing

CONSTANTS
    PersistAlways,  \* which of the two caller contracts is followed
    MaxCrashes      \* how many crashes a behaviour contains

ASSUME PersistAlwaysAssumption == PersistAlways \in BOOLEAN
ASSUME MaxCrashesAssumption == MaxCrashes \in Nat

VARIABLES
    live,     \* live[p]: the runtime of p's session object
    snap,     \* snap[p]: the runtime in the snapshot p stored last
    jobs,     \* jobs[p]: the frames p's caller holds, to persist for or to send
    net,      \* every frame ever put on the wire
    fresh,    \* the number of the next KEM randomness
    crashes   \* crashes so far

vars == <<live, snap, jobs, net, fresh, crashes>>

Jobs == [frame : Frames, persist : BOOLEAN]

TypeOK ==
    /\ live \in [Peers -> Runtimes] /\ snap \in [Peers -> Runtimes]
    /\ \A p \in Peers : jobs[p] \subseteq Jobs
    /\ net \subseteq Frames
    /\ fresh \in Nat /\ crashes \in 0 .. MaxCrashes

Init ==
    /\ live = [p \in Peers |-> InitRuntime(p)]
    /\ snap = live
    /\ jobs = [p \in Peers |-> {}]
    /\ net = {} /\ fresh = 1 /\ crashes = 0

\* A control output handed to the caller's emit(); a null frame ends there.
Emit(p, f, required) ==
    jobs' = IF f = NoFrame THEN jobs
            ELSE [jobs EXCEPT ![p] =
                    @ \union {[frame |-> f, persist |-> required \/ PersistAlways]}]

PrepareHealing(p) ==
    /\ HealingDue(live[p]) /\ CanStartExchange(live[p])
    /\ live' = [live EXCEPT ![p] =
                  MarkPendingDispatched(PrepareHealingOffer(p, @, fresh))]
    /\ fresh' = fresh + 1
    /\ Emit(p, OfferFrame(p, live[p], fresh), TRUE)
    /\ UNCHANGED <<snap, net, crashes>>

\* An exact duplicate repeats the reply and asks for no write.
AnswerDuplicate(p, f) ==
    /\ Duplicate(live[p], f)
    /\ Emit(p, DuplicateReply(live[p], f), FALSE)
    /\ UNCHANGED <<live, snap, net, fresh, crashes>>

AcceptControlFrame(p, f) ==
    /\ Accepts(p, live[p], f)
    /\ live' = [live EXCEPT ![p] = AfterAccept(p, @, f, fresh)]
    /\ fresh' = fresh + (IF f.type = "offer" THEN 1 ELSE 0)
    /\ Emit(p, AcceptReply(p, live[p], f, fresh), TRUE)
    /\ UNCHANGED <<snap, net, crashes>>

PendingControl(p) ==
    /\ live[p].outbox # NoFrame
    /\ Emit(p, live[p].outbox, FALSE)
    /\ UNCHANGED <<live, snap, net, fresh, crashes>>

\* storeSnapshot(serialize()): whatever the session is by now.
Persist(p, j) ==
    /\ j.persist
    /\ snap' = [snap EXCEPT ![p] = live[p]]
    /\ jobs' = [jobs EXCEPT ![p] = (@ \ {j}) \union {[j EXCEPT !.persist = FALSE]}]
    /\ UNCHANGED <<live, net, fresh, crashes>>

Send(p, j) ==
    /\ ~j.persist
    /\ net' = net \union {j.frame}
    /\ jobs' = [jobs EXCEPT ![p] = @ \ {j}]
    /\ UNCHANGED <<live, snap, fresh, crashes>>

\* The process dies and restoreSession continues from the stored snapshot.
CrashRestore(p) ==
    /\ crashes < MaxCrashes
    /\ CheckpointCoherent(snap[p])
    /\ live' = [live EXCEPT ![p] = snap[p]]
    /\ jobs' = [jobs EXCEPT ![p] = {}]
    /\ crashes' = crashes + 1
    /\ UNCHANGED <<snap, net, fresh>>

RunJob(p) == \E j \in jobs[p] : Persist(p, j) \/ Send(p, j)

Receive(p) == \E f \in net : AcceptControlFrame(p, f) \/ AnswerDuplicate(p, f)

Next ==
    \E p \in Peers :
        \/ PrepareHealing(p) \/ PendingControl(p) \/ RunJob(p)
        \/ Receive(p) \/ CrashRestore(p)

(***************************************************************************)
(* Fairness is the caller's and the wire's: a pending flight is            *)
(* retransmitted, a job that was begun is finished, and a frame that keeps *)
(* being sent arrives.                                                     *)
(***************************************************************************)
Fairness ==
    \A p \in Peers :
        /\ WF_vars(PendingControl(p))
        /\ \A t \in {"offer", "advance", "ack"} :
             /\ WF_vars(\E j \in jobs[p] : j.frame.type = t /\ Persist(p, j))
             /\ WF_vars(\E j \in jobs[p] : j.frame.type = t /\ Send(p, j))
             /\ WF_vars(\E f \in net : f.type = t /\ AcceptControlFrame(p, f))
             /\ WF_vars(\E f \in net : f.type = t /\ AnswerDuplicate(p, f))

Spec == Init /\ [][Next]_vars /\ Fairness

-----------------------------------------------------------------------------
Wire == INSTANCE PqExchange WITH rt <- live

Stored == INSTANCE PqExchange WITH rt <- snap

(***************************************************************************)
(* "... so a crash cannot fork the OFFER/ADVANCE/ACK sequence": across     *)
(* crashes and restores, no slot is ever reused on the wire for different  *)
(* bytes.                                                                  *)
(***************************************************************************)
CrashNeverForks == Wire!NoFork

(***************************************************************************)
(* Whatever both sides do next, and whichever of them restarts now, the    *)
(* roots of one epoch are the same: live against live, and stored against  *)
(* stored.                                                                 *)
(***************************************************************************)
RootsAgreeAfterCrash == Wire!RootAgreement /\ Stored!RootAgreement

(***************************************************************************)
(* Every snapshot the caller may restore passes the restore's coherence    *)
(* checks.                                                                 *)
(***************************************************************************)
SnapshotsRestorable == Stored!Restorable

(***************************************************************************)
(* A side that has blocked its traffic for an exchange unblocks it: the    *)
(* retransmitted flight is answered from the state the other side kept,    *)
(* even when a crash took it back to its snapshot.                         *)
(***************************************************************************)
ExchangeCompletes ==
    \A p \in Peers : TrafficBlocked(live[p]) ~> ~TrafficBlocked(live[p])
=============================================================================
