------------------------------ MODULE SendJob -------------------------------
(***************************************************************************)
(* Two or more logical messages sent from one page to one room             *)
(* (sendMessage, handleSendMessage, splitToChunks), their registry of      *)
(* abort signals (transferAbort.ts) and cancelMessage.  The messages have  *)
(* the same content, so the same hash; their roots differ, because every   *)
(* staged chunk is padded at random.  The transfer to one peer is abstract *)
(* here: it reads the staged chunks until it ends delivered or failed, and *)
(* Transfer describes it.                                                  *)
(***************************************************************************)
EXTENDS Integers, Sequences, FiniteSets

CONSTANTS
    Jobs,        \* the sends
    Peers,       \* the peers of the channel, a set of numbers in list order
    Size,        \* chunks of a message
    MaxFaults,   \* failed writes
    MaxCancels   \* cancelMessage and abortRoomTransfers calls

ASSUME SendJobAssumption ==
    Size \in Nat \ {0} /\ Peers \subseteq Nat /\ MaxFaults \in Nat /\ MaxCancels \in Nat

VARIABLES
    job,         \* job[j]: where handleSendMessage is
    aborted,     \* aborted[j]: the abort signal
    staged,      \* staged[j]: chunks in newChunks
    copied,      \* copied[j]: chunks of the sender's own copy
    history,     \* history[j]: the row of the message
    list,        \* the jobs in the message list of the Redux state, in order
    rooted,      \* the jobs whose entry in the list has its Merkle root
    committed,   \* committed[j]: localMessageCommitted
    xfer,        \* xfer[j][p]: the transfer to p
    pending,     \* the jobs whose cancel has yet to close channels and unlist
    purging,     \* the jobs unlisted whose stored data is yet to be deleted
    undeleted,   \* the jobs of which a failed deletion left the stored data
    named,       \* the jobs cancelled by transfer id or root
    hashCancel,  \* some cancel named its message by hash
    faults, cancels

vars == <<job, aborted, staged, copied, history, list, rooted, committed, xfer, pending, purging, undeleted, named, hashCancel, faults, cancels>>

\* The jobs with an entry in the message list.
Listed == {list[n] : n \in DOMAIN list}

Phases == {"idle", "hashing", "staging", "copying", "check", "open", "wait", "failing", "cleanup", "stuck", "done"}

TypeOK ==
    /\ job \in [Jobs -> Phases] /\ aborted \in [Jobs -> BOOLEAN]
    /\ staged \in [Jobs -> 0 .. Size] /\ copied \in [Jobs -> 0 .. Size]
    /\ history \in [Jobs -> BOOLEAN] /\ committed \in [Jobs -> BOOLEAN]
    /\ list \in Seq(Jobs) /\ rooted \subseteq Listed
    /\ xfer \in [Jobs -> [Peers -> {"none", "opening", "running", "delivered", "failed", "skipped"}]]
    /\ pending \subseteq Jobs /\ purging \subseteq Jobs /\ undeleted \subseteq Jobs
    /\ named \subseteq Jobs /\ hashCancel \in BOOLEAN
    /\ faults \in 0 .. MaxFaults /\ cancels \in 0 .. MaxCancels

Init ==
    /\ job = [j \in Jobs |-> "idle"] /\ aborted = [j \in Jobs |-> FALSE]
    /\ staged = [j \in Jobs |-> 0] /\ copied = [j \in Jobs |-> 0]
    /\ history = [j \in Jobs |-> FALSE] /\ committed = [j \in Jobs |-> FALSE]
    /\ list = << >> /\ rooted = {} /\ xfer = [j \in Jobs |-> [p \in Peers |-> "none"]]
    /\ pending = {} /\ purging = {} /\ undeleted = {} /\ named = {} /\ hashCancel = FALSE /\ faults = 0 /\ cancels = 0

\* The registry: a send is in it from sendMessage until its cleanup is over.
Active(j) == job[j] \notin {"idle", "done"}

\* What a failed write does to the job: handleSendMessage's catch block runs.
Fails(j) == faults < MaxFaults /\ faults' = faults + 1 /\ job' = [job EXCEPT ![j] = "failing"]

Goto(j, phase) == job' = [job EXCEPT ![j] = phase] /\ UNCHANGED faults

\* deleteMessage in the Redux state: the entry is found, and cut out.
Unlist(j) ==
    /\ \/ j \notin Listed /\ list' = list
       \/ \E n \in DOMAIN list : list[n] = j /\ list' = [m \in 1 .. Len(list) - 1 |-> list[IF m < n THEN m ELSE m + 1]]
    /\ rooted' = rooted \ {j}

\* sendMessage: register the signal, then dispatch the send.
SendMessage(j) ==
    /\ job[j] = "idle" /\ Goto(j, "hashing")
    /\ UNCHANGED <<aborted, staged, copied, history, list, rooted, committed, xfer, pending, purging, undeleted, named, hashCancel, cancels>>

\* claimTransfer and the start of splitToChunks: the size is planned against
\* the quota and the content hashed, with the signal looked at around it.
HashContent(j) ==
    /\ job[j] = "hashing"
    /\ \/ aborted[j] /\ Goto(j, "failing")
       \/ ~aborted[j] /\ (Goto(j, "staging") \/ Fails(j))
    /\ UNCHANGED <<aborted, staged, copied, history, list, rooted, committed, xfer, pending, purging, undeleted, named, hashCancel, cancels>>

\* One chunk staged, and the message listed without a root.
StageChunk(j) ==
    /\ job[j] = "staging" /\ ~aborted[j] /\ staged[j] < Size
    /\ \/ /\ staged' = [staged EXCEPT ![j] = @ + 1]
          /\ list' = IF j \in Listed THEN list ELSE Append(list, j)
          /\ UNCHANGED <<job, faults>>
       \/ Fails(j) /\ UNCHANGED <<staged, list>>
    /\ UNCHANGED <<aborted, copied, history, rooted, committed, xfer, pending, purging, undeleted, named, hashCancel, cancels>>

\* The staging loop ends; with the signal set, what was staged is taken back.
StagingEnds(j) ==
    /\ job[j] = "staging"
    /\ \/ /\ aborted[j] /\ staged' = [staged EXCEPT ![j] = 0] /\ Unlist(j) /\ Goto(j, "failing")
       \/ /\ ~aborted[j] /\ staged[j] = Size /\ Goto(j, "copying")
          /\ UNCHANGED <<staged, list, rooted>>
    /\ UNCHANGED <<aborted, copied, history, committed, xfer, pending, purging, undeleted, named, hashCancel, cancels>>

\* The sender's own copy, from the staged chunks; a failure deletes it.
CopyChunk(j) ==
    /\ job[j] = "copying" /\ ~aborted[j] /\ copied[j] < Size
    /\ \/ /\ staged[j] = Size /\ copied' = [copied EXCEPT ![j] = @ + 1]
          /\ UNCHANGED <<job, faults>>
       \/ Fails(j) /\ copied' = [copied EXCEPT ![j] = 0]
    /\ UNCHANGED <<aborted, staged, history, list, rooted, committed, xfer, pending, purging, undeleted, named, hashCancel, cancels>>

CopyAborted(j) ==
    /\ job[j] = "copying" /\ aborted[j] /\ Goto(j, "failing")
    /\ staged' = [staged EXCEPT ![j] = 0] /\ copied' = [copied EXCEPT ![j] = 0] /\ Unlist(j)
    /\ UNCHANGED <<aborted, history, committed, xfer, pending, purging, undeleted, named, hashCancel, cancels>>

\* The row of the message, then its root in the list.  The signal may have
\* been set since the last look at it.
CommitMessage(j) ==
    /\ job[j] = "copying" /\ copied[j] = Size
    /\ \/ /\ history' = [history EXCEPT ![j] = TRUE] /\ Goto(j, "check")
          /\ list' = IF j \in Listed THEN list ELSE Append(list, j)
          /\ rooted' = rooted \union {j} /\ UNCHANGED copied
       \/ Fails(j) /\ copied' = [copied EXCEPT ![j] = 0] /\ UNCHANGED <<history, list, rooted>>
    /\ UNCHANGED <<aborted, staged, committed, xfer, pending, purging, undeleted, named, hashCancel, cancels>>

CheckAborted(j) ==
    /\ job[j] = "check" /\ Goto(j, IF aborted[j] THEN "failing" ELSE "open")
    /\ committed' = [committed EXCEPT ![j] = ~aborted[j]]
    /\ UNCHANGED <<aborted, staged, copied, history, list, rooted, xfer, pending, purging, undeleted, named, hashCancel, cancels>>

----------------------------------------------------------------------------
(* The fan-out.                                                            *)

SetXfer(j, p, status) == xfer' = [xfer EXCEPT ![j][p] = status]

\* The peers are taken in order, each when the one before has its channel.
NextPeer(j) == {p \in Peers : xfer[j][p] = "none" /\ \A q \in Peers : q < p => xfer[j][q] \notin {"none", "opening"}}

OpenChannel(j) ==
    /\ job[j] = "open"
    /\ \E p \in NextPeer(j) :
          \E status \in IF aborted[j] THEN {"skipped"} ELSE {"skipped", "opening"} : SetXfer(j, p, status)
    /\ UNCHANGED <<job, aborted, staged, copied, history, list, rooted, committed, pending, purging, undeleted, named, hashCancel, faults, cancels>>

\* The channel is there, or could not be opened.  A cancel that came meanwhile
\* closes it again; otherwise the transfer starts.
StartTransfer(j) ==
    /\ job[j] = "open"
    /\ \E p \in Peers : xfer[j][p] = "opening" /\ \E status \in {"failed", IF aborted[j] THEN "skipped" ELSE "running"} :
          SetXfer(j, p, status)
    /\ UNCHANGED <<job, aborted, staged, copied, history, list, rooted, committed, pending, purging, undeleted, named, hashCancel, faults, cancels>>

AllOpened(j) ==
    /\ job[j] = "open" /\ \A p \in Peers : xfer[j][p] \notin {"none", "opening"}
    /\ Goto(j, "wait")
    /\ UNCHANGED <<aborted, staged, copied, history, list, rooted, committed, xfer, pending, purging, undeleted, named, hashCancel, cancels>>

\* A transfer ends; with a chunk missing, or cancelled, it fails.
TransferEnds(j) ==
    /\ \E p \in Peers :
          /\ xfer[j][p] = "running"
          /\ \E status \in IF aborted[j] \/ staged[j] < Size THEN {"failed"} ELSE {"failed", "delivered"} :
                SetXfer(j, p, status)
    /\ UNCHANGED <<job, aborted, staged, copied, history, list, rooted, committed, pending, purging, undeleted, named, hashCancel, faults, cancels>>

\* The first outcome that is there.
Settled_Faulty(j) == \E p \in Peers : xfer[j][p] # "running"

\* Promise.all over the outcomes.
Settled(j) == \A p \in Peers : xfer[j][p] # "running"

\* A send none of whose transfers delivered fails; mixed success is success.
SettleSend(j) ==
    /\ job[j] = "wait" /\ Settled(j)
    /\ Goto(j, IF ~aborted[j] /\ \E p \in Peers : xfer[j][p] = "delivered" THEN "cleanup" ELSE "failing")
    /\ UNCHANGED <<aborted, staged, copied, history, list, rooted, committed, xfer, pending, purging, undeleted, named, hashCancel, cancels>>

\* A failed delivery, too.
ShouldDeleteLocalMessage_Faulty(j) == TRUE

\* Only a cancel, or a failure before the local copy was committed, takes the
\* message out of the sender's history.  (No wire work starts before that.)
ShouldDeleteLocalMessage(j) == aborted[j] \/ ~committed[j]

\* The root is noted for the cleanup only after the look at the signal.
CatchFailure_Faulty(j) ==
    /\ job[j] = "failing" /\ Goto(j, "cleanup")
    /\ IF ShouldDeleteLocalMessage(j)
       THEN /\ IF committed[j] THEN copied' = [copied EXCEPT ![j] = 0] /\ history' = [history EXCEPT ![j] = FALSE]
                               ELSE UNCHANGED <<copied, history>>
            /\ Unlist(j)
       ELSE UNCHANGED <<copied, history, list, rooted>>
    /\ UNCHANGED <<aborted, staged, committed, xfer, pending, purging, undeleted, named, hashCancel, cancels>>

\* The copy and the row of a message are not deleted: a storage error.
DeleteFails(j) == faults < MaxFaults /\ faults' = faults + 1 /\ undeleted' = undeleted \union {j}

\* The message is deleted, or kept.  When the deletion of the stored data
\* throws, the entry in the list stays too.
CatchFailure(j) ==
    /\ job[j] = "failing" /\ job' = [job EXCEPT ![j] = "cleanup"]
    /\ \/ /\ ShouldDeleteLocalMessage(j) /\ Unlist(j)
          /\ copied' = [copied EXCEPT ![j] = 0] /\ history' = [history EXCEPT ![j] = FALSE]
          /\ UNCHANGED <<undeleted, faults>>
       \/ /\ ShouldDeleteLocalMessage(j) /\ history[j] /\ DeleteFails(j)
          /\ UNCHANGED <<copied, history, list, rooted>>
       \/ ~ShouldDeleteLocalMessage(j) /\ UNCHANGED <<copied, history, list, rooted, undeleted, faults>>
    /\ UNCHANGED <<aborted, staged, committed, xfer, pending, purging, named, hashCancel, cancels>>

\* The finally block owns the staged chunks of the whole send.  When it cannot
\* delete them, the send is never taken out of the registry.
FreeStaging(j) ==
    /\ job[j] = "cleanup"
    /\ \/ Goto(j, "done") /\ staged' = [staged EXCEPT ![j] = 0]
       \/ /\ faults < MaxFaults /\ faults' = faults + 1
          /\ job' = [job EXCEPT ![j] = "stuck"] /\ UNCHANGED staged
    /\ UNCHANGED <<aborted, copied, history, list, rooted, committed, xfer, pending, purging, undeleted, named, hashCancel, cancels>>

----------------------------------------------------------------------------
(* Cancellation.                                                           *)

\* The sends an abort by hash would match: those that have bound it.
HashMatches == {j \in Jobs : Active(j) /\ job[j] # "hashing"}

Abort(S) == aborted' = [j \in Jobs |-> aborted[j] \/ (j \in S /\ Active(j))]

\* cancelMessage by transfer id (or by root, once there is one): the signal,
\* then the entry of that message in the list.
CancelById(j) ==
    /\ job[j] # "idle" /\ Abort({j})
    /\ pending' = pending \union ({j} \intersect rooted) /\ named' = named \union {j}
    /\ UNCHANGED hashCancel

\* cancelMessage by hash: an ambiguous hash is refused; otherwise the first
\* message of the list with that hash is the one deleted.
CancelByHash ==
    /\ Cardinality(HashMatches) <= 1 /\ Abort(HashMatches)
    /\ pending' = pending \union (IF list = << >> THEN {} ELSE {Head(list)} \intersect rooted)
    /\ hashCancel' = TRUE /\ UNCHANGED named

AbortRoomTransfers == Abort(Jobs) /\ UNCHANGED <<pending, named, hashCancel>>

AbortTransfer ==
    /\ cancels < MaxCancels /\ cancels' = cancels + 1
    /\ CancelByHash \/ AbortRoomTransfers \/ \E j \in Jobs : CancelById(j)
    /\ UNCHANGED <<job, staged, copied, history, list, rooted, committed, xfer, purging, undeleted, faults>>

\* The rest of cancelMessage, after the label has been computed: the channels
\* are closed, and the entry is taken out of the list.
CancelMessage ==
    /\ \E j \in pending : pending' = pending \ {j} /\ Unlist(j) /\ purging' = purging \union {j}
    /\ UNCHANGED <<job, aborted, staged, copied, history, committed, xfer, undeleted, named, hashCancel, faults, cancels>>

\* The room listener, later: it deletes the copy and the row of the unlisted
\* message, then those staged chunks that have been given their root.  Its
\* errors are only logged.
PurgeMessage ==
    /\ \E j \in purging :
          /\ purging' = purging \ {j}
          /\ \/ /\ copied' = [copied EXCEPT ![j] = 0] /\ history' = [history EXCEPT ![j] = FALSE]
                /\ \E left \in 0 .. staged[j] : staged' = [staged EXCEPT ![j] = left]
                /\ UNCHANGED <<undeleted, faults>>
             \/ DeleteFails(j) /\ UNCHANGED <<staged, copied, history>>
    /\ UNCHANGED <<job, aborted, list, rooted, committed, xfer, pending, named, hashCancel, cancels>>

JobStep(j) ==
    \/ SendMessage(j) \/ HashContent(j) \/ StageChunk(j) \/ StagingEnds(j) \/ CopyChunk(j) \/ CopyAborted(j)
    \/ CommitMessage(j) \/ CheckAborted(j) \/ OpenChannel(j) \/ StartTransfer(j) \/ AllOpened(j)
    \/ TransferEnds(j) \/ SettleSend(j) \/ CatchFailure(j) \/ FreeStaging(j)

Next == (\E j \in Jobs : JobStep(j)) \/ AbortTransfer \/ CancelMessage \/ PurgeMessage

\* Promises settle: every step of a job is taken eventually, and a transfer
\* ends (TransferEnds of module Transfer).
Spec == Init /\ [][Next]_vars /\ (\A j \in Jobs : WF_vars(JobStep(j))) /\ WF_vars(CancelMessage \/ PurgeMessage)

----------------------------------------------------------------------------
\* The staged chunks stay while a transfer of the send that was not cancelled
\* may still read them: a fast peer's completion frees nothing.
StagingOutlivesTransfers ==
    \A j \in Jobs : ~aborted[j] /\ ~hashCancel /\ (\E p \in Peers : xfer[j][p] = "running") => staged[j] = Size

\* The jobs whose cancel or clean-up is not over, or failed.
Doomed == pending \union purging \union undeleted

\* When a send is over nothing of it is staged, and the copy, the row and the
\* entry of the message are all there or all gone: gone if it failed before it
\* was committed, or was cancelled by name at any time before or after.  What
\* lies behind is what a cancel has still to delete, or could not.
JobLeavesNoOrphan ==
    \A j \in Jobs : job[j] \in {"stuck", "done"} =>
        /\ job[j] = "done" => staged[j] = 0
        /\ \/ j \in Doomed
           \/ copied[j] = 0 /\ ~history[j] /\ j \notin Listed
           \/ committed[j] /\ copied[j] = Size /\ history[j] /\ j \in rooted /\ j \notin named

\* The history of a committed message stays until it is cancelled itself: no
\* failed delivery and no cancel of another message takes it.  A cancel by
\* hash is the exception: it may abort one send and delete another.
CancelIsScoped ==
    \A j \in Jobs : committed[j] /\ ~aborted[j] /\ j \notin named /\ ~hashCancel => history[j]

\* Every send that was started ends, whatever fails and whatever is cancelled:
\* at worst its staged chunks and its place in the registry stay.
SendEnds == \A j \in Jobs : job[j] = "hashing" ~> job[j] \in {"stuck", "done"}

----------------------------------------------------------------------------
(* The inductive invariant behind the safety properties.                   *)

\* All that the sender keeps of a message is there; nothing of it is.
Whole(j) == copied[j] = Size /\ history[j] /\ j \in rooted
Gone(j) == copied[j] = 0 /\ ~history[j] /\ j \notin Listed

\* No message has two entries in the list.
ListedOnce == \A m, n \in DOMAIN list : list[m] = list[n] => m = n

\* A job commits when it goes on to the wire, and it has transfers, over
\* chunks that are all staged, only until they have settled.
FanOut(j) ==
    /\ job[j] \in {"idle", "hashing", "staging", "copying", "check"} => ~committed[j]
    /\ job[j] \in {"open", "wait"} => committed[j]
    /\ (\E p \in Peers : xfer[j][p] = "running") => job[j] \in {"open", "wait"}
    /\ job[j] \in {"copying", "check", "open", "wait"} /\ ~aborted[j] /\ ~hashCancel => staged[j] = Size

\* A cancel by name sets the signal of a send that is not over, and only such
\* a cancel, or one by hash, deletes what was committed, once it is unlisted.
Cancels(j) ==
    /\ j \in named => aborted[j] \/ job[j] = "done"
    /\ j \in pending \union purging /\ ~hashCancel => j \in named
    /\ j \in rooted \union pending \union purging => job[j] \notin {"idle", "hashing", "staging", "copying"}
    /\ j \in purging => j \notin Listed
    /\ (committed[j] \/ job[j] = "check") /\ ~aborted[j] /\ j \notin named /\ ~hashCancel => history[j]

\* What is kept of a message from its row on: all, or nothing, or what a
\* cancel will delete or could not.
Kept(j) ==
    /\ job[j] = "check" => j \in Doomed \/ Gone(j) \/ Whole(j)
    /\ committed[j] => j \in Doomed \/ Gone(j) \/ (Whole(j) /\ j \notin named)
    /\ job[j] \in {"cleanup", "stuck", "done"} /\ ~committed[j] => j \in Doomed \/ Gone(j)
    /\ job[j] = "done" => staged[j] = 0

SendInv == TypeOK /\ ListedOnce /\ \A j \in Jobs : FanOut(j) /\ Cancels(j) /\ Kept(j)
=============================================================================
