--------------------------- MODULE SendJob_proofs ---------------------------
(***************************************************************************)
(* The safety properties of the sends of a page, for any number of sends   *)
(* and peers, any size and any number of failed writes and cancels.  Each  *)
(* step is about one message; the invariant says of every message what is  *)
(* staged, kept, listed and cancelled in each phase of its send.           *)
(***************************************************************************)
EXTENDS SendJob, TLAPS

\* deleteMessage takes the entry of j out of the list, and no other.
LEMMA Unlisted ==
    ASSUME list \in Seq(Jobs), ListedOnce, NEW j \in Jobs, Unlist(j)
    PROVE  /\ list' \in Seq(Jobs) /\ ListedOnce' /\ rooted' = rooted \ {j}
           /\ Listed' = Listed \ {j}
<1>1. CASE j \notin Listed /\ list' = list
  BY <1>1, Zenon DEF Unlist, ListedOnce, Listed
<1>2. ASSUME NEW n \in DOMAIN list, list[n] = j,
             list' = [m \in 1 .. Len(list) - 1 |-> list[IF m < n THEN m ELSE m + 1]]
      PROVE  list' \in Seq(Jobs) /\ ListedOnce' /\ Listed' = Listed \ {j}
  <2>1. Len(list) \in Nat /\ DOMAIN list = 1 .. Len(list) /\ \A m \in DOMAIN list : list[m] \in Jobs
    OBVIOUS
  <2>2. DOMAIN list' = 1 .. Len(list) - 1
    BY <1>2, Zenon
  <2>3. \A m \in DOMAIN list' : /\ m < n => m \in DOMAIN list /\ list'[m] = list[m]
                                /\ ~(m < n) => m + 1 \in DOMAIN list /\ list'[m] = list[m + 1]
    BY <1>2, <2>1, <2>2
  <2>4. list' \in Seq(Jobs)
    <3>1. Len(list) - 1 \in Nat /\ list' \in [1 .. Len(list) - 1 -> Jobs]
      BY <1>2, <2>1
    <3> QED BY <3>1
  <2>5. ListedOnce'
    BY <2>1, <2>2, <2>3 DEF ListedOnce
  <2>6. ASSUME NEW k \in Listed' PROVE k \in Listed \ {j}
    <3>1. PICK m \in DOMAIN list' : k = list'[m]
      BY <2>6, Zenon DEF Listed
    <3>2. m \in Int /\ n \in Int
      BY <2>1, <2>2
    <3> QED BY <1>2, <2>3, <3>1, <3>2 DEF Listed, ListedOnce
  <2>7. ASSUME NEW k \in Listed, k # j PROVE k \in Listed'
    <3>1. PICK m \in DOMAIN list : k = list[m]
      BY <2>7, Zenon DEF Listed
    <3>2. CASE m < n
      <4>1. m \in DOMAIN list' /\ list'[m] = k
        BY <2>1, <2>2, <2>3, <3>1, <3>2
      <4> QED BY <4>1, Zenon DEF Listed
    <3>3. CASE m > n
      <4>1. m - 1 \in DOMAIN list' /\ ~(m - 1 < n) /\ m - 1 + 1 = m
        BY <2>1, <2>2, <3>1, <3>3
      <4>2. list'[m - 1] = k
        BY <2>3, <3>1, <4>1, Zenon
      <4> QED BY <4>1, <4>2, Zenon DEF Listed
    <3> QED BY <1>2, <2>1, <2>7, <3>1, <3>2, <3>3
  <2> QED BY <2>4, <2>5, <2>6, <2>7, Zenon
<1> QED BY <1>1, <1>2, Zenon DEF Unlist

\* setMessage: a message that has no entry gets one, at the end of the list.
Enlist(j) == list' = IF j \in Listed THEN list ELSE Append(list, j)

\* setMessage lists the message and keeps the others, each once.
LEMMA Enlisted ==
    ASSUME list \in Seq(Jobs), ListedOnce, NEW j \in Jobs, Enlist(j)
    PROVE  list' \in Seq(Jobs) /\ ListedOnce' /\ Listed' = Listed \union {j}
<1>1. CASE j \in Listed
  BY <1>1, Zenon DEF Enlist, ListedOnce, Listed
<1>2. CASE j \notin Listed
  <2>1. list' = Append(list, j) /\ Len(list) \in Nat /\ DOMAIN list = 1 .. Len(list)
    BY <1>2 DEF Enlist
  <2>2. /\ list' \in Seq(Jobs) /\ DOMAIN list' = 1 .. Len(list) + 1
        /\ \A n \in DOMAIN list : list'[n] = list[n]
        /\ list'[Len(list) + 1] = j
    BY <2>1
  <2>3. ListedOnce'
    BY <1>2, <2>1, <2>2 DEF ListedOnce, Listed
  <2>4. Listed' = Listed \union {j}
    <3>1. ASSUME NEW k \in Listed' PROVE k \in Listed \union {j}
      BY <2>1, <2>2, <3>1 DEF Listed
    <3>2. ASSUME NEW k \in Listed \union {j} PROVE k \in Listed'
      <4>1. CASE k = j
        BY <2>1, <2>2, <4>1 DEF Listed
      <4>2. CASE k \in Listed
        BY <2>1, <2>2, <4>2 DEF Listed
      <4> QED BY <3>2, <4>1, <4>2, Zenon
    <3> QED BY <3>1, <3>2, Zenon
  <2> QED BY <2>2, <2>3, <2>4, Zenon
<1> QED BY <1>1, <1>2, Zenon

----------------------------------------------------------------------------
\* What the invariant says of one message, and a step that is not about it.
Good(k) == FanOut(k) /\ Cancels(k) /\ Kept(k)

Unmoved(k) ==
    /\ job'[k] = job[k] /\ aborted'[k] = aborted[k] /\ staged'[k] = staged[k] /\ copied'[k] = copied[k]
    /\ history'[k] = history[k] /\ committed'[k] = committed[k] /\ xfer'[k] = xfer[k]
    /\ k \in Listed' <=> k \in Listed
    /\ k \in rooted' <=> k \in rooted
    /\ k \in pending' <=> k \in pending
    /\ k \in purging' <=> k \in purging
    /\ k \in undeleted' <=> k \in undeleted
    /\ k \in named' <=> k \in named
    /\ hashCancel' = hashCancel

\* A step about one message leaves what holds of the others.
LEMMA OthersKeep ==
    ASSUME SendInv, NEW j \in Jobs, TypeOK', ListedOnce', Good(j)',
           \A k \in Jobs : k # j => Unmoved(k)
    PROVE  SendInv'
<1>1. ASSUME NEW k \in Jobs, k # j PROVE Good(k)'
  BY <1>1 DEF SendInv, Good, Unmoved, FanOut, Cancels, Kept, Doomed, Whole, Gone
<1> QED BY <1>1, Zenon DEF SendInv, Good

\* A job that goes on, or whose write failed, is in a phase.
LEMMA JobTyped ==
    ASSUME TypeOK, NEW j \in Jobs, (\E phase \in Phases : Goto(j, phase)) \/ Fails(j)
    PROVE  job' \in [Jobs -> Phases] /\ faults' \in 0 .. MaxFaults
<1>1. CASE \E phase \in Phases : Goto(j, phase)
  BY <1>1 DEF TypeOK, Goto
<1>2. CASE Fails(j)
  BY <1>2, SendJobAssumption DEF TypeOK, Fails, Phases
<1> QED BY <1>1, <1>2, Zenon

\* Chunks that are deleted leave a count in its range.
LEMMA StagedTyped ==
    ASSUME TypeOK, NEW j \in Jobs
    PROVE  /\ staged \in [Jobs -> 0 .. Size] /\ [staged EXCEPT ![j] = 0] \in [Jobs -> 0 .. Size]
           /\ copied \in [Jobs -> 0 .. Size] /\ [copied EXCEPT ![j] = 0] \in [Jobs -> 0 .. Size]
<1>1. 0 \in 0 .. Size
  BY SendJobAssumption
<1>2. staged \in [Jobs -> 0 .. Size] /\ copied \in [Jobs -> 0 .. Size]
  BY Zenon DEF TypeOK
<1> QED BY <1>1, <1>2, Zenon

\* The steps that only move the job on, up to the fan-out.
LEMMA SendMessageKeeps ==
    ASSUME SendInv, NEW j \in Jobs, SendMessage(j) \/ HashContent(j)
    PROVE  SendInv'
<1>0. job' \in [Jobs -> Phases] /\ faults' \in 0 .. MaxFaults
  BY JobTyped, Zenon DEF SendInv, SendMessage, HashContent, Phases
<1>1. TypeOK' /\ ListedOnce'
  BY <1>0 DEF SendInv, SendMessage, HashContent, TypeOK, ListedOnce, Listed
<1>2. \A k \in Jobs : k # j => Unmoved(k)
  BY DEF SendInv, TypeOK, SendMessage, HashContent, Goto, Fails, Unmoved, Listed
<1>3. Good(j)'
  BY DEF SendInv, TypeOK, SendMessage, HashContent, Goto, Fails, Good, FanOut, Cancels, Kept,
     Doomed, Whole, Gone, Listed
<1> QED BY <1>1, <1>2, <1>3, OthersKeep, Zenon

\* One more chunk staged, and the message listed.
LEMMA StageChunkKeeps ==
    ASSUME SendInv, NEW j \in Jobs, StageChunk(j)
    PROVE  SendInv'
<1>1. CASE Fails(j) /\ UNCHANGED <<staged, list>>
  <2>0. job' \in [Jobs -> Phases] /\ faults' \in 0 .. MaxFaults
    BY <1>1, JobTyped, Zenon DEF SendInv
  <2>1. TypeOK' /\ ListedOnce'
    BY <1>1, <2>0 DEF SendInv, StageChunk, TypeOK, ListedOnce, Listed
  <2>2. \A k \in Jobs : k # j => Unmoved(k)
    BY <1>1, Zenon DEF SendInv, TypeOK, StageChunk, Fails, Unmoved, Listed
  <2>3. Good(j)'
    BY <1>1, Zenon DEF SendInv, TypeOK, StageChunk, Fails, Good, FanOut, Cancels, Kept, Doomed, Whole, Gone, Listed
  <2> QED BY <2>1, <2>2, <2>3, OthersKeep, Zenon
<1>2. CASE staged' = [staged EXCEPT ![j] = @ + 1] /\ Enlist(j) /\ UNCHANGED <<job, faults>>
  <2>0. list' \in Seq(Jobs) /\ ListedOnce' /\ Listed' = Listed \union {j}
    BY <1>2, Enlisted, Zenon DEF SendInv, TypeOK
  <2>1. staged' \in [Jobs -> 0 .. Size]
    BY <1>2, SendJobAssumption DEF SendInv, TypeOK, StageChunk
  <2>2. TypeOK'
    BY <1>2, <2>0, <2>1, Zenon DEF SendInv, StageChunk, TypeOK
  <2>3. \A k \in Jobs : k # j => Unmoved(k)
    BY <1>2, <2>0, Zenon DEF SendInv, TypeOK, StageChunk, Unmoved
  <2>4. Good(j)'
    BY <1>2, <2>0, Zenon DEF SendInv, TypeOK, StageChunk, Good, FanOut, Cancels, Kept, Doomed, Whole, Gone
  <2> QED BY <2>0, <2>2, <2>3, <2>4, OthersKeep, Zenon
<1> QED BY <1>1, <1>2, Zenon DEF StageChunk, Enlist

\* The end of staging, and of a copy whose send was aborted.
LEMMA StagingEndsKeeps ==
    ASSUME SendInv, NEW j \in Jobs, StagingEnds(j) \/ CopyAborted(j)
    PROVE  SendInv'
<1>0. job' \in [Jobs -> Phases] /\ faults' \in 0 .. MaxFaults
  <2>1. (\E phase \in Phases : Goto(j, phase)) \/ Fails(j)
    BY Zenon DEF StagingEnds, CopyAborted, Phases
  <2> QED BY <2>1, JobTyped, Zenon DEF SendInv
<1>1. CASE Unlist(j)
  <2>1. list' \in Seq(Jobs) /\ ListedOnce' /\ rooted' = rooted \ {j} /\ Listed' = Listed \ {j}
    BY <1>1, Unlisted, Zenon DEF SendInv, TypeOK
  <2>2. staged' \in [Jobs -> 0 .. Size] /\ copied' \in [Jobs -> 0 .. Size]
    <3>1. /\ staged' = staged \/ staged' = [staged EXCEPT ![j] = 0]
          /\ copied' = copied \/ copied' = [copied EXCEPT ![j] = 0]
      BY Zenon DEF StagingEnds, CopyAborted
    <3> QED BY <3>1, StagedTyped DEF SendInv
  <2>3. TypeOK'
    BY <1>0, <2>1, <2>2 DEF SendInv, StagingEnds, CopyAborted, TypeOK
  <2>4. \A k \in Jobs : k # j => Unmoved(k)
    BY <2>1 DEF SendInv, TypeOK, StagingEnds, CopyAborted, Goto, Unmoved
  <2>5. Good(j)'
    BY <2>1, SMTT(30) DEF SendInv, TypeOK, StagingEnds, CopyAborted, Goto, Good, FanOut, Cancels, Kept, Doomed, Whole, Gone
  <2> QED BY <2>1, <2>3, <2>4, <2>5, OthersKeep, Zenon
<1>2. CASE StagingEnds(j) /\ ~aborted[j] /\ staged[j] = Size /\ Goto(j, "copying") /\ UNCHANGED <<staged, list, rooted>>
  <2>1. TypeOK' /\ ListedOnce'
    BY <1>0, <1>2 DEF SendInv, StagingEnds, TypeOK, ListedOnce, Listed
  <2>2. \A k \in Jobs : k # j => Unmoved(k)
    BY <1>2, Zenon DEF SendInv, TypeOK, StagingEnds, Goto, Unmoved, Listed
  <2>3. Good(j)'
    BY <1>2, Zenon DEF SendInv, TypeOK, StagingEnds, Goto, Good, FanOut, Cancels, Kept, Doomed, Whole, Gone, Listed
  <2> QED BY <2>1, <2>2, <2>3, OthersKeep, Zenon
<1> QED BY <1>1, <1>2, Zenon DEF StagingEnds, CopyAborted

\* One more chunk of the sender's own copy.
LEMMA CopyChunkKeeps ==
    ASSUME SendInv, NEW j \in Jobs, CopyChunk(j)
    PROVE  SendInv'
<1>0. job' \in [Jobs -> Phases] /\ faults' \in 0 .. MaxFaults
  <2>1. Fails(j) \/ UNCHANGED <<job, faults>>
    BY Zenon DEF CopyChunk
  <2> QED BY <2>1, JobTyped, Zenon DEF SendInv, TypeOK
<1>1. copied' \in [Jobs -> 0 .. Size]
  <2>1. CASE copied[j] < Size /\ copied' = [copied EXCEPT ![j] = @ + 1]
    BY <2>1, SendJobAssumption DEF SendInv, TypeOK
  <2>2. CASE copied' = [copied EXCEPT ![j] = 0]
    BY <2>2, StagedTyped, Zenon DEF SendInv
  <2> QED BY <2>1, <2>2, Zenon DEF CopyChunk
<1>2. TypeOK' /\ ListedOnce'
  <2>1. UNCHANGED <<aborted, staged, history, list, rooted, committed, xfer, pending, purging, undeleted, named, hashCancel, cancels>>
    BY Zenon DEF CopyChunk
  <2>2. Listed' = Listed /\ ListedOnce'
    BY <2>1, Zenon DEF SendInv, ListedOnce, Listed
  <2> QED
    BY <1>0, <1>1, <2>1, <2>2 DEF SendInv, TypeOK
<1>3. \A k \in Jobs : k # j => Unmoved(k)
  BY DEF SendInv, TypeOK, CopyChunk, Fails, Unmoved, Listed
<1>4. Good(j)'
  BY DEF SendInv, TypeOK, CopyChunk, Fails, Good, FanOut, Cancels, Kept, Doomed, Whole, Gone, Listed
<1> QED BY <1>2, <1>3, <1>4, OthersKeep, Zenon

\* The row of the message, then its root.
LEMMA CommitMessageKeeps ==
    ASSUME SendInv, NEW j \in Jobs, CommitMessage(j)
    PROVE  SendInv'
<1>0. job' \in [Jobs -> Phases] /\ faults' \in 0 .. MaxFaults
  BY JobTyped, Zenon DEF SendInv, CommitMessage, Phases
<1>1. CASE /\ history' = [history EXCEPT ![j] = TRUE] /\ Goto(j, "check")
           /\ Enlist(j) /\ rooted' = rooted \union {j} /\ UNCHANGED copied
  <2>1. list' \in Seq(Jobs) /\ ListedOnce' /\ Listed' = Listed \union {j}
    BY <1>1, Enlisted, Zenon DEF SendInv, TypeOK
  <2>2. TypeOK'
    BY <1>0, <1>1, <2>1, Zenon DEF SendInv, CommitMessage, TypeOK
  <2>3. \A k \in Jobs : k # j => Unmoved(k)
    BY <1>1, <2>1 DEF SendInv, TypeOK, CommitMessage, Goto, Unmoved
  <2>4. Good(j)'
    BY <1>1, <2>1, SMTT(30) DEF SendInv, TypeOK, CommitMessage, Goto, Good, FanOut, Cancels, Kept, Doomed, Whole, Gone
  <2> QED BY <2>1, <2>2, <2>3, <2>4, OthersKeep, Zenon
<1>2. CASE Fails(j) /\ copied' = [copied EXCEPT ![j] = 0] /\ UNCHANGED <<history, list, rooted>>
  <2>1. copied' \in [Jobs -> 0 .. Size]
    BY <1>2, SendJobAssumption DEF SendInv, TypeOK
  <2>2. TypeOK' /\ ListedOnce'
    BY <1>0, <1>2, <2>1 DEF SendInv, CommitMessage, TypeOK, ListedOnce, Listed
  <2>3. \A k \in Jobs : k # j => Unmoved(k)
    BY <1>2, Zenon DEF SendInv, TypeOK, CommitMessage, Fails, Unmoved, Listed
  <2>4. Good(j)'
    BY <1>2 DEF SendInv, TypeOK, CommitMessage, Fails, Good, FanOut, Cancels, Kept, Doomed, Whole, Gone, Listed
  <2> QED BY <2>2, <2>3, <2>4, OthersKeep, Zenon
<1> QED BY <1>1, <1>2, Zenon DEF CommitMessage, Enlist

----------------------------------------------------------------------------
\* The steps that only move the job on, from the fan-out.
LEMMA FanOutKeeps ==
    ASSUME SendInv, NEW j \in Jobs, CheckAborted(j) \/ AllOpened(j) \/ SettleSend(j)
    PROVE  SendInv'
<1>0. job' \in [Jobs -> Phases] /\ faults' \in 0 .. MaxFaults
  <2>1. \E phase \in Phases : Goto(j, phase)
    BY Zenon DEF CheckAborted, AllOpened, SettleSend, Phases
  <2> QED BY <2>1, JobTyped, Zenon DEF SendInv
<1>1. CASE CheckAborted(j)
  <2>1. committed' \in [Jobs -> BOOLEAN]
    BY <1>1, Zenon DEF SendInv, TypeOK, CheckAborted
  <2>2. TypeOK' /\ ListedOnce'
    BY <1>0, <1>1, <2>1 DEF SendInv, CheckAborted, TypeOK, ListedOnce, Listed
  <2>3. \A k \in Jobs : k # j => Unmoved(k)
    BY <1>1, Zenon DEF SendInv, TypeOK, CheckAborted, Goto, Unmoved, Listed
  <2>4. /\ job[j] = "check" /\ job'[j] = (IF aborted[j] THEN "failing" ELSE "open")
        /\ committed'[j] = ~aborted[j]
    BY <1>1, SMTT(30) DEF SendInv, TypeOK, CheckAborted, Goto
  <2>5. UNCHANGED <<aborted, staged, copied, history, list, rooted, xfer, pending, purging, undeleted, named, hashCancel>>
    BY <1>1, Zenon DEF CheckAborted
  <2>6. FanOut(j)'
    BY <2>4, <2>5, Zenon DEF SendInv, FanOut
  <2>7. Cancels(j)'
    BY <2>4, <2>5, Zenon DEF SendInv, Cancels, Listed
  <2>8. Kept(j)'
    <3>1. Kept(j) /\ (~aborted[j] => j \notin named \/ j \in Doomed \/ Gone(j))
      BY <2>4, Zenon DEF SendInv, Cancels, Doomed
    <3>2. Doomed' = Doomed /\ (Whole(j)' <=> Whole(j)) /\ (Gone(j)' <=> Gone(j)) /\ named' = named /\ staged' = staged
      BY <2>5, Zenon DEF Doomed, Whole, Gone, Listed
    <3> QED
      BY <2>4, <3>1, <3>2, Zenon DEF Kept
  <2> QED BY <2>2, <2>3, <2>6, <2>7, <2>8, OthersKeep, Zenon DEF Good
<1>2. CASE AllOpened(j) \/ SettleSend(j)
  <2>1. TypeOK' /\ ListedOnce'
    BY <1>0, <1>2, SMTT(30) DEF SendInv, AllOpened, SettleSend, TypeOK, ListedOnce, Listed
  <2>2. \A k \in Jobs : k # j => Unmoved(k)
    BY <1>2, SMTT(30) DEF SendInv, TypeOK, AllOpened, SettleSend, Goto, Unmoved, Listed
  <2>3. Good(j)'
    BY <1>2 DEF SendInv, TypeOK, AllOpened, SettleSend, Settled, Goto, Good, FanOut, Cancels, Kept,
       Doomed, Whole, Gone, Listed
  <2> QED BY <2>1, <2>2, <2>3, OthersKeep, Zenon
<1> QED BY <1>1, <1>2, Zenon

\* The transfer of one peer that is opened, started or ended.
LEMMA TransfersKeep ==
    ASSUME SendInv, NEW j \in Jobs, OpenChannel(j) \/ StartTransfer(j) \/ TransferEnds(j)
    PROVE  SendInv'
<1>1. PICK p \in Peers, status \in {"opening", "running", "delivered", "failed", "skipped"} :
         /\ xfer' = [xfer EXCEPT ![j][p] = status]
         /\ status = "running" => job[j] = "open"
  BY Zenon DEF OpenChannel, StartTransfer, TransferEnds, SetXfer, NextPeer
<1>2. UNCHANGED <<job, aborted, staged, copied, history, list, rooted, committed, pending, purging, undeleted, named, hashCancel, faults, cancels>>
  BY Zenon DEF OpenChannel, StartTransfer, TransferEnds
<1>3. xfer \in [Jobs -> [Peers -> {"none", "opening", "running", "delivered", "failed", "skipped"}]]
  BY Zenon DEF SendInv, TypeOK
<1>4. /\ xfer' \in [Jobs -> [Peers -> {"none", "opening", "running", "delivered", "failed", "skipped"}]]
      /\ \A k \in Jobs : k # j => xfer'[k] = xfer[k]
      /\ \A q \in Peers : xfer'[j][q] = IF q = p THEN status ELSE xfer[j][q]
  <2>1. PICK row : row = [xfer[j] EXCEPT ![p] = status]
    BY Zenon
  <2>2. xfer' = [xfer EXCEPT ![j] = row]
    BY <1>1, <2>1, Zenon
  <2>3. xfer[j] \in [Peers -> {"none", "opening", "running", "delivered", "failed", "skipped"}]
    BY <1>3, Zenon
  <2>4. row \in [Peers -> {"none", "opening", "running", "delivered", "failed", "skipped"}]
    BY <2>1, <2>3
  <2>5. \A q \in Peers : row[q] = IF q = p THEN status ELSE xfer[j][q]
    BY <2>1, <2>3
  <2>6. xfer'[j] = row
    BY <1>3, <2>2, Zenon
  <2> QED
    BY <1>3, <2>2, <2>4, <2>5, <2>6
<1>5. TypeOK' /\ ListedOnce'
  BY <1>2, <1>4 DEF SendInv, TypeOK, ListedOnce, Listed
<1>6. \A k \in Jobs : k # j => Unmoved(k)
  BY <1>2, <1>4 DEF Unmoved, Listed
<1>7. Good(j)'
  BY <1>1, <1>2, <1>4 DEF SendInv, Good, FanOut, Cancels, Kept, Doomed, Whole, Gone, Listed
<1> QED BY <1>5, <1>6, <1>7, OthersKeep, Zenon

\* A deletion that fails is one more fault, and is noted.
LEMMA DeleteFailsTyped ==
    ASSUME TypeOK, NEW j \in Jobs, DeleteFails(j)
    PROVE  faults' \in 0 .. MaxFaults /\ undeleted' \subseteq Jobs
<1>1. faults' \in 0 .. MaxFaults
  BY SendJobAssumption DEF TypeOK, DeleteFails
<1>2. undeleted' \subseteq Jobs
  BY Zenon DEF TypeOK, DeleteFails
<1> QED BY <1>1, <1>2, Zenon

\* The catch block keeps the message, deletes all of it, or cannot.
LEMMA CatchFailureKeeps ==
    ASSUME SendInv, NEW j \in Jobs, CatchFailure(j)
    PROVE  SendInv'
<1>0. /\ job[j] = "failing" /\ job' \in [Jobs -> Phases] /\ job'[j] = "cleanup"
      /\ \A k \in Jobs : k # j => job'[k] = job[k]
      /\ UNCHANGED <<aborted, staged, committed, xfer, pending, purging, named, hashCancel, cancels>>
  BY Zenon DEF SendInv, TypeOK, CatchFailure, Phases
<1>1. CASE /\ ShouldDeleteLocalMessage(j) /\ Unlist(j)
           /\ copied' = [copied EXCEPT ![j] = 0] /\ history' = [history EXCEPT ![j] = FALSE]
           /\ UNCHANGED <<undeleted, faults>>
  <2>1. list' \in Seq(Jobs) /\ ListedOnce' /\ rooted' = rooted \ {j} /\ Listed' = Listed \ {j}
    BY <1>1, Unlisted, Zenon DEF SendInv, TypeOK
  <2>2. copied' \in [Jobs -> 0 .. Size]
    BY <1>1, StagedTyped DEF SendInv
  <2>3. TypeOK'
    BY <1>0, <1>1, <2>1, <2>2, Zenon DEF SendInv, TypeOK
  <2>4. \A k \in Jobs : k # j => Unmoved(k)
    BY <1>0, <1>1, <2>1, Zenon DEF SendInv, TypeOK, Unmoved
  <2>5. Gone(j)'
    BY <1>1, <2>1, <2>2, Zenon DEF SendInv, TypeOK, Gone
  <2>6. FanOut(j)' /\ Cancels(j)'
    BY <1>0, <1>1, <2>1, Zenon DEF SendInv, FanOut, Cancels, ShouldDeleteLocalMessage
  <2>7. Kept(j)'
    BY <1>0, <2>5, Zenon DEF Kept
  <2> QED BY <2>1, <2>3, <2>4, <2>6, <2>7, OthersKeep, Zenon DEF Good
<1>2. CASE ShouldDeleteLocalMessage(j) /\ DeleteFails(j) /\ UNCHANGED <<copied, history, list, rooted>>
  <2>1. TypeOK' /\ ListedOnce'
    <3>1. faults' \in 0 .. MaxFaults /\ undeleted' \subseteq Jobs
      BY <1>2, DeleteFailsTyped, Zenon DEF SendInv
    <3> QED BY <1>0, <1>2, <3>1, Zenon DEF SendInv, TypeOK, ListedOnce, Listed
  <2>2. \A k \in Jobs : k # j => Unmoved(k)
    BY <1>0, <1>2, Zenon DEF DeleteFails, Unmoved, Listed
  <2>3. FanOut(j)' /\ Cancels(j)'
    BY <1>0, <1>2, Zenon DEF SendInv, FanOut, Cancels, Listed, ShouldDeleteLocalMessage
  <2>4. Kept(j)'
    BY <1>0, <1>2, Zenon DEF DeleteFails, Kept, Doomed
  <2> QED BY <2>1, <2>2, <2>3, <2>4, OthersKeep, Zenon DEF Good
<1>3. CASE ~ShouldDeleteLocalMessage(j) /\ UNCHANGED <<copied, history, list, rooted, undeleted, faults>>
  <2>1. TypeOK' /\ ListedOnce'
    BY <1>0, <1>3, Zenon DEF SendInv, TypeOK, ListedOnce, Listed
  <2>2. \A k \in Jobs : k # j => Unmoved(k)
    BY <1>0, <1>3, Zenon DEF Unmoved, Listed
  <2>3. Good(j)'
    BY <1>0, <1>3, Zenon DEF SendInv, ShouldDeleteLocalMessage, Good, FanOut, Cancels, Kept, Doomed,
       Whole, Gone, Listed
  <2> QED BY <2>1, <2>2, <2>3, OthersKeep, Zenon
<1> QED BY <1>1, <1>2, <1>3, Zenon DEF CatchFailure

\* The finally block frees what is staged, when no transfer runs any more; or
\* it cannot.
LEMMA FreeStagingKeeps ==
    ASSUME SendInv, NEW j \in Jobs, FreeStaging(j)
    PROVE  SendInv'
<1>0. PICK phase \in {"stuck", "done"} :
         /\ job[j] = "cleanup" /\ job' = [job EXCEPT ![j] = phase]
         /\ staged' = staged \/ staged' = [staged EXCEPT ![j] = 0]
         /\ phase = "done" => staged' = [staged EXCEPT ![j] = 0]
  BY Zenon DEF FreeStaging, Goto
<1>1. /\ job' \in [Jobs -> Phases] /\ job'[j] = phase /\ \A k \in Jobs : k # j => job'[k] = job[k]
  BY <1>0, Zenon DEF SendInv, TypeOK, Phases
<1>2. UNCHANGED <<aborted, copied, history, list, rooted, committed, xfer, pending, purging, undeleted, named, hashCancel, cancels>>
  BY Zenon DEF FreeStaging
<1>3. faults' \in 0 .. MaxFaults
  BY SendJobAssumption DEF SendInv, TypeOK, FreeStaging, Goto
<1>4. staged' \in [Jobs -> 0 .. Size] /\ \A k \in Jobs : k # j => staged'[k] = staged[k]
  BY <1>0, StagedTyped, Zenon DEF SendInv
<1>5. phase = "done" => staged'[j] = 0
  BY <1>0, StagedTyped, Zenon DEF SendInv
<1>6. TypeOK' /\ ListedOnce'
  <2>1. Listed' = Listed /\ ListedOnce'
    BY <1>2, Zenon DEF SendInv, ListedOnce, Listed
  <2>2. job' \in [Jobs -> Phases]
    BY <1>1, Zenon
  <2>3. staged' \in [Jobs -> 0 .. Size]
    BY <1>4, Zenon
  <2> QED
    BY <1>2, <1>3, <2>1, <2>2, <2>3 DEF SendInv, TypeOK
<1>7. \A k \in Jobs : k # j => Unmoved(k)
  BY <1>1, <1>2, <1>4, Zenon DEF Unmoved, Listed
<1>8. Listed' = Listed /\ Doomed' = Doomed /\ (Whole(j)' <=> Whole(j)) /\ (Gone(j)' <=> Gone(j))
  BY <1>2, Zenon DEF Listed, Doomed, Whole, Gone
<1>9. Good(j)'
  <2>1. job[j] = "cleanup" /\ FanOut(j) /\ Cancels(j) /\ Kept(j)
    BY <1>0, Zenon DEF SendInv
  <2>2. CASE phase = "stuck"
    BY <1>1, <1>2, <1>8, <2>1, <2>2, Zenon DEF Good, FanOut, Cancels, Kept
  <2>3. CASE phase = "done"
    BY <1>1, <1>2, <1>5, <1>8, <2>1, <2>3, Zenon DEF Good, FanOut, Cancels, Kept
  <2> QED BY <2>2, <2>3, Zenon
<1> QED BY <1>6, <1>7, <1>9, OthersKeep, Zenon

----------------------------------------------------------------------------
\* A signal that is set, and a cancel that will delete.
LEMMA AbortTransferKeeps ==
    ASSUME SendInv, AbortTransfer
    PROVE  SendInv'
<1>1. UNCHANGED <<job, staged, copied, history, list, rooted, committed, xfer, purging, undeleted, faults>>
  BY Zenon DEF AbortTransfer
<1>2. PICK S \in SUBSET Jobs : Abort(S)
  BY Zenon DEF AbortTransfer, CancelByHash, AbortRoomTransfers, CancelById, HashMatches
<1>3. /\ aborted' \in [Jobs -> BOOLEAN]
      /\ \A k \in Jobs : aborted[k] => aborted'[k]
  BY <1>2, Zenon DEF Abort, SendInv, TypeOK
<1>4. cancels' \in 0 .. MaxCancels
  BY SendJobAssumption DEF SendInv, TypeOK, AbortTransfer
<1>5. /\ pending \subseteq pending' /\ pending' \subseteq Jobs
      /\ named \subseteq named' /\ named' \subseteq Jobs
      /\ hashCancel' \in BOOLEAN /\ (hashCancel => hashCancel')
  <2>0. pending \subseteq Jobs /\ named \subseteq Jobs /\ hashCancel \in BOOLEAN /\ rooted \subseteq Jobs
    BY DEF SendInv, TypeOK, Listed
  <2>1. CASE CancelByHash
    BY <2>0, <2>1, Zenon DEF CancelByHash
  <2>2. CASE AbortRoomTransfers
    BY <2>0, <2>2, Zenon DEF AbortRoomTransfers
  <2>3. CASE \E j \in Jobs : CancelById(j)
    BY <2>0, <2>3 DEF CancelById
  <2> QED BY <2>1, <2>2, <2>3, Zenon DEF AbortTransfer
<1>6. ASSUME NEW k \in Jobs
      PROVE  /\ k \in named' /\ k \notin named =>
                        (aborted'[k] \/ job[k] = "done") /\ (k \in rooted => k \in pending')
             /\ k \in pending' /\ k \notin pending => (k \in named' \/ hashCancel') /\ k \in rooted
  <2>1. CASE CancelByHash
    BY <2>1, Zenon DEF CancelByHash
  <2>2. CASE AbortRoomTransfers
    BY <2>2, Zenon DEF AbortRoomTransfers
  <2>3. ASSUME NEW j \in Jobs, CancelById(j)
        PROVE  /\ k \in named' /\ k \notin named =>
                        (aborted'[k] \/ job[k] = "done") /\ (k \in rooted => k \in pending')
               /\ k \in pending' /\ k \notin pending => (k \in named' \/ hashCancel') /\ k \in rooted
    <3>1. /\ job[j] # "idle" /\ Abort({j})
          /\ pending' = pending \union ({j} \intersect rooted) /\ named' = named \union {j}
      BY <2>3, Zenon DEF CancelById
    <3>2. aborted'[j] \/ job[j] = "done"
      BY <3>1, Zenon DEF Abort, Active
    <3> QED BY <3>1, <3>2, Zenon
  <2> QED BY <2>1, <2>2, <2>3, Zenon DEF AbortTransfer
<1>7. TypeOK' /\ ListedOnce'
  BY <1>1, <1>3, <1>4, <1>5 DEF SendInv, TypeOK, ListedOnce, Listed
<1>8. ASSUME NEW k \in Jobs PROVE Good(k)'
  <2>1. FanOut(k)'
    BY <1>1, <1>3, <1>5, Zenon DEF SendInv, FanOut
  <2>0. /\ k \in named' /\ k \notin named =>
                        (aborted'[k] \/ job[k] = "done") /\ (k \in rooted => k \in pending')
        /\ k \in pending' /\ k \notin pending => (k \in named' \/ hashCancel') /\ k \in rooted
    BY <1>6, Zenon
  <2>4. aborted[k] => aborted'[k]
    BY <1>3, Zenon
  <2>5. (k \in pending => k \in pending') /\ (k \in named => k \in named')
    BY <1>5, Zenon
  <2>2. Cancels(k)'
    <3>1. Cancels(k)
      BY Zenon DEF SendInv
    <3> QED BY <1>1, <1>5, <2>0, <2>4, <2>5, <3>1, Zenon DEF Cancels, Listed
  <2>3. Kept(k)'
    <3>1. Kept(k)
      BY Zenon DEF SendInv
    <3>2. (Whole(k)' <=> Whole(k)) /\ (Gone(k)' <=> Gone(k))
      BY <1>1, Zenon DEF Whole, Gone, Listed
    <3>3. Whole(k) => k \in rooted
      BY Zenon DEF Whole
    <3>4. (k \in Doomed => k \in Doomed') /\ (k \in pending' => k \in Doomed')
      BY <1>1, <2>5, Zenon DEF Doomed
    <3> QED BY <1>1, <2>0, <2>5, <3>1, <3>2, <3>3, <3>4, Zenon DEF Kept
  <2> QED BY <2>1, <2>2, <2>3, Zenon DEF Good
<1> QED BY <1>7, <1>8, Zenon DEF SendInv, Good

\* The rest of a cancel unlists its message, whose data is still to be deleted.
LEMMA CancelMessageKeeps ==
    ASSUME SendInv, CancelMessage
    PROVE  SendInv'
<1>1. PICK j \in pending : pending' = pending \ {j} /\ Unlist(j) /\ purging' = purging \union {j}
  BY Zenon DEF CancelMessage
<1>2. j \in Jobs
  BY <1>1, Zenon DEF SendInv, TypeOK
<1>3. UNCHANGED <<job, aborted, staged, copied, history, committed, xfer, undeleted, named, hashCancel, faults, cancels>>
  BY Zenon DEF CancelMessage
<1>4. list' \in Seq(Jobs) /\ ListedOnce' /\ rooted' = rooted \ {j} /\ Listed' = Listed \ {j}
  BY <1>1, <1>2, Unlisted, Zenon DEF SendInv, TypeOK
<1>5. TypeOK'
  BY <1>1, <1>2, <1>3, <1>4, Zenon DEF SendInv, TypeOK
<1>6. \A k \in Jobs : k # j => Unmoved(k)
  BY <1>1, <1>3, <1>4, Zenon DEF Unmoved
<1>7. FanOut(j)' /\ Cancels(j)'
  BY <1>1, <1>2, <1>3, <1>4, Zenon DEF SendInv, FanOut, Cancels
<1>8. Kept(j)'
  BY <1>1, <1>2, <1>3, Zenon DEF SendInv, Kept, Doomed
<1> QED BY <1>2, <1>4, <1>5, <1>6, <1>7, <1>8, OthersKeep, Zenon DEF Good

\* Only a message that was cancelled has an entry taken out by a cancel.
LEMMA UnlistedFirst ==
    ASSUME SendInv, NEW j \in purging
    PROVE  j \in Jobs /\ j \notin Listed
  BY Zenon DEF SendInv, TypeOK, Cancels

\* The room listener deletes all that is kept of an unlisted message, or the
\* deletion failed.
LEMMA PurgeMessageKeeps ==
    ASSUME SendInv, PurgeMessage
    PROVE  SendInv'
<1>1. PICK j \in purging :
         /\ purging' = purging \ {j}
         /\ \/ /\ copied' = [copied EXCEPT ![j] = 0] /\ history' = [history EXCEPT ![j] = FALSE]
               /\ \E left \in 0 .. staged[j] : staged' = [staged EXCEPT ![j] = left]
               /\ UNCHANGED <<undeleted, faults>>
            \/ DeleteFails(j) /\ UNCHANGED <<staged, copied, history>>
  BY Zenon DEF PurgeMessage
<1>2. j \in Jobs /\ j \notin Listed
  BY <1>1, UnlistedFirst, Zenon
<1>3. /\ UNCHANGED <<job, aborted, list, rooted, committed, xfer, pending, named, hashCancel, cancels>>
      /\ Listed' = Listed /\ (ListedOnce' <=> ListedOnce)
  BY Zenon DEF PurgeMessage, Listed, ListedOnce
<1>4. CASE /\ copied' = [copied EXCEPT ![j] = 0] /\ history' = [history EXCEPT ![j] = FALSE]
           /\ \E left \in 0 .. staged[j] : staged' = [staged EXCEPT ![j] = left]
           /\ UNCHANGED <<undeleted, faults>>
  <2>1. copied' \in [Jobs -> 0 .. Size] /\ history' \in [Jobs -> BOOLEAN]
    BY <1>2, <1>4, StagedTyped, Zenon DEF SendInv, TypeOK
  <2>2. /\ staged' \in [Jobs -> 0 .. Size] /\ \A k \in Jobs : k # j => staged'[k] = staged[k]
        /\ staged[j] = 0 => staged'[j] = 0
    <3>1. staged \in [Jobs -> 0 .. Size]
      BY Zenon DEF SendInv, TypeOK
    <3>2. PICK left \in 0 .. staged[j] : staged' = [staged EXCEPT ![j] = left]
      BY <1>4, ZenonT(30)
    <3>3. left \in 0 .. Size /\ (staged[j] = 0 => left = 0)
      BY <1>2, <3>1, SendJobAssumption
    <3> QED BY <1>2, <3>1, <3>2, <3>3, Zenon
  <2>3. TypeOK' /\ ListedOnce'
    BY <1>1, <1>3, <1>4, <2>1, <2>2, Zenon DEF SendInv, TypeOK
  <2>4. \A k \in Jobs : k # j => Unmoved(k)
    BY <1>1, <1>3, <1>4, <2>2, Zenon DEF SendInv, TypeOK, Unmoved
  <2>5. Gone(j)'
    BY <1>2, <1>3, <1>4, Zenon DEF SendInv, TypeOK, Gone
  <2>6. FanOut(j)' /\ Cancels(j)'
    BY <1>1, <1>2, <1>3, <1>4, <2>2, Zenon DEF SendInv, FanOut, Cancels
  <2>7. Kept(j)'
    BY <1>2, <1>3, <2>2, <2>5, Zenon DEF SendInv, Kept
  <2> QED BY <1>2, <2>3, <2>4, <2>6, <2>7, OthersKeep, Zenon DEF Good
<1>5. CASE DeleteFails(j) /\ UNCHANGED <<staged, copied, history>>
  <2>1. TypeOK' /\ ListedOnce'
    <3>1. faults' \in 0 .. MaxFaults /\ undeleted' \subseteq Jobs
      BY <1>2, <1>5, DeleteFailsTyped, Zenon DEF SendInv
    <3> QED BY <1>1, <1>3, <1>5, <3>1, Zenon DEF SendInv, TypeOK
  <2>2. \A k \in Jobs : k # j => Unmoved(k)
    BY <1>1, <1>3, <1>5, Zenon DEF DeleteFails, Unmoved
  <2>3. FanOut(j)' /\ Cancels(j)'
    BY <1>1, <1>2, <1>3, <1>5, Zenon DEF SendInv, FanOut, Cancels
  <2>4. Kept(j)'
    BY <1>2, <1>3, <1>5, Zenon DEF SendInv, DeleteFails, Kept, Doomed
  <2> QED BY <1>2, <2>1, <2>2, <2>3, <2>4, OthersKeep, Zenon DEF Good
<1> QED BY <1>1, <1>4, <1>5, Zenon

----------------------------------------------------------------------------
\* Before the first send nothing is staged, kept or cancelled.
LEMMA SendInvInit == Init => SendInv
<1> SUFFICES ASSUME Init PROVE SendInv
  BY Zenon
<1>1. 0 \in 0 .. Size /\ 0 \in 0 .. MaxFaults /\ 0 \in 0 .. MaxCancels
  BY SendJobAssumption
<1>2. Listed = {} /\ ListedOnce
  BY DEF Init, Listed, ListedOnce
<1>3. TypeOK
  <2>1. /\ job \in [Jobs -> Phases] /\ aborted \in [Jobs -> BOOLEAN]
        /\ staged \in [Jobs -> 0 .. Size] /\ copied \in [Jobs -> 0 .. Size]
    BY <1>1, Zenon DEF Init, Phases
  <2>2. history \in [Jobs -> BOOLEAN] /\ committed \in [Jobs -> BOOLEAN]
    BY Zenon DEF Init
  <2>3. xfer \in [Jobs -> [Peers -> {"none", "opening", "running", "delivered", "failed", "skipped"}]]
    BY Zenon DEF Init
  <2>4. list \in Seq(Jobs) /\ rooted \subseteq Listed
    BY DEF Init
  <2> QED BY <1>1, <2>1, <2>2, <2>3, <2>4, Zenon DEF Init, TypeOK
<1>4. ASSUME NEW j \in Jobs PROVE FanOut(j) /\ Cancels(j) /\ Kept(j)
  BY <1>2, Zenon DEF Init, FanOut, Cancels, Kept, Gone
<1> QED BY <1>2, <1>3, <1>4, Zenon DEF SendInv

\* Every step keeps the invariant.
LEMMA SendInvStep == SendInv /\ [Next]_vars => SendInv'
<1> SUFFICES ASSUME SendInv, [Next]_vars PROVE SendInv'
  BY SMTT(30)
<1>1. CASE UNCHANGED vars
  BY <1>1 DEF vars, SendInv, TypeOK, ListedOnce, Listed, FanOut, Cancels, Kept, Doomed, Whole, Gone
<1>2. ASSUME NEW j \in Jobs, JobStep(j) PROVE SendInv'
  BY <1>2, SendMessageKeeps, StageChunkKeeps, StagingEndsKeeps, CopyChunkKeeps, CommitMessageKeeps,
     FanOutKeeps, TransfersKeep, CatchFailureKeeps, FreeStagingKeeps, Zenon DEF JobStep
<1>3. CASE AbortTransfer
  BY <1>3, AbortTransferKeeps, Zenon
<1>4. CASE CancelMessage
  BY <1>4, CancelMessageKeeps, Zenon
<1>5. CASE PurgeMessage
  BY <1>5, PurgeMessageKeeps, Zenon
<1> QED BY <1>1, <1>2, <1>3, <1>4, <1>5, Zenon DEF Next

(***************************************************************************)
(* In every phase of a send, what is staged, kept, listed and cancelled of *)
(* its message fits together.                                              *)
(***************************************************************************)
THEOREM SendInvariant == Spec => []SendInv
BY SendInvInit, SendInvStep, PTL DEF Spec

(***************************************************************************)
(* handleSendMessage frees the staged chunks after all its transfers have  *)
(* settled (Promise.all, then the finally block), so no transfer of a send *)
(* that was not cancelled ever misses a chunk.                             *)
(***************************************************************************)
THEOREM StagingOutlivesTransfersTheorem == Spec => []StagingOutlivesTransfers
<1>1. SendInv => StagingOutlivesTransfers
  BY Zenon DEF SendInv, FanOut, StagingOutlivesTransfers
<1> QED BY <1>1, SendInvariant, PTL

(***************************************************************************)
(* A send that is over has left nothing staged, and of its message all or  *)
(* nothing: the catch block and cancelMessage together delete the copy,    *)
(* the row and the entry, whichever of them came first, unless a deletion  *)
(* is still to come or failed.                                             *)
(***************************************************************************)
THEOREM NoOrphanTheorem == Spec => []JobLeavesNoOrphan
<1>1. SendInv => JobLeavesNoOrphan
  <2> SUFFICES ASSUME SendInv, NEW j \in Jobs, job[j] \in {"stuck", "done"}
               PROVE  /\ job[j] = "done" => staged[j] = 0
                      /\ \/ j \in Doomed
                         \/ copied[j] = 0 /\ ~history[j] /\ j \notin Listed
                         \/ committed[j] /\ copied[j] = Size /\ history[j] /\ j \in rooted /\ j \notin named
    BY Zenon DEF JobLeavesNoOrphan
  <2>1. Kept(j)
    BY Zenon DEF SendInv
  <2> QED BY <2>1, Zenon DEF Kept, Doomed, Whole, Gone
<1> QED BY <1>1, SendInvariant, PTL

(***************************************************************************)
(* A committed message stays in the sender's history until it is cancelled *)
(* itself, unless some cancel named its message by hash (cancelMessage).   *)
(***************************************************************************)
THEOREM CancelIsScopedTheorem == Spec => []CancelIsScoped
<1>1. SendInv => CancelIsScoped
  BY Zenon DEF SendInv, Cancels, CancelIsScoped
<1> QED BY <1>1, SendInvariant, PTL
=============================================================================
