---------------------------- MODULE Page_proofs -----------------------------
(***************************************************************************)
(* Proofs about Page, for any number of rooms, handles, sockets and        *)
(* connections: an identity has one live transport, what is registered is  *)
(* live unless its edge failed or a rollback revived it, and until the     *)
(* application disconnects there is one socket and the flags are its.      *)
(***************************************************************************)
EXTENDS Page, TLAPS

\* What a task may rely on at its next step: who holds the mutex of the
\* identity, that nothing is registered or live where it is about to make a
\* connection, and that the connection it rolls back is still its handle's.
TaskInv(h) ==
    /\ task[h].pc \in {"reserve", "init"} <=> identity = h
    /\ task[h].pc \in {"identity", "reserve"} => reg[h] = 0
    /\ task[h].pc = "reserve" => live = {}
    /\ task[h].pc = "rollback" => /\ task[h].c # 0
                                  /\ reg[h] = task[h].c \/ (reg[h] = 0 /\ h \in revived)
    /\ reg[h] # 0 /\ reg[h] \notin live => reg[h] \in failed \/ h \in revived

\* No connection is known to two handles.
Apart(g, h) ==
    /\ reg[g] # 0 => reg[g] # reg[h] /\ reg[g] # task[h].c
    /\ task[g].c # 0 => task[g].c # task[h].c

\* A task has a connection made so far, or none.
TasksUpTo(n) == task = [h \in Handles |-> task[h]] /\ \A h \in Handles : task[h].c \in 0 .. n

PageInv ==
    /\ made \in Nat
    /\ reg \in [Handles -> 0 .. made]
    /\ TasksUpTo(made)
    /\ \A c \in live : c # 0 /\ \E h \in Handles : reg[h] = c
    /\ \A c, d \in live : c = d
    /\ \A h \in Handles : TaskInv(h)
    /\ \A g, h \in Handles : g # h => Apart(g, h)

Sock == [state : {"connecting", "open", "closing", "closed"}, auth : {"none", "signing", "proved", "verified", "lost"}]

SocketsTyped ==
    /\ socks \in Seq(Sock) /\ ws \in 0 .. Len(socks)
    /\ opening \in Nat /\ flags \in [est : BOOLEAN, con : BOOLEAN, ver : BOOLEAN]

\* A socket that is not kept is closed, and none is being opened next to one
\* that is kept; the flags are those of the one socket there is or will be.
OneSocket ==
    /\ \A s \in Sockets : s # ws => socks[s].state = "closed"
    /\ ws # 0 => opening = 0 /\ socks[ws].state # "closed"
    /\ opening \in {0, 1} /\ (opening = 1 => flags.est)
    /\ flags.con => ws # 0 /\ socks[ws].state \in {"open", "closing"}
    /\ flags.ver => ws # 0 /\ socks[ws].auth = "verified"

SocketInv == SocketsTyped /\ ("disconnected" \notin mishaps => OneSocket)

-----------------------------------------------------------------------------
\* What Goto and Ends do to the tasks.
LEMMA GotoFacts ==
    ASSUME NEW n \in Nat, TasksUpTo(n), NEW m \in Nat, n <= m,
           NEW h \in Handles, NEW pc, NEW c \in 0 .. m, Goto(h, pc, c)
    PROVE  /\ TasksUpTo(m)'
           /\ task'[h].pc = pc /\ task'[h].c = c
           /\ \A g \in Handles : g # h => task'[g] = task[g]
  <1> DEFINE t == [pc |-> pc, describes |-> task[h].describes, c |-> c]
  <1>1. t.pc = pc /\ t.c = c
    BY Zenon
  <1>2. task' = [task EXCEPT ![h] = t]
    BY Zenon DEF Goto
  <1> HIDE DEF t
  <1>3. /\ task' = [g \in Handles |-> task'[g]] /\ task'[h] = t
        /\ \A g \in Handles : g # h => task'[g] = task[g]
    BY <1>2, Zenon DEF TasksUpTo
  <1>4. 0 .. n \subseteq 0 .. m
    OBVIOUS
  <1> QED  BY <1>1, <1>3, <1>4, Zenon DEF TasksUpTo

\* A task that ends is idle and holds no connection; the others go on.
LEMMA EndsFacts ==
    ASSUME NEW n \in Nat, TasksUpTo(n), NEW h \in Handles, Ends(h)
    PROVE  /\ TasksUpTo(n)'
           /\ task'[h].pc = "idle" /\ task'[h].c = 0
           /\ \A g \in Handles : g # h => task'[g] = task[g]
  <1>1. NoTask.pc = "idle" /\ NoTask.c = 0
    BY Zenon DEF NoTask
  <1>2. 0 \in 0 .. n
    OBVIOUS
  <1>3. /\ task' = [g \in Handles |-> task'[g]] /\ task'[h] = NoTask
        /\ \A g \in Handles : g # h => task'[g] = task[g]
    BY Zenon DEF Ends, TasksUpTo
  <1> QED  BY <1>1, <1>2, <1>3, Zenon DEF TasksUpTo

-----------------------------------------------------------------------------
\* PageInv holds before anything is registered.
LEMMA PageInvInit == RegistryInit => PageInv
  <1> SUFFICES ASSUME RegistryInit PROVE PageInv
    BY Zenon
  <1>1. \A h \in Handles : task[h].pc = "idle" /\ task[h].c = 0 /\ reg[h] = 0 /\ identity # h
    BY RegistryAssumption, Zenon DEF RegistryInit, NoTask
  <1>2. made \in Nat /\ reg \in [Handles -> 0 .. made] /\ TasksUpTo(made) /\ live = {}
    BY <1>1 DEF RegistryInit, TasksUpTo
  <1> QED  BY <1>1, <1>2, Zenon DEF PageInv, TaskInv, Apart

\* webrtcDisconnectPeerQuery for the handles of H: what it closes is no longer
\* registered, and a rollback that awaits is recorded in revived.
LEMMA TeardownStep ==
    ASSUME PageInv, NEW H \in SUBSET Handles, Teardown(H), UNCHANGED <<made, task, identity, failed>>
    PROVE  PageInv'
  <1>1. /\ reg' \in [Handles -> 0 .. made']
        /\ \A h \in Handles : reg'[h] = IF h \in H THEN 0 ELSE reg[h]
    BY DEF PageInv, Teardown
  <1>2. \A c \in live' : c \in live /\ \A h \in H : reg[h] # c
    BY Zenon DEF Teardown
  <1>3. \A c \in live : c \in live' \/ \E h \in H : reg[h] = c
    BY Zenon DEF Teardown
  <1>4. /\ \A h \in revived : h \in revived'
        /\ \A h \in H : task[h].pc = "rollback" /\ task[h].c = reg[h] => h \in revived'
    BY Zenon DEF Teardown
  <1>5. TasksUpTo(made)' /\ made' \in Nat
    BY Zenon DEF PageInv, TasksUpTo
  <1>6. \A c \in live' : c # 0 /\ \E h \in Handles : reg'[h] = c
    BY <1>1, <1>2, Zenon DEF PageInv
  <1>7. \A c, d \in live' : c = d
    BY <1>2, Zenon DEF PageInv
  <1>8. ASSUME NEW h \in Handles PROVE TaskInv(h)'
    <2>1. TaskInv(h) /\ \A g \in H : g # h /\ reg[h] # 0 => reg[g] # reg[h]
      BY Zenon DEF PageInv, Apart
    <2>2. reg'[h] # 0 /\ reg'[h] \notin live' => reg'[h] \in failed' \/ h \in revived'
      BY <1>1, <1>3, <1>4, <2>1 DEF TaskInv
    <2> QED  BY <1>1, <1>2, <1>4, <2>1, <2>2, Zenon DEF TaskInv
  <1>9. ASSUME NEW g \in Handles, NEW h \in Handles, g # h PROVE Apart(g, h)'
    BY <1>1, <1>9 DEF PageInv, Apart
  <1> QED  BY <1>1, <1>5, <1>6, <1>7, <1>8, <1>9, Zenon DEF PageInv

\* A task that starts (connectWithPeer, setDescription) keeps PageInv.
LEMMA StartStep ==
    ASSUME PageInv, NEW h \in Handles, Start(h)
    PROVE  PageInv'
  <1> DEFINE Begun(t) == /\ t.c \in {0, reg[h]}
                         /\ t.pc \in {"lookup", "identity", "rollback", "remote"}
                         /\ t.pc = "identity" => reg[h] = 0
                         /\ t.pc = "rollback" => t.c # 0 /\ t.c = reg[h]
  <1>1. Begun([pc |-> "lookup", describes |-> FALSE, c |-> 0])
    BY Zenon
  <1>2. ASSUME NEW pc \in IF reg[h] = 0 THEN {"identity"} ELSE {"rollback", "remote"}
        PROVE  Begun([pc |-> pc, describes |-> TRUE, c |-> reg[h]])
    <2>1. /\ [pc |-> pc, describes |-> TRUE, c |-> reg[h]].pc = pc
          /\ [pc |-> pc, describes |-> TRUE, c |-> reg[h]].c = reg[h]
      BY Zenon
    <2> QED  BY <2>1, <1>2, Zenon
  <1> HIDE DEF Begun
  <1>3. PICK t : task' = [task EXCEPT ![h] = t] /\ Begun(t)
    BY <1>1, <1>2, Zenon DEF Start
  <1> USE DEF Begun
  <1>4. task[h].pc = "idle"
    BY DEF Start, NoTask
  <1>5. UNCHANGED <<made, live, reg, identity, failed, revived>>
    BY Zenon DEF Start
  <1>6. made \in Nat /\ reg[h] \in 0 .. made /\ 0 \in 0 .. made
    BY DEF PageInv
  <1>7. /\ TasksUpTo(made)' /\ task'[h] = t /\ \A g \in Handles : g # h => task'[g] = task[g]
    BY <1>3, <1>5, <1>6, Zenon DEF PageInv, TasksUpTo
  <1>8. \A g \in Handles : TaskInv(g)'
    BY <1>3, <1>4, <1>7, <1>5 DEF PageInv, TaskInv
  <1>9. ASSUME NEW f \in Handles, NEW g \in Handles, f # g PROVE Apart(f, g)'
    BY <1>3, <1>7, <1>5, <1>9 DEF PageInv, Apart
  <1> QED  BY <1>7, <1>5, <1>8, <1>9, Zenon DEF PageInv

\* Looking the handle up again under its mutex keeps PageInv.
LEMMA LookupStep ==
    ASSUME PageInv, NEW h \in Handles, Lookup(h)
    PROVE  PageInv'
  <1>1. UNCHANGED <<made, live, identity, failed, revived>> /\ task[h].pc = "lookup" /\ made \in Nat
    BY Zenon DEF Lookup, PageInv
  <1>2. /\ TasksUpTo(made)' /\ \A g \in Handles : g # h => task'[g] = task[g]
        /\ task'[h].pc \in {"idle", "identity"} /\ task'[h].c = 0
        /\ task'[h].pc = "identity" => reg'[h] = 0
    <2>1. CASE Ends(h)
      BY <1>1, <2>1, EndsFacts, Zenon DEF PageInv
    <2>2. CASE Goto(h, "identity", 0) /\ reg' = [reg EXCEPT ![h] = 0]
      <3>1. 0 \in 0 .. made /\ made <= made
        BY <1>1
      <3> QED  BY <1>1, <2>2, <3>1, GotoFacts DEF PageInv
    <2> QED  BY <2>1, <2>2, Zenon DEF Lookup
  <1>3. /\ reg' \in [Handles -> 0 .. made']
        /\ \A g \in Handles : g # h => reg'[g] = reg[g]
        /\ reg'[h] = reg[h] \/ (reg'[h] = 0 /\ reg[h] \notin live)
    BY <1>1 DEF Lookup, PageInv
  <1>4. \A c \in live' : c # 0 /\ \E g \in Handles : reg'[g] = c
    BY <1>1, <1>3 DEF PageInv
  <1>5. \A g \in Handles : TaskInv(g)'
    BY <1>1, <1>2, <1>3 DEF PageInv, TaskInv
  <1>6. ASSUME NEW f \in Handles, NEW g \in Handles, f # g PROVE Apart(f, g)'
    BY <1>2, <1>3, <1>6 DEF PageInv, Apart
  <1> QED  BY <1>1, <1>2, <1>3, <1>4, <1>5, <1>6, Zenon DEF PageInv

\* handleConnectToPeer has torn the other handles down: nothing is left.
LEMMA AcquireStep ==
    ASSUME PageInv, NEW h \in Handles, Acquire(h)
    PROVE  PageInv'
  <1> DEFINE H == {o \in Others(h) : reg[o] # 0}
  <1>1. /\ Teardown(H) /\ Goto(h, "reserve", 0) /\ made' = made /\ made \in Nat
        /\ identity = NoHandle /\ identity' = h /\ reg[h] = 0
    BY Zenon DEF Acquire, PageInv, TaskInv
  <1>2. \A g \in Handles : reg[g] # 0 => g \in H
    BY <1>1, Zenon DEF Others
  <1>3. reg' \in [Handles -> 0 .. made'] /\ \A g \in Handles : reg'[g] = 0
    BY <1>1, <1>2, Zenon DEF Teardown, PageInv
  <1>4. live' = {}
    BY <1>1, <1>2, Zenon DEF Teardown, PageInv
  <1>6. /\ \A g \in Handles : g \in revived => g \in revived'
        /\ \A g \in H : task[g].pc = "rollback" /\ task[g].c = reg[g] => g \in revived'
    BY <1>1, Zenon DEF Teardown
  <1>7. /\ TasksUpTo(made)' /\ task'[h].pc = "reserve" /\ task'[h].c = 0
        /\ \A g \in Handles : g # h => task'[g] = task[g]
    <2>1. 0 \in 0 .. made /\ made <= made
      BY <1>1
    <2> QED  BY <1>1, <2>1, GotoFacts DEF PageInv
  <1> HIDE DEF H
  <1>8. \A g \in Handles : TaskInv(g)'
    BY <1>1, <1>2, <1>3, <1>4, <1>6, <1>7, RegistryAssumption DEF PageInv, TaskInv
  <1>9. ASSUME NEW f \in Handles, NEW g \in Handles, f # g PROVE Apart(f, g)'
    BY <1>3, <1>7, <1>9 DEF PageInv, Apart
  <1> QED  BY <1>1, <1>3, <1>4, <1>7, <1>8, <1>9, Zenon DEF PageInv

\* Reserving a connection under the mutex of the identity keeps PageInv: the
\* task found nothing live, and no other task could reserve since.
LEMMA ReserveStep ==
    ASSUME PageInv, NEW h \in Handles, Reserve(h)
    PROVE  PageInv'
  <1>0. PICK n \in Nat : n = made + 1
    BY DEF PageInv
  <1>1. /\ n \in Nat /\ made' = n /\ made \in Nat /\ made <= n /\ n \in 0 .. n /\ n \notin 0 .. made /\ n # 0
        /\ 0 .. made \subseteq 0 .. n
    BY <1>0 DEF Reserve, PageInv
  <1>2. UNCHANGED <<identity, failed, revived>> /\ task[h].pc = "reserve" /\ Goto(h, "init", n)
    BY <1>0, Zenon DEF Reserve
  <1>3. live' = {n}
    BY <1>0, <1>2, Zenon DEF Reserve, PageInv, TaskInv
  <1>4. /\ reg' \in [Handles -> 0 .. made'] /\ reg'[h] = n /\ \A g \in Handles : g # h => reg'[g] = reg[g]
    BY <1>0, <1>1, Zenon DEF Reserve, PageInv
  <1>5. /\ TasksUpTo(n)' /\ task'[h].pc = "init" /\ task'[h].c = n
        /\ \A g \in Handles : g # h => task'[g] = task[g]
    BY <1>1, <1>2, GotoFacts DEF PageInv
  <1>6. \A g \in Handles : reg[g] # n /\ task[g].c # n
    BY <1>1 DEF PageInv, TasksUpTo
  <1>7. TasksUpTo(made)'
    BY <1>1, <1>5, Zenon DEF TasksUpTo
  <1>8. \A g \in Handles : TaskInv(g)'
    BY <1>1, <1>2, <1>3, <1>4, <1>5 DEF PageInv, TaskInv
  <1>9. ASSUME NEW f \in Handles, NEW g \in Handles, f # g PROVE Apart(f, g)'
    BY <1>1, <1>4, <1>5, <1>6, <1>9 DEF PageInv, Apart
  <1> QED  BY <1>1, <1>3, <1>4, <1>7, <1>8, <1>9, Zenon DEF PageInv

\* Finishing handleConnectToPeer, which frees the identity, keeps PageInv.
LEMMA InitDoneStep ==
    ASSUME PageInv, NEW h \in Handles, NEW online, InitDone(h, online)
    PROVE  PageInv'
  <1> DEFINE c == task[h].c
  <1>1. /\ UNCHANGED <<made, reg, failed, revived>> /\ made \in Nat /\ identity = h /\ identity' = NoHandle
        /\ task[h].pc = "init"
    BY Zenon DEF InitDone, PageInv, TaskInv
  <1>2. /\ live' = live \/ (live' = live \ {c} /\ reg[h] # c)
        /\ Ends(h) \/ (Goto(h, "remote", c) /\ reg[h] = c)
    BY Zenon DEF InitDone
  <1>3. c \in 0 .. made /\ made <= made
    BY <1>1 DEF PageInv, TasksUpTo
  <1>4. /\ TasksUpTo(made)' /\ \A g \in Handles : g # h => task'[g] = task[g]
        /\ task'[h].pc \in {"idle", "remote"} /\ task'[h].c \in {0, c}
    <2>1. CASE Ends(h)
      BY <1>1, <2>1, EndsFacts, Zenon DEF PageInv
    <2>2. CASE Goto(h, "remote", c)
      BY <1>1, <1>3, <2>2, GotoFacts DEF PageInv
    <2> QED  BY <1>2, <2>1, <2>2, Zenon
  <1>5. \A g \in Handles : reg[g] # 0 => reg[g] # c \/ g = h
    BY Zenon DEF PageInv, Apart
  <1>6. \A g \in Handles : reg'[g] # 0 /\ reg'[g] \notin live' => reg'[g] \in failed' \/ g \in revived'
    BY <1>1, <1>2, <1>5, Zenon DEF PageInv, TaskInv
  <1>7. (\A d \in live' : d \in live) /\ (live = {} => live' = {})
    BY <1>2, Zenon
  <1>8. \A g \in Handles : TaskInv(g)'
    BY <1>1, <1>4, <1>6, <1>7, RegistryAssumption DEF PageInv, TaskInv
  <1>9. ASSUME NEW f \in Handles, NEW g \in Handles, f # g PROVE Apart(f, g)'
    BY <1>1, <1>4, <1>9 DEF PageInv, Apart
  <1> QED  BY <1>1, <1>4, <1>7, <1>8, <1>9, Zenon DEF PageInv

\* webrtcSetDescriptionQuery registers the connection of its handle again; a
\* teardown that came in between has been recorded.
LEMMA RollbackStep ==
    ASSUME PageInv, NEW h \in Handles, Rollback(h)
    PROVE  PageInv'
  <1> DEFINE c == task[h].c
  <1>1. UNCHANGED <<made, live, identity, failed, revived>> /\ made \in Nat /\ task[h].pc = "rollback"
    BY Zenon DEF Rollback, PageInv
  <1>2. c # 0 /\ c \in 0 .. made /\ made <= made /\ (reg[h] = c \/ (reg[h] = 0 /\ h \in revived))
    BY <1>1 DEF PageInv, TaskInv, TasksUpTo
  <1>3. reg' \in [Handles -> 0 .. made'] /\ reg'[h] = c /\ \A g \in Handles : g # h => reg'[g] = reg[g]
    BY <1>1, <1>2, Zenon DEF Rollback, PageInv
  <1>4. /\ TasksUpTo(made)' /\ \A g \in Handles : g # h => task'[g] = task[g]
        /\ task'[h].pc \in {"idle", "remote"} /\ task'[h].c \in {0, c}
    <2>1. CASE Ends(h)
      BY <1>1, <2>1, EndsFacts, Zenon DEF PageInv
    <2>2. CASE Goto(h, "remote", c)
      BY <1>1, <1>2, <2>2, GotoFacts DEF PageInv
    <2> QED  BY <2>1, <2>2, Zenon DEF Rollback
  <1>5. \A d \in live' : d # 0 /\ \E g \in Handles : reg'[g] = d
    BY <1>1, <1>2, <1>3 DEF PageInv
  <1>6. \A g \in Handles : TaskInv(g)'
    BY <1>1, <1>2, <1>3, <1>4 DEF PageInv, TaskInv
  <1>7. ASSUME NEW f \in Handles, NEW g \in Handles, f # g PROVE Apart(f, g)'
    BY <1>2, <1>3, <1>4, <1>7 DEF PageInv, Apart
  <1> QED  BY <1>1, <1>3, <1>4, <1>5, <1>6, <1>7, Zenon DEF PageInv

\* Applying a description to the connection found keeps PageInv.
LEMMA DescribeStep ==
    ASSUME PageInv, NEW h \in Handles, Describe(h)
    PROVE  PageInv'
  <1>1. UNCHANGED <<made, live, reg, identity, failed, revived>> /\ made \in Nat /\ task[h].pc = "remote"
    BY Zenon DEF Describe, PageInv
  <1>2. /\ TasksUpTo(made)' /\ \A g \in Handles : g # h => task'[g] = task[g]
        /\ task'[h].pc = "idle" /\ task'[h].c = 0
    BY <1>1, EndsFacts DEF PageInv, Describe
  <1>3. \A g \in Handles : TaskInv(g)'
    BY <1>1, <1>2 DEF PageInv, TaskInv
  <1>4. ASSUME NEW f \in Handles, NEW g \in Handles, f # g PROVE Apart(f, g)'
    BY <1>1, <1>2, <1>4 DEF PageInv, Apart
  <1> QED  BY <1>1, <1>2, <1>3, <1>4, Zenon DEF PageInv

\* A failed initialisation, which removes its connection, keeps PageInv.
LEMMA InitFailsStep ==
    ASSUME PageInv, NEW h \in Handles, InitFails(h)
    PROVE  PageInv'
  <1>1. /\ UNCHANGED <<made, failed, revived>> /\ made \in Nat /\ identity = h /\ identity' = NoHandle
        /\ task[h].pc = "init" /\ live' = live \ {reg[h]} /\ Ends(h)
    BY Zenon DEF InitFails, PageInv, TaskInv
  <1>2. /\ reg' \in [Handles -> 0 .. made'] /\ reg'[h] = 0 /\ \A g \in Handles : g # h => reg'[g] = reg[g]
    BY <1>1 DEF InitFails, PageInv
  <1>3. /\ TasksUpTo(made)' /\ task'[h].pc = "idle" /\ task'[h].c = 0
        /\ \A g \in Handles : g # h => task'[g] = task[g]
    BY <1>1, EndsFacts, Zenon DEF PageInv
  <1>4. \A g \in Handles : g # h /\ reg[g] # 0 => reg[g] # reg[h]
    BY Zenon DEF PageInv, Apart
  <1>5. \A c \in live' : c # 0 /\ \E g \in Handles : reg'[g] = c
    BY <1>1, <1>2, ZenonT(40) DEF PageInv
  <1>6. \A g \in Handles : reg'[g] # 0 /\ reg'[g] \notin live' => reg'[g] \in failed' \/ g \in revived'
    BY <1>1, <1>2, <1>4, Zenon DEF PageInv, TaskInv
  <1>7. \A d \in live' : d \in live
    BY <1>1, Zenon
  <1>8. \A g \in Handles : TaskInv(g)'
    BY <1>1, <1>2, <1>3, <1>6, <1>7, RegistryAssumption DEF PageInv, TaskInv
  <1>9. ASSUME NEW f \in Handles, NEW g \in Handles, f # g PROVE Apart(f, g)'
    BY <1>2, <1>3, <1>9 DEF PageInv, Apart
  <1> QED  BY <1>1, <1>2, <1>3, <1>5, <1>7, <1>8, <1>9, Zenon DEF PageInv

\* A failed edge closes a connection and notes that it stays registered.
LEMMA FailEdgeStep ==
    ASSUME PageInv, NEW h \in Handles, FailEdge(h)
    PROVE  PageInv'
  <1>1. /\ UNCHANGED <<made, reg, task, identity, revived>>
        /\ live' = live \ {reg[h]} /\ failed' = failed \cup {reg[h]}
    BY Zenon DEF FailEdge
  <1>2. \A d \in live' : d \in live
    BY <1>1, Zenon
  <1>3. \A g \in Handles : reg'[g] # 0 /\ reg'[g] \notin live' => reg'[g] \in failed' \/ g \in revived'
    BY <1>1, Zenon DEF PageInv, TaskInv
  <1>4. \A g \in Handles : TaskInv(g)'
    BY <1>1, <1>2, <1>3 DEF PageInv, TaskInv
  <1>5. \A f, g \in Handles : f # g => Apart(f, g)'
    BY <1>1 DEF PageInv, Apart
  <1>6. TasksUpTo(made)'
    BY <1>1, Zenon DEF PageInv, TasksUpTo
  <1> QED  BY <1>1, <1>2, <1>4, <1>5, <1>6, Zenon DEF PageInv

\* A step that leaves the registry alone keeps PageInv.
LEMMA IdleStep == PageInv /\ UNCHANGED <<made, live, reg, task, identity, failed, revived>> => PageInv'
  <1> SUFFICES ASSUME PageInv, UNCHANGED <<made, live, reg, task, identity, failed, revived>> PROVE PageInv'
    BY Zenon
  <1>1. TasksUpTo(made)' /\ \A h \in Handles : TaskInv(h)'
    BY Zenon DEF PageInv, TasksUpTo, TaskInv
  <1>2. \A g, h \in Handles : g # h => Apart(g, h)'
    BY DEF PageInv, Apart
  <1> QED  BY <1>1, <1>2, Zenon DEF PageInv

-----------------------------------------------------------------------------
\* A disconnectFromRoom under way goes through handles.
FullInv == PageInv /\ leaving \subseteq Handles

\* Leaving a room, one connection at a time, keeps the invariant.
LEMMA LeaveStep ==
    ASSUME FullInv, NEW H \in SUBSET Handles, LeaveNext(H)
    PROVE  FullInv'
  <1>1. PICK h \in H : Teardown({h}) /\ leaving' = H \ {h}
    BY Zenon DEF LeaveNext
  <1>2. UNCHANGED <<made, task, identity, failed>> /\ {h} \in SUBSET Handles
    BY Zenon DEF LeaveNext
  <1>3. PageInv'
    BY <1>1, <1>2, TeardownStep, Zenon DEF FullInv
  <1> QED  BY <1>1, <1>3, Zenon DEF FullInv

\* Every continuation of a task or of a teardown keeps the invariant.
LEMMA RegistryStepInv ==
    ASSUME FullInv, NEW online, RegistryStep(online)
    PROVE  FullInv'
  <1>1. CASE LeaveProceeds
    BY <1>1, LeaveStep, Zenon DEF LeaveProceeds, FullInv
  <1>2. ASSUME NEW h \in Handles,
               Start(h) \/ Lookup(h) \/ Acquire(h) \/ Reserve(h) \/ InitDone(h, online) \/ Rollback(h) \/ Describe(h)
        PROVE  FullInv'
    <2>1. leaving' = leaving
      BY <1>2, Zenon DEF Start, Lookup, Acquire, Reserve, InitDone, Rollback, Describe
    <2>2. PageInv'
      BY <1>2, StartStep, LookupStep, AcquireStep, ReserveStep, InitDoneStep, RollbackStep, DescribeStep, Zenon DEF FullInv
    <2> QED  BY <2>1, <2>2, Zenon DEF FullInv
  <1> QED  BY <1>1, <1>2, Zenon DEF RegistryStep

\* A message of the server that only queues a task keeps the invariant.
LEMMA SignalInv ==
    ASSUME FullInv, NEW h \in Handles, PeersMessage(h) \/ ConnectionMessage(h) \/ DescriptionMessage(h)
    PROVE  FullInv'
  <1>1. UNCHANGED <<made, live, reg, task, identity, failed, revived>> /\ leaving' = leaving
    BY Zenon DEF PeersMessage, ConnectionMessage, DescriptionMessage
  <1> QED  BY <1>1, IdleStep, Zenon DEF FullInv

\* An event of the application, the server or the network keeps the invariant.
LEMMA EventInv ==
    ASSUME FullInv, PageEvent
    PROVE  FullInv'
  <1>1. CASE UNCHANGED registryVars
    <2>1. UNCHANGED <<made, live, reg, task, identity, failed, revived>> /\ leaving' = leaving
      BY <1>1, Zenon DEF registryVars
    <2> QED  BY <2>1, IdleStep, Zenon DEF FullInv
  <1>2. CASE DisconnectFromRoom
    <2>1. {h \in Handles : reg[h] # 0} \in SUBSET Handles
      BY Zenon
    <2> QED  BY <1>2, <2>1, LeaveStep, Zenon DEF DisconnectFromRoom
  <1>3. ASSUME NEW h \in Handles, DisconnectFromPeer(h) PROVE FullInv'
    <2>1. Teardown({h}) /\ UNCHANGED <<made, task, identity, failed>> /\ leaving' = leaving /\ {h} \in SUBSET Handles
      BY <1>3, Zenon DEF DisconnectFromPeer
    <2> QED  BY <2>1, TeardownStep, Zenon DEF FullInv
  <1>5. ASSUME NEW h \in Handles, FailEdge(h) \/ InitFails(h) PROVE FullInv'
    <2>1. leaving' = leaving
      BY <1>5, Zenon DEF FailEdge, InitFails
    <2> QED  BY <1>5, <2>1, FailEdgeStep, InitFailsStep, Zenon DEF FullInv
  <1>4. ASSUME NEW h \in Handles, RosterSignal(h) \/ ConnectionSignal(h) \/ DescriptionSignal(h) PROVE FullInv'
    BY <1>4, SignalInv, Zenon DEF RosterSignal, ConnectionSignal, DescriptionSignal
  <1> QED  BY <1>1, <1>2, <1>3, <1>4, <1>5, Zenon DEF PageEvent

\* The invariant of the registry is one of every page, whatever the sockets,
\* the rooms and the application do.
THEOREM PageInvariant == Spec => []FullInv
  <1>1. Init => FullInv
    BY PageInvInit, Zenon DEF Init, FullInv, RegistryInit
  <1>2. FullInv /\ [Next]_vars => FullInv'
    <2> SUFFICES ASSUME FullInv, [Next]_vars PROVE FullInv'
      BY Zenon
    <2>1. CASE UNCHANGED registryVars
      <3>1. UNCHANGED <<made, live, reg, task, identity, failed, revived>> /\ leaving' = leaving
        BY <2>1, Zenon DEF registryVars
      <3> QED  BY <3>1, IdleStep, Zenon DEF FullInv
    <2>2. CASE PageStep
      BY <2>1, <2>2, RegistryStepInv, Zenon DEF PageStep
    <2>3. CASE Event /\ PageEvent
      BY <2>3, EventInv, Zenon
    <2>4. CASE UNCHANGED vars
      BY <2>1, <2>4, Zenon DEF vars
    <2> QED  BY <2>2, <2>3, <2>4, Zenon DEF Next
  <1> QED  BY <1>1, <1>2, PTL DEF Spec

\* OneTransport: an identity has one live transport at most, and a live one is
\* registered, so that a teardown can find it (handleConnectToPeer).
THEOREM OneTransportTheorem == Spec => []OneTransport
  <1>1. FullInv => OneTransport
    BY Zenon DEF FullInv, PageInv, OneTransport, Registered
  <1> QED  BY <1>1, PageInvariant, PTL

\* OnlyFailureOrRollbackKeepsClosed: a closed connection is registered only
\* when its edge failed and nobody tore it down (failEdge), or a teardown came
\* during the rollback of a setDescription (webrtcSetDescriptionQuery).
THEOREM KeepsClosedTheorem == Spec => []OnlyFailureOrRollbackKeepsClosed
  <1>1. FullInv => OnlyFailureOrRollbackKeepsClosed
    BY Zenon DEF FullInv, PageInv, TaskInv, OnlyFailureOrRollbackKeepsClosed
  <1> QED  BY <1>1, PageInvariant, PTL
-----------------------------------------------------------------------------
\* What assigning to one socket does to the list of sockets.
LEMMA SocketChanges ==
    ASSUME SocketsTyped, NEW s \in Sockets, NEW v \in Sock, socks' = [socks EXCEPT ![s] = v]
    PROVE  /\ socks' \in Seq(Sock) /\ Len(socks') = Len(socks) /\ Sockets' = Sockets
           /\ socks'[s] = v /\ \A t \in Sockets : t # s => socks'[t] = socks[t]
  BY DEF SocketsTyped, Sockets

\* A socket is a record with its state and its proof, and zero is no socket.
LEMMA SocketFacts ==
    ASSUME SocketsTyped
    PROVE  /\ \A s \in Sockets : socks[s] \in Sock /\ s # 0
           /\ ws # 0 => ws \in Sockets
  BY DEF SocketsTyped, Sockets

\* A step that leaves the sockets alone and at most starts to open one
\* (connectWebSocket up to its first await).
LEMMA ConnectWebSocketKeeps ==
    ASSUME SocketInv, ConnectWebSocket \/ UNCHANGED <<flags, opening>>, UNCHANGED <<ws, socks>>, mishaps \subseteq mishaps'
    PROVE  SocketInv'
  <1>1. CASE UNCHANGED <<flags, opening>>
    BY <1>1, Zenon DEF SocketInv, SocketsTyped, OneSocket, Sockets
  <1>2. CASE /\ ws = 0 /\ ~flags.con /\ ~flags.est
             /\ flags' = [flags EXCEPT !.est = TRUE] /\ opening' = opening + 1
    <2>1. flags \in [est : BOOLEAN, con : BOOLEAN, ver : BOOLEAN] /\ opening \in Nat
      BY Zenon DEF SocketInv, SocketsTyped
    <2>2. flags' \in [est : BOOLEAN, con : BOOLEAN, ver : BOOLEAN]
      BY <1>2, <2>1, ZenonT(30)
    <2>3. opening' \in Nat
      BY <1>2, <2>1
    <2>4. SocketsTyped'
      BY <2>2, <2>3, Zenon DEF SocketInv, SocketsTyped
    <2>5. flags'.est /\ flags'.con = flags.con /\ flags'.ver = flags.ver
      BY <1>2 DEF SocketInv, SocketsTyped
    <2>6. ASSUME OneSocket PROVE OneSocket'
      <3>1. opening = 0
        BY <1>2, <2>6, Zenon DEF OneSocket
      <3>2. opening' = 1
        BY <1>2, <3>1
      <3> QED  BY <1>2, <2>5, <2>6, <3>2, Zenon DEF OneSocket, Sockets
    <2> QED  BY <2>4, <2>6, Zenon DEF SocketInv
  <1> QED  BY <1>1, <1>2, Zenon DEF ConnectWebSocket

\* The socket that connectWebSocket makes is the only one that is not closed.
LEMMA OpenSocketKeeps ==
    ASSUME SocketInv, OpenSocket
    PROVE  SocketInv'
  <1> DEFINE new == [state |-> "connecting", auth |-> "none"]
  <1>1. new \in Sock
    BY DEF Sock
  <1>2. /\ socks' = Append(socks, new) /\ ws' = Len(socks) + 1 /\ flags' = flags /\ mishaps' = mishaps
        /\ opening > 0 /\ opening' = opening - 1
    BY Zenon DEF OpenSocket
  <1>3. new.state = "connecting"
    OBVIOUS
  <1> HIDE DEF new
  <1>4. /\ socks' \in Seq(Sock) /\ Len(socks') = Len(socks) + 1 /\ Sockets' = Sockets \cup {ws'}
        /\ socks'[ws'] = new /\ \A t \in Sockets : t # ws' /\ socks'[t] = socks[t]
    BY <1>1, <1>2 DEF SocketInv, SocketsTyped, Sockets
  <1>5. SocketsTyped' /\ ws' # 0
    BY <1>2, <1>4 DEF SocketInv, SocketsTyped
  <1>6. ASSUME OneSocket PROVE OneSocket'
    <2>1. opening = 1 /\ opening' = 0
      BY <1>2, <1>6 DEF OneSocket
    <2>2. ws = 0 /\ flags.est /\ ~flags.con /\ ~flags.ver
      BY <1>6, <2>1 DEF OneSocket, Usable
    <2>3. \A s \in Sockets : socks[s].state = "closed"
      BY <1>6, <2>2, SocketFacts, Zenon DEF OneSocket, SocketInv
    <2>4. opening' # 1
      BY <2>1
    <2>5. \A s \in Sockets' : s # ws' => socks'[s].state = "closed"
      BY <1>4, <2>3, Zenon
    <2>6. socks'[ws'].state = "connecting" /\ "connecting" # "open"
      BY <1>3, <1>4
    <2> QED  BY <1>2, <1>5, <2>1, <2>2, <2>4, <2>5, <2>6, Zenon DEF OneSocket, Usable
  <1> QED  BY <1>2, <1>5, <1>6, Zenon DEF SocketInv

\* A socket that opens is the one that is kept (onopen).
LEMMA OnOpenKeeps ==
    ASSUME SocketInv, NEW s \in Sockets, OnOpen(s)
    PROVE  SocketInv'
  <1> DEFINE v == [socks[s] EXCEPT !.state = "open"]
  <1>1. v \in Sock /\ v.state = "open"
    BY SocketFacts DEF Sock, SocketInv
  <1>2. /\ socks' = [socks EXCEPT ![s] = v] /\ socks[s].state = "connecting"
        /\ flags' = [est |-> FALSE, con |-> TRUE, ver |-> FALSE] /\ UNCHANGED <<ws, opening, mishaps>>
    BY Zenon DEF OnOpen
  <1>3. ~flags'.est /\ flags'.con /\ ~flags'.ver /\ flags' \in [est : BOOLEAN, con : BOOLEAN, ver : BOOLEAN]
    BY <1>2
  <1> HIDE DEF v
  <1>4. /\ socks' \in Seq(Sock) /\ Len(socks') = Len(socks) /\ Sockets' = Sockets
        /\ socks'[s] = v /\ \A t \in Sockets : t # s => socks'[t] = socks[t]
    BY <1>1, <1>2, SocketChanges, Zenon DEF SocketInv
  <1>5. SocketsTyped'
    BY <1>2, <1>3, <1>4, Zenon DEF SocketInv, SocketsTyped
  <1>6. ASSUME OneSocket PROVE OneSocket'
    <2>1. ws = s /\ s # 0 /\ opening = 0
      BY <1>2, <1>6, SocketFacts DEF OneSocket, SocketInv
    <2>2. v.state # "connecting" /\ opening # 1
      BY <1>1, <2>1
    <2> QED  BY <1>1, <1>2, <1>3, <1>4, <1>6, <2>1, <2>2, Zenon DEF OneSocket, Usable
  <1> QED  BY <1>2, <1>5, <1>6, Zenon DEF SocketInv

\* Forget leaves no socket behind: the one kept is given up, the flags are down.
LEMMA ForgetKeeps ==
    ASSUME SocketInv, NEW s \in Sockets, NEW state \in {"closing", "closed"}, Forget(s, state),
           opening' \in Nat, mishaps \subseteq mishaps',
           "disconnected" \notin mishaps' => socks[s].state # "closed" /\ state = "closed" /\ opening' = opening
    PROVE  SocketInv'
  <1> DEFINE v(t) == IF t = s THEN [socks[t] EXCEPT !.state = state]
                     ELSE IF t = ws /\ socks[t].state \in {"connecting", "open"} THEN [socks[t] EXCEPT !.state = "closing"]
                     ELSE socks[t]
  <1>1. \A t \in Sockets : v(t) \in Sock
    BY SocketFacts DEF Sock, SocketInv
  <1>2. v(s).state = state
    BY SocketFacts DEF Sock, SocketInv
  <1>3. socks' = [t \in Sockets |-> v(t)] /\ ws' = 0 /\ flags' = Down
    BY Zenon DEF Forget
  <1>4. \A t \in Sockets : t # s /\ t # ws => v(t) = socks[t]
    BY Zenon
  <1> HIDE DEF v
  <1>5. /\ socks' \in Seq(Sock) /\ Len(socks') = Len(socks) /\ Sockets' = Sockets
        /\ \A t \in Sockets : socks'[t] = v(t)
    BY <1>1, <1>3 DEF SocketInv, SocketsTyped, Sockets
  <1>6. flags' \in [est : BOOLEAN, con : BOOLEAN, ver : BOOLEAN] /\ ~flags'.est /\ ~flags'.con /\ ~flags'.ver
    BY <1>3 DEF Down
  <1>7. SocketsTyped'
    BY <1>3, <1>5, <1>6 DEF SocketInv, SocketsTyped
  <1>8. ASSUME "disconnected" \notin mishaps' PROVE OneSocket'
    <2>1. OneSocket /\ socks[s].state # "closed" /\ state = "closed" /\ opening' = opening
      BY <1>8, Zenon DEF SocketInv
    <2>2. ws = s /\ ws # 0 /\ opening' = 0
      BY <2>1, SocketFacts, Zenon DEF OneSocket, SocketInv
    <2>3. opening' # 1
      BY <2>2
    <2>4. \A t \in Sockets' : socks'[t].state = "closed"
      BY <1>2, <1>4, <1>5, <2>1, <2>2, Zenon DEF OneSocket
    <2> QED  BY <1>3, <1>6, <2>2, <2>3, <2>4, Zenon DEF OneSocket
  <1> QED  BY <1>7, <1>8, Zenon DEF SocketInv

\* The flags go down without a socket to forget, and at most one is no longer
\* being opened.
LEMMA DownKeeps ==
    ASSUME SocketInv, ws = 0, flags' = Down, UNCHANGED <<ws, socks>>, mishaps \subseteq mishaps',
           opening' \in Nat, "disconnected" \notin mishaps' => opening' = 0
    PROVE  SocketInv'
  <1>1. flags' \in [est : BOOLEAN, con : BOOLEAN, ver : BOOLEAN] /\ ~flags'.est /\ ~flags'.con /\ ~flags'.ver
    BY DEF Down
  <1>2. SocketsTyped'
    BY <1>1, Zenon DEF SocketInv, SocketsTyped
  <1>3. ASSUME "disconnected" \notin mishaps' PROVE OneSocket'
    <2>1. OneSocket /\ opening' = 0
      BY <1>3, Zenon DEF SocketInv
    <2>2. opening' # 1
      BY <2>1
    <2> QED  BY <1>1, <2>1, <2>2, Zenon DEF OneSocket, Sockets
  <1> QED  BY <1>2, <1>3, Zenon DEF SocketInv

\* A socket that begins to close stays the one that is kept.
LEMMA ClosesKeeps ==
    ASSUME SocketInv, NEW s \in Sockets, Closes(s), socks[s].state # "closed",
           socks[s].state \in {"connecting", "open"}
    PROVE  SocketInv'
  <1> DEFINE v == [socks[s] EXCEPT !.state = "closing"]
  <1>1. v \in Sock /\ v.state = "closing" /\ v.auth = socks[s].auth
    BY SocketFacts DEF Sock, SocketInv
  <1>2. socks' = [socks EXCEPT ![s] = v] /\ UNCHANGED <<ws, opening, flags>> /\ mishaps \subseteq mishaps'
    BY Zenon DEF Closes
  <1> HIDE DEF v
  <1>3. /\ socks' \in Seq(Sock) /\ Len(socks') = Len(socks) /\ Sockets' = Sockets
        /\ socks'[s] = v /\ \A t \in Sockets : t # s => socks'[t] = socks[t]
    BY <1>1, <1>2, SocketChanges, Zenon DEF SocketInv
  <1>4. SocketsTyped'
    BY <1>2, <1>3, Zenon DEF SocketInv, SocketsTyped
  <1>5. ASSUME OneSocket PROVE OneSocket'
    <2>1. ws = s
      BY <1>5, Zenon DEF OneSocket
    <2>2. v.state # "closed" /\ v.state \in {"open", "closing"}
      BY <1>1
    <2> QED  BY <1>1, <1>2, <1>3, <1>5, <2>1, <2>2, Zenon DEF OneSocket
  <1> QED  BY <1>2, <1>4, <1>5, Zenon DEF SocketInv

\* onclose, disconnectFromSignalingServer, and an identity that could not be
\* provisioned.
LEMMA CloseKeeps ==
    ASSUME SocketInv, (\E s \in Sockets : OnClose(s)) \/ Disconnect \/ OpenFails
    PROVE  SocketInv'
  <1>0. opening \in Nat /\ (ws # 0 => ws \in Sockets)
    BY SocketFacts, Zenon DEF SocketInv, SocketsTyped
  <1>1. ASSUME NEW s \in Sockets, OnClose(s) PROVE SocketInv'
    <2>1. /\ socks[s].state = "closing" /\ Forget(s, "closed") /\ opening' = opening
          /\ mishaps \subseteq mishaps'
      BY <1>1, Zenon DEF OnClose
    <2>2. socks[s].state # "closed"
      BY <2>1
    <2> QED  BY <1>0, <2>1, <2>2, ForgetKeeps, Zenon
  <1>2. CASE Disconnect
    <2>1. "disconnected" \in mishaps' /\ mishaps \subseteq mishaps' /\ opening' \in Nat
      BY <1>0, <1>2, Zenon DEF Disconnect
    <2>2. CASE ws # 0
      BY <1>0, <1>2, <2>1, <2>2, ForgetKeeps, Zenon DEF Disconnect
    <2>3. CASE ws = 0
      BY <1>2, <2>1, <2>3, DownKeeps, Zenon DEF Disconnect
    <2> QED  BY <2>2, <2>3, Zenon
  <1>3. CASE OpenFails
    <2>1. mishaps \subseteq mishaps'
      BY <1>3, Zenon DEF OpenFails
    <2>2. opening' \in Nat /\ opening # 0
      BY <1>0, <1>3 DEF OpenFails
    <2>3. OneSocket => ws = 0 /\ opening = 1
      BY <2>2, Zenon DEF OneSocket
    <2>4. opening = 1 => opening' = 0
      BY <1>3 DEF OpenFails
    <2>5. CASE ws # 0
      <3>1. "disconnected" \in mishaps'
        BY <2>1, <2>3, <2>5, Zenon DEF SocketInv
      <3> QED  BY <1>0, <1>3, <2>1, <2>2, <2>5, <3>1, ForgetKeeps, Zenon DEF OpenFails
    <2>6. CASE ws = 0
      <3>1. "disconnected" \notin mishaps' => opening' = 0
        BY <2>1, <2>3, <2>4, Zenon DEF SocketInv
      <3> QED  BY <1>3, <2>1, <2>2, <2>6, <3>1, DownKeeps, Zenon DEF OpenFails
    <2> QED  BY <2>5, <2>6, Zenon
  <1> QED  BY <1>1, <1>2, <1>3, Zenon

\* The proof of identity moves on one socket; only a socket that is open, and
\* so the one that is kept, is verified (handleChallenge, setPeerData and
\* setChallengeId).
LEMMA ProofKeeps ==
    ASSUME SocketInv, NEW s \in Sockets, OnChallenge(s) \/ SetPeerData(s) \/ OnVerified(s)
    PROVE  SocketInv'
  <1>1. PICK a \in {"none", "signing", "proved", "verified", "lost"} :
           /\ socks' = [socks EXCEPT ![s].auth = a]
           /\ \/ socks[s].auth # "verified" /\ flags' = flags
              \/ Usable(s) /\ a = "verified" /\ flags' = [est |-> FALSE, con |-> TRUE, ver |-> TRUE]
           /\ UNCHANGED <<ws, opening, mishaps>>
    <2>1. CASE OnChallenge(s)
      <3>1. socks[s].auth # "verified" /\ flags' = flags
        BY <2>1 DEF OnChallenge, Fresh
      <3> QED  BY <2>1, <3>1, Zenon DEF OnChallenge
    <2>2. CASE SetPeerData(s)
      <3>1. socks[s].auth # "verified" /\ flags' = flags
        BY <2>2 DEF SetPeerData, Signed
      <3> QED  BY <2>2, <3>1, Zenon DEF SetPeerData
    <2>3. CASE OnVerified(s)
      BY <2>3, Zenon DEF OnVerified, Proved
    <2> QED  BY <2>1, <2>2, <2>3, Zenon
  <1> DEFINE v == [socks[s] EXCEPT !.auth = a]
  <1>2. v \in Sock /\ v.state = socks[s].state /\ v.auth = a
    BY SocketFacts DEF Sock, SocketInv
  <1>3. socks' = [socks EXCEPT ![s] = v]
    BY <1>1, Zenon
  <1>4. flags' \in [est : BOOLEAN, con : BOOLEAN, ver : BOOLEAN]
    <2>1. [est |-> FALSE, con |-> TRUE, ver |-> TRUE] \in [est : BOOLEAN, con : BOOLEAN, ver : BOOLEAN]
      OBVIOUS
    <2> QED  BY <1>1, <2>1, Zenon DEF SocketInv, SocketsTyped
  <1> HIDE DEF v
  <1>5. /\ socks' \in Seq(Sock) /\ Len(socks') = Len(socks) /\ Sockets' = Sockets
        /\ socks'[s] = v /\ \A t \in Sockets : t # s => socks'[t] = socks[t]
    BY <1>2, <1>3, SocketChanges, Zenon DEF SocketInv
  <1>6. SocketsTyped'
    BY <1>1, <1>4, <1>5, Zenon DEF SocketInv, SocketsTyped
  <1>7. ASSUME OneSocket PROVE OneSocket'
    <2>1. \A t \in Sockets : socks'[t].state = socks[t].state
      BY <1>2, <1>5, Zenon
    <2>2. ws # 0 => ws \in Sockets
      BY SocketFacts, Zenon DEF SocketInv
    <2>4. CASE socks[s].auth # "verified" /\ flags' = flags
      <3>1. flags.ver => ws # s
        BY <1>7, <2>4, Zenon DEF OneSocket
      <3> QED  BY <1>1, <1>5, <1>7, <2>1, <2>2, <2>4, <3>1, Zenon DEF OneSocket
    <2>5. CASE Usable(s) /\ a = "verified" /\ flags' = [est |-> FALSE, con |-> TRUE, ver |-> TRUE]
      <3>1. ~flags'.est /\ flags'.con /\ flags'.ver
        BY <2>5
      <3>2. ws = s /\ Usable(ws) /\ opening = 0
        BY <1>7, <2>5 DEF OneSocket, Usable
      <3>3. opening # 1 /\ ws # 0 /\ socks[ws].state \in {"open", "closing"} /\ socks[ws].state # "closed"
        BY <3>2 DEF Usable
      <3> QED  BY <1>1, <1>2, <1>5, <1>7, <2>1, <2>2, <2>5, <3>1, <3>2, <3>3, Zenon DEF OneSocket
    <2> QED  BY <1>1, <2>4, <2>5, Zenon
  <1> QED  BY <1>1, <1>6, <1>7, Zenon DEF SocketInv

\* The network or the server drops a socket, or the page rejects what came on it.
LEMMA LossKeeps ==
    ASSUME SocketInv, NEW s \in Sockets, Drop(s) \/ Reject(s)
    PROVE  SocketInv'
  <1>1. Closes(s) /\ socks[s].state \in {"connecting", "open"}
    BY DEF Drop, Reject, Fresh, Proved, Usable
  <1>2. socks[s].state # "closed"
    BY <1>1
  <1> QED  BY <1>1, <1>2, ClosesKeeps, Zenon

\* Every step of signaling keeps the invariant of the sockets.
LEMMA SignalingStepKeeps ==
    ASSUME SocketInv, SignalingStep
    PROVE  SocketInv'
  <1>1. ASSUME NEW r \in Rooms, ConnectProceeds(r) \/ RoomLoaded(r) PROVE SocketInv'
    BY <1>1, ConnectWebSocketKeeps, Zenon DEF ConnectProceeds, NeedsSocket, RoomLoaded
  <1>2. ASSUME NEW s \in Sockets, NEW r \in Rooms, OnRoomId(s, r) PROVE SocketInv'
    BY <1>2, ConnectWebSocketKeeps, Zenon DEF OnRoomId
  <1> QED  BY <1>1, <1>2, OpenSocketKeeps, OnOpenKeeps, CloseKeeps, ProofKeeps, Zenon DEF SignalingStep

\* The invariant of the sockets, whatever the application, the server and the
\* network do, for any number of rooms and sockets.
THEOREM SocketInvariant == Spec => []SocketInv
  <1>1. Init => SocketInv
    <2>1. ASSUME SignalingInit PROVE SocketInv
      BY <2>1 DEF SignalingInit, SocketInv, SocketsTyped, OneSocket, Sockets, Usable, Down
    <2>2. ASSUME SignalingJoined(Home) PROVE SocketInv
      BY <2>2 DEF SignalingJoined, SocketInv, SocketsTyped, OneSocket, Sockets, Sock, Usable
    <2> QED  BY <2>1, <2>2, Zenon DEF Init
  <1>2. SocketInv /\ [Next]_vars => SocketInv'
    <2> SUFFICES ASSUME SocketInv, [Next]_vars PROVE SocketInv'
      BY Zenon
    <2>1. CASE UNCHANGED signalingVars
      BY <2>1, ConnectWebSocketKeeps, Zenon DEF signalingVars
    <2>2. CASE PageStep
      BY <2>1, <2>2, SignalingStepKeeps, Zenon DEF PageStep
    <2>3. ASSUME NEW r \in Rooms, Connect(r) \/ ConnectToSignalingServer(r) PROVE SocketInv'
      BY <2>3, ConnectWebSocketKeeps, Zenon DEF Connect, ConnectToSignalingServer, NeedsSocket
    <2>4. ASSUME NEW h \in Handles, IceFails(h) PROVE SocketInv'
      BY <2>4, ConnectWebSocketKeeps, Zenon DEF IceFails
    <2>5. CASE Event /\ PageEvent
      BY <2>1, <2>3, <2>4, <2>5, CloseKeeps, LossKeeps, Zenon DEF PageEvent
    <2>6. CASE UNCHANGED vars
      BY <2>1, <2>6, Zenon DEF vars
    <2> QED  BY <2>2, <2>5, <2>6, Zenon DEF Next
  <1> QED  BY <1>1, <1>2, PTL DEF Spec

\* OnlyDisconnectConfusesSockets: until the application disconnects, there is
\* one socket at most, and isConnected and isVerified tell its state.
THEOREM OnlyDisconnectTheorem == Spec => []OnlyDisconnectConfusesSockets
  <1>1. SocketInv => OnlyDisconnectConfusesSockets
    BY Zenon DEF SocketInv, OneSocket, OnlyDisconnectConfusesSockets
  <1> QED  BY <1>1, SocketInvariant, PTL
=============================================================================
