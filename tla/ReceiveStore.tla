---------------------------- MODULE ReceiveStore ----------------------------
(***************************************************************************)
(* The receiver's side of the worker store (db/db.worker.ts): every real   *)
(* chunk of a received file is written to an OPFS file at its offset, then *)
(* recorded in IndexedDB, with the message row and the room summary, in    *)
(* one transaction.  A record is "bare" when its bytes are in the file and *)
(* "full" when it carries them itself.  The whole of a call on a message   *)
(* runs under that message's lock; calls on other messages interleave at   *)
(* every await, and eviction closes another message's handle without its   *)
(* lock.                                                                   *)
(*                                                                         *)
(* The size of a full chunk is not on the wire, so the offset of a chunk   *)
(* is learned from the lengths seen since the handle was opened.  Bytes    *)
(* are numbered by their place in the message: file[r][p] = p when byte p  *)
(* is where it belongs, Zero where nothing was written.                    *)
(***************************************************************************)
EXTENDS Integers, Sequences, SequencesExt, FiniteSets, FiniteSetsExt

CONSTANTS
    Roots,            \* the messages being received, by Merkle root
    Layout,           \* Layout[r]: the lengths of the real chunks of r, in order
    MaxOpenHandles,   \* MAX_OPEN_RECEIVE_HANDLES
    MaxFaults         \* worker restarts, OPFS operations and transactions that fail

ASSUME LayoutAssumption ==
    \A r \in Roots : /\ Layout[r] \in Seq(Nat \ {0}) /\ Layout[r] # << >>
                     /\ \A i \in 1 .. Len(Layout[r]) : 
                          IF i < Len(Layout[r]) THEN Layout[r][i] = Layout[r][1]
                                                ELSE Layout[r][i] <= Layout[r][1]

VARIABLES
    chunks,     \* chunks[r][i]: the record of chunk i: "none", "full" or "bare"
    row,        \* row[r]: savedSize of the message row, 0 for no row
    room,       \* the room summary: messageCount and lastMessageMerkleRoot
    file,       \* file[r]: the bytes of the OPFS file
    entry,      \* entry[r]: the open write handle and what it has learned
    opened,     \* the roots of the open handles, oldest first
    op,         \* op[r]: the call that holds r's lock, and how far it got
    wrong,      \* the messages for which readMessage handed out another file
    recounted,  \* recounted[r]: a handle counted a chunk twice (see below)
    faults      \* restarts and failures so far

vars == <<chunks, row, room, file, entry, opened, op, wrong, recounted, faults>>

Zero == -1

\* Chunks are indexed from 0, as on the wire.
Index(r) == 0 .. Len(Layout[r]) - 1

RealLen(r, i) == Layout[r][i + 1]

TotalSize(r) == FoldSeq(+, 0, Layout[r])

\* Where chunk i belongs in the message of r.
Bytes(r, i) == i * Layout[r][1] .. i * Layout[r][1] + RealLen(r, i) - 1

Recorded(r) == {i \in Index(r) : chunks[r][i] # "none"}

NoEntry == [open |-> FALSE, uniform |-> 0, known |-> FALSE, maxLen |-> 0, seen |-> {}, count |-> 0]

Known == [NoEntry EXCEPT !.open = TRUE, !.known = TRUE]

Idle == [stage |-> "idle", chunk |-> 0, wrote |-> FALSE]

Stages == {"idle", "place", "opening", "write", "commit", "scan", "strip", "remove"}

TypeOK ==
    /\ \A r \in Roots : /\ chunks[r] \in [Index(r) -> {"none", "full", "bare"}]
                        /\ row[r] \in 0 .. TotalSize(r)
                        /\ \A p \in DOMAIN file[r] : file[r][p] \in {Zero} \union (0 .. TotalSize(r) - 1)
                        /\ op[r].stage \in Stages /\ op[r].chunk \in Index(r)
    /\ room.count \in Nat /\ room.last \in Roots \union {"none"}
    /\ ToSet(opened) = {r \in Roots : entry[r].open} /\ Len(opened) = Cardinality(ToSet(opened))
    /\ wrong \subseteq Roots

Init ==
    /\ chunks = [r \in Roots |-> [i \in Index(r) |-> "none"]]
    /\ row = [r \in Roots |-> 0] /\ room = [count |-> 0, last |-> "none"]
    /\ file = [r \in Roots |-> << >>] /\ entry = [r \in Roots |-> NoEntry]
    /\ opened = << >> /\ op = [r \in Roots |-> Idle]
    /\ wrong = {} /\ recounted = [r \in Roots |-> FALSE]
    /\ faults = 0

\* withReceiveLock: a call starts only when no other call on r is running.
Free(r) == op[r].stage = "idle"

Fault == faults < MaxFaults /\ faults' = faults + 1

GoTo(r, stage) == op' = [op EXCEPT ![r].stage = stage]

Done(r) == op' = [op EXCEPT ![r] = Idle]

-----------------------------------------------------------------------------
(***************************************************************************)
(* The layout of a set of records: rejected, or its size and whether it is *)
(* the whole message.                                                      *)
(***************************************************************************)
Uniform(lens) ==
    IF 0 \in DOMAIN lens THEN lens[0]
    ELSE IF Cardinality(DOMAIN lens) >= 2 THEN Max(Range(lens)) ELSE 0

Ceil(a, b) == (a + b - 1) \div b

ValidateLayout(lens, total) ==
    LET saved == FoldFunction(+, 0, lens)
        u     == Uniform(lens)
        n     == Ceil(total, u)
        fits  == \A i \in DOMAIN lens :
                    i < n /\ lens[i] = IF i = n - 1 THEN total - u * (n - 1) ELSE u
        whole == saved = total /\ DOMAIN lens = 0 .. n - 1
    IN  [ok    |-> /\ saved <= total
                   /\ IF u = 0 THEN saved # total ELSE fits /\ (saved = total => whole),
         size  |-> saved,
         whole |-> u # 0 /\ whole]

Lens(r, S) == [i \in S |-> RealLen(r, i)]

Progress(r, S) == ValidateLayout(Lens(r, S), TotalSize(r))

-----------------------------------------------------------------------------
(***************************************************************************)
(* OPFS.  Closing a handle forgets what it learned.  A file is extended    *)
(* with zeros to the size of the message when a handle is opened.          *)
(***************************************************************************)
CloseReceiveFile(r) ==
    /\ entry' = [entry EXCEPT ![r] = NoEntry]
    /\ opened' = SelectSeq(opened, LAMBDA q : q # r)

Resize(bytes, size) == [p \in 0 .. size - 1 |-> IF p \in DOMAIN bytes THEN bytes[p] ELSE Zero]

\* The bytes of chunk i of r written at an offset.
WriteAt(r, bytes, i, offset) ==
    LET at == offset .. offset + RealLen(r, i) - 1
    IN  [p \in DOMAIN bytes \union at |->
            IF p \in at THEN i * Layout[r][1] + (p - offset) ELSE bytes[p]]

Offset(i, uniform) == IF i = 0 THEN 0 ELSE i * uniform

\* What the entry knows after it saw chunk i: chunk 0 of several is full, and of
\* two chunks one is.  What it saw no longer matters once the size is known.
Learn(e, r, i) ==
    LET len == RealLen(r, i)
    IN  IF e.known THEN e
        ELSE IF i = 0 THEN [Known EXCEPT !.uniform = IF len < TotalSize(r) THEN len ELSE 0]
        ELSE IF e.count >= 1 THEN [Known EXCEPT !.uniform = Max({e.maxLen, len})]
        ELSE [e EXCEPT !.maxLen = len, !.count = 1, !.seen = {i}]

-----------------------------------------------------------------------------
(***************************************************************************)
(* storeReceiveChunk.                                                      *)
(***************************************************************************)

\* The dedup and preflight transactions; a recorded chunk, or one that does not
\* fit the layout, ends the call.
StoreReceiveChunk(r, i) ==
    /\ Free(r) /\ i \notin Recorded(r) /\ Progress(r, Recorded(r) \union {i}).ok
    /\ op' = [op EXCEPT ![r] = [stage |-> "place", chunk |-> i, wrote |-> FALSE]]
    /\ UNCHANGED <<chunks, row, room, file, entry, opened, wrong, recounted, faults>>

\* The open handle is used; otherwise the oldest handle makes room for a new one.
EnsureReceiveHandle(r) ==
    /\ op[r].stage = "place"
    /\ IF entry[r].open
       THEN GoTo(r, "write") /\ UNCHANGED <<entry, opened>>
       ELSE /\ GoTo(r, "opening")
            /\ IF Len(opened) >= MaxOpenHandles
               THEN CloseReceiveFile(Head(opened))
               ELSE UNCHANGED <<entry, opened>>
    /\ UNCHANGED <<chunks, row, room, file, wrong, recounted, faults>>

\* createSyncAccessHandle and truncate; without OPFS the record keeps the bytes.
OpenReceiveHandle(r) ==
    /\ op[r].stage = "opening"
    /\ \/ /\ file' = [file EXCEPT ![r] = Resize(@, TotalSize(r))]
          /\ entry' = [entry EXCEPT ![r] = [NoEntry EXCEPT !.open = TRUE]]
          /\ opened' = Append(opened, r)
          /\ GoTo(r, "write") /\ UNCHANGED faults
       \/ Fault /\ GoTo(r, "commit") /\ UNCHANGED <<file, entry, opened>>
    /\ UNCHANGED <<chunks, row, room, wrong, recounted>>

\* The chunk goes to its offset, flushed, once the offset is known.  A write that
\* fails (also on a handle evicted meanwhile) leaves the bytes to the record.
PlaceReceiveChunk(r) ==
    LET i == op[r].chunk
        e == Learn(entry[r], r, i)
    IN  /\ op[r].stage = "write"
        /\ IF ~entry[r].open
           THEN GoTo(r, "commit") /\ UNCHANGED <<entry, file, recounted, faults>>
           ELSE /\ entry' = [entry EXCEPT ![r] = e]
                /\ recounted' = [recounted EXCEPT ![r] = @ \/ i \in entry[r].seen]
                /\ \/ /\ e.known
                      /\ file' = [file EXCEPT ![r] = WriteAt(r, @, i, Offset(i, e.uniform))]
                      /\ op' = [op EXCEPT ![r].stage = "commit", ![r].wrote = TRUE]
                      /\ UNCHANGED faults
                   \/ /\ IF e.known THEN Fault ELSE UNCHANGED faults
                      /\ GoTo(r, "commit") /\ UNCHANGED file
        /\ UNCHANGED <<chunks, row, room, opened, wrong>>

CommitReceiveChunk_Faulty(r) ==
    LET i == op[r].chunk
    IN  /\ op[r].stage = "commit"
        /\ row' = [row EXCEPT ![r] = Progress(r, Recorded(r) \union {i}).size]
        /\ \/ /\ chunks' = [chunks EXCEPT ![r][i] = IF op[r].wrote THEN "bare" ELSE "full"]
              /\ room' = IF room.last = r THEN room
                         ELSE [count |-> room.count + 1, last |-> r]
              /\ UNCHANGED faults
           \/ Fault /\ UNCHANGED <<chunks, room>>
        /\ Done(r)
        /\ UNCHANGED <<file, entry, opened, wrong, recounted>>

\* One transaction: the record, the message row, and the room summary, which
\* counts one more message whenever another message was the last.
CommitReceiveChunk(r) ==
    LET i == op[r].chunk
    IN  /\ op[r].stage = "commit"
        /\ \/ /\ chunks' = [chunks EXCEPT ![r][i] = IF op[r].wrote THEN "bare" ELSE "full"]
              /\ row' = [row EXCEPT ![r] = Progress(r, Recorded(r) \union {i}).size]
              /\ room' = IF room.last = r THEN room
                         ELSE [count |-> room.count + 1, last |-> r]
              /\ UNCHANGED faults
           \/ Fault /\ UNCHANGED <<chunks, row, room>>
        /\ Done(r)
        /\ UNCHANGED <<file, entry, opened, wrong, recounted>>

\* The receive queue closes the file of a message it finished.
CloseReceived(r) ==
    /\ Free(r) /\ entry[r].open /\ row[r] = TotalSize(r)
    /\ CloseReceiveFile(r)
    /\ UNCHANGED <<chunks, row, room, file, op, wrong, recounted, faults>>

-----------------------------------------------------------------------------
(***************************************************************************)
(* readMessage of a complete file: getReceiveFile moves the bytes still in *)
(* records to the file, then strips the records.                           *)
(***************************************************************************)
Full(r) == {i \in Index(r) : chunks[r][i] = "full"}

Whole(r) == [p \in 0 .. TotalSize(r) - 1 |-> p]

\* A file of the right size is handed out.  Without one readMessage makes a Blob
\* of the records that carry bytes and rejects it unless it has the right size.
Serve(r, bytes) ==
    wrong' = IF DOMAIN bytes = DOMAIN Whole(r) /\ bytes # Whole(r)
             THEN wrong \union {r} ELSE wrong

\* The write handle is closed first: the finalizer takes the same exclusive lock.
GetReceiveFile(r) ==
    /\ Free(r) /\ row[r] = TotalSize(r)
    /\ CloseReceiveFile(r)
    /\ GoTo(r, "scan")
    /\ UNCHANGED <<chunks, row, room, file, wrong, recounted, faults>>

Migrated(r) ==
    LET u == Max({RealLen(r, i) : i \in Recorded(r)})
    IN  FoldSet(LAMBDA i, bytes : WriteAt(r, bytes, i, Offset(i, u)),
                Resize(file[r], TotalSize(r)), Full(r))

FinalizeReceiveFile(r) ==
    /\ op[r].stage = "scan"
    /\ \/ /\ Full(r) = {} /\ Cardinality(DOMAIN file[r]) = TotalSize(r)
          /\ Serve(r, file[r])
          /\ Done(r) /\ UNCHANGED <<file, faults>>
       \/ /\ Full(r) # {} \/ Cardinality(DOMAIN file[r]) # TotalSize(r)
          /\ file' = [file EXCEPT ![r] = Migrated(r)]
          /\ GoTo(r, "strip") /\ UNCHANGED <<wrong, faults>>
       \/ /\ Fault /\ Done(r) /\ UNCHANGED <<file, wrong>>
    /\ UNCHANGED <<chunks, row, room, entry, opened, recounted>>

\* A failed strip is only logged; the file is wrong all the same.
StripReceived(r) ==
    /\ op[r].stage = "strip"
    /\ \/ /\ chunks' = [chunks EXCEPT ![r] = [i \in Index(r) |-> IF i \in Full(r) THEN "bare" ELSE @[i]]]
          /\ UNCHANGED faults
       \/ Fault /\ UNCHANGED chunks
    /\ Serve(r, file[r])
    /\ Done(r)
    /\ UNCHANGED <<row, room, file, entry, opened, recounted>>

-----------------------------------------------------------------------------
(***************************************************************************)
(* deleteReceiveTransfer: handle, records and row, then the file.          *)
(***************************************************************************)
Rows == {r \in Roots : row[r] # 0}

DeleteReceiveTransfer_Faulty(r) ==
    /\ op[r].stage \notin {"scan", "strip", "remove"}
    /\ CloseReceiveFile(r)
    /\ chunks' = [chunks EXCEPT ![r] = [i \in Index(r) |-> "none"]]
    /\ row' = [row EXCEPT ![r] = 0]
    /\ \E last \in IF Rows \ {r} = {} THEN {"none"} ELSE Rows \ {r} :
          room' = IF row[r] = 0 THEN room
                  ELSE [count |-> Cardinality(Rows \ {r}), last |-> last]
    /\ file' = [file EXCEPT ![r] = << >>]
    /\ UNCHANGED <<op, wrong, recounted, faults>>

\* The room summary is counted again from the rows that remain.
DeleteReceiveTransfer(r) ==
    /\ Free(r)
    /\ CloseReceiveFile(r)
    /\ \/ /\ chunks' = [chunks EXCEPT ![r] = [i \in Index(r) |-> "none"]]
          /\ row' = [row EXCEPT ![r] = 0]
          /\ \E last \in IF Rows \ {r} = {} THEN {"none"} ELSE Rows \ {r} :
                room' = IF row[r] = 0 THEN room
                        ELSE [count |-> Cardinality(Rows \ {r}), last |-> last]
          /\ GoTo(r, "remove") /\ UNCHANGED faults
       \/ Fault /\ UNCHANGED <<chunks, row, room, op>>
    /\ UNCHANGED <<file, wrong, recounted>>

\* The file is removed if it can be; what is left of it is overwritten later.
DeleteOPFSFile(r) ==
    /\ op[r].stage = "remove"
    /\ \/ file' = [file EXCEPT ![r] = << >>] /\ UNCHANGED faults
       \/ Fault /\ UNCHANGED file
    /\ Done(r)
    /\ UNCHANGED <<chunks, row, room, entry, opened, wrong, recounted>>

\* The worker stops: calls and handles are gone, IndexedDB and flushed bytes stay.
Crash ==
    /\ Fault
    /\ op' = [r \in Roots |-> Idle]
    /\ entry' = [r \in Roots |-> NoEntry] /\ opened' = << >>
    /\ UNCHANGED <<chunks, row, room, file, wrong, recounted>>

Next ==
    \/ \E r \in Roots :
         \/ \E i \in Index(r) : StoreReceiveChunk(r, i)
         \/ EnsureReceiveHandle(r)
         \/ OpenReceiveHandle(r)
         \/ PlaceReceiveChunk(r)
         \/ CommitReceiveChunk(r)
         \/ CloseReceived(r)
         \/ GetReceiveFile(r)
         \/ FinalizeReceiveFile(r)
         \/ StripReceived(r)
         \/ DeleteReceiveTransfer(r)
         \/ DeleteOPFSFile(r)
    \/ Crash

Spec == Init /\ [][Next]_vars

-----------------------------------------------------------------------------
\* The bytes of chunk i are in the file, where they belong.
InFile(r, i) == \A p \in Bytes(r, i) : p \in DOMAIN file[r] /\ file[r][p] = p

(***************************************************************************)
(* The invariant db/db.worker.ts and db/types.ts state, on which resuming  *)
(* a transfer rests: the bytes of a record without bytes are in the file.  *)
(***************************************************************************)
BareRecordHasBytes ==
    \A r \in Roots : \A i \in Index(r) : chunks[r][i] = "bare" => InFile(r, i)

(***************************************************************************)
(* It fails in one way only: the call for a chunk fails after the handle   *)
(* counted it, so its retry counts as the second chunk and the length of a *)
(* short last chunk is taken for the size of a full one.  Otherwise what   *)
(* readMessage hands out is the message: never a file with a gap or with   *)
(* bytes out of place, whatever was evicted, retried, stripped or cut      *)
(* short by a restart in between.                                          *)
(***************************************************************************)
OnlyRecountMisplaces ==
    \A r \in Roots : ~recounted[r] =>
        /\ \A i \in Index(r) : chunks[r][i] = "bare" => InFile(r, i)
        /\ r \notin wrong

(***************************************************************************)
(* Row, records and room move together: savedSize is the size of the       *)
(* recorded chunks and the room names a message that exists and counts at  *)
(* least the ones it has, through failed transactions and cancellations.   *)
(***************************************************************************)
StoresAgree ==
    /\ \A r \in Roots : row[r] = Progress(r, Recorded(r)).size
    /\ room.last = "none" <=> Rows = {}
    /\ room.last # "none" => room.last \in Rows
    /\ room.count >= Cardinality(Rows)
=============================================================================
