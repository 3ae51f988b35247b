------------------------------ MODULE CommitLog ------------------------------
(***************************************************************************)
(* The per-shard commit log (crates/fluxum-core/src/commitlog): the handle *)
(* (append, set_epoch, watermark waits, compact, close), the two OS        *)
(* threads of the flush actor (the writer, Actor::run, and the syncer,     *)
(* SyncShared::run), the segment files, process and OS crashes, and the    *)
(* recovery that opening the log performs.                                 *)
(*                                                                         *)
(* A record is its tx_id, a segment is its name (the first tx_id of the    *)
(* file, STG-014).  A tx_id has at most one readable entry in the log, so  *)
(* the files are one function: home[t] is the segment holding t's readable *)
(* entry, 0 when the log holds none.  Bytes no scan gets past (a torn      *)
(* frame, a repeated frame) are a flag of the segment; everything written  *)
(* behind them is unreadable.                                              *)
(***************************************************************************)
EXTENDS Integers, Sequences

CONSTANTS
  MaxTx,          \* highest tx_id a caller appends
  MaxEpoch,       \* highest fencing epoch a caller sets
  QueueDepth,     \* CommitLogOptions::queue_depth
  MaxBatch,       \* CommitLogOptions::max_batch
  MaxCrashes,     \* bound: process crashes
  MaxOSCrashes,   \* bound: OS crashes
  MaxWriteFaults, \* bound: failed write() / create_segment calls
  MaxSyncFaults   \* bound: failed fsync calls

ASSUME BoundsAreNat ==
  /\ MaxTx \in Nat /\ MaxEpoch \in Nat \ {0}
  /\ MaxCrashes \in Nat /\ MaxOSCrashes \in Nat
  /\ MaxWriteFaults \in Nat /\ MaxSyncFaults \in Nat

\* CommitLogOptions::validate refuses a zero depth or batch.
ASSUME OptionsValid == QueueDepth \in Nat \ {0} /\ MaxBatch \in Nat \ {0}

VARIABLES
  \* The log directory.
  live,          \* names of the segment files
  headed,        \* those whose 24-byte header is complete and durable
  home,          \* home[t]: segment of t's readable entry, 0 = none
  entryEpoch,    \* epoch in t's entry envelope
  stable,        \* entries an fsync has covered
  torn,          \* segments whose readable entries are followed by other bytes
  eio,           \* segments whose dirty pages a failed fsync dropped
  holed,         \* an OS crash met such a segment: entries may be missing inside
  bootEpoch,     \* the epoch file, what the next open() passes
  \* The CommitLog handle and its callers.
  up,            \* the process is running with the log open
  closing,       \* close() dropped the sender
  queue,         \* the mpsc channel, the batch being processed in front
  lastAppended,
  epoch,         \* CommitLog::epoch
  epochReq,      \* epoch of the set_epoch call in flight, 0 = none
  issued,        \* tx_ids appended by this process: someone may wait on them
  \* The writer thread.
  wpc, why,      \* where it is, and which caller flush_sync/flush_written has
  batch,         \* commands of queue the current process() call still owns
  buf,           \* frames buffered, not yet written
  current,       \* active segment, 0 = none
  lastWritten,
  wEpoch,        \* Actor::epoch
  rxClosed,
  \* The syncer thread and the cursor both threads share.
  spc, sHandle, sTarget,
  cHandle, cWritten, cSynced, shutdown,
  \* The two watch channels: the mark, and whether Failed is showing.
  writtenMark, writtenFailed, durableMark, durableFailed,
  \* What callers were told, and what the environment has done so far.
  acked,         \* wait_written answered Ok, the writer had not failed
  lateAcked,     \* wait_written answered Ok after the writer had failed
  confirmed,     \* wait_durable answered Ok, no fsync had failed
  covered,       \* highest tx_id compaction was allowed to drop
  wfailed,       \* process() failed in this process
  crashes, osCrashes, writeFaults, syncFaults

disk    == <<live, headed, home, entryEpoch, stable, torn, eio, holed>>
handle  == <<closing, queue, lastAppended, epoch, epochReq, issued>>
writer  == <<wpc, why, batch, buf, current, lastWritten, wEpoch, rxClosed, wfailed>>
syncer  == <<spc, sHandle, sTarget>>
cursor  == <<cHandle, cWritten, cSynced, shutdown>>
written == <<writtenMark, writtenFailed>>
durable == <<durableMark, durableFailed>>
told    == <<acked, lateAcked, confirmed, covered>>
faults  == <<crashes, osCrashes, writeFaults, syncFaults>>

vars == <<disk, bootEpoch, up, handle, writer, syncer, cursor, written,
          durable, told, faults>>

-----------------------------------------------------------------------------
Tx     == 1..MaxTx
TxOpt  == 0..MaxTx
Epochs == 1..MaxEpoch

Command == [op: {"append"}, arg: Tx] \cup [op: {"epoch"}, arg: Epochs]

OnDisk == {t \in Tx : home[t] # 0}

\* The last segment of list_segments is the tail; every other one is sealed.
Sealed(f) == f \in live /\ \E g \in live : f < g

AtMost(a, b) == IF a <= b THEN a ELSE b
AtLeast(a, b) == IF a >= b THEN a ELSE b

\* m is the greatest element of S, or 0 when S is empty.
IsLast(m, S) == (m = 0 /\ S = {}) \/ (m \in S /\ \A x \in S : x <= m)

FlagsOK ==
  /\ up \in BOOLEAN /\ closing \in BOOLEAN /\ rxClosed \in BOOLEAN /\ wfailed \in BOOLEAN
  /\ holed \in BOOLEAN /\ shutdown \in BOOLEAN
  /\ writtenFailed \in BOOLEAN /\ durableFailed \in BOOLEAN

ValuesOK ==
  /\ live \subseteq Tx /\ headed \subseteq live /\ torn \subseteq live
  /\ eio \subseteq TxOpt
  /\ home \in [Tx -> TxOpt] /\ entryEpoch \in [Tx -> 0..MaxEpoch]
  /\ stable \subseteq Tx
  /\ bootEpoch \in Epochs
  /\ queue \in Seq(Command)
  /\ lastAppended \in TxOpt /\ epoch \in Epochs /\ epochReq \in 0..MaxEpoch
  /\ issued \subseteq Tx
  /\ wpc \in {"recv", "cmd", "create", "header", "write", "sync", "publish", "fail", "done"}
  /\ why \in {"rotate", "epoch", "end", "exit"}
  /\ batch \in Nat /\ buf \subseteq Tx /\ current \in TxOpt
  /\ lastWritten \in TxOpt /\ wEpoch \in Epochs
  /\ spc \in {"wait", "pace", "sync", "publish", "fail", "exit"}
  /\ sHandle \in TxOpt /\ sTarget \in TxOpt
  /\ cHandle \in TxOpt /\ cWritten \in TxOpt /\ cSynced \in TxOpt
  /\ writtenMark \in TxOpt /\ durableMark \in TxOpt
  /\ acked \subseteq Tx /\ lateAcked \subseteq Tx /\ confirmed \subseteq Tx
  /\ covered \in TxOpt
  /\ crashes \in Nat /\ osCrashes \in Nat /\ writeFaults \in Nat /\ syncFaults \in Nat

\* Every variable has its type.
TypeOK == FlagsOK /\ ValuesOK

\* What CommitLog::open builds around a recovered last tx_id and tail.
FreshProcess(last, tail, e) ==
  /\ closing' = FALSE /\ queue' = <<>> /\ lastAppended' = last
  /\ epoch' = e /\ epochReq' = 0 /\ issued' = {}
  /\ wpc' = "recv" /\ why' = "end" /\ batch' = 0 /\ buf' = {}
  /\ current' = tail /\ lastWritten' = last /\ wEpoch' = e
  /\ rxClosed' = FALSE /\ wfailed' = FALSE
  /\ spc' = "wait" /\ sHandle' = 0 /\ sTarget' = 0
  /\ cHandle' = tail /\ cWritten' = last /\ cSynced' = last /\ shutdown' = FALSE
  /\ writtenMark' = last /\ writtenFailed' = FALSE
  /\ durableMark' = last /\ durableFailed' = FALSE

\* A new shard: empty directory, log opened under epoch 1.
Init ==
  /\ live = {} /\ headed = {} /\ stable = {} /\ torn = {} /\ eio = {} /\ holed = FALSE
  /\ home = [t \in Tx |-> 0] /\ entryEpoch = [t \in Tx |-> 0]
  /\ bootEpoch = 1 /\ up = TRUE
  /\ closing = FALSE /\ queue = <<>> /\ lastAppended = 0
  /\ epoch = 1 /\ epochReq = 0 /\ issued = {}
  /\ wpc = "recv" /\ why = "end" /\ batch = 0 /\ buf = {} /\ current = 0
  /\ lastWritten = 0 /\ wEpoch = 1 /\ rxClosed = FALSE /\ wfailed = FALSE
  /\ spc = "wait" /\ sHandle = 0 /\ sTarget = 0
  /\ cHandle = 0 /\ cWritten = 0 /\ cSynced = 0 /\ shutdown = FALSE
  /\ writtenMark = 0 /\ writtenFailed = FALSE /\ durableMark = 0 /\ durableFailed = FALSE
  /\ acked = {} /\ lateAcked = {} /\ confirmed = {} /\ covered = 0
  /\ crashes = 0 /\ osCrashes = 0 /\ writeFaults = 0 /\ syncFaults = 0

-----------------------------------------------------------------------------
(* The handle: CommitLog::append, set_epoch, wait_written, wait_durable,   *)
(* compact, close.                                                         *)

\* CommitLog::send: refused once the durable watch shows Failed or the
\* receiver is gone; waits while the bounded queue is full.
Send(cmd) ==
  /\ up /\ ~closing /\ ~durableFailed /\ ~rxClosed
  /\ Len(queue) - batch < QueueDepth
  /\ queue' = Append(queue, cmd)

\* tx_id must strictly increase (STG-015); any other append is an error that
\* changes nothing.  The callers' ids are gap-free (TXN-030) and resume above
\* the checkpoint that compaction was given (checkpoint/recover.rs).
AppendTx(t) ==
  /\ t > lastAppended
  /\ t = AtLeast(lastAppended, covered) + 1
  /\ Send([op |-> "append", arg |-> t])
  /\ lastAppended' = t
  /\ issued' = issued \cup {t}
  /\ UNCHANGED <<disk, bootEpoch, up, closing, epoch, epochReq, writer, syncer,
                 cursor, written, durable, told, faults>>

\* Every caller of set_epoch persists a higher epoch first (external to the
\* log: replication.rs, election.rs), then waits for the actor's answer.
SetEpoch(e) ==
  /\ epochReq = 0 /\ e > epoch
  /\ Send([op |-> "epoch", arg |-> e])
  /\ epochReq' = e
  /\ bootEpoch' = AtLeast(bootEpoch, e)
  /\ UNCHANGED <<disk, up, closing, lastAppended, epoch, issued, writer, syncer,
                 cursor, written, durable, told, faults>>

\* Mutant of SetEpochReturns: a stopped writer never answers.
SetEpochWaitsForAnswer ==
  /\ up /\ epochReq # 0 /\ wEpoch >= epochReq
  /\ epoch' = epochReq /\ epochReq' = 0
  /\ UNCHANGED <<disk, bootEpoch, up, closing, queue, lastAppended, issued,
                 writer, syncer, cursor, written, durable, told, faults>>

\* The actor answered, or dropped the command when it stopped.
SetEpochReturns ==
  /\ up /\ epochReq # 0
  /\ \/ wEpoch >= epochReq /\ epoch' = epochReq
     \/ wEpoch < epochReq /\ rxClosed /\ epoch' = epoch
  /\ epochReq' = 0
  /\ UNCHANGED <<disk, bootEpoch, up, closing, queue, lastAppended, issued,
                 writer, syncer, cursor, written, durable, told, faults>>

\* wait_watermark on the written channel: the TXN-004 ack of t.
WaitWritten(t) ==
  /\ up /\ t \in issued /\ ~writtenFailed /\ writtenMark >= t
  /\ IF wfailed THEN lateAcked' = lateAcked \cup {t} /\ acked' = acked
                ELSE acked' = acked \cup {t} /\ lateAcked' = lateAcked
  /\ UNCHANGED <<disk, bootEpoch, up, handle, writer, syncer, cursor, written,
                 durable, confirmed, covered, faults>>

\* wait_watermark on the durable channel.
WaitDurable(t) ==
  /\ up /\ t \in issued /\ ~durableFailed /\ durableMark >= t
  /\ confirmed' = IF eio = {} THEN confirmed \cup {t} ELSE confirmed
  /\ UNCHANGED <<disk, bootEpoch, up, handle, writer, syncer, cursor, written,
                 durable, acked, lateAcked, covered, faults>>

\* Mutant of Deletable: the next segment may begin one past the boundary.
DeletableOnePast(f, c, h) == \E g \in live : f < g /\ g <= c + 2 /\ (h = 0 \/ g <= h)

\* A segment's entries end where the next segment begins; it goes when all of
\* them are covered by checkpoint c and none is held by hold h (0 = no hold).
\* (If any later segment begins low enough, the next one does.)
Deletable(f, c, h) == \E g \in live : f < g /\ g <= c + 1 /\ (h = 0 \/ g <= h)

Compact(c, h) ==
  LET gone == {f \in live : Deletable(f, c, h)} IN
  /\ up /\ c <= lastAppended /\ gone # {}
  /\ live' = live \ gone /\ headed' = headed \ gone /\ torn' = torn \ gone
  /\ home' = [t \in Tx |-> IF home[t] \in gone THEN 0 ELSE home[t]]
  /\ stable' = {t \in stable : home[t] \notin gone}
  /\ covered' = AtLeast(covered, IF h = 0 THEN c ELSE AtMost(c, h - 1))
  /\ UNCHANGED <<entryEpoch, eio, holed, bootEpoch, up, handle, writer, syncer, cursor,
                 written, durable, acked, lateAcked, confirmed, faults>>

Close ==
  /\ up /\ ~closing /\ closing' = TRUE
  /\ UNCHANGED <<disk, bootEpoch, up, queue, lastAppended, epoch, epochReq, issued,
                 writer, syncer, cursor, written, durable, told, faults>>

-----------------------------------------------------------------------------
(* The files, as the two threads use them (the OS is external).            *)

\* write_all of the frames in S to segment f: readable unless f already ends
\* in bytes a scan stops at, or S repeats an entry f holds (a scan refuses a
\* tx_id that does not increase).
WriteFrames(S, f) ==
  IF f \in torn \/ \E t \in S : home[t] = f
  THEN torn' = torn \cup {f} /\ home' = home
  ELSE torn' = torn /\ home' = [t \in Tx |-> IF t \in S THEN f ELSE home[t]]

\* A write that stopped midway: a proper prefix of the frames, perhaps
\* followed by a piece of the next one.
WritePart(S, f) ==
  \E k \in TxOpt :
    LET done == {t \in S : t <= k} IN
    /\ done # S
    /\ \E extra \in {{}, {f}} :
         IF f \in torn \/ \E t \in done : home[t] = f
         THEN torn' = torn \cup {f} /\ home' = home
         ELSE /\ torn' = torn \cup extra
              /\ home' = [t \in Tx |-> IF t \in done THEN f ELSE home[t]]

\* fsync of segment f covers every entry written before it began (all those
\* up to m), unless an earlier failure dropped the pages.
Fsynced(f, m) ==
  IF f \in eio THEN {} ELSE {t \in Tx : home[t] = f /\ t <= m}

\* Mutant of PublishDurable: the mark may regress.
PublishLatest(m) ==
  durableMark' = IF durableFailed THEN durableMark ELSE m

\* SyncShared::publish_durable: never regresses, and Failed sticks.
PublishDurable(m) ==
  durableMark' = IF durableFailed THEN durableMark ELSE AtLeast(durableMark, m)

-----------------------------------------------------------------------------
(* The writer thread: Actor::run, process, write_record, flush_written,    *)
(* flush_sync.  One action per I/O call or lock section.                   *)

Head1 == Head(queue)

\* blocking_recv, then the drain of whatever else is queued; a log poisoned
\* by the syncer is closed instead.
Receive ==
  /\ up /\ wpc = "recv" /\ queue # <<>>
  /\ IF durableFailed
     THEN /\ rxClosed' = TRUE /\ queue' = <<>> /\ batch' = 0
          /\ wpc' = "write" /\ why' = "exit"
     ELSE /\ batch' = AtMost(Len(queue), MaxBatch)
          /\ wpc' = "cmd" /\ UNCHANGED <<rxClosed, queue, why>>
  /\ UNCHANGED <<disk, bootEpoch, up, closing, lastAppended, epoch, epochReq, issued,
                 buf, current, lastWritten, wEpoch, wfailed, syncer, cursor,
                 written, durable, told, faults>>

\* The sender is gone and the queue is drained.
ReceiveClosed ==
  /\ up /\ wpc = "recv" /\ queue = <<>> /\ closing
  /\ rxClosed' = TRUE /\ wpc' = "write" /\ why' = "exit"
  /\ UNCHANGED <<disk, bootEpoch, up, handle, batch, buf, current, lastWritten,
                 wEpoch, wfailed, syncer, cursor, written, durable, told, faults>>

\* write_record without rotation: encode under the actor's epoch and buffer.
BufferRecord ==
  /\ up /\ wpc = "cmd" /\ batch > 0 /\ Head1.op = "append" /\ current # 0
  /\ entryEpoch' = [entryEpoch EXCEPT ![Head1.arg] = wEpoch]
  /\ buf' = buf \cup {Head1.arg} /\ lastWritten' = Head1.arg
  /\ queue' = Tail(queue) /\ batch' = batch - 1
  /\ UNCHANGED <<live, headed, home, stable, torn, eio, holed, bootEpoch, up, closing,
                 lastAppended, epoch, epochReq, issued, wpc, why, current, wEpoch,
                 rxClosed, wfailed, syncer, cursor, written, durable, told, faults>>

\* Mutant of BeginRotation: the old segment is not flushed and fsynced first.
RotateUnsealed ==
  /\ up /\ wpc = "cmd" /\ batch > 0 /\ Head1.op = "append"
  /\ wpc' = "create" /\ why' = why
  /\ current = 0 \/ buf # {} \/ \E t \in Tx : home[t] = current
  /\ UNCHANGED <<disk, bootEpoch, up, handle, batch, buf, current, lastWritten, wEpoch,
                 rxClosed, wfailed, syncer, cursor, written, durable, told, faults>>

\* The active segment has reached segment_max_bytes (record sizes are not
\* modelled: any segment that holds a record may have): seal it durably
\* before the new one exists.
BeginRotation ==
  /\ up /\ wpc = "cmd" /\ batch > 0 /\ Head1.op = "append"
  /\ IF current = 0 THEN wpc' = "create" /\ why' = why
     ELSE /\ buf # {} \/ \E t \in Tx : home[t] = current
          /\ wpc' = "write" /\ why' = "rotate"
  /\ UNCHANGED <<disk, bootEpoch, up, handle, batch, buf, current, lastWritten, wEpoch,
                 rxClosed, wfailed, syncer, cursor, written, durable, told, faults>>

\* create_segment: the file (create_new), then its header, fsynced with the
\* directory before any entry can reference it.
CreateSegment ==
  /\ up /\ wpc = "create" /\ Head1.arg \notin live
  /\ live' = live \cup {Head1.arg} /\ wpc' = "header"
  /\ UNCHANGED <<headed, home, entryEpoch, stable, torn, eio, holed, bootEpoch, up, handle,
                 why, batch, buf, current, lastWritten, wEpoch, rxClosed, wfailed,
                 syncer, cursor, written, durable, told, faults>>

WriteHeader ==
  /\ up /\ wpc = "header"
  /\ headed' = headed \cup {Head1.arg} /\ current' = Head1.arg /\ wpc' = "cmd"
  /\ UNCHANGED <<live, home, entryEpoch, stable, torn, eio, holed, bootEpoch, up, handle,
                 why, batch, buf, lastWritten, wEpoch, rxClosed, wfailed,
                 syncer, cursor, written, durable, told, faults>>

\* Cmd::SetEpoch: frames buffered by this batch are flushed durably under the
\* old epoch first (the code's `wrote` holds exactly when buf is not empty).
ApplyEpoch ==
  /\ up /\ wpc = "cmd" /\ batch > 0 /\ Head1.op = "epoch"
  /\ IF buf # {}
     THEN wpc' = "write" /\ why' = "epoch" /\ UNCHANGED <<wEpoch, queue, batch>>
     ELSE /\ wEpoch' = AtLeast(wEpoch, Head1.arg)
          /\ queue' = Tail(queue) /\ batch' = batch - 1 /\ UNCHANGED <<wpc, why>>
  /\ UNCHANGED <<disk, bootEpoch, up, closing, lastAppended, epoch, epochReq, issued,
                 buf, current, lastWritten, rxClosed, wfailed, syncer, cursor,
                 written, durable, told, faults>>

BatchDone ==
  /\ up /\ wpc = "cmd" /\ batch = 0
  /\ IF buf # {} THEN wpc' = "write" /\ why' = "end" ELSE wpc' = "recv" /\ why' = why
  /\ UNCHANGED <<disk, bootEpoch, up, handle, batch, buf, current, lastWritten, wEpoch,
                 rxClosed, wfailed, syncer, cursor, written, durable, told, faults>>

\* flush_written: hand the buffer to the OS and publish the written mark, over
\* whatever the channel showed.  At the end of a batch the cursor then names
\* the segment and the mark for the syncer; otherwise flush_sync goes on to
\* its fsync.  Without a segment (exit of an empty log) there is nothing to do.
FlushWritten ==
  /\ up /\ wpc = "write"
  /\ IF buf # {}
     THEN /\ WriteFrames(buf, current) /\ buf' = {}
          /\ writtenMark' = lastWritten /\ writtenFailed' = FALSE
     ELSE UNCHANGED <<home, torn, buf, written>>
  /\ IF why = "end"
     THEN cHandle' = current /\ cWritten' = lastWritten /\ wpc' = "recv" /\ UNCHANGED shutdown
     ELSE /\ UNCHANGED <<cHandle, cWritten>>
          /\ IF current = 0 THEN wpc' = "done" /\ shutdown' = TRUE
                            ELSE wpc' = "sync" /\ UNCHANGED shutdown
  /\ UNCHANGED <<live, headed, entryEpoch, stable, eio, holed, bootEpoch, up, handle,
                 why, batch,
                 current, lastWritten, wEpoch, rxClosed, wfailed, syncer,
                 cSynced, durable, told, faults>>

\* flush_sync's fsync.
FlushSync ==
  /\ up /\ wpc = "sync"
  /\ stable' = stable \cup Fsynced(current, MaxTx) /\ wpc' = "publish"
  /\ UNCHANGED <<live, headed, home, entryEpoch, torn, eio, holed, bootEpoch, up, handle, why,
                 batch, buf, current, lastWritten, wEpoch, rxClosed, wfailed, syncer,
                 cursor, written, durable, told, faults>>

\* ... and its publication; the exiting writer also raises shutdown.
FlushPublish ==
  /\ up /\ wpc = "publish"
  /\ cSynced' = AtLeast(cSynced, lastWritten) /\ PublishDurable(lastWritten)
  /\ wpc' = CASE why = "rotate" -> "create" [] why = "exit" -> "done" [] OTHER -> "cmd"
  /\ shutdown' = (shutdown \/ why = "exit")
  /\ UNCHANGED <<disk, bootEpoch, up, handle, why, batch, buf, current, lastWritten, wEpoch,
                 rxClosed, wfailed, syncer, cHandle, cWritten, written,
                 durableFailed, told, faults>>

\* Mutants of AfterError: a failed batch is left for the next one; the final
\* flush keeps its failure to itself; it forgets to stop the syncer.
RetryLater ==
  IF why = "exit"
  THEN /\ wpc' = "done" /\ shutdown' = TRUE
       /\ writtenFailed' = TRUE /\ durableFailed' = TRUE
  ELSE wpc' = "recv" /\ UNCHANGED <<shutdown, writtenFailed, durableFailed>>

ExitSilently ==
  /\ wpc' = IF why = "exit" THEN "done" ELSE "fail"
  /\ shutdown' = (shutdown \/ why = "exit")
  /\ UNCHANGED <<writtenFailed, durableFailed>>

ExitWithoutShutdown ==
  /\ IF why = "exit"
     THEN wpc' = "done" /\ writtenFailed' = TRUE /\ durableFailed' = TRUE
     ELSE wpc' = "fail" /\ UNCHANGED <<writtenFailed, durableFailed>>
  /\ UNCHANGED shutdown

\* An error inside process() stops the loop; an error in the flush that
\* follows the loop publishes Failed and lets the writer finish.
AfterError ==
  IF why = "exit"
  THEN /\ wpc' = "done" /\ shutdown' = TRUE
       /\ writtenFailed' = TRUE /\ durableFailed' = TRUE
  ELSE wpc' = "fail" /\ UNCHANGED <<shutdown, writtenFailed, durableFailed>>

FlushWrittenFails ==
  /\ up /\ wpc = "write" /\ buf # {} /\ writeFaults < MaxWriteFaults
  /\ WritePart(buf, current) /\ AfterError
  /\ writeFaults' = writeFaults + 1
  /\ UNCHANGED <<live, headed, entryEpoch, stable, eio, holed, bootEpoch, up, handle,
                 why, batch,
                 buf, current, lastWritten, wEpoch, rxClosed, wfailed, syncer, cHandle,
                 cWritten, cSynced, writtenMark, durableMark, told,
                 crashes, osCrashes, syncFaults>>

FlushSyncFails ==
  /\ up /\ wpc = "sync" /\ syncFaults < MaxSyncFaults
  /\ eio' = eio \cup {current} /\ AfterError
  /\ syncFaults' = syncFaults + 1
  /\ UNCHANGED <<live, headed, home, entryEpoch, stable, torn, holed, bootEpoch, up,
                 handle, why,
                 batch, buf, current, lastWritten, wEpoch, rxClosed, wfailed, syncer,
                 cHandle, cWritten, cSynced, writtenMark, durableMark, told,
                 crashes, osCrashes, writeFaults>>

\* write_record fails: the record does not encode, or create_segment fails
\* before or after the header reached the file.
WriteRecordFails ==
  /\ up /\ writeFaults < MaxWriteFaults
  /\ \/ wpc = "cmd" /\ batch > 0 /\ Head1.op = "append"
     \/ wpc \in {"create", "header"}
  /\ \/ headed' = headed
     \/ wpc = "header" /\ headed' = headed \cup {Head1.arg}
  /\ wpc' = "fail" /\ writeFaults' = writeFaults + 1
  /\ UNCHANGED <<live, home, entryEpoch, stable, torn, eio, holed, bootEpoch, up, handle,
                 why, batch, buf, current, lastWritten, wEpoch, rxClosed, wfailed,
                 syncer, cursor, written, durable, told,
                 crashes, osCrashes, syncFaults>>

\* Actor::run after process() returned Err: publish Failed on both channels,
\* close the queue, and go on to the final flush_sync.
Fail ==
  /\ up /\ wpc = "fail"
  /\ writtenFailed' = TRUE /\ durableFailed' = TRUE
  /\ rxClosed' = TRUE /\ queue' = <<>> /\ batch' = 0 /\ wfailed' = TRUE
  /\ wpc' = "write" /\ why' = "exit"
  /\ UNCHANGED <<disk, bootEpoch, up, closing, lastAppended, epoch, epochReq, issued,
                 buf, current, lastWritten, wEpoch, syncer, cursor, writtenMark,
                 durableMark, told, faults>>

-----------------------------------------------------------------------------
(* The syncer thread: SyncShared::run.                                     *)

\* Mutant of SyncerNotice: a single unsynced record does not count as work.
NoticeFromTwo ==
  /\ up /\ spc = "wait" /\ cWritten > cSynced + 1 /\ cHandle # 0 /\ spc' = "pace"
  /\ UNCHANGED <<disk, bootEpoch, up, handle, writer, sHandle, sTarget, cursor, written,
                 durable, told, faults>>

\* There is something to fsync: wait out the pacing interval first.
SyncerNotice ==
  /\ up /\ spc = "wait" /\ cWritten > cSynced /\ cHandle # 0 /\ spc' = "pace"
  /\ UNCHANGED <<disk, bootEpoch, up, handle, writer, sHandle, sTarget, cursor, written,
                 durable, told, faults>>

\* The cursor is read after the pause, whatever was written or fsynced by then.
SyncerCapture ==
  /\ up /\ spc = "pace" /\ cHandle # 0
  /\ sHandle' = cHandle /\ sTarget' = cWritten /\ spc' = "sync"
  /\ UNCHANGED <<disk, bootEpoch, up, handle, writer, cursor, written, durable,
                 told, faults>>

SyncerExit ==
  /\ up /\ spc = "wait" /\ ~(cWritten > cSynced /\ cHandle # 0) /\ shutdown
  /\ spc' = "exit"
  /\ UNCHANGED <<disk, bootEpoch, up, handle, writer, sHandle, sTarget, cursor, written,
                 durable, told, faults>>

SyncerSync ==
  /\ up /\ spc = "sync"
  /\ stable' = stable \cup Fsynced(sHandle, sTarget) /\ spc' = "publish"
  /\ UNCHANGED <<live, headed, home, entryEpoch, torn, eio, holed, bootEpoch, up, handle,
                 writer,
                 sHandle, sTarget, cursor, written, durable, told, faults>>

\* Mutant of SyncerPublish: the cursor is read again after the fsync.
PublishCursor ==
  /\ up /\ spc = "publish"
  /\ cSynced' = AtLeast(cSynced, cWritten) /\ PublishDurable(cWritten) /\ spc' = "wait"
  /\ UNCHANGED <<disk, bootEpoch, up, handle, writer, sHandle, sTarget, cHandle, cWritten,
                 shutdown, written, durableFailed, told, faults>>

SyncerPublish ==
  /\ up /\ spc = "publish"
  /\ cSynced' = AtLeast(cSynced, sTarget) /\ PublishDurable(sTarget) /\ spc' = "wait"
  /\ UNCHANGED <<disk, bootEpoch, up, handle, writer, sHandle, sTarget, cHandle, cWritten,
                 shutdown, written, durableFailed, told, faults>>

SyncerSyncFails ==
  /\ up /\ spc = "sync" /\ syncFaults < MaxSyncFaults
  /\ eio' = eio \cup {sHandle} /\ spc' = "fail" /\ syncFaults' = syncFaults + 1
  /\ UNCHANGED <<live, headed, home, entryEpoch, stable, torn, holed, bootEpoch, up,
                 handle, writer,
                 sHandle, sTarget, cursor, written, durable, told,
                 crashes, osCrashes, writeFaults>>

SyncerFail ==
  /\ up /\ spc = "fail"
  /\ durableFailed' = TRUE /\ shutdown' = TRUE /\ spc' = "exit"
  /\ UNCHANGED <<disk, bootEpoch, up, handle, writer, sHandle, sTarget, cHandle, cWritten,
                 cSynced, written, durableMark, told, faults>>

-----------------------------------------------------------------------------
(* Crashes, and CommitLog::open with its recovery.                         *)

Down == up' = FALSE /\ FreshProcess(0, 0, 1)

\* The process dies: what reached the OS stays.  A write in progress may have
\* got partway, a header may be complete.
ProcessCrash ==
  /\ up /\ crashes < MaxCrashes /\ crashes' = crashes + 1
  /\ \/ UNCHANGED <<home, torn>>
     \/ wpc = "write" /\ buf # {} /\ (WriteFrames(buf, current) \/ WritePart(buf, current))
  /\ \/ headed' = headed
     \/ wpc = "header" /\ headed' = headed \cup {Head1.arg}
  /\ Down
  /\ UNCHANGED <<live, entryEpoch, stable, eio, holed, bootEpoch, told, osCrashes, writeFaults,
                 syncFaults>>

\* The machine dies: of each segment any prefix that includes the fsynced
\* entries remains (what is read back is on the disk), followed by a torn
\* frame or not; a file whose header was never fsynced may be gone.  Acks of
\* entries not yet fsynced are void (the documented write-behind window).
OSCrash ==
  /\ osCrashes < MaxOSCrashes /\ osCrashes' = osCrashes + 1
  /\ \E keep \in SUBSET OnDisk :
       /\ stable \subseteq keep
       /\ \A t \in keep, u \in OnDisk : home[u] = home[t] /\ u < t => u \in keep
       /\ home' = [t \in Tx |-> IF t \in keep THEN home[t] ELSE 0]
       /\ torn' \in SUBSET (torn \cup {home[t] : t \in OnDisk \ keep})
       /\ stable' = keep
       /\ acked' = acked \ (OnDisk \ keep) /\ lateAcked' = lateAcked \ (OnDisk \ keep)
  /\ live' \in {live, headed} /\ headed' = headed
  /\ eio' = eio /\ holed' = (holed \/ eio # {})
  /\ Down
  /\ UNCHANGED <<entryEpoch, bootEpoch, confirmed, covered, crashes, writeFaults,
                 syncFaults>>

\* Mutant of Disordered: an epoch must be higher than every earlier segment's.
DisorderedStrict ==
  {home[t] : t \in {x \in OnDisk : \E u \in OnDisk :
     home[u] < home[x] /\ (u > x \/ entryEpoch[u] >= entryEpoch[x])}}

\* Segments with an entry that a scan in file order refuses: a lower tx_id, or
\* a lower epoch, than an earlier segment holds (STG-015).
Disordered ==
  {home[t] : t \in {x \in OnDisk : \E u \in OnDisk :
     home[u] < home[x] /\ (u > x \/ entryEpoch[u] > entryEpoch[x])}}

\* recover(): a corrupt sealed segment refuses to open; a tail without a
\* header is renamed away; a torn tail is truncated at its last readable
\* entry, which also fsyncs the file.  open() then starts both threads with
\* every mark at the recovered tx_id, and refuses an epoch below the log's.
\* (A log that lost entries of a failed fsync in an OS crash stays closed: see
\* the README.)
Open ==
  LET kept == {t \in OnDisk : home[t] \notin Disordered} IN
  /\ ~up /\ ~holed
  /\ \A f \in live : Sealed(f) => f \in (headed \ torn) \ Disordered
  /\ live' = live \cap headed /\ headed' = headed
  /\ torn' = {}
  /\ home' = [t \in Tx |-> IF t \in kept THEN home[t] ELSE 0]
  /\ stable' = {t \in kept : t \in stable \/ home[t] \in torn}
  /\ \A t \in kept : entryEpoch[t] <= bootEpoch
  /\ \E last, tail \in TxOpt :
       /\ IsLast(last, kept) /\ IsLast(tail, live')
       /\ FreshProcess(last, tail, bootEpoch)
  /\ up' = TRUE
  /\ UNCHANGED <<entryEpoch, eio, holed, bootEpoch, told, faults>>

-----------------------------------------------------------------------------
WriterStep ==
  \/ Receive \/ ReceiveClosed \/ BufferRecord \/ BeginRotation \/ CreateSegment
  \/ WriteHeader \/ ApplyEpoch \/ BatchDone \/ FlushWritten \/ FlushSync \/ FlushPublish
  \/ FlushWrittenFails \/ FlushSyncFails \/ WriteRecordFails \/ Fail

SyncerStep ==
  \/ SyncerNotice \/ SyncerCapture \/ SyncerExit \/ SyncerSync \/ SyncerPublish
  \/ SyncerSyncFails \/ SyncerFail

Next ==
  \/ \E t \in Tx : AppendTx(t) \/ WaitWritten(t) \/ WaitDurable(t)
  \/ \E e \in Epochs : SetEpoch(e)
  \/ SetEpochReturns
  \/ \E c \in Tx, h \in TxOpt : Compact(c, h)
  \/ Close
  \/ WriterStep
  \/ SyncerStep
  \/ ProcessCrash \/ OSCrash \/ Open

Spec == Init /\ [][Next]_vars

-----------------------------------------------------------------------------
(* Properties                                                              *)

\* An acknowledged transaction (wait_written, TXN-004) outlives any process
\* crash, torn-tail repair, failed write or failed fsync that follows: it
\* stays readable in the log until a checkpoint lets compaction drop it.
\* Only an OS crash may take it, and only before its fsync.
AckedRecoverable == acked \subseteq OnDisk \cup 1..covered

\* A transaction whose wait_durable returned Ok outlives every crash.
ConfirmedStable == confirmed \subseteq stable \cup 1..covered

\* Sealed segments are complete: as long as no fsync has failed, rotation
\* leaves behind only segments with a header, without torn bytes and fully
\* fsynced, so recover() never meets non-tail corruption and never refuses
\* to open a log that merely crashed.
SealedComplete ==
  syncFaults = 0 =>
    \A f \in live : Sealed(f) =>
      f \in headed /\ f \notin torn /\ \A t \in OnDisk : home[t] = f => t \in stable

\* What a scan checks in offset order holds of what it can read: segments are
\* ordered like their names, and the entry epochs never regress (STG-011,
\* STG-015), whatever was appended around set_epoch, crashes and reopens.
EntriesOrdered ==
  \A t, u \in OnDisk :
    t < u => home[t] <= home[u] /\ entryEpoch[t] <= entryEpoch[u]

\* close() returns Ok only with everything appended fsynced, whichever of the
\* two threads synced it or failed to.  (Pages that a failed fsync of an
\* earlier process dropped are beyond any later fsync's report.)
CloseDrains ==
  up /\ closing /\ wpc = "done" /\ spc = "exit" /\ ~durableFailed =>
    \/ issued \subseteq stable \cup 1..covered
    \/ eio # {} /\ crashes + osCrashes > 0

\* Within one process neither watermark moves back, and a Failed durable
\* watermark stays Failed.
MarksAdvance ==
  [][up /\ up' => /\ writtenMark' >= writtenMark /\ durableMark' >= durableMark
                  /\ durableFailed => durableFailed']_vars

\* The log implements its abstract specification (as long as no fsync fails):
\* every step of every thread, crash and repair is a step of DurableLog or
\* changes nothing a reader of the log can see.
Abstract == INSTANCE DurableLog WITH recorded <- OnDisk, safe <- stable, dropped <- covered

ImplementsDurableLog == Abstract!DSpec

-----------------------------------------------------------------------------
(* Liveness.  Both threads run; I/O calls return.  Callers, crashes and    *)
(* faults are not scheduled.                                               *)

Fairness == WF_vars(WriterStep) /\ WF_vars(SyncerStep) /\ WF_vars(SetEpochReturns)

FairSpec == Spec /\ Fairness

\* Every append is settled: fsynced, or the failure is published, or the
\* process is gone.  No order of the two threads loses a wakeup or a batch.
AppendsSettle ==
  \A t \in Tx : (up /\ t \in issued) ~> (durableMark >= t \/ durableFailed \/ ~up)

\* set_epoch never hangs, also when the writer stops under it.
SetEpochSettles == epochReq # 0 ~> epochReq = 0

\* A closed (or failed) log retires both threads.
ThreadsRetire == (up /\ closing) ~> (wpc = "done" /\ spc = "exit") \/ ~up

-----------------------------------------------------------------------------
(* What the source's comments say of the log, beyond the properties above. *)

\* writer.rs: "Highest fsynced tx_id" is what the durable channel shows.
DurableMarkIsFsynced ==
  up /\ ~durableFailed /\ eio = {} =>
    \A t \in OnDisk : t <= durableMark => t \in stable

\* mod.rs: "A failed write/fsync is fatal for the writer: no retry" - so an
\* ack released after the failure is as good as one released before it.
LateAckedRecoverable == lateAcked \subseteq OnDisk \cup 1..covered

\* writer.rs: "Pending appends are flushed and fsynced under the old epoch
\* first" - once set_epoch has returned, no entry of a lower epoch awaits
\* its fsync.
EpochBumpIsBarrier ==
  up /\ crashes = 0 => \A t \in OnDisk : entryEpoch[t] < epoch => t \in stable

=============================================================================
