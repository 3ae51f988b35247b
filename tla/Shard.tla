-------------------------------- MODULE Shard --------------------------------
(***************************************************************************)
(* One shard over its commit log: the single-writer transaction pipeline   *)
(* (txn/mod.rs), the checkpoint worker and its repository (checkpoint/),   *)
(* recovery at boot (checkpoint/recover.rs), the ack of a call (the        *)
(* session's wait_written) and the graceful drain (fluxum-server           *)
(* graceful.rs).  The log is DurableLog, which CommitLog implements.       *)
(*                                                                         *)
(* A row is a key; its contents are named by the transaction that wrote    *)
(* them (a deletion is a write like any other).  A tx_id can be given out  *)
(* again after a crash, so a value also carries the boot that committed it.*)
(***************************************************************************)
EXTENDS Integers, FiniteSets

CONSTANTS
  Keys,
  QueueCapacity,  \* TxPipelineOptions::queue_capacity
  IntervalTx,     \* WorkerOptions::interval_tx
  Retention,      \* WorkerOptions::retention
  MaxTx,          \* bound: highest tx_id committed
  MaxCrashes,     \* bound: process crashes
  MaxOSCrashes,   \* bound: OS crashes
  MaxRot,         \* bound: checkpoints that go bad on disk
  MaxCkptFaults,  \* bound: failed checkpoint writes or prunes
  MaxLogFaults,   \* bound: fatal failures of the log writer
  MaxDrains       \* bound: graceful drains

ASSUME ShardBounds ==
  /\ MaxTx \in Nat /\ MaxCrashes \in Nat /\ MaxOSCrashes \in Nat /\ MaxRot \in Nat
  /\ MaxCkptFaults \in Nat /\ MaxLogFaults \in Nat /\ MaxDrains \in Nat

\* TxPipeline::new and WorkerOptions::validate.
ASSUME ShardOptions ==
  /\ QueueCapacity \in Nat \ {0} /\ IntervalTx \in Nat \ {0}
  /\ Retention \in Nat /\ Retention >= 2

VARIABLES
  \* Disk: the log (DurableLog), and the manifests of the repository.
  logged, synced, dropped,
  ckpts,         \* checkpoints: [stamp, image, ok]
  hist,          \* what each tx_id wrote when last committed: [keys, boot]
  gone,          \* records compaction has removed
  \* The process: store, pipeline and log handle.
  up, boot,
  mem, next,     \* CommittedState, WriterState::next_tx_id
  jobs,          \* calls in the pipeline's queue
  flight,        \* merged and handed to the hook, being appended; 0 = none
  queued,        \* accepted by the log, not yet written
  failed,        \* the log writer has failed
  mark,          \* the log's durable watermark
  receipts,      \* commits whose callers hold a CommitReceipt
  \* The checkpoint worker.
  wpc, mail,     \* where it is; its channel holds something to look at
  sent,          \* highest commit sent to it
  highest,       \* Actor::highest_committed
  lastCkpt,      \* Actor::last_checkpoint_tx
  stamp, image,
  now, nowAt,    \* a checkpoint_now request: its state, highest sent before it
  \* The drain.
  drain, barrier, quiesced, drained,
  \* Promises made, data lost, and what the environment has done so far.
  acked, wiped,
  crashes, osCrashes, rots, ckptFaults, logFaults, drains

disk     == <<logged, synced, dropped, ckpts, hist, gone>>
pipeline == <<mem, next, jobs, flight, queued, failed, mark, receipts>>
worker   == <<wpc, mail, sent, highest, lastCkpt, stamp, image>>
request  == <<now, nowAt>>
draining == <<drain, barrier, quiesced, drained>>
faults   == <<crashes, osCrashes, rots, ckptFaults, logFaults, drains>>

vars == <<disk, up, boot, pipeline, worker, request, draining, acked, wiped, faults>>

-----------------------------------------------------------------------------
Tx    == 1..MaxTx
TxOpt == 0..MaxTx

\* A row's contents: the boot and the tx_id of its writer; Absent at first.
Values == Nat \X TxOpt
Absent == <<0, 0>>
States == [Keys -> Values]
Empty  == [k \in Keys |-> Absent]

Greater(a, b) == IF a >= b THEN a ELSE b

Log == INSTANCE DurableLog WITH recorded <- logged, safe <- synced

\* The value k has once the records of S were applied in order to s: the last
\* writer wins, wherever the replay started.
LastWriter(k, S, t) == t \in S /\ k \in hist[t].keys /\
                       \A u \in S : k \in hist[u].keys => u <= t

Replayed(s, S) ==
  [k \in Keys |->
     IF \E t \in S : k \in hist[t].keys
     THEN LET t == CHOOSE u \in S : LastWriter(k, S, u) IN <<hist[t].boot, t>>
     ELSE s[k]]

\* The state a replay of every record the log ever kept would give.
FullReplay == Replayed(Empty, logged \cup gone)

NoRecord == [keys |-> {}, boot |-> 0]

Checkpoints ==
  [stamp: Tx, image: States, ok: {"good", "object", "manifest"}]

TypeOK ==
  /\ logged \subseteq Tx /\ synced \subseteq Tx /\ dropped \in TxOpt /\ gone \subseteq Tx
  /\ ckpts \subseteq Checkpoints
  /\ hist \in [Tx -> [keys: SUBSET Keys, boot: Nat]]
  /\ up \in BOOLEAN /\ boot \in Nat /\ mem \in States /\ next \in 1..(MaxTx + 1)
  /\ jobs \in 0..QueueCapacity /\ flight \in TxOpt /\ queued \subseteq Tx
  /\ failed \in BOOLEAN /\ mark \in TxOpt /\ receipts \subseteq Tx
  /\ wpc \in {"idle", "snap", "write", "prune", "compact"} /\ mail \in BOOLEAN
  /\ sent \in TxOpt /\ highest \in TxOpt /\ lastCkpt \in TxOpt
  /\ stamp \in TxOpt /\ image \in States
  /\ now \in {"no", "asked", "running", "ok", "nothing", "failed"} /\ nowAt \in TxOpt
  /\ drain \in {"no", "barrier", "durable", "ask", "wait", "done", "err"}
  /\ barrier \in BOOLEAN /\ quiesced \in BOOLEAN /\ drained \in TxOpt
  /\ acked \subseteq Tx /\ wiped \in BOOLEAN
  /\ crashes \in Nat /\ osCrashes \in Nat /\ rots \in Nat
  /\ ckptFaults \in Nat /\ logFaults \in Nat /\ drains \in Nat

Init ==
  /\ logged = {} /\ synced = {} /\ dropped = 0 /\ ckpts = {} /\ gone = {}
  /\ hist = [t \in Tx |-> NoRecord]
  /\ up = TRUE /\ boot = 1 /\ mem = Empty /\ next = 1
  /\ jobs = 0 /\ flight = 0 /\ queued = {} /\ failed = FALSE /\ mark = 0 /\ receipts = {}
  /\ wpc = "idle" /\ mail = FALSE /\ sent = 0 /\ highest = 0 /\ lastCkpt = 0
  /\ stamp = 0 /\ image = Empty /\ now = "no" /\ nowAt = 0
  /\ drain = "no" /\ barrier = FALSE /\ quiesced = FALSE /\ drained = 0
  /\ acked = {} /\ wiped = FALSE
  /\ crashes = 0 /\ osCrashes = 0 /\ rots = 0
  /\ ckptFaults = 0 /\ logFaults = 0 /\ drains = 0

-----------------------------------------------------------------------------
(* The pipeline: TxPipeline::submit_with and TxPipelineWorker::run.        *)

\* Slots of the bounded reducer queue in use.
Used == jobs + (IF barrier THEN 1 ELSE 0)

\* try_send; a full queue is refused and changes nothing.  A draining server
\* admits no call (session.rs).
Submit ==
  /\ up /\ drain = "no" /\ Used < QueueCapacity
  /\ jobs' = jobs + 1
  /\ UNCHANGED <<disk, up, boot, mem, next, flight, queued, failed, mark, receipts,
                 worker, request, draining, acked, wiped, faults>>

\* execute() of a job that writes W: the merge publishes the new state, the
\* tx_id is consumed, and the commit hook tells the checkpoint worker - all
\* before the log has seen the transaction.
Commit(W) ==
  /\ up /\ flight = 0 /\ next <= MaxTx
  /\ mem' = [k \in Keys |-> IF k \in W THEN <<boot, next>> ELSE mem[k]]
  /\ hist' = [hist EXCEPT ![next] = [keys |-> W, boot |-> boot]]
  /\ next' = next + 1 /\ flight' = next
  /\ sent' = Greater(sent, next) /\ mail' = TRUE

Execute(W) ==
  /\ Commit(W) /\ jobs > 0 /\ jobs' = jobs - 1
  /\ UNCHANGED <<logged, synced, dropped, ckpts, gone, up, boot, queued, failed, mark,
                 receipts, wpc, highest, lastCkpt, stamp, image, request, draining,
                 acked, wiped, faults>>

\* The reducer returned Err or panicked: the buffer is dropped, no tx_id is
\* consumed.
Rollback ==
  /\ up /\ flight = 0 /\ jobs > 0 /\ jobs' = jobs - 1
  /\ UNCHANGED <<disk, up, boot, mem, next, flight, queued, failed, mark, receipts,
                 worker, request, draining, acked, wiped, faults>>

\* The drain's barrier job reached the head of the queue: an empty commit.
ExecuteBarrier ==
  /\ Commit({}) /\ jobs = 0 /\ barrier /\ barrier' = FALSE
  /\ UNCHANGED <<logged, synced, dropped, ckpts, gone, up, boot, jobs, queued, failed,
                 mark, receipts, wpc, highest, lastCkpt, stamp, image, request, drain,
                 quiesced, drained, acked, wiped, faults>>

\* Whoever waits for the barrier's receipt.
IsBarrier == drain = "barrier" /\ ~barrier

\* append_diff_as: refused by a failed log or by STG-015, else the receipt.
AppendDiff ==
  /\ up /\ flight # 0 /\ flight' = 0
  /\ IF failed \/ \E t \in logged \cup queued : t >= flight
     THEN /\ UNCHANGED <<queued, receipts, drained>>
          /\ IF IsBarrier THEN quiesced' = TRUE /\ drain' = "ask"
                          ELSE UNCHANGED <<quiesced, drain>>
     ELSE /\ queued' = queued \cup {flight} /\ receipts' = receipts \cup {flight}
          /\ IF IsBarrier THEN quiesced' = TRUE /\ drain' = "durable" /\ drained' = flight
                          ELSE UNCHANGED <<quiesced, drain, drained>>
  /\ UNCHANGED <<disk, up, boot, mem, next, jobs, failed, mark, worker, request, barrier,
                 acked, wiped, faults>>

\* The sessions whose wait_written has its answer send ReducerResult (TXN-004).
Ack ==
  /\ up /\ acked' = acked \cup (receipts \cap logged)
  /\ UNCHANGED <<disk, up, boot, pipeline, worker, request, draining, wiped, faults>>

-----------------------------------------------------------------------------
(* The log, by its abstract specification.                                 *)

\* Appended records reach the OS in order.
LogWrite(m) ==
  LET S == {t \in queued : t <= m} IN
  /\ up /\ S # {} /\ Log!Record(S) /\ queued' = queued \ S
  /\ UNCHANGED <<ckpts, hist, gone, up, boot, mem, next, jobs, flight, failed, mark,
                 receipts, worker, request, draining, acked, wiped, faults>>

\* An fsync, and the durable watermark it moves.
LogSync(m) ==
  /\ up /\ ~failed /\ m \in logged /\ m > mark /\ Log!Sync({t \in logged : t <= m})
  /\ mark' = m
  /\ UNCHANGED <<ckpts, hist, gone, up, boot, mem, next, jobs, flight, queued, failed,
                 receipts, worker, request, draining, acked, wiped, faults>>

LogFails ==
  /\ up /\ ~failed /\ logFaults < MaxLogFaults
  /\ failed' = TRUE /\ logFaults' = logFaults + 1
  /\ UNCHANGED <<disk, up, boot, mem, next, jobs, flight, queued, mark, receipts, worker,
                 request, draining, acked, wiped, crashes, osCrashes, rots, ckptFaults,
                 drains>>

-----------------------------------------------------------------------------
(* The checkpoint worker: Actor::run, handle, checkpoint, maintain, and    *)
(* the repository's write and prune.                                       *)

\* Mutant of WorkerDrain: the cadence check is off by one.
WorkerDrainLate ==
  /\ up /\ wpc = "idle" /\ mail /\ now # "asked"
  /\ mail' = FALSE /\ highest' = Greater(highest, sent)
  /\ IF highest' > lastCkpt + IntervalTx
     THEN wpc' = "snap" /\ stamp' = highest'
     ELSE UNCHANGED <<wpc, stamp>>
  /\ UNCHANGED <<disk, up, boot, pipeline, sent, lastCkpt, image, request, draining,
                 acked, wiped, faults>>

\* Drain the channel, then check the cadence.
WorkerDrain ==
  /\ up /\ wpc = "idle" /\ mail /\ now # "asked"
  /\ mail' = FALSE /\ highest' = Greater(highest, sent)
  /\ IF highest' >= lastCkpt + IntervalTx
     THEN wpc' = "snap" /\ stamp' = highest'
     ELSE UNCHANGED <<wpc, stamp>>
  /\ UNCHANGED <<disk, up, boot, pipeline, sent, lastCkpt, image, request, draining,
                 acked, wiped, faults>>

\* Mutant of WorkerNow: the request overtakes the commits sent before it.
WorkerNowFirst ==
  /\ up /\ wpc = "idle" /\ now = "asked"
  /\ IF highest > lastCkpt
     THEN wpc' = "snap" /\ stamp' = highest /\ now' = "running"
     ELSE now' = "nothing" /\ UNCHANGED <<wpc, stamp>>
  /\ mail' = TRUE
  /\ UNCHANGED <<disk, up, boot, pipeline, sent, highest, lastCkpt, image, nowAt, draining,
                 acked, wiped, faults>>

\* Mutant of WorkerNow: a request with nothing to do gets no answer.
WorkerNowSilent ==
  /\ up /\ wpc = "idle" /\ now = "asked"
  /\ highest' = Greater(highest, nowAt) /\ mail' = TRUE /\ now' = "running"
  /\ IF highest' > lastCkpt
     THEN wpc' = "snap" /\ stamp' = highest'
     ELSE UNCHANGED <<wpc, stamp>>
  /\ UNCHANGED <<disk, up, boot, pipeline, sent, lastCkpt, image, nowAt, draining,
                 acked, wiped, faults>>

\* Msg::Now, behind the commits sent before it; the loop goes on to its drain
\* and cadence check afterwards.
WorkerNow ==
  /\ up /\ wpc = "idle" /\ now = "asked"
  /\ highest' = Greater(highest, nowAt) /\ mail' = TRUE
  /\ IF highest' > lastCkpt
     THEN wpc' = "snap" /\ stamp' = highest' /\ now' = "running"
     ELSE now' = "nothing" /\ UNCHANGED <<wpc, stamp>>
  /\ UNCHANGED <<disk, up, boot, pipeline, sent, lastCkpt, image, nowAt, draining,
                 acked, wiped, faults>>

\* The wait-free snapshot, which may already be ahead of the stamp.
WorkerSnapshot ==
  /\ up /\ wpc = "snap"
  /\ image' = mem /\ wpc' = "write"
  /\ UNCHANGED <<disk, up, boot, pipeline, mail, sent, highest, lastCkpt, stamp, request,
                 draining, acked, wiped, faults>>

Answer(a) == now' = IF now = "running" THEN a ELSE now

\* repo.write refuses a stamp that does not increase past every manifest.
StampRefused == \E c \in ckpts : c.stamp >= stamp

\* Mutant of WorkerWrite: the stamp is read again after the snapshot.
WriteStampedLate ==
  /\ up /\ wpc = "write" /\ ~StampRefused
  /\ ckpts' = ckpts \cup {[stamp |-> Greater(stamp, sent), image |-> image, ok |-> "good"]}
  /\ lastCkpt' = Greater(stamp, sent) /\ wpc' = "prune" /\ stamp' = 0 /\ image' = Empty
  /\ UNCHANGED <<logged, synced, dropped, hist, gone, up, boot, pipeline, mail, sent,
                 highest, request, draining, acked, wiped, faults>>

\* Objects first, then the manifest: the checkpoint exists with its manifest.
WorkerWrite ==
  /\ up /\ wpc = "write" /\ ~StampRefused
  /\ ckpts' = ckpts \cup {[stamp |-> stamp, image |-> image, ok |-> "good"]}
  /\ lastCkpt' = stamp /\ wpc' = "prune" /\ stamp' = 0 /\ image' = Empty
  /\ UNCHANGED <<logged, synced, dropped, hist, gone, up, boot, pipeline, mail, sent,
                 highest, request, draining, acked, wiped, faults>>

WorkerWriteFails ==
  /\ up /\ wpc = "write"
  /\ \/ StampRefused /\ UNCHANGED ckptFaults
     \/ ckptFaults < MaxCkptFaults /\ ckptFaults' = ckptFaults + 1
  /\ wpc' = "idle" /\ Answer("failed") /\ stamp' = 0 /\ image' = Empty
  /\ UNCHANGED <<disk, up, boot, pipeline, mail, sent, highest, lastCkpt,
                 nowAt, draining, acked, wiped, crashes, osCrashes, rots, logFaults, drains>>

\* The checkpoint list() puts first.
IsOldest(c) == c \in ckpts /\ \A d \in ckpts : c.stamp <= d.stamp

\* prune deletes the oldest manifests one by one.
WorkerPrune ==
  /\ up /\ wpc = "prune"
  /\ IF Cardinality(ckpts) > Retention
     THEN \E c \in ckpts : IsOldest(c) /\ ckpts' = ckpts \ {c} /\ wpc' = wpc
     ELSE ckpts' = ckpts /\ wpc' = "compact"
  /\ UNCHANGED <<logged, synced, dropped, hist, gone, up, boot, pipeline, mail, sent,
                 highest, lastCkpt, stamp, image, request, draining, acked, wiped, faults>>

\* A failed prune is reported and compaction goes on.
WorkerPruneFails ==
  /\ up /\ wpc = "prune" /\ ckptFaults < MaxCkptFaults
  /\ wpc' = "compact" /\ ckptFaults' = ckptFaults + 1
  /\ UNCHANGED <<disk, up, boot, pipeline, mail, sent, highest, lastCkpt, stamp, image,
                 request, draining, acked, wiped, crashes, osCrashes, rots, logFaults, drains>>

\* Mutant of CompactTo: compaction to the newest checkpoint.
CompactToNewest(c) == c \in ckpts /\ \A d \in ckpts : d.stamp <= c.stamp

\* The checkpoint compaction goes up to: the oldest retained.
CompactTo(c) == IsOldest(c)

\* compact_covered removes some prefix (whole segments; none when archival
\* fails) of the records that checkpoint covers.
WorkerCompact ==
  /\ up /\ wpc = "compact" /\ wpc' = "idle" /\ Answer("ok")
  /\ \E c \in ckpts, m \in TxOpt :
       LET S == {t \in logged : t <= m} IN
       /\ CompactTo(c) /\ m <= c.stamp /\ Log!Drop(S, c.stamp)
       /\ gone' = gone \cup S
  /\ UNCHANGED <<ckpts, hist, up, boot, pipeline, mail, sent, highest, lastCkpt, stamp,
                 image, nowAt, draining, acked, wiped, faults>>

-----------------------------------------------------------------------------
(* The drain, graceful.rs.  Its deadlines may pass at any time.            *)

\* begin_drain, then the barrier call.  A full queue refuses the barrier at
\* once, and an error of the barrier counts as quiesced.
DrainBegin ==
  /\ up /\ drain = "no" /\ drains < MaxDrains /\ drains' = drains + 1
  /\ IF Used < QueueCapacity
     THEN drain' = "barrier" /\ barrier' = TRUE /\ quiesced' = FALSE
     ELSE drain' = "ask" /\ barrier' = FALSE /\ quiesced' = TRUE
  /\ drained' = 0
  /\ UNCHANGED <<disk, up, boot, pipeline, worker, request, acked, wiped, crashes,
                 osCrashes, rots, ckptFaults, logFaults>>

\* The deadline of the barrier, or of wait_durable.
DrainTimeout ==
  /\ up /\ drain \in {"barrier", "durable"} /\ drain' = "ask" /\ drained' = 0
  /\ UNCHANGED <<disk, up, boot, pipeline, worker, request, barrier, quiesced, acked,
                 wiped, faults>>

DrainDurable ==
  /\ up /\ drain = "durable" /\ drain' = "ask"
  /\ \/ mark >= drained /\ ~failed /\ UNCHANGED drained
     \/ failed /\ drained' = 0
  /\ UNCHANGED <<disk, up, boot, pipeline, worker, request, barrier, quiesced, acked,
                 wiped, faults>>

\* Name the durable tail to the worker and ask for the final checkpoint.
DrainAsk ==
  /\ up /\ drain = "ask"
  /\ IF failed THEN drain' = "err" /\ UNCHANGED <<sent, mail, request>>
     ELSE IF mark = 0 THEN drain' = "done" /\ UNCHANGED <<sent, mail, request>>
     ELSE /\ drain' = "wait" /\ sent' = Greater(sent, mark) /\ mail' = TRUE
          /\ now' = "asked" /\ nowAt' = sent'
  /\ UNCHANGED <<disk, up, boot, pipeline, wpc, highest, lastCkpt, stamp, image,
                 barrier, quiesced, drained, acked, wiped, faults>>

DrainReply ==
  /\ up /\ drain = "wait" /\ now \in {"ok", "nothing", "failed"} /\ now' = "no"
  /\ drain' = IF now = "ok" THEN "done" ELSE "err"
  /\ UNCHANGED <<disk, up, boot, pipeline, worker, nowAt, barrier, quiesced, drained,
                 acked, wiped, faults>>

-----------------------------------------------------------------------------
(* Crashes, bit rot and recovery.                                          *)

\* A fresh process around a recovered state, last tx_id and watermark.
Fresh(s, last, logLast, ckpt) ==
  /\ mem' = s /\ next' = last + 1
  /\ jobs' = 0 /\ flight' = 0 /\ queued' = {} /\ failed' = FALSE /\ mark' = logLast
  /\ receipts' = {}
  /\ wpc' = "idle" /\ mail' = FALSE /\ sent' = 0 /\ highest' = ckpt /\ lastCkpt' = ckpt
  /\ stamp' = 0 /\ image' = Empty /\ now' = "no" /\ nowAt' = 0
  /\ drain' = "no" /\ barrier' = FALSE /\ quiesced' = FALSE /\ drained' = 0

Down == up' = FALSE /\ boot' = boot /\ Fresh(Empty, 0, 0, 0)

ProcessCrash ==
  /\ up /\ crashes < MaxCrashes /\ crashes' = crashes + 1
  /\ Down
  /\ UNCHANGED <<disk, acked, wiped, osCrashes, rots,
                 ckptFaults, logFaults, drains>>

\* The machine takes records that were not fsynced; acks of those are void
\* (the documented write-behind window).  Manifests are fsynced.
OSCrash ==
  /\ osCrashes < MaxOSCrashes /\ osCrashes' = osCrashes + 1
  /\ \E keep \in SUBSET logged :
       /\ Log!Lose(keep) /\ acked' = acked \ (logged \ keep)
  /\ Down
  /\ UNCHANGED <<ckpts, hist, gone, wiped, crashes, rots, ckptFaults, logFaults, drains>>

\* A manifest or an object of it no longer verifies.
Rot ==
  /\ rots < MaxRot /\ rots' = rots + 1
  /\ \E c \in ckpts, how \in {"object", "manifest"} :
       /\ c.ok = "good" /\ ckpts' = (ckpts \ {c}) \cup {[c EXCEPT !.ok = how]}
  /\ UNCHANGED <<logged, synced, dropped, hist, gone, up, boot, pipeline, worker, request,
                 draining, acked, wiped, crashes, osCrashes, ckptFaults, logFaults, drains>>

\* m is the greatest element of S, or 0 when S is empty.
IsLast(m, S) == (m = 0 /\ S = {}) \/ (m \in S /\ \A x \in S : x <= m)

\* The stamp of the newest checkpoint whose files verify as far as `how` asks.
NewestStamp(n, how) == IsLast(n, {c.stamp : c \in {d \in ckpts : d.ok \in how}})

\* Mutant of ReplayFrom: replay starts one record late.
ReplayLate(n) == {t \in logged : t > n + 1}

\* The records recovery applies over a checkpoint stamped n.
ReplayFrom(n) == {t \in logged : t > n}

\* Mutant of ResumeAt: the tx_id counter follows the log alone.
ResumeAtLog(l, n) == l

\* The last recovered tx_id, from the log's last l and the checkpoint's n.
ResumeAt(l, n) == Greater(l, n)

\* recover(): the newest checkpoint that fully verifies, or nothing, then the
\* records past its stamp; the pipeline resumes past both.  The log reopens
\* with its own last tx_id, and the worker resumes its cadence from the
\* newest manifest that decodes.
Recover ==
  /\ ~up /\ up' = TRUE /\ boot' = boot + 1
  /\ \E n, l, w \in TxOpt :
       /\ NewestStamp(n, {"good"}) /\ IsLast(l, logged)
       /\ NewestStamp(w, {"good", "object"})
       /\ \/ n = 0 /\ Fresh(Replayed(Empty, ReplayFrom(0)), ResumeAt(l, n), l, w)
          \/ \E c \in ckpts : /\ c.stamp = n /\ c.ok = "good"
                              /\ Fresh(Replayed(c.image, ReplayFrom(n)), ResumeAt(l, n), l, w)
       /\ wiped' = (wiped \/ (n = 0 /\ gone # {}))
  /\ UNCHANGED <<disk, acked, faults>>

-----------------------------------------------------------------------------
Next ==
  \/ Submit \/ Rollback \/ ExecuteBarrier \/ AppendDiff
  \/ \E W \in SUBSET Keys : Execute(W)
  \/ \E t \in Tx : LogWrite(t) \/ LogSync(t)
  \/ Ack \/ LogFails
  \/ WorkerDrain \/ WorkerNow \/ WorkerSnapshot \/ WorkerWrite \/ WorkerWriteFails
  \/ WorkerPrune \/ WorkerPruneFails \/ WorkerCompact
  \/ DrainBegin \/ DrainTimeout \/ DrainDurable \/ DrainAsk \/ DrainReply
  \/ ProcessCrash \/ OSCrash \/ Rot \/ Recover

Spec == Init /\ [][Next]_vars

-----------------------------------------------------------------------------
(* Properties                                                              *)

\* An acknowledged transaction is in the state the shard serves, or
\* overwritten by a later one: across checkpoints, pruning, compaction,
\* crashes, fallback to an older checkpoint and replay, in any order - as
\* long as recovery found a checkpoint that verifies, or an uncompacted log.
AckedVisible ==
  up /\ ~wiped => \A t \in acked : \A k \in hist[t].keys : mem[k][2] >= t

\* Every retained checkpoint can be replayed forward: compaction has never
\* removed a record past it, also between prune and compact, after a failed
\* prune, or when a crash interrupts the maintenance.
RetainedReplayable == \A c \in ckpts : \A t \in gone : t <= c.stamp

\* The next tx_id is above everything the log or an ack has named, so the log
\* never refuses a commit of a healthy shard (STG-015).
IdsFresh ==
  up /\ ~wiped => \A t \in logged \cup queued \cup gone \cup acked : t < next

\* A checkpoint holds every transaction up to its stamp that survived: the
\* stamp is a lower bound of the snapshot.
StampsAreLowerBounds ==
  ~wiped => \A c \in ckpts : \A t \in logged \cup gone :
    c.ok = "good" /\ t <= c.stamp => \A k \in hist[t].keys : c.image[k][2] >= t

\* The state s holds only what records of the log wrote.
OnlyLogged(s) ==
  \A k \in Keys : s[k] # Absent =>
    s[k][2] \in logged \cup gone /\ hist[s[k][2]].boot = s[k][1]

\* Checkpoint + replay is the full-log replay (checkpoint/mod.rs), whichever
\* checkpoint was adopted, however far the snapshot was ahead of its stamp and
\* whatever compaction removed - provided the log did not lose transactions
\* that the snapshots had already seen.
RecoversExactly ==
  [][~up /\ up' /\ ~wiped' /\ (\A c \in ckpts : OnlyLogged(c.image)) =>
       mem' = FullReplay]_vars

\* A drain that reports a final checkpoint after its barrier became durable
\* leaves nothing to replay: the newest checkpoint is the served state.
DrainCovers ==
  drain = "done" /\ drained # 0 =>
    \E c \in ckpts : c.stamp = next - 1 /\ c.image = mem

-----------------------------------------------------------------------------
(* Liveness: the pipeline task, the log's threads, the worker thread and   *)
(* the drain keep running; callers, faults and crashes are not scheduled.  *)

PipelineStep == Rollback \/ ExecuteBarrier \/ AppendDiff \/ \E W \in SUBSET Keys : Execute(W)

LogStep == \E t \in Tx : LogWrite(t) \/ LogSync(t)

WorkerStep ==
  \/ WorkerDrain \/ WorkerNow \/ WorkerSnapshot \/ WorkerWrite \/ WorkerWriteFails
  \/ WorkerPrune \/ WorkerPruneFails \/ WorkerCompact

DrainStep == DrainTimeout \/ DrainDurable \/ DrainAsk \/ DrainReply

FairSpec ==
  /\ Spec /\ WF_vars(PipelineStep) /\ WF_vars(LogStep) /\ WF_vars(Ack)
  /\ WF_vars(WorkerStep) /\ WF_vars(DrainStep)

\* Every commit the hook reported is checkpointed in time (one transaction
\* per interval here): no notification is lost while the worker is busy.  A
\* checkpoint that fails is only tried again with the next commit.
CadenceKept ==
  \A t \in Tx : (up /\ sent >= t) ~> (lastCkpt >= t \/ ~up \/ ckptFaults > 0)

\* A drain ends, also when the log or the checkpoint fails under it.
DrainEnds == drain # "no" ~> drain \in {"done", "err"} \/ ~up

-----------------------------------------------------------------------------
(* What the documents and comments say, beyond the properties above.       *)

\* checkpoint/mod.rs: "checkpoint + replay lands exactly on the full-log-
\* replay state" - or at least, when the snapshot was ahead of the log, on a
\* state that some commit produced, never on part of a transaction (TXN-001).
RecoversCommittedState ==
  [][~up /\ up' /\ ~wiped' => \E m \in TxOpt : mem' = Replayed(Empty, 1..m)]_vars

\* txn/mod.rs: "the log's tx_id sequence is exactly 1, 2, 3, ...".
LogGapFree == \A t \in logged \cup gone : \A u \in 1..t : u \in logged \cup gone

\* checkpoint/worker.rs: "the STG-021 fallback stays recoverable after
\* compaction", with one checkpoint damaged.
OneRotSurvived ==
  up /\ rots <= 1 => \A t \in acked : \A k \in hist[t].keys : mem[k][2] >= t

\* main.rs, of the final checkpoint: "Nothing to checkpoint" is the good case
\* - a drain fails only when something did.
DrainFailsForCause == drain = "err" => ckptFaults + logFaults > 0

\* graceful.rs: the barrier failing "still means the writer reached it, so
\* everything before it is done".
QuiescedMeansDone == quiesced => jobs = 0 /\ flight = 0

=============================================================================
