------------------------------- MODULE ShardInv -------------------------------
(***************************************************************************)
(* The inductive invariant behind the safety properties of Shard.          *)
(***************************************************************************)
EXTENDS Shard

\* Committed in memory, not yet in the log.
Pending == queued \cup ({flight} \ {0})

\* Every transaction that is in the log, was compacted away, or is on its way.
History == logged \cup gone \cup Pending

\* The state s has every write of the transactions in S, or a later one.
Holds(s, S) == \A t \in S : \A k \in hist[t].keys : s[k][2] >= t

\* A process that is down holds nothing; a checkpoint being written carries
\* the tx_id that triggered it.
ControlInv ==
  /\ ~up => queued = {} /\ flight = 0 /\ wpc = "idle"
  /\ wpc \in {"snap", "write"} => stamp # 0 /\ stamp = highest

\* Compaction follows the oldest checkpoint, and only a checkpoint allows it.
CompactionInv ==
  /\ RetainedReplayable
  /\ gone # {} => ckpts # {}

\* Where the promises are kept, and the order of log, queue and pipeline.
OrderInv ==
  /\ acked \subseteq logged \cup gone
  /\ ~wiped =>
     /\ \A t \in gone, u \in logged : t < u
     /\ up => /\ \A t \in History : t < next
              /\ \A t \in Pending, u \in logged \cup gone : u < t
              /\ \A t \in queued : flight # 0 => t < flight

\* No stamp of a checkpoint that verifies, written or planned, is ahead of
\* the commits.
StampInv ==
  up /\ ~wiped =>
    /\ sent < next /\ nowAt < next /\ mark < next
    /\ highest < next \/ highest <= lastCkpt
    /\ wpc \in {"snap", "write"} => stamp < next
    /\ \A c \in ckpts : c.ok = "good" => c.stamp < next

\* The served state holds the whole history, a checkpoint at least the part
\* its stamp claims - including what the log has not seen yet.
HoldInv ==
  ~wiped =>
    /\ up => Holds(mem, History)
    /\ wpc = "write" => Holds(image, {t \in History : t <= stamp})
    /\ \A c \in ckpts : c.ok = "good" => Holds(c.image, {t \in History : t <= c.stamp})

\* Values name their writers: a value whose writer is still the last one
\* committed under its tx_id was written by it.
Named(s) ==
  \A k \in Keys :
    /\ s[k][1] <= boot
    /\ up /\ s[k][1] = boot => s[k][2] < next
    /\ s[k][2] # 0 /\ hist[s[k][2]].boot = s[k][1] => k \in hist[s[k][2]].keys

NameInv ==
  /\ \A t \in Tx : hist[t].boot <= boot
  /\ Named(mem) /\ Named(image) /\ \A c \in ckpts : Named(c.image)

\* The inductive invariant: no part is preserved without the others.
SInv ==
  /\ TypeOK /\ ControlInv /\ CompactionInv /\ OrderInv /\ StampInv /\ HoldInv /\ NameInv

\* What the drain relies on.  No id in use is ahead of the counter, also
\* after a recovery that lost its checkpoints.
CounterInv ==
  up =>
    /\ \A t \in logged \cup queued \cup {flight} : t < next
    /\ sent < next /\ nowAt < next /\ mark < next
    /\ highest < next \/ highest <= lastCkpt

\* The barrier is the last commit: a draining server admits nothing behind it.
BarrierLast ==
  /\ drain \in {"no", "barrier"} => drained = 0
  /\ drain = "no" => ~barrier
  /\ drain = "barrier" /\ ~barrier => flight = next - 1 /\ flight # 0 /\ jobs = 0
  /\ drained # 0 => up /\ drained = next - 1 /\ flight = 0 /\ jobs = 0 /\ ~barrier
  /\ drained # 0 /\ drain \in {"ask", "wait", "done"} => mark >= drained

\* The newest checkpoint, alone at its stamp, holds the served state.
NewestServed ==
  \E c \in ckpts : /\ c.stamp = next - 1 /\ c.image = mem
                  /\ \A d \in ckpts : d = c \/ d.stamp < c.stamp

\* The worker has nothing left to do.
Settled == wpc = "idle" /\ highest = next - 1 /\ lastCkpt = next - 1

\* From the request that follows a durable barrier to its answer, the worker
\* takes, writes and keeps the checkpoint of that last commit.
FinalCheckpoint ==
  drained # 0 =>
    /\ drain = "wait" => nowAt = next - 1
    /\ drain = "wait" /\ now = "running" =>
         /\ wpc # "idle" /\ highest = next - 1
         /\ wpc \in {"snap", "write"} => stamp = next - 1
         /\ wpc = "write" => image = mem
         /\ wpc \in {"prune", "compact"} => NewestServed /\ lastCkpt = next - 1
    /\ drain = "wait" /\ now = "ok" => NewestServed /\ Settled
    /\ drain = "done" => now = "no" /\ NewestServed /\ Settled

DrainInv == CounterInv /\ BarrierLast /\ FinalCheckpoint

=============================================================================
