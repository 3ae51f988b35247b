----------------------------- MODULE ShardProofs -----------------------------
(***************************************************************************)
(* Proofs about Shard: the inductive invariant SInv, and from it that      *)
(* acknowledged transactions stay visible, that retained checkpoints stay  *)
(* replayable, that tx_ids are fresh, that recovery is exact and that a    *)
(* drain's last checkpoint is complete (with DrainInv).                    *)
(***************************************************************************)
EXTENDS ShardInv, FiniteSetTheorems, TLAPS

\* tx_ids are natural numbers.
LEMMA TxNat == MaxTx \in Nat /\ Tx \subseteq Nat /\ TxOpt \subseteq Nat /\ 0 \in TxOpt
  BY ShardBounds DEF ShardBounds, Tx, TxOpt

\* A nonempty set of tx_ids has a greatest element (MaxTx - t is least).
LEMMA GreatestExists ==
  ASSUME NEW S, S \subseteq Tx, S # {}
  PROVE  \E m \in S : \A x \in S : x <= m
<1> DEFINE T == {MaxTx - t : t \in S}
           R == OpToRel(<, Nat)
<1>1. T \subseteq Nat /\ T # {}
  <2>1. \A t \in S : MaxTx - t \in Nat
    BY ShardBounds DEF ShardBounds, Tx
  <2> QED
    BY <2>1, Zenon
<1>2. PICK y \in T : \A z \in T : ~(<<z, y>> \in R)
  <2> HIDE DEF T, R
  <2>1. IsWellFoundedOn(R, Nat)
    BY NatLessThanWellFounded DEF R
  <2> QED
    BY <1>1, <2>1, WFMin
<1>3. \A z \in T : ~(z < y)
  BY <1>1, <1>2 DEF OpToRel
<1>4. PICK m \in S : y = MaxTx - m
  BY <1>2
<1> QED
  BY <1>3, <1>4, ShardBounds DEF ShardBounds, Tx

\* What replay computes: per key the last writer among the applied records,
\* or the value replay started from.
LEMMA ReplayedFacts ==
  ASSUME hist \in [Tx -> [keys: SUBSET Keys, boot: Nat]],
         NEW S \in SUBSET Tx, NEW s \in States
  PROVE  /\ Replayed(s, S) \in States
         /\ \A k \in Keys :
              \/ \E t \in S : LastWriter(k, S, t) /\ Replayed(s, S)[k] = <<hist[t].boot, t>>
              \/ (\A t \in S : k \notin hist[t].keys) /\ Replayed(s, S)[k] = s[k]
<1>1. ASSUME NEW k \in Keys, \E t \in S : k \in hist[t].keys
      PROVE  \E t \in S : LastWriter(k, S, t)
  <2> DEFINE W == {t \in S : k \in hist[t].keys}
  <2>1. PICK m \in W : \A x \in W : x <= m
    <3>1. W \subseteq Tx /\ W # {}
      BY <1>1
    <3> QED
      BY <3>1, GreatestExists
  <2> QED
    BY <2>1 DEF LastWriter
<1>2. ASSUME NEW k \in Keys
      PROVE  \/ \E t \in S : LastWriter(k, S, t) /\ Replayed(s, S)[k] = <<hist[t].boot, t>>
             \/ (\A t \in S : k \notin hist[t].keys) /\ Replayed(s, S)[k] = s[k]
  <2>1. CASE \E t \in S : k \in hist[t].keys
    <3> DEFINE u == CHOOSE t \in S : LastWriter(k, S, t)
    <3>1. u \in S /\ LastWriter(k, S, u)
      BY <1>1, <2>1
    <3>2. Replayed(s, S)[k] = <<hist[u].boot, u>>
      BY <2>1 DEF Replayed
    <3> QED
      BY <3>1, <3>2
  <2>2. CASE \A t \in S : k \notin hist[t].keys
    BY <2>2 DEF Replayed
  <2> QED
    BY <2>1, <2>2
<1>3. \A k \in Keys : Replayed(s, S)[k] \in Values
  <2> SUFFICES ASSUME NEW k \in Keys PROVE Replayed(s, S)[k] \in Values
    OBVIOUS
  <2>1. CASE (\A t \in S : k \notin hist[t].keys) /\ Replayed(s, S)[k] = s[k]
    BY <2>1 DEF States
  <2>2. ASSUME NEW t \in S, Replayed(s, S)[k] = <<hist[t].boot, t>>
        PROVE  Replayed(s, S)[k] \in Values
    BY <2>2, TxNat DEF Values, Tx, TxOpt
  <2> QED
    BY <1>2, <2>1, <2>2
<1>4. Replayed(s, S) = [k \in Keys |-> Replayed(s, S)[k]]
  BY DEF Replayed
<1>5. Replayed(s, S) \in States
  BY <1>3, <1>4, Zenon DEF States
<1> QED
  BY <1>2, <1>5

-----------------------------------------------------------------------------
(* Type correctness.                                                       *)

\* The empty state is a state.
LEMMA EmptyState == Empty \in States /\ \A k \in Keys : Empty[k] = <<0, 0>>
  BY TxNat DEF Empty, Absent, States, Values

\* Every step of the pipeline, the log, the worker, the drain, a crash or a
\* recovery preserves the types.
LEMMA TypeStep == TypeOK /\ ControlInv /\ Next => TypeOK'
<1> SUFFICES ASSUME TypeOK, ControlInv, Next PROVE TypeOK'
  OBVIOUS
<1> USE TxNat, EmptyState
<1>1. ASSUME Submit PROVE TypeOK'
  <2>1. jobs' \in 0..QueueCapacity
    <3>1. jobs \in Nat /\ QueueCapacity \in Nat /\ jobs' = jobs + 1
      BY <1>1, ShardOptions DEF TypeOK, Submit, ShardOptions
    <3>2. jobs < QueueCapacity
      BY <1>1, <3>1 DEF Submit, Used
    <3> QED
      BY <3>1, <3>2
  <2> QED
    BY <1>1, <2>1 DEF TypeOK, Submit, disk, worker, request, draining, faults
<1>2. ASSUME Rollback PROVE TypeOK'
  BY <1>2, ShardBounds, ShardOptions
     DEF TypeOK, Rollback, disk, pipeline, worker, request, draining, faults, ShardOptions, Tx, TxOpt
<1>3. ASSUME AppendDiff PROVE TypeOK'
  <2>1. flight # 0 /\ flight \in Tx /\ flight' = 0
    BY <1>3 DEF TypeOK, AppendDiff, Tx, TxOpt
  <2>2. queued' \subseteq Tx /\ receipts' \subseteq Tx /\ drained' \in TxOpt
    BY <1>3, <2>1 DEF TypeOK, AppendDiff, Tx, TxOpt
  <2>3. /\ quiesced' \in BOOLEAN
        /\ drain' \in {"no", "barrier", "durable", "ask", "wait", "done", "err"}
    BY <1>3 DEF TypeOK, AppendDiff
  <2> QED
    BY <1>3, <2>1, <2>2, <2>3
       DEF TypeOK, AppendDiff, disk, pipeline, worker, request, draining, faults
<1>4. ASSUME Ack PROVE TypeOK'
  <2>1. acked' \subseteq Tx
    BY <1>4 DEF TypeOK, Ack
  <2> QED
    BY <1>4, <2>1 DEF TypeOK, Ack, disk, pipeline, worker, request, draining, faults
<1>5. ASSUME LogFails PROVE TypeOK'
  BY <1>5
     DEF TypeOK, LogFails, disk, pipeline, worker, request, draining, faults
<1>6. ASSUME WorkerDrain PROVE TypeOK'
  <2>1. highest' \in TxOpt /\ mail' \in BOOLEAN
    BY <1>6 DEF TypeOK, WorkerDrain, Greater
  <2>2. wpc' \in {"idle", "snap", "write", "prune", "compact"} /\ stamp' \in TxOpt
    BY <1>6, <2>1 DEF TypeOK, WorkerDrain
  <2>3. UNCHANGED <<disk, up, boot, pipeline, sent, lastCkpt, image, request, draining, acked, wiped, faults>>
    BY <1>6 DEF WorkerDrain
  <2> QED
    BY <2>1, <2>2, <2>3 DEF TypeOK, disk, pipeline, request, draining, faults
<1>7. ASSUME WorkerNow PROVE TypeOK'
  BY <1>7
     DEF TypeOK, WorkerNow, Greater, disk, pipeline, worker, request, draining, faults
<1>8. ASSUME WorkerSnapshot PROVE TypeOK'
  BY <1>8
     DEF TypeOK, WorkerSnapshot, disk, pipeline, worker, request, draining, faults
<1>9. ASSUME WorkerWriteFails PROVE TypeOK'
  BY <1>9
     DEF TypeOK, WorkerWriteFails, Answer, StampRefused, disk, pipeline, worker, request, draining, faults
<1>10. ASSUME WorkerPrune PROVE TypeOK'
  BY <1>10
     DEF TypeOK, WorkerPrune, disk, pipeline, worker, request, draining, faults
<1>11. ASSUME WorkerPruneFails PROVE TypeOK'
  BY <1>11
     DEF TypeOK, WorkerPruneFails, disk, pipeline, worker, request, draining, faults
<1>12. ASSUME DrainBegin PROVE TypeOK'
  <2>1. /\ drain' \in {"no", "barrier", "durable", "ask", "wait", "done", "err"}
        /\ barrier' \in BOOLEAN /\ quiesced' \in BOOLEAN /\ drained' \in TxOpt
    BY <1>12 DEF TypeOK, DrainBegin
  <2> QED
    BY <1>12, <2>1 DEF TypeOK, DrainBegin, disk, pipeline, worker, request, faults
<1>13. ASSUME DrainTimeout PROVE TypeOK'
  BY <1>13
     DEF TypeOK, DrainTimeout, disk, pipeline, worker, request, draining, faults
<1>14. ASSUME DrainDurable PROVE TypeOK'
  BY <1>14
     DEF TypeOK, DrainDurable, disk, pipeline, worker, request, draining, faults
<1>15. ASSUME DrainAsk PROVE TypeOK'
  <2>1. sent' \in {sent, mark} /\ nowAt' \in {nowAt, sent'}
    BY <1>15 DEF DrainAsk, Greater, request
  <2>2. mail' \in BOOLEAN
    BY <1>15 DEF TypeOK, DrainAsk
  <2>3. /\ drain' \in {"err", "done", "wait"} /\ now' \in {now, "asked"}
    BY <1>15 DEF DrainAsk, request
  <2> QED
    BY <1>15, <2>1, <2>2, <2>3 DEF TypeOK, DrainAsk, disk, pipeline, faults
<1>16. ASSUME DrainReply PROVE TypeOK'
  BY <1>16
     DEF TypeOK, DrainReply, disk, pipeline, worker, request, draining, faults
<1>17. ASSUME NEW W \in SUBSET Keys, Commit(W)
       PROVE  /\ mem' \in States /\ hist' \in [Tx -> [keys: SUBSET Keys, boot: Nat]]
              /\ next' \in 1..(MaxTx + 1) /\ flight' \in TxOpt /\ sent' \in TxOpt /\ mail' \in BOOLEAN
  <2>1. next \in Tx /\ next' = next + 1 /\ flight' = next /\ sent' \in {sent, next} /\ mail' = TRUE
    BY <1>17 DEF TypeOK, Commit, Tx, Greater
  <2>2. hist' \in [Tx -> [keys: SUBSET Keys, boot: Nat]]
    BY <1>17, <2>1 DEF TypeOK, Commit
  <2>3. <<boot, next>> \in Values
    BY <2>1 DEF TypeOK, Values, Tx, TxOpt
  <2>4. mem' \in States
    BY <1>17, <2>3 DEF TypeOK, Commit, States
  <2>5. next \in TxOpt /\ next' \in 1..(MaxTx + 1)
    BY <2>1 DEF Tx, TxOpt
  <2>6. mail' \in BOOLEAN
    BY <2>1
  <2> QED
    BY <2>1, <2>2, <2>4, <2>5, <2>6 DEF TypeOK
<1>18. ASSUME NEW W \in SUBSET Keys, Execute(W) PROVE TypeOK'
  <2>1. Commit(W)
    BY <1>18 DEF Execute
  <2>2. jobs' \in 0..QueueCapacity
    BY <1>18, ShardOptions DEF TypeOK, Execute, ShardOptions
  <2> QED
    BY <1>17, <1>18, <2>1, <2>2 DEF TypeOK, Execute, request, draining, faults
<1>19. ASSUME ExecuteBarrier PROVE TypeOK'
  <2>1. Commit({}) /\ {} \in SUBSET Keys
    BY <1>19 DEF ExecuteBarrier
  <2>2. barrier' \in BOOLEAN
    BY <1>19 DEF ExecuteBarrier
  <2> QED
    BY <1>17, <1>19, <2>1, <2>2 DEF TypeOK, ExecuteBarrier, request, faults
<1>20. ASSUME NEW m \in Tx, LogWrite(m) PROVE TypeOK'
  <2>1. logged' \subseteq Tx /\ queued' \subseteq Tx /\ synced' = synced /\ dropped' = dropped
    BY <1>20 DEF TypeOK, LogWrite, Log!Record
  <2> QED
    BY <1>20, <2>1 DEF TypeOK, LogWrite, worker, request, draining, faults
<1>21. ASSUME NEW m \in Tx, LogSync(m) PROVE TypeOK'
  <2>1. logged' = logged /\ synced' \subseteq Tx /\ dropped' = dropped /\ mark' \in TxOpt
    <3>1. m \in TxOpt
      BY DEF Tx, TxOpt
    <3> QED
      BY <1>21, <3>1 DEF TypeOK, LogSync, Log!Sync
  <2> QED
    BY <1>21, <2>1 DEF TypeOK, LogSync, worker, request, draining, faults
<1>22. ASSUME WorkerWrite PROVE TypeOK'
  <2>1. stamp \in Tx
    BY <1>22 DEF TypeOK, ControlInv, WorkerWrite, Tx, TxOpt
  <2>2. [stamp |-> stamp, image |-> image, ok |-> "good"] \in Checkpoints
    BY <2>1 DEF TypeOK, Checkpoints
  <2>3. ckpts' \subseteq Checkpoints
    BY <1>22, <2>2 DEF TypeOK, WorkerWrite
  <2> QED
    BY <1>22, <2>3 DEF TypeOK, WorkerWrite, pipeline, request, draining, faults
<1>23. ASSUME WorkerCompact PROVE TypeOK'
  <2>1. PICK c \in ckpts, m \in TxOpt :
          /\ Log!Drop({t \in logged : t <= m}, c.stamp) /\ gone' = gone \cup {t \in logged : t <= m}
    BY <1>23 DEF WorkerCompact
  <2>2. c.stamp \in Tx
    BY DEF TypeOK, Checkpoints
  <2>3. logged' \subseteq Tx /\ synced' \subseteq Tx /\ dropped' \in TxOpt /\ gone' \subseteq Tx
    <3>1. c.stamp \in TxOpt
      BY <2>2 DEF Tx, TxOpt
    <3> QED
      BY <2>1, <3>1 DEF TypeOK, Log!Drop
  <2> QED
    BY <1>23, <2>3 DEF TypeOK, WorkerCompact, Answer, pipeline, draining, faults
<1>24. ASSUME NEW s \in States, NEW last \in TxOpt, NEW l \in TxOpt, NEW w \in TxOpt,
              Fresh(s, last, l, w), boot' \in Nat, up' \in BOOLEAN
       PROVE  /\ mem' \in States /\ next' \in 1..(MaxTx + 1)
              /\ jobs' \in 0..QueueCapacity /\ flight' \in TxOpt /\ queued' \subseteq Tx
              /\ failed' \in BOOLEAN /\ mark' \in TxOpt /\ receipts' \subseteq Tx
              /\ wpc' \in {"idle", "snap", "write", "prune", "compact"} /\ mail' \in BOOLEAN
              /\ sent' \in TxOpt /\ highest' \in TxOpt /\ lastCkpt' \in TxOpt
              /\ stamp' \in TxOpt /\ image' \in States
              /\ now' \in {"no", "asked", "running", "ok", "nothing", "failed"}
              /\ nowAt' \in TxOpt
              /\ drain' \in {"no", "barrier", "durable", "ask", "wait", "done", "err"}
              /\ barrier' \in BOOLEAN /\ quiesced' \in BOOLEAN /\ drained' \in TxOpt
  <2>1. next' \in 1..(MaxTx + 1)
    BY <1>24 DEF Fresh, TxOpt
  <2>2. jobs' \in 0..QueueCapacity
    BY <1>24, ShardOptions DEF Fresh, ShardOptions
  <2>3. failed' \in BOOLEAN /\ mail' \in BOOLEAN /\ barrier' \in BOOLEAN /\ quiesced' \in BOOLEAN
    BY <1>24 DEF Fresh
  <2> QED
    BY <1>24, <2>1, <2>2, <2>3 DEF Fresh
<1>25. ASSUME ProcessCrash PROVE TypeOK'
  <2>1. Fresh(Empty, 0, 0, 0) /\ up' = FALSE /\ boot' = boot
    BY <1>25 DEF ProcessCrash, Down
  <2>2. boot' \in Nat /\ up' \in BOOLEAN
    BY <2>1 DEF TypeOK
  <2> QED
    BY <1>24, <1>25, <2>1, <2>2 DEF TypeOK, ProcessCrash, disk
<1>26. ASSUME OSCrash PROVE TypeOK'
  <2>1. Fresh(Empty, 0, 0, 0) /\ up' = FALSE /\ boot' = boot
    BY <1>26 DEF OSCrash, Down
  <2>2. boot' \in Nat /\ up' \in BOOLEAN
    BY <2>1 DEF TypeOK
  <2>3. PICK keep \in SUBSET logged : Log!Lose(keep) /\ acked' = acked \ (logged \ keep)
    BY <1>26 DEF OSCrash
  <2>4. logged' \subseteq Tx /\ synced' \subseteq Tx /\ dropped' = dropped /\ acked' \subseteq Tx
    BY <2>3 DEF TypeOK, Log!Lose
  <2> QED
    BY <1>24, <1>26, <2>1, <2>2, <2>4 DEF TypeOK, OSCrash
<1>27. ASSUME Rot PROVE TypeOK'
  <2>1. ckpts' \subseteq Checkpoints
    BY <1>27 DEF TypeOK, Rot, Checkpoints
  <2> QED
    BY <1>27, <2>1 DEF TypeOK, Rot, pipeline, worker, request, draining
<1>28. ASSUME Recover PROVE TypeOK'
  <2>1. PICK n \in TxOpt, l \in TxOpt, w \in TxOpt :
          /\ \/ n = 0 /\ Fresh(Replayed(Empty, ReplayFrom(0)), ResumeAt(l, n), l, w)
             \/ \E c \in ckpts : /\ c.stamp = n /\ c.ok = "good"
                                 /\ Fresh(Replayed(c.image, ReplayFrom(n)), ResumeAt(l, n), l, w)
          /\ wiped' = (wiped \/ (n = 0 /\ gone # {}))
    BY <1>28 DEF Recover
  <2>2. wiped' \in BOOLEAN
    BY <2>1 DEF TypeOK
  <2>3. ReplayFrom(n) \in SUBSET Tx /\ ResumeAt(l, n) \in TxOpt
    BY DEF TypeOK, ReplayFrom, ResumeAt, Greater
  <2>4. PICK s \in States : Fresh(s, ResumeAt(l, n), l, w)
    <3>1. CASE n = 0 /\ Fresh(Replayed(Empty, ReplayFrom(0)), ResumeAt(l, n), l, w)
      BY <3>1, <2>3, ReplayedFacts DEF TypeOK
    <3>2. ASSUME NEW c \in ckpts, Fresh(Replayed(c.image, ReplayFrom(n)), ResumeAt(l, n), l, w)
          PROVE  \E s \in States : Fresh(s, ResumeAt(l, n), l, w)
      <4>1. c.image \in States
        BY DEF TypeOK, Checkpoints
      <4> QED
        BY <3>2, <4>1, <2>3, ReplayedFacts DEF TypeOK
    <3> QED
      BY <2>1, <3>1, <3>2
  <2>5. boot' \in Nat /\ up' = TRUE /\ up' \in BOOLEAN
    BY <1>28 DEF TypeOK, Recover
  <2> QED
    BY <1>24, <1>28, <2>2, <2>3, <2>4, <2>5 DEF TypeOK, Recover, disk, faults
<1> QED
  BY <1>1, <1>2, <1>3, <1>4, <1>5, <1>6, <1>7, <1>8, <1>9, <1>10, <1>11, <1>12, <1>13, <1>14,
     <1>15, <1>16, <1>18, <1>19, <1>20, <1>21, <1>22, <1>23, <1>25, <1>26, <1>27, <1>28 DEF Next

-----------------------------------------------------------------------------
(* A part of the invariant is kept by a step that leaves its state alone.  *)

\* ControlInv is about the process, its pipeline and the worker's position.
LEMMA ControlKept ==
  ControlInv /\ UNCHANGED <<up, queued, flight, wpc, stamp, highest>> => ControlInv'
  BY DEF ControlInv

\* CompactionInv is about the checkpoints and the removed records.
LEMMA CompactionKept == CompactionInv /\ UNCHANGED <<ckpts, gone>> => CompactionInv'
  BY DEF CompactionInv, RetainedReplayable

\* OrderInv is about the log, the queue, the tx_id counter and the acks.
LEMMA OrderKept ==
  OrderInv /\ UNCHANGED <<acked, logged, gone, wiped, up, queued, flight, next>> => OrderInv'
  BY DEF OrderInv, History, Pending

\* StampInv is about the stamps, the watermarks and the tx_id counter.
LEMMA StampKept ==
  StampInv /\ UNCHANGED <<up, wiped, sent, mark, next, highest, lastCkpt, wpc, stamp, ckpts,
                          nowAt>>
    => StampInv'
  BY DEF StampInv

\* HoldInv is about the history and the states that hold it.
LEMMA HoldKept ==
  HoldInv /\ UNCHANGED <<wiped, up, mem, logged, gone, queued, flight, hist, wpc, image,
                         stamp, ckpts>>
    => HoldInv'
  BY DEF HoldInv, Holds, History, Pending

\* NameInv is about the values in the states and their writers.
LEMMA NameKept ==
  NameInv /\ UNCHANGED <<hist, boot, mem, image, ckpts, up, next>> => NameInv'
  BY DEF NameInv, Named

\* HoldInv survives when the history shrinks, the process stops, the worker
\* drops its image, or checkpoints go.
LEMMA HoldShrinks ==
  ASSUME HoldInv, History' \subseteq History, UNCHANGED <<wiped, hist>>,
         up' => up /\ mem' = mem,
         wpc' = "write" => wpc = "write" /\ image' = image /\ stamp' = stamp,
         \A c \in ckpts' : c.ok = "good" => c \in ckpts
  PROVE  HoldInv'
<1> SUFFICES ASSUME ~wiped'
    PROVE  /\ up' => Holds(mem, History)'
           /\ wpc' = "write" => Holds(image, {t \in History : t <= stamp})'
           /\ \A c \in ckpts' : c.ok = "good" =>
                \A t \in History' : t <= c.stamp => \A k \in hist'[t].keys : c.image[k][2] >= t
  BY DEF HoldInv, Holds
<1>1. up' => Holds(mem, History)'
  BY DEF HoldInv, Holds
<1>2. wpc' = "write" => Holds(image, {t \in History : t <= stamp})'
  BY DEF HoldInv, Holds
<1>3. ASSUME NEW c \in ckpts', c.ok = "good", NEW t \in History', t <= c.stamp,
             NEW k \in hist'[t].keys
      PROVE  c.image[k][2] >= t
  BY <1>3 DEF HoldInv, Holds
<1> QED
  BY <1>1, <1>2, <1>3

\* NameInv survives when states are only copied, emptied or dropped.
LEMMA NameShrinks ==
  ASSUME NameInv, TypeOK', UNCHANGED <<hist, boot>>, up' => up /\ next' = next,
         mem' \in {mem, Empty}, image' \in {image, mem, Empty},
         \A c \in ckpts' : c.image = image \/ \E d \in ckpts : c.image = d.image
  PROVE  NameInv'
<1> USE EmptyState
<1>1. ASSUME NEW s, Named(s)
      PROVE  \A k \in Keys : /\ s[k][1] <= boot'
                             /\ up' /\ s[k][1] = boot' => s[k][2] < next'
                             /\ s[k][2] # 0 /\ hist'[s[k][2]].boot = s[k][1]
                                  => k \in hist'[s[k][2]].keys
  BY <1>1 DEF Named
<1>2. \A k \in Keys : Empty[k][1] <= boot' /\ (up' => Empty[k][2] < next') /\ Empty[k][2] = 0
  BY TxNat DEF TypeOK
<1>3. Named(mem)'
  BY <1>1, <1>2 DEF NameInv, Named
<1>4. Named(image)'
  BY <1>1, <1>2 DEF NameInv, Named
<1>5. \A c \in ckpts' : \A k \in Keys :
         /\ c.image[k][1] <= boot'
         /\ up' /\ c.image[k][1] = boot' => c.image[k][2] < next'
         /\ c.image[k][2] # 0 /\ hist'[c.image[k][2]].boot = c.image[k][1]
              => k \in hist'[c.image[k][2]].keys
  <2> SUFFICES ASSUME NEW c \in ckpts', NEW k \in Keys
      PROVE  /\ c.image[k][1] <= boot'
             /\ up' /\ c.image[k][1] = boot' => c.image[k][2] < next'
             /\ c.image[k][2] # 0 /\ hist'[c.image[k][2]].boot = c.image[k][1]
                  => k \in hist'[c.image[k][2]].keys
    OBVIOUS
  <2>1. Named(c.image)
    BY DEF NameInv
  <2> QED
    BY <2>1 DEF Named
<1> QED
  BY <1>3, <1>4, <1>5 DEF NameInv, Named

-----------------------------------------------------------------------------
(* Each action preserves the invariant.                                    *)

\* Calls, rollbacks, a failing log and most of the drain touch nothing the
\* invariant is about.
LEMMA QuietSteps ==
  ASSUME SInv, TypeOK',
         \/ Submit \/ Rollback \/ LogFails \/ DrainBegin \/ DrainTimeout
         \/ DrainDurable \/ DrainReply
  PROVE  SInv'
<1>1. UNCHANGED <<logged, gone, ckpts, hist, up, boot, mem, next, flight, queued, acked,
                  wiped, wpc, stamp, image, sent, mark, highest, lastCkpt, nowAt>>
  <2>1. CASE Submit \/ Rollback
    BY <2>1 DEF Submit, Rollback, disk, worker, request
  <2>2. CASE LogFails \/ DrainBegin \/ DrainTimeout
    BY <2>2 DEF LogFails, DrainBegin, DrainTimeout, disk, worker, pipeline, request
  <2>3. CASE DrainDurable \/ DrainReply
    BY <2>3 DEF DrainDurable, DrainReply, disk, worker, pipeline, request
  <2> QED
    BY <2>1, <2>2, <2>3
<1> QED
  BY <1>1, ControlKept, CompactionKept, OrderKept, StampKept, HoldKept, NameKept DEF SInv

\* A commit takes the next tx_id, above everything there is.
LEMMA CommitStep ==
  ASSUME SInv, TypeOK', NEW W \in SUBSET Keys, Commit(W),
         UNCHANGED <<logged, ckpts, gone, up, boot, queued, acked, wiped, mark, wpc,
                     highest, lastCkpt, stamp, image, nowAt>>
  PROVE  SInv'
<1> USE TxNat
<1>1. TypeOK /\ ControlInv /\ CompactionInv /\ OrderInv /\ StampInv /\ HoldInv /\ NameInv
  BY DEF SInv
<1>2. /\ up /\ flight = 0 /\ next \in Tx /\ next' = next + 1 /\ flight' = next
      /\ next # 0 /\ next \in Nat /\ sent \in Nat /\ sent' \in {sent, next}
  BY <1>1 DEF TypeOK, Commit, Greater, Tx, TxOpt
<1>3. /\ \A t \in Tx : t # next => hist'[t] = hist[t]
      /\ hist'[next] = [keys |-> W, boot |-> boot]
      /\ \A k \in Keys : mem'[k] = IF k \in W THEN <<boot, next>> ELSE mem[k]
  BY <1>1, <1>2 DEF TypeOK, Commit
<1>4. History' = History \cup {next} /\ Pending' = queued \cup {next} /\ Pending = queued
  BY <1>2 DEF History, Pending
<1>5. History \subseteq Tx /\ History \subseteq Nat
  BY <1>1, <1>4 DEF TypeOK, History
<1>6. ControlInv' /\ CompactionInv'
  BY <1>1, <1>2, CompactionKept DEF ControlInv
<1>7. OrderInv'
  <2> SUFFICES ASSUME ~wiped
      PROVE  /\ \A t \in History' : t < next'
             /\ \A t \in Pending', u \in logged \cup gone : u < t
             /\ \A t \in queued : t < next
    BY <1>1, <1>2 DEF OrderInv
  <2>1. \A t \in History : t < next
    BY <1>1, <1>2 DEF OrderInv
  <2>2. logged \cup gone \subseteq History /\ queued \subseteq History
    BY DEF History, Pending
  <2>3. \A t \in queued, u \in logged \cup gone : u < t
    BY <1>1, <1>2, <1>4 DEF OrderInv
  <2>4. \A t \in History' : t < next'
    BY <2>1, <1>2, <1>4, <1>5
  <2>5. \A t \in Pending', u \in logged \cup gone : u < t
    BY <2>1, <2>2, <2>3, <1>4
  <2> QED
    BY <2>1, <2>2, <2>4, <2>5
<1>8. StampInv'
  <2> SUFFICES ASSUME ~wiped
      PROVE  /\ sent' < next' /\ nowAt < next' /\ mark < next' /\ (highest < next' \/ highest <= lastCkpt)
             /\ wpc \in {"snap", "write"} => stamp < next'
             /\ \A c \in ckpts : c.ok = "good" => c.stamp < next'
    BY <1>1, <1>2 DEF StampInv
  <2>1. mark \in Nat /\ nowAt \in Nat /\ highest \in Nat /\ stamp \in Nat /\ \A c \in ckpts : c.stamp \in Nat
    BY <1>1 DEF TypeOK, Checkpoints, Tx, TxOpt
  <2> QED
    BY <2>1, <1>1, <1>2 DEF StampInv
<1>9. HoldInv'
  <2> SUFFICES ASSUME ~wiped
      PROVE  /\ Holds(mem, History)'
             /\ wpc = "write" => Holds(image, {t \in History : t <= stamp})'
             /\ \A c \in ckpts : c.ok = "good" => Holds(c.image, {t \in History : t <= c.stamp})'
    BY <1>2 DEF HoldInv, Holds
  <2>1. \A t \in History : t < next
    BY <1>1, <1>2 DEF OrderInv
  <2>2. \A t \in History : hist'[t] = hist[t]
    BY <2>1, <1>2, <1>3, <1>5
  <2>3. Holds(mem, History)'
    <3> SUFFICES ASSUME NEW t \in History', NEW k \in hist'[t].keys
        PROVE  mem'[k][2] >= t
      BY DEF Holds
    <3>1. CASE t = next
      <4>1. k \in W /\ k \in Keys
        BY <3>1, <1>3
      <4> QED
        BY <4>1, <3>1, <1>2, <1>3
    <3>2. CASE t \in History
      <4>1. k \in hist[t].keys /\ k \in Keys
        BY <3>2, <2>2, <1>1, <1>5 DEF TypeOK
      <4>2. mem[k][2] >= t
        BY <4>1, <3>2, <1>1, <1>2 DEF HoldInv, Holds
      <4> QED
        BY <4>1, <4>2, <3>2, <2>1, <1>2, <1>3, <1>5
    <3> QED
      BY <3>1, <3>2, <1>4
  <2>4. ASSUME wpc = "write" PROVE Holds(image, {t \in History : t <= stamp})'
    <3>1. stamp < next /\ stamp \in Nat
      BY <2>4, <1>1, <1>2 DEF StampInv, TypeOK
    <3>2. {t \in History' : t <= stamp} = {t \in History : t <= stamp}
      BY <3>1, <1>2, <1>4
    <3> QED
      BY <3>2, <2>2, <2>4, <1>1 DEF HoldInv, Holds
  <2>5. ASSUME NEW c \in ckpts, c.ok = "good"
        PROVE  Holds(c.image, {t \in History : t <= c.stamp})'
    <3>1. c.stamp < next /\ c.stamp \in Nat
      BY <2>5, <1>1, <1>2 DEF StampInv, TypeOK, Checkpoints
    <3>2. {t \in History' : t <= c.stamp} = {t \in History : t <= c.stamp}
      BY <3>1, <1>2, <1>4
    <3> QED
      BY <3>2, <2>2, <2>5, <1>1 DEF HoldInv, Holds
  <2> QED
    BY <2>3, <2>4, <2>5
<1>10. ASSUME NEW k \in Keys, NEW v \in Values,
              v[1] <= boot, v[1] = boot => v[2] < next,
              v[2] # 0 /\ hist[v[2]].boot = v[1] => k \in hist[v[2]].keys
       PROVE  /\ v[1] = boot => v[2] < next'
              /\ v[2] # 0 /\ hist'[v[2]].boot = v[1] => k \in hist'[v[2]].keys
  <2>1. v[2] \in TxOpt /\ v[2] \in Nat
    BY DEF Values
  <2>2. CASE v[2] = next
    BY <2>2, <1>2, <1>3, <1>10
  <2>3. CASE v[2] # next /\ v[2] # 0
    <3>1. v[2] \in Tx
      BY <2>1, <2>3 DEF Tx, TxOpt
    <3> QED
      BY <3>1, <2>1, <2>3, <1>2, <1>3, <1>10
  <2>4. CASE v[2] = 0
    BY <2>4, <1>2
  <2> QED
    BY <2>2, <2>3, <2>4
<1>11. ASSUME NEW s \in States, Named(s)
       PROVE  \A k \in Keys : /\ s[k][1] <= boot
                              /\ s[k][1] = boot => s[k][2] < next'
                              /\ s[k][2] # 0 /\ hist'[s[k][2]].boot = s[k][1]
                                   => k \in hist'[s[k][2]].keys
  <2> SUFFICES ASSUME NEW k \in Keys
      PROVE  /\ s[k][1] <= boot
             /\ s[k][1] = boot => s[k][2] < next'
             /\ s[k][2] # 0 /\ hist'[s[k][2]].boot = s[k][1] => k \in hist'[s[k][2]].keys
    OBVIOUS
  <2>1. s[k] \in Values
    BY DEF States
  <2>2. /\ s[k][1] <= boot /\ (s[k][1] = boot => s[k][2] < next)
        /\ s[k][2] # 0 /\ hist[s[k][2]].boot = s[k][1] => k \in hist[s[k][2]].keys
    BY <1>2, <1>11 DEF Named
  <2> QED
    BY <2>1, <2>2, <1>10
<1>12. NameInv'
  <2>1. \A t \in Tx : hist'[t].boot <= boot
    BY <1>1, <1>2, <1>3 DEF NameInv, TypeOK
  <2>2. Named(image)'
    BY <1>1, <1>11 DEF NameInv, Named, TypeOK
  <2>3. \A c \in ckpts : Named(c.image)'
    <3> SUFFICES ASSUME NEW c \in ckpts PROVE Named(c.image)'
      OBVIOUS
    <3>1. c.image \in States /\ Named(c.image)
      BY <1>1 DEF TypeOK, Checkpoints, NameInv
    <3> QED
      BY <3>1, <1>11 DEF Named
  <2>4. Named(mem)'
    <3> SUFFICES ASSUME NEW k \in Keys
        PROVE  /\ mem'[k][1] <= boot
               /\ mem'[k][1] = boot => mem'[k][2] < next'
               /\ mem'[k][2] # 0 /\ hist'[mem'[k][2]].boot = mem'[k][1]
                    => k \in hist'[mem'[k][2]].keys
      BY DEF Named
    <3>1. CASE k \in W
      BY <3>1, <1>1, <1>2, <1>3 DEF TypeOK
    <3>2. CASE k \notin W
      <4>1. mem \in States /\ Named(mem)
        BY <1>1 DEF TypeOK, NameInv
      <4> QED
        BY <4>1, <3>2, <1>3, <1>11
    <3> QED
      BY <3>1, <3>2
  <2> QED
    BY <2>1, <2>2, <2>3, <2>4 DEF NameInv, Named
<1> QED
  BY <1>6, <1>7, <1>8, <1>9, <1>12 DEF SInv

\* A commit reaches the log's queue, or is refused.
LEMMA AppendStep == SInv /\ TypeOK' /\ AppendDiff => SInv'
<1> SUFFICES ASSUME SInv, TypeOK', AppendDiff PROVE SInv'
  OBVIOUS
<1>1. TypeOK /\ ControlInv /\ CompactionInv /\ OrderInv /\ StampInv /\ HoldInv /\ NameInv
  BY DEF SInv
<1>2. /\ UNCHANGED <<logged, gone, ckpts, hist, up, boot, mem, next, acked, wiped, wpc,
                     stamp, image, sent, mark, highest, lastCkpt, nowAt>>
      /\ up /\ flight # 0 /\ flight' = 0 /\ queued' \subseteq queued \cup {flight}
  BY DEF AppendDiff, disk, worker, request
<1>3. Pending' \subseteq Pending /\ History' \subseteq History
  BY <1>2 DEF History, Pending
<1>4. ControlInv' /\ CompactionInv' /\ StampInv'
  BY <1>1, <1>2, CompactionKept, StampKept DEF ControlInv
<1>5. OrderInv'
  BY <1>1, <1>2, <1>3 DEF OrderInv
<1>6. HoldInv'
  BY <1>1, <1>2, <1>3, HoldShrinks
<1>7. NameInv'
  BY <1>1, <1>2, NameKept
<1> QED
  BY <1>4, <1>5, <1>6, <1>7 DEF SInv

\* Only what is in the log is acknowledged.
LEMMA AckStep == SInv /\ TypeOK' /\ Ack => SInv'
<1> SUFFICES ASSUME SInv, TypeOK', Ack PROVE SInv'
  OBVIOUS
<1>1. TypeOK /\ ControlInv /\ CompactionInv /\ OrderInv /\ StampInv /\ HoldInv /\ NameInv
  BY DEF SInv
<1>2. /\ UNCHANGED <<logged, gone, ckpts, hist, up, boot, mem, next, flight, queued, wiped,
                     wpc, stamp, image, sent, mark, highest, lastCkpt, nowAt>>
      /\ acked' \subseteq acked \cup logged
  BY DEF Ack, disk, pipeline, worker, request
<1>3. OrderInv'
  BY <1>1, <1>2 DEF OrderInv, History, Pending
<1> QED
  BY <1>1, <1>2, <1>3, ControlKept, CompactionKept, StampKept, HoldKept, NameKept DEF SInv

\* Records move from the queue to the end of the log.
LEMMA LogWriteStep == ASSUME SInv, TypeOK', NEW m \in Tx, LogWrite(m) PROVE SInv'
<1> DEFINE S == {t \in queued : t <= m}
<1>1. TypeOK /\ ControlInv /\ CompactionInv /\ OrderInv /\ StampInv /\ HoldInv /\ NameInv
  BY DEF SInv
<1>2. /\ UNCHANGED <<gone, ckpts, hist, up, boot, mem, next, flight, acked, wiped, wpc,
                     stamp, image, sent, mark, highest, lastCkpt, nowAt>>
      /\ up /\ logged' = logged \cup S /\ queued' = queued \ S
  BY DEF LogWrite, Log!Record, worker, request
<1>3. History' = History /\ Pending' \subseteq Pending
  BY <1>2 DEF History, Pending
<1>4. queued \subseteq Nat /\ m \in Nat
  BY <1>1, TxNat DEF TypeOK
<1>5. ControlInv' /\ CompactionInv' /\ StampInv' /\ NameInv'
  BY <1>1, <1>2, CompactionKept, StampKept, NameKept DEF ControlInv
<1>6. HoldInv'
  BY <1>1, <1>2, <1>3, HoldShrinks
<1>7. OrderInv'
  <2>1. acked \subseteq logged' \cup gone
    BY <1>1, <1>2 DEF OrderInv
  <2> SUFFICES ASSUME ~wiped
      PROVE  /\ \A t \in gone, u \in logged' : t < u
             /\ \A t \in History' : t < next
             /\ \A t \in Pending', u \in logged' \cup gone : u < t
             /\ \A t \in queued' : flight # 0 => t < flight
    BY <2>1, <1>2 DEF OrderInv
  <2>2. \A t \in gone, u \in logged' : t < u
    <3>1. S \subseteq Pending
      BY DEF Pending
    <3> QED
      BY <3>1, <1>1, <1>2 DEF OrderInv
  <2>3. \A t \in Pending', u \in S : u < t
    <3> SUFFICES ASSUME NEW t \in Pending', NEW u \in S PROVE u < t
      OBVIOUS
    <3>1. CASE t \in queued \ S
      BY <3>1, <1>4
    <3>2. CASE t = flight /\ flight # 0
      BY <3>2, <1>1, <1>2 DEF OrderInv
    <3> QED
      BY <3>1, <3>2, <1>2 DEF Pending
  <2> QED
    BY <2>2, <2>3, <1>1, <1>2, <1>3 DEF OrderInv
<1> QED
  BY <1>5, <1>6, <1>7 DEF SInv

\* The durable watermark stays below the tx_id counter.
LEMMA LogSyncStep == ASSUME SInv, TypeOK', NEW m \in Tx, LogSync(m) PROVE SInv'
<1>1. TypeOK /\ ControlInv /\ CompactionInv /\ OrderInv /\ StampInv /\ HoldInv /\ NameInv
  BY DEF SInv
<1>2. /\ UNCHANGED <<logged, gone, ckpts, hist, up, boot, mem, next, flight, queued, acked,
                     wiped, wpc, stamp, image, sent, highest, lastCkpt, nowAt>>
      /\ up /\ m \in logged /\ mark' = m
  BY DEF LogSync, Log!Sync, worker, request
<1>3. StampInv'
  BY <1>1, <1>2 DEF StampInv, OrderInv, History
<1> QED
  BY <1>1, <1>2, <1>3, ControlKept, CompactionKept, OrderKept, HoldKept, NameKept DEF SInv

\* The cadence check and an on-demand checkpoint take a stamp below the
\* tx_id counter.
LEMMA WorkerStartStep == SInv /\ TypeOK' /\ (WorkerDrain \/ WorkerNow) => SInv'
<1> SUFFICES ASSUME SInv, TypeOK', WorkerDrain \/ WorkerNow PROVE SInv'
  OBVIOUS
<1>1. TypeOK /\ ControlInv /\ CompactionInv /\ OrderInv /\ StampInv /\ HoldInv /\ NameInv
  BY DEF SInv
<1>2. /\ sent \in Nat /\ highest \in Nat /\ lastCkpt \in Nat /\ next \in Nat /\ nowAt \in Nat
      /\ IntervalTx \in Nat /\ IntervalTx # 0
  BY <1>1, TxNat, ShardOptions DEF TypeOK, ShardOptions
<1>3. /\ UNCHANGED <<logged, gone, ckpts, hist, up, boot, mem, next, flight, queued, acked,
                     wiped, image, sent, mark, lastCkpt, nowAt>>
      /\ up /\ wpc = "idle" /\ highest' \in Nat /\ highest' \in {highest, sent, nowAt}
      /\ \/ wpc' = "snap" /\ stamp' = highest' /\ highest' > lastCkpt
         \/ wpc' = "idle" /\ stamp' = stamp
  <2>1. CASE WorkerDrain
    BY <2>1, <1>2 DEF WorkerDrain, Greater, disk, pipeline, request
  <2>2. CASE WorkerNow
    BY <2>2, <1>2 DEF WorkerNow, Greater, disk, pipeline
  <2> QED
    BY <2>1, <2>2
<1>4. ControlInv'
  BY <1>2, <1>3 DEF ControlInv
<1>5. StampInv'
  BY <1>1, <1>2, <1>3 DEF StampInv
<1>6. HoldInv'
  <2>1. History' = History
    BY <1>3 DEF History, Pending
  <2> QED
    BY <2>1, <1>1, <1>3, HoldShrinks
<1> QED
  BY <1>1, <1>3, <1>4, <1>5, <1>6, CompactionKept, OrderKept, NameKept DEF SInv

\* The snapshot holds everything, so also what the stamp claims.
LEMMA WorkerSnapshotStep == SInv /\ TypeOK' /\ WorkerSnapshot => SInv'
<1> SUFFICES ASSUME SInv, TypeOK', WorkerSnapshot PROVE SInv'
  OBVIOUS
<1>1. TypeOK /\ ControlInv /\ CompactionInv /\ OrderInv /\ StampInv /\ HoldInv /\ NameInv
  BY DEF SInv
<1>2. /\ UNCHANGED <<logged, gone, ckpts, hist, up, boot, mem, next, flight, queued, acked,
                     wiped, stamp, sent, mark, highest, lastCkpt, nowAt>>
      /\ up /\ wpc = "snap" /\ wpc' = "write" /\ image' = mem
  BY DEF WorkerSnapshot, disk, pipeline, request
<1>3. ControlInv' /\ StampInv'
  BY <1>1, <1>2 DEF ControlInv, StampInv
<1>4. HoldInv'
  BY <1>1, <1>2 DEF HoldInv, Holds, History, Pending
<1>5. NameInv'
  BY <1>1, <1>2, NameShrinks
<1> QED
  BY <1>1, <1>2, <1>3, <1>4, <1>5, CompactionKept, OrderKept DEF SInv

\* A written checkpoint is newer than every other, so than what compaction
\* has removed.
LEMMA WorkerWriteStep == SInv /\ TypeOK' /\ WorkerWrite => SInv'
<1> SUFFICES ASSUME SInv, TypeOK', WorkerWrite PROVE SInv'
  OBVIOUS
<1> DEFINE new == [stamp |-> stamp, image |-> image, ok |-> "good"]
<1>1. TypeOK /\ ControlInv /\ CompactionInv /\ OrderInv /\ StampInv /\ HoldInv /\ NameInv
  BY DEF SInv
<1>2. /\ UNCHANGED <<logged, gone, hist, up, boot, mem, next, flight, queued, acked, wiped,
                     sent, mark, highest, nowAt>>
      /\ up /\ wpc = "write" /\ wpc' = "prune" /\ image' = Empty /\ lastCkpt' = stamp
      /\ ckpts' = ckpts \cup {new}
      /\ \A c \in ckpts : ~(c.stamp >= stamp)
  BY DEF WorkerWrite, StampRefused, pipeline, request
<1>3. new.stamp = stamp /\ new.image = image /\ new.ok = "good"
  OBVIOUS
<1> HIDE DEF new
<1>4. stamp \in Nat /\ highest \in Nat /\ gone \subseteq Nat /\ \A c \in ckpts : c.stamp \in Nat
  BY <1>1, TxNat DEF TypeOK, Checkpoints
<1>5. ControlInv'
  BY <1>2 DEF ControlInv
<1>6. CompactionInv'
  <2>1. \A t \in gone : t <= stamp
    BY <1>1, <1>2, <1>4 DEF CompactionInv, RetainedReplayable
  <2> QED
    BY <2>1, <1>1, <1>2, <1>3 DEF CompactionInv, RetainedReplayable
<1>7. StampInv'
  BY <1>1, <1>2, <1>3, <1>4 DEF StampInv, ControlInv
<1>8. HoldInv'
  <2>1. History' = History
    BY <1>2 DEF History, Pending
  <2> QED
    BY <2>1, <1>1, <1>2, <1>3 DEF HoldInv, Holds
<1>9. NameInv'
  BY <1>1, <1>2, <1>3, NameShrinks
<1> QED
  BY <1>1, <1>2, <1>5, <1>6, <1>7, <1>8, <1>9, OrderKept DEF SInv

\* A failed checkpoint leaves the worker idle; pruning leaves a checkpoint.
LEMMA WorkerMaintainStep ==
  SInv /\ TypeOK' /\ (WorkerWriteFails \/ WorkerPrune \/ WorkerPruneFails) => SInv'
<1> SUFFICES ASSUME SInv, TypeOK', WorkerWriteFails \/ WorkerPrune \/ WorkerPruneFails
    PROVE  SInv'
  OBVIOUS
<1>1. TypeOK /\ ControlInv /\ CompactionInv /\ OrderInv /\ StampInv /\ HoldInv /\ NameInv
  BY DEF SInv
<1>2. /\ UNCHANGED <<logged, gone, hist, up, boot, mem, next, flight, queued, acked, wiped,
                     sent, mark, highest, lastCkpt, nowAt>>
      /\ up /\ wpc' \in {"idle", "prune", "compact"} /\ image' \in {image, Empty}
      /\ ckpts' \subseteq ckpts
  <2>1. CASE WorkerWriteFails
    BY <2>1 DEF WorkerWriteFails, disk, pipeline, request
  <2>2. CASE WorkerPrune
    BY <2>2 DEF WorkerPrune, pipeline, request
  <2>3. CASE WorkerPruneFails
    BY <2>3 DEF WorkerPruneFails, disk, pipeline, request
  <2> QED
    BY <2>1, <2>2, <2>3
<1>3. ckpts # {} => ckpts' # {}
  <2>1. CASE ckpts' = ckpts
    BY <2>1
  <2>2. CASE WorkerPrune /\ ckpts' # ckpts
    <3>1. PICK c \in ckpts : ckpts' = ckpts \ {c} /\ Cardinality(ckpts) > Retention
      BY <2>2 DEF WorkerPrune
    <3>2. ckpts # {c}
      <4>1. Cardinality({c}) = 1
        BY FS_Singleton
      <4> QED
        BY <3>1, <4>1, ShardOptions DEF ShardOptions
    <3> QED
      BY <3>1, <3>2
  <2> QED
    BY <2>1, <2>2 DEF WorkerWriteFails, WorkerPruneFails, disk
<1>4. ControlInv' /\ StampInv'
  BY <1>1, <1>2 DEF ControlInv, StampInv
<1>5. CompactionInv'
  BY <1>1, <1>2, <1>3 DEF CompactionInv, RetainedReplayable
<1>6. HoldInv'
  <2>1. History' = History
    BY <1>2 DEF History, Pending
  <2> QED
    BY <2>1, <1>1, <1>2, HoldShrinks
<1>7. NameInv'
  BY <1>1, <1>2, NameShrinks
<1> QED
  BY <1>1, <1>2, <1>4, <1>5, <1>6, <1>7, OrderKept DEF SInv

\* Compaction moves a prefix, covered by every checkpoint, out of the log.
LEMMA WorkerCompactStep == SInv /\ TypeOK' /\ WorkerCompact => SInv'
<1> SUFFICES ASSUME SInv, TypeOK', WorkerCompact PROVE SInv'
  OBVIOUS
<1>1. TypeOK /\ ControlInv /\ CompactionInv /\ OrderInv /\ StampInv /\ HoldInv /\ NameInv
  BY DEF SInv
<1>2. /\ UNCHANGED <<ckpts, hist, up, boot, mem, next, flight, queued, acked, wiped, stamp,
                     image, sent, mark, highest, lastCkpt, nowAt>>
      /\ up /\ wpc' = "idle"
  BY DEF WorkerCompact, pipeline
<1>3. PICK c \in ckpts, m \in TxOpt :
        /\ \A d \in ckpts : c.stamp <= d.stamp
        /\ m <= c.stamp /\ logged' = logged \ {t \in logged : t <= m}
        /\ gone' = gone \cup {t \in logged : t <= m}
  BY DEF WorkerCompact, CompactTo, IsOldest, Log!Drop
<1>4. m \in Nat /\ logged \subseteq Nat /\ gone \subseteq Nat /\ \A d \in ckpts : d.stamp \in Nat
  BY <1>1, TxNat DEF TypeOK, Checkpoints
<1>5. logged' \cup gone' = logged \cup gone /\ Pending' = Pending
  BY <1>2, <1>3 DEF Pending
<1>6. History' = History
  BY <1>5 DEF History
<1>7. ControlInv' /\ StampInv'
  BY <1>1, <1>2 DEF ControlInv, StampInv
<1>8. CompactionInv'
  <2>1. \A d \in ckpts, t \in {u \in logged : u <= m} : t <= d.stamp
    BY <1>3, <1>4
  <2> QED
    BY <2>1, <1>1, <1>2, <1>3 DEF CompactionInv, RetainedReplayable
<1>9. OrderInv'
  <2>1. ~wiped => \A t \in gone', u \in logged' : t < u
    <3> SUFFICES ASSUME ~wiped, NEW t \in gone', NEW u \in logged' PROVE t < u
      OBVIOUS
    <3>1. u \in logged /\ u > m
      BY <1>3, <1>4
    <3>2. CASE t \in gone
      BY <3>1, <3>2, <1>1 DEF OrderInv
    <3>3. CASE t <= m /\ t \in logged
      BY <3>1, <3>3, <1>4
    <3> QED
      BY <3>2, <3>3, <1>3
  <2> QED
    BY <2>1, <1>1, <1>2, <1>5, <1>6 DEF OrderInv
<1>10. HoldInv'
  BY <1>1, <1>2, <1>6, HoldShrinks
<1>11. NameInv'
  BY <1>1, <1>2, NameKept
<1> QED
  BY <1>7, <1>8, <1>9, <1>10, <1>11 DEF SInv

\* The drain names the durable watermark, a committed tx_id, to the worker.
LEMMA DrainAskStep == SInv /\ TypeOK' /\ DrainAsk => SInv'
<1> SUFFICES ASSUME SInv, TypeOK', DrainAsk PROVE SInv'
  OBVIOUS
<1>1. TypeOK /\ ControlInv /\ CompactionInv /\ OrderInv /\ StampInv /\ HoldInv /\ NameInv
  BY DEF SInv
<1>2. /\ UNCHANGED <<logged, gone, ckpts, hist, up, boot, mem, next, flight, queued, acked,
                     wiped, wpc, stamp, image, mark, highest, lastCkpt>>
      /\ sent' \in {sent, mark} /\ nowAt' \in {nowAt, sent'}
  BY DEF DrainAsk, Greater, disk, pipeline, request
<1>3. StampInv'
  BY <1>1, <1>2 DEF StampInv
<1> QED
  BY <1>1, <1>2, <1>3, ControlKept, CompactionKept, OrderKept, HoldKept, NameKept DEF SInv

\* A crash takes the process, a machine crash also a suffix of the log.
LEMMA CrashStep == SInv /\ TypeOK' /\ (ProcessCrash \/ OSCrash) => SInv'
<1> SUFFICES ASSUME SInv, TypeOK', ProcessCrash \/ OSCrash PROVE SInv'
  OBVIOUS
<1>1. TypeOK /\ ControlInv /\ CompactionInv /\ OrderInv /\ StampInv /\ HoldInv /\ NameInv
  BY DEF SInv
<1>2. /\ UNCHANGED <<gone, ckpts, hist, boot, wiped>>
      /\ ~up' /\ mem' = Empty /\ image' = Empty /\ wpc' = "idle" /\ queued' = {} /\ flight' = 0
  BY DEF ProcessCrash, OSCrash, Down, Fresh, disk
<1>3. logged' \subseteq logged /\ acked' \subseteq acked \ (logged \ logged')
  <2>1. CASE ProcessCrash
    BY <2>1 DEF ProcessCrash, disk
  <2>2. CASE OSCrash
    BY <2>2 DEF OSCrash, Log!Lose
  <2> QED
    BY <2>1, <2>2
<1>4. History' \subseteq History
  BY <1>2, <1>3 DEF History, Pending
<1>5. ControlInv' /\ StampInv'
  BY <1>2 DEF ControlInv, StampInv
<1>6. OrderInv'
  BY <1>1, <1>2, <1>3 DEF OrderInv
<1>7. HoldInv'
  BY <1>1, <1>2, <1>4, HoldShrinks
<1>8. NameInv'
  BY <1>1, <1>2, NameShrinks
<1> QED
  BY <1>1, <1>2, <1>5, <1>6, <1>7, <1>8, CompactionKept DEF SInv

\* A damaged checkpoint keeps its stamp and promises less.
LEMMA RotStep == SInv /\ TypeOK' /\ Rot => SInv'
<1> SUFFICES ASSUME SInv, TypeOK', Rot PROVE SInv'
  OBVIOUS
<1>1. TypeOK /\ ControlInv /\ CompactionInv /\ OrderInv /\ StampInv /\ HoldInv /\ NameInv
  BY DEF SInv
<1>2. /\ UNCHANGED <<logged, gone, hist, up, boot, mem, next, flight, queued, acked, wiped,
                     wpc, stamp, image, sent, mark, highest, lastCkpt, nowAt>>
  BY DEF Rot, pipeline, worker, request
<1>3. PICK c \in ckpts, how \in {"object", "manifest"} :
        ckpts' = (ckpts \ {c}) \cup {[c EXCEPT !.ok = how]}
  BY DEF Rot
<1> DEFINE bad == [c EXCEPT !.ok = how]
<1>4. bad.stamp = c.stamp /\ bad.image = c.image /\ bad.ok # "good"
  BY <1>1 DEF TypeOK, Checkpoints
<1>5. ckpts' = (ckpts \ {c}) \cup {bad}
  BY <1>3
<1> HIDE DEF bad
<1>6. CompactionInv'
  BY <1>1, <1>2, <1>4, <1>5 DEF CompactionInv, RetainedReplayable
<1>7. StampInv'
  BY <1>1, <1>2, <1>4, <1>5 DEF StampInv
<1>8. HoldInv'
  <2>1. History' = History
    BY <1>2 DEF History, Pending
  <2>2. \A d \in ckpts' : d.ok = "good" => d \in ckpts
    BY <1>4, <1>5
  <2> QED
    BY <2>1, <2>2, <1>1, <1>2, HoldShrinks
<1>9. NameInv'
  <2>1. \A d \in ckpts' : \E e \in ckpts : d.image = e.image
    BY <1>4, <1>5
  <2> QED
    BY <2>1, <1>1, <1>2, NameShrinks
<1> QED
  BY <1>1, <1>2, <1>6, <1>7, <1>8, <1>9, ControlKept, OrderKept DEF SInv

-----------------------------------------------------------------------------
(* Recovery.                                                               *)

\* What recover() works from: n the stamp it replays over, l the end of the
\* log, base the state it starts from.
RecoveryFrom(n, l, base) ==
  /\ base \in States
  /\ \/ n = 0 /\ base = Empty
     \/ \E c \in ckpts : c.stamp = n /\ c.ok = "good" /\ c.image = base
  /\ \A c \in ckpts : c.ok = "good" => c.stamp <= n
  /\ \A t \in logged : t <= l
  /\ mem' = Replayed(base, {t \in logged : t > n})
  /\ next' = Greater(l, n) + 1 /\ mark' = l
  /\ wiped' = (wiped \/ (n = 0 /\ gone # {}))

\* A step of Recover starts from a verifying checkpoint or from nothing.
LEMMA RecoverFacts ==
  ASSUME TypeOK, Recover
  PROVE  /\ \E n, l \in TxOpt, base \in States : RecoveryFrom(n, l, base)
         /\ up' /\ boot' = boot + 1 /\ UNCHANGED <<logged, gone, ckpts, hist, acked>>
         /\ flight' = 0 /\ queued' = {} /\ wpc' = "idle" /\ sent' = 0 /\ highest' = lastCkpt'
         /\ nowAt' = 0 /\ image' = Empty /\ ~up
<1>1. PICK n \in TxOpt, l \in TxOpt, w \in TxOpt :
        /\ NewestStamp(n, {"good"}) /\ IsLast(l, logged)
        /\ \/ n = 0 /\ Fresh(Replayed(Empty, ReplayFrom(0)), ResumeAt(l, n), l, w)
           \/ \E c \in ckpts : /\ c.stamp = n /\ c.ok = "good"
                               /\ Fresh(Replayed(c.image, ReplayFrom(n)), ResumeAt(l, n), l, w)
        /\ wiped' = (wiped \/ (n = 0 /\ gone # {}))
  BY DEF Recover
<1>2. \A c \in ckpts : c.ok = "good" => c.stamp <= n
  BY <1>1 DEF NewestStamp, IsLast
<1>3. \A t \in logged : t <= l
  BY <1>1 DEF IsLast
<1>4. PICK base \in States :
        /\ \/ n = 0 /\ base = Empty
           \/ \E c \in ckpts : c.stamp = n /\ c.ok = "good" /\ c.image = base
        /\ Fresh(Replayed(base, ReplayFrom(n)), ResumeAt(l, n), l, w)
  <2>1. CASE n = 0 /\ Fresh(Replayed(Empty, ReplayFrom(0)), ResumeAt(l, n), l, w)
    BY <2>1, EmptyState
  <2>2. ASSUME NEW c \in ckpts, c.stamp = n, c.ok = "good",
               Fresh(Replayed(c.image, ReplayFrom(n)), ResumeAt(l, n), l, w)
        PROVE  \E b \in States :
                 /\ \/ n = 0 /\ b = Empty
                    \/ \E d \in ckpts : d.stamp = n /\ d.ok = "good" /\ d.image = b
                 /\ Fresh(Replayed(b, ReplayFrom(n)), ResumeAt(l, n), l, w)
    <3>1. c.image \in States
      BY DEF TypeOK, Checkpoints
    <3> QED
      BY <2>2, <3>1
  <2> QED
    BY <1>1, <2>1, <2>2
<1>5. RecoveryFrom(n, l, base)
  BY <1>1, <1>2, <1>3, <1>4 DEF RecoveryFrom, Fresh, ReplayFrom, ResumeAt
<1> QED
  BY <1>4, <1>5 DEF Recover, Fresh, disk

\* What replay did to each row: the last writer past the stamp, or the value
\* the checkpoint had.
LEMMA RecoveredRows ==
  ASSUME TypeOK, NEW n \in TxOpt, NEW l \in TxOpt, NEW base \in States,
         RecoveryFrom(n, l, base), NEW k \in Keys
  PROVE  \/ \E t \in logged : /\ t > n /\ k \in hist[t].keys /\ mem'[k] = <<hist[t].boot, t>>
                              /\ \A u \in logged : u > n /\ k \in hist[u].keys => u <= t
         \/ (\A t \in logged : t > n => k \notin hist[t].keys) /\ mem'[k] = base[k]
<1> DEFINE S == {t \in logged : t > n}
<1>1. S \in SUBSET Tx /\ hist \in [Tx -> [keys: SUBSET Keys, boot: Nat]]
  BY DEF TypeOK
<1>2. mem' = Replayed(base, S)
  BY DEF RecoveryFrom
<1> HIDE DEF S
<1>3. \/ \E t \in S : LastWriter(k, S, t) /\ Replayed(base, S)[k] = <<hist[t].boot, t>>
      \/ (\A t \in S : k \notin hist[t].keys) /\ Replayed(base, S)[k] = base[k]
  BY <1>1, ReplayedFacts
<1>4. \/ \E t \in S : LastWriter(k, S, t) /\ mem'[k] = <<hist[t].boot, t>>
      \/ (\A t \in S : k \notin hist[t].keys) /\ mem'[k] = base[k]
  BY <1>2, <1>3, Zenon
<1> QED
  BY <1>4 DEF LastWriter, S

\* What recovery found when nothing was lost: every removed record is covered
\* by the checkpoint it starts from.
LEMMA RecoveredBase ==
  ASSUME SInv, ~up, NEW n \in TxOpt, NEW l \in TxOpt, NEW base \in States,
         RecoveryFrom(n, l, base), ~wiped'
  PROVE  /\ ~wiped /\ \A t \in gone : t <= n
         /\ \A t \in logged \cup gone : t <= n => \A k \in hist[t].keys : base[k][2] >= t
<1>1. TypeOK /\ CompactionInv /\ HoldInv
  BY DEF SInv
<1>2. ~wiped /\ (n = 0 => gone = {})
  BY DEF RecoveryFrom
<1>3. CASE n = 0
  BY <1>1, <1>2, <1>3 DEF TypeOK, Tx
<1>4. CASE n # 0
  <2>1. PICK c \in ckpts : c.stamp = n /\ c.ok = "good" /\ c.image = base
    BY <1>4 DEF RecoveryFrom
  <2>2. logged \cup gone \subseteq History
    BY DEF History
  <2> QED
    BY <2>1, <2>2, <1>1, <1>2 DEF CompactionInv, RetainedReplayable, HoldInv, Holds
<1> QED
  BY <1>3, <1>4

\* Recovery rebuilds a state that holds everything the log ever kept, and
\* resumes past it.
LEMMA RecoverStep == SInv /\ TypeOK' /\ Recover => SInv'
<1> SUFFICES ASSUME SInv, TypeOK', Recover PROVE SInv'
  OBVIOUS
<1> USE TxNat
<1>1. TypeOK /\ ControlInv /\ CompactionInv /\ OrderInv /\ StampInv /\ HoldInv /\ NameInv
  BY DEF SInv
<1>2. /\ up' /\ boot' = boot + 1 /\ UNCHANGED <<logged, gone, ckpts, hist, acked>>
      /\ flight' = 0 /\ queued' = {} /\ wpc' = "idle" /\ sent' = 0 /\ highest' = lastCkpt'
      /\ nowAt' = 0 /\ image' = Empty /\ ~up
  BY <1>1, RecoverFacts
<1>3. PICK n \in TxOpt, l \in TxOpt, base \in States : RecoveryFrom(n, l, base)
  BY <1>1, RecoverFacts
<1>4. n \in Nat /\ l \in Nat /\ boot \in Nat /\ logged \subseteq Nat /\ gone \subseteq Nat
      /\ (\A c \in ckpts : c.stamp \in Nat) /\ (\A t \in Tx : hist[t].boot \in Nat)
      /\ (\A t \in Tx : hist[t].keys \subseteq Keys)
      /\ logged \cup gone \subseteq Tx
  BY <1>1 DEF TypeOK, Checkpoints
<1>5. n < next' /\ l < next' /\ mark' = l /\ next' \in Nat
  BY <1>3, <1>4 DEF RecoveryFrom, Greater
<1>6. History' = logged \cup gone /\ Pending' = {} /\ logged \cup gone \subseteq History
  BY <1>2 DEF History, Pending
<1>7. ControlInv' /\ CompactionInv'
  BY <1>1, <1>2, CompactionKept DEF ControlInv
<1>8. ~wiped' => /\ ~wiped /\ \A t \in gone : t <= n
                 /\ \A t \in logged \cup gone : t <= n => \A k \in hist[t].keys : base[k][2] >= t
  BY <1>2, <1>3, RecoveredBase
<1>9. OrderInv'
  <2>1. \A t \in logged : t < next'
    <3> SUFFICES ASSUME NEW t \in logged PROVE t < next'
      OBVIOUS
    <3>1. t <= l /\ t \in Nat /\ l \in Nat
      BY <1>3, <1>4 DEF RecoveryFrom
    <3> QED
      BY <3>1, <1>5
  <2>2. ~wiped' => \A t \in gone : t < next'
    BY <1>4, <1>5, <1>8
  <2> QED
    BY <2>1, <2>2, <1>1, <1>2, <1>6, <1>8 DEF OrderInv
<1>10. StampInv'
  <2>1. \A c \in ckpts : c.ok = "good" => c.stamp < next'
    BY <1>3, <1>4, <1>5 DEF RecoveryFrom
  <2> QED
    BY <2>1, <1>2, <1>5, <1>4 DEF StampInv, TypeOK
<1>11. HoldInv'
  <2> SUFFICES ASSUME ~wiped'
      PROVE  /\ \A t \in logged \cup gone : \A k \in hist[t].keys : mem'[k][2] >= t
             /\ \A c \in ckpts : c.ok = "good" => Holds(c.image, {t \in History : t <= c.stamp})
    BY <1>2, <1>6 DEF HoldInv, Holds
  <2>1. \A c \in ckpts : c.ok = "good" => Holds(c.image, {t \in History : t <= c.stamp})
    BY <1>1, <1>8 DEF HoldInv
  <2>2. ASSUME NEW t \in logged \cup gone, NEW k \in hist[t].keys
        PROVE  mem'[k][2] >= t
    <3>1. k \in Keys /\ t \in Nat
      BY <1>4
    <3>2. ASSUME NEW u \in logged, u > n, mem'[k] = <<hist[u].boot, u>>,
                 \A v \in logged : v > n /\ k \in hist[v].keys => v <= u
          PROVE  mem'[k][2] >= t
      <4>1. mem'[k][2] = u
        BY <3>2
      <4>2. CASE t <= n
        BY <4>1, <4>2, <3>1, <3>2, <1>4
      <4>3. CASE t > n
        <5>1. t \in logged
          BY <4>3, <1>4, <1>8
        <5> QED
          BY <5>1, <4>1, <4>3, <3>1, <3>2, <1>4
      <4> QED
        BY <4>2, <4>3, <3>1, <1>4
    <3>3. ASSUME \A v \in logged : v > n => k \notin hist[v].keys, mem'[k] = base[k]
          PROVE  mem'[k][2] >= t
      <4>1. t <= n
        <5>1. CASE t \in gone
          BY <5>1, <1>8
        <5>2. CASE t \in logged
          <6>1. ~(t > n)
            BY <5>2, <3>3
          <6> QED
            BY <6>1, <3>1, <1>4
        <5> QED
          BY <5>1, <5>2
      <4> QED
        BY <4>1, <3>3, <1>8
    <3>4. \/ \E u \in logged :
                /\ u > n /\ k \in hist[u].keys /\ mem'[k] = <<hist[u].boot, u>>
                /\ \A v \in logged : v > n /\ k \in hist[v].keys => v <= u
          \/ (\A v \in logged : v > n => k \notin hist[v].keys) /\ mem'[k] = base[k]
      BY <3>1, <1>1, <1>3, RecoveredRows
    <3> QED
      BY <3>2, <3>3, <3>4
  <2> QED
    BY <2>1, <2>2
<1>12. NameInv'
  <2>1. \A t \in Tx : hist[t].boot <= boot'
    <3> SUFFICES ASSUME NEW t \in Tx PROVE hist[t].boot <= boot'
      OBVIOUS
    <3>1. hist[t].boot <= boot /\ hist[t].boot \in Nat
      BY <1>1, <1>4 DEF NameInv
    <3> QED
      BY <3>1, <1>2, <1>4
  <2>2. ASSUME NEW s \in States, Named(s), NEW k \in Keys
        PROVE  /\ s[k][1] <= boot /\ s[k][1] \in Nat
               /\ s[k][2] # 0 /\ hist[s[k][2]].boot = s[k][1] => k \in hist[s[k][2]].keys
    BY <2>2 DEF Named, States, Values
  <2>3. \A k \in Keys : /\ Empty[k][1] <= boot' /\ Empty[k][1] # boot' /\ Empty[k][2] = 0
    BY EmptyState, <1>2, <1>4
  <2>4. Named(image)'
    BY <2>3, <1>2 DEF Named
  <2>5. \A c \in ckpts : \A k \in Keys :
           /\ c.image[k][1] <= boot' /\ c.image[k][1] # boot'
           /\ c.image[k][2] # 0 /\ hist[c.image[k][2]].boot = c.image[k][1]
                => k \in hist[c.image[k][2]].keys
    <3> SUFFICES ASSUME NEW c \in ckpts, NEW k \in Keys
        PROVE  /\ c.image[k][1] <= boot' /\ c.image[k][1] # boot'
               /\ c.image[k][2] # 0 /\ hist[c.image[k][2]].boot = c.image[k][1]
                    => k \in hist[c.image[k][2]].keys
      OBVIOUS
    <3>1. c.image \in States /\ Named(c.image)
      BY <1>1 DEF TypeOK, Checkpoints, NameInv
    <3> QED
      BY <3>1, <2>2, <1>2, <1>4
  <2>6. \A k \in Keys :
          /\ base[k][1] <= boot' /\ base[k][1] # boot'
          /\ base[k][2] # 0 /\ hist[base[k][2]].boot = base[k][1]
               => k \in hist[base[k][2]].keys
    <3>1. CASE base = Empty
      BY <3>1, <2>3
    <3>2. ASSUME NEW c \in ckpts, c.image = base
          PROVE  \A k \in Keys :
                   /\ base[k][1] <= boot' /\ base[k][1] # boot'
                   /\ base[k][2] # 0 /\ hist[base[k][2]].boot = base[k][1]
                        => k \in hist[base[k][2]].keys
      BY <3>2, <2>5
    <3> QED
      BY <3>1, <3>2, <1>3 DEF RecoveryFrom
  <2>7. Named(mem)'
    <3> SUFFICES ASSUME NEW k \in Keys
        PROVE  /\ mem'[k][1] <= boot' /\ mem'[k][1] # boot'
               /\ mem'[k][2] # 0 /\ hist[mem'[k][2]].boot = mem'[k][1]
                    => k \in hist[mem'[k][2]].keys
      BY <1>2 DEF Named
    <3>1. ASSUME NEW u \in logged, k \in hist[u].keys, mem'[k] = <<hist[u].boot, u>>
          PROVE  /\ mem'[k][1] <= boot' /\ mem'[k][1] # boot'
                 /\ mem'[k][2] # 0 /\ hist[mem'[k][2]].boot = mem'[k][1]
                      => k \in hist[mem'[k][2]].keys
      <4>1. mem'[k][1] = hist[u].boot /\ mem'[k][2] = u /\ hist[u].boot <= boot
        BY <3>1, <1>1, <1>4 DEF NameInv
      <4> QED
        BY <4>1, <3>1, <1>2, <1>4
    <3>2. CASE mem'[k] = base[k]
      BY <3>2, <2>6
    <3> QED
      BY <3>1, <3>2, <1>1, <1>3, RecoveredRows
  <2> QED
    BY <2>1, <2>4, <2>5, <2>7, <1>2 DEF NameInv, Named
<1> QED
  BY <1>7, <1>9, <1>10, <1>11, <1>12 DEF SInv

-----------------------------------------------------------------------------
(* The theorems.                                                           *)

\* The invariant holds of the shard as it starts, empty.
LEMMA InitSInv == Init => SInv
<1> SUFFICES ASSUME Init PROVE SInv
  OBVIOUS
<1> USE TxNat, EmptyState
<1>1. TypeOK
  <2>1. hist \in [Tx -> [keys: SUBSET Keys, boot: Nat]]
    BY DEF Init, NoRecord
  <2>2. /\ up \in BOOLEAN /\ failed \in BOOLEAN /\ mail \in BOOLEAN /\ barrier \in BOOLEAN
        /\ quiesced \in BOOLEAN /\ wiped \in BOOLEAN
    BY DEF Init
  <2>3. next \in 1..(MaxTx + 1) /\ jobs \in 0..QueueCapacity /\ ckpts \subseteq Checkpoints
    BY ShardOptions DEF Init, ShardOptions
  <2> QED
    BY <2>1, <2>2, <2>3 DEF Init, TypeOK
<1>2. ControlInv /\ CompactionInv /\ OrderInv /\ StampInv /\ HoldInv
  BY DEF Init, ControlInv, CompactionInv, RetainedReplayable, OrderInv, StampInv, HoldInv,
         Holds, History, Pending
<1>3. NameInv
  BY DEF Init, NameInv, Named, NoRecord
<1> QED
  BY <1>1, <1>2, <1>3 DEF SInv

\* Every step preserves the invariant.
LEMMA NextSInv == SInv /\ [Next]_vars => SInv'
<1> SUFFICES ASSUME SInv, [Next]_vars PROVE SInv'
  OBVIOUS
<1>1. CASE UNCHANGED vars
  <2>1. UNCHANGED <<logged, gone, ckpts, hist, up, boot, mem, next, flight, queued, acked,
                    wiped, wpc, stamp, image, sent, mark, highest, lastCkpt, nowAt>>
    BY <1>1 DEF vars, disk, pipeline, worker, request
  <2>2. TypeOK'
    BY <1>1 DEF SInv, TypeOK, vars, disk, pipeline, worker, request, draining, faults
  <2> QED
    BY <2>1, <2>2, ControlKept, CompactionKept, OrderKept, StampKept, HoldKept, NameKept
       DEF SInv
<1>2. CASE Next
  <2>1. TypeOK'
    BY <1>2, TypeStep DEF SInv
  <2>2. ASSUME NEW W \in SUBSET Keys, Execute(W) PROVE SInv'
    BY <2>1, <2>2, CommitStep DEF Execute, request
  <2>3. ASSUME ExecuteBarrier PROVE SInv'
    <3>1. {} \in SUBSET Keys
      OBVIOUS
    <3> QED
      BY <2>1, <2>3, <3>1, CommitStep DEF ExecuteBarrier, request
  <2>4. ASSUME NEW t \in Tx, LogWrite(t) \/ LogSync(t) PROVE SInv'
    BY <2>1, <2>4, LogWriteStep, LogSyncStep
  <2> QED
    BY <1>2, <2>1, <2>2, <2>3, <2>4, QuietSteps, AppendStep, AckStep, WorkerStartStep,
       WorkerSnapshotStep, WorkerWriteStep, WorkerMaintainStep, WorkerCompactStep,
       DrainAskStep, CrashStep, RotStep, RecoverStep
       DEF Next
<1> QED
  BY <1>1, <1>2

\* The invariant holds of every reachable state of the shard.
THEOREM ShardInvariant == Spec => []SInv
  BY InitSInv, NextSInv, PTL DEF Spec

\* The types of txn/mod.rs, checkpoint/worker.rs and graceful.rs are kept, and
\* with them the capacity of the reducer queue.
THEOREM ShardTypes == Spec => []TypeOK
<1>1. SInv => TypeOK
  BY DEF SInv
<1> QED
  BY <1>1, ShardInvariant, PTL

\* An acknowledged transaction is served, or overwritten by a later one, after
\* any number of checkpoints, compactions, crashes and recoveries.
THEOREM AckedStayVisible == Spec => []AckedVisible
<1>1. SInv => AckedVisible
  BY DEF SInv, OrderInv, HoldInv, Holds, History, AckedVisible
<1> QED
  BY <1>1, ShardInvariant, PTL

\* Compaction never removes a record that a retained checkpoint lacks.
THEOREM RetainedStayReplayable == Spec => []RetainedReplayable
<1>1. SInv => RetainedReplayable
  BY DEF SInv, CompactionInv
<1> QED
  BY <1>1, ShardInvariant, PTL

\* The tx_id counter is above everything logged, queued, compacted or
\* acknowledged, also after a recovery that fell back or lost a suffix.
THEOREM IdsStayFresh == Spec => []IdsFresh
<1>1. SInv => IdsFresh
  BY DEF SInv, OrderInv, History, Pending, IdsFresh
<1> QED
  BY <1>1, ShardInvariant, PTL

\* A checkpoint's stamp never claims a transaction its image lacks.
THEOREM StampsStayLowerBounds == Spec => []StampsAreLowerBounds
<1>1. SInv => StampsAreLowerBounds
  BY DEF SInv, HoldInv, Holds, History, StampsAreLowerBounds
<1> QED
  BY <1>1, ShardInvariant, PTL

\* Only recovery starts a process.
LEMMA StartsByRecover == [Next]_vars /\ ~up /\ up' => Recover
<1> SUFFICES ASSUME [Next]_vars, ~up, up' PROVE Recover
  OBVIOUS
<1>1. Next
  BY DEF vars
<1>2. ~Submit /\ ~Rollback /\ ~ExecuteBarrier /\ ~AppendDiff /\ ~Ack /\ ~LogFails
  BY DEF Submit, Rollback, ExecuteBarrier, Commit, AppendDiff, Ack, LogFails
<1>3. (\A W \in SUBSET Keys : ~Execute(W)) /\ (\A t \in Tx : ~LogWrite(t) /\ ~LogSync(t))
  BY DEF Execute, Commit, LogWrite, LogSync
<1>4. /\ ~WorkerDrain /\ ~WorkerNow /\ ~WorkerSnapshot /\ ~WorkerWrite /\ ~WorkerWriteFails
      /\ ~WorkerPrune /\ ~WorkerPruneFails /\ ~WorkerCompact
  BY DEF WorkerDrain, WorkerNow, WorkerSnapshot, WorkerWrite, WorkerWriteFails, WorkerPrune,
         WorkerPruneFails, WorkerCompact
<1>5. ~DrainBegin /\ ~DrainTimeout /\ ~DrainDurable /\ ~DrainAsk /\ ~DrainReply
  BY DEF DrainBegin, DrainTimeout, DrainDurable, DrainAsk, DrainReply
<1>6. ~ProcessCrash /\ ~OSCrash /\ ~Rot
  BY DEF ProcessCrash, OSCrash, Down, Rot
<1> QED
  BY <1>1, <1>2, <1>3, <1>4, <1>5, <1>6 DEF Next

\* The last writer of a row is unique.
LEMMA LastWriterUnique ==
  ASSUME NEW k, NEW S \in SUBSET Tx, NEW t, NEW u, LastWriter(k, S, t), LastWriter(k, S, u)
  PROVE  t = u
<1>1. t \in Nat /\ u \in Nat /\ t <= u /\ u <= t
  BY TxNat DEF LastWriter
<1> QED
  BY <1>1

\* Recovery lands on the full-log replay: past the stamp replay applies the
\* last writer itself; below it the checkpoint has that writer, or a later one
\* that the log also has, hence the same.
LEMMA RecoveryIsExact ==
  ASSUME SInv, Recover, ~wiped', \A c \in ckpts : OnlyLogged(c.image)
  PROVE  mem' = FullReplay
<1> USE TxNat
<1> DEFINE A == logged \cup gone
<1>1. TypeOK /\ NameInv
  BY DEF SInv
<1>2. ~up
  BY DEF Recover
<1>3. PICK n \in TxOpt, l \in TxOpt, base \in States : RecoveryFrom(n, l, base)
  BY <1>1, RecoverFacts
<1>4. /\ ~wiped /\ \A t \in gone : t <= n
      /\ \A t \in A : t <= n => \A k \in hist[t].keys : base[k][2] >= t
  BY <1>2, <1>3, RecoveredBase
<1>5. A \in SUBSET Tx /\ n \in Nat /\ hist \in [Tx -> [keys: SUBSET Keys, boot: Nat]]
  BY <1>1 DEF TypeOK
<1>6. \A k \in Keys : base[k] # Absent =>
         base[k][2] \in A /\ hist[base[k][2]].boot = base[k][1] /\ k \in hist[base[k][2]].keys
  <2>1. CASE base = Empty
    BY <2>1, EmptyState DEF Absent
  <2>2. ASSUME NEW c \in ckpts, c.image = base, NEW k \in Keys, base[k] # Absent
        PROVE  base[k][2] \in A /\ hist[base[k][2]].boot = base[k][1]
               /\ k \in hist[base[k][2]].keys
    <3>1. base[k][2] \in A /\ hist[base[k][2]].boot = base[k][1]
      BY <2>2 DEF OnlyLogged
    <3>2. base[k][2] # 0
      BY <3>1, <1>5 DEF Tx
    <3> QED
      BY <3>1, <3>2, <2>2, <1>1 DEF NameInv, Named
  <2> QED
    BY <2>1, <2>2, <1>3 DEF RecoveryFrom
<1>7. /\ FullReplay \in States
      /\ \A k \in Keys :
           \/ \E t \in A : LastWriter(k, A, t) /\ FullReplay[k] = <<hist[t].boot, t>>
           \/ (\A t \in A : k \notin hist[t].keys) /\ FullReplay[k] = <<0, 0>>
  <2> HIDE DEF A
  <2>1. FullReplay = Replayed(Empty, A)
    BY DEF FullReplay, A
  <2>2. /\ Replayed(Empty, A) \in States
        /\ \A k \in Keys :
             \/ \E t \in A : LastWriter(k, A, t) /\ Replayed(Empty, A)[k] = <<hist[t].boot, t>>
             \/ (\A t \in A : k \notin hist[t].keys) /\ Replayed(Empty, A)[k] = Empty[k]
    BY <1>5, EmptyState, ReplayedFacts
  <2> QED
    BY <2>1, <2>2, EmptyState, Zenon
<1>8. ASSUME NEW k \in Keys PROVE mem'[k] = FullReplay[k]
  <2>1. \/ \E t \in logged : /\ t > n /\ k \in hist[t].keys /\ mem'[k] = <<hist[t].boot, t>>
                             /\ \A u \in logged : u > n /\ k \in hist[u].keys => u <= t
        \/ (\A t \in logged : t > n => k \notin hist[t].keys) /\ mem'[k] = base[k]
    BY <1>1, <1>3, RecoveredRows
  <2>2. ASSUME NEW t \in logged, t > n, k \in hist[t].keys, mem'[k] = <<hist[t].boot, t>>,
               \A u \in logged : u > n /\ k \in hist[u].keys => u <= t
        PROVE  mem'[k] = FullReplay[k]
    <3>1. ASSUME NEW u \in A, k \in hist[u].keys PROVE u <= t
      <4>1. u \in Nat /\ t \in Nat
        BY <1>5
      <4>2. CASE u <= n
        BY <4>1, <4>2, <2>2, <1>5
      <4>3. CASE u > n /\ u \in logged
        BY <4>3, <3>1, <2>2
      <4>4. CASE u \in gone
        BY <4>4, <4>1, <2>2, <1>4, <1>5
      <4> QED
        BY <4>1, <4>2, <4>3, <4>4, <1>5
    <3>2. LastWriter(k, A, t)
      BY <3>1, <2>2 DEF LastWriter
    <3>3. PICK v \in A : LastWriter(k, A, v) /\ FullReplay[k] = <<hist[v].boot, v>>
      BY <2>2, <1>7
    <3>4. v = t
      <4> HIDE DEF A
      <4> QED
        BY <3>2, <3>3, <1>5, LastWriterUnique
    <3> QED
      BY <3>3, <3>4, <2>2
  <2>3. ASSUME \A t \in logged : t > n => k \notin hist[t].keys, mem'[k] = base[k]
        PROVE  mem'[k] = FullReplay[k]
    <3>1. base[k] \in Values
      BY DEF States
    <3>2. CASE \A t \in A : k \notin hist[t].keys
      <4>1. base[k] = Absent
        BY <3>2, <1>6
      <4> QED
        BY <4>1, <3>2, <2>3, <1>7 DEF LastWriter, Absent
    <3>3. ASSUME NEW t \in A, LastWriter(k, A, t), FullReplay[k] = <<hist[t].boot, t>>
          PROVE  mem'[k] = FullReplay[k]
      <4>1. k \in hist[t].keys /\ t \in Nat /\ t # 0
        BY <3>3, <1>5 DEF LastWriter, Tx
      <4>2. t <= n
        <5>1. CASE t \in gone
          BY <5>1, <1>4
        <5>2. CASE t \in logged
          <6>1. ~(t > n)
            BY <5>2, <4>1, <2>3
          <6> QED
            BY <6>1, <4>1, <1>5
        <5> QED
          BY <5>1, <5>2
      <4>3. base[k][2] >= t /\ base[k][2] \in Nat
        BY <4>1, <4>2, <3>1, <1>4 DEF Values
      <4>4. base[k] # Absent
        BY <4>1, <4>3 DEF Absent
      <4>5. base[k][2] \in A /\ hist[base[k][2]].boot = base[k][1] /\ k \in hist[base[k][2]].keys
        BY <4>4, <1>6
      <4>6. base[k][2] = t
        <5>1. base[k][2] <= t
          BY <4>5, <3>3 DEF LastWriter
        <5> QED
          BY <5>1, <4>1, <4>3
      <4>7. base[k] = <<base[k][1], base[k][2]>>
        BY <3>1 DEF Values
      <4> QED
        BY <4>5, <4>6, <4>7, <3>3, <2>3
    <3> QED
      BY <3>2, <3>3, <1>7
  <2> QED
    BY <2>1, <2>2, <2>3
<1>9. mem' \in States
  <2> DEFINE S == {t \in logged : t > n}
  <2>1. S \in SUBSET Tx /\ mem' = Replayed(base, S)
    BY <1>3, <1>5 DEF RecoveryFrom
  <2> HIDE DEF S
  <2>2. Replayed(base, S) \in States
    BY <2>1, <1>5, ReplayedFacts
  <2> QED
    BY <2>1, <2>2, Zenon
<1> QED
  BY <1>7, <1>8, <1>9 DEF States

\* checkpoint/mod.rs: checkpoint + replay is the full-log replay, whenever
\* the log still has everything the snapshots had seen.
THEOREM RecoveryExact == Spec => RecoversExactly
<1>1. SInv /\ [Next]_vars =>
        [~up /\ up' /\ ~wiped' /\ (\A c \in ckpts : OnlyLogged(c.image)) =>
           mem' = FullReplay]_vars
  BY StartsByRecover, RecoveryIsExact
<1> QED
  BY <1>1, ShardInvariant, PTL DEF Spec, RecoversExactly

-----------------------------------------------------------------------------
(* The drain.                                                              *)

\* The values the drain compares are naturals.
DrainNums ==
  /\ next \in Nat /\ next >= 1 /\ sent \in Nat /\ nowAt \in Nat /\ mark \in Nat
  /\ highest \in Nat /\ lastCkpt \in Nat /\ stamp \in Nat /\ flight \in Nat
  /\ drained \in Nat /\ jobs \in Nat /\ logged \subseteq Nat /\ queued \subseteq Nat
  /\ \A c \in ckpts : c.stamp \in Nat

LEMMA DrainTypes == TypeOK => DrainNums
<1> SUFFICES ASSUME TypeOK PROVE DrainNums
  OBVIOUS
<1>1. /\ sent \in Nat /\ nowAt \in Nat /\ mark \in Nat /\ highest \in Nat /\ lastCkpt \in Nat
      /\ stamp \in Nat /\ flight \in Nat /\ drained \in Nat
      /\ logged \subseteq Nat /\ queued \subseteq Nat
  BY TxNat DEF TypeOK
<1>2. next \in Nat /\ next >= 1 /\ jobs \in Nat
  BY TxNat, ShardOptions DEF TypeOK, ShardOptions
<1>3. \A c \in ckpts : c.stamp \in Nat
  BY TxNat DEF TypeOK, Checkpoints
<1> QED
  BY <1>1, <1>2, <1>3 DEF DrainNums

\* The tx_id counter stays ahead of everything the process has named.
LEMMA CounterStep == SInv /\ CounterInv /\ Next => CounterInv'
<1> SUFFICES ASSUME SInv, CounterInv, Next PROVE CounterInv'
  OBVIOUS
<1> USE DEF disk, pipeline, worker, request, draining, faults
<1>t. TypeOK /\ ControlInv /\ DrainNums
  BY DrainTypes DEF SInv
<1>0. ASSUME UNCHANGED <<next, sent, nowAt, mark, highest, lastCkpt, flight>>, up' => up,
             logged' \cup queued' \subseteq logged \cup queued
      PROVE  CounterInv'
  BY <1>0 DEF CounterInv
<1>1. CASE Submit \/ Rollback \/ Ack \/ LogFails
  BY <1>1, <1>0 DEF Submit, Rollback, Ack, LogFails
<1>2. ASSUME NEW W \in SUBSET Keys, Commit(W),
             UNCHANGED <<up, logged, queued, nowAt, mark, highest, lastCkpt>>
      PROVE  CounterInv'
  <2>1. next' = next + 1 /\ flight' = next /\ sent' \in {sent, next}
    BY <1>2 DEF Commit, Greater
  <2> QED
    BY <1>2, <1>t, <2>1 DEF CounterInv, DrainNums
<1>3. CASE ExecuteBarrier \/ \E W \in SUBSET Keys : Execute(W)
  BY <1>3, <1>2 DEF ExecuteBarrier, Execute
<1>4. CASE AppendDiff
  <2>1. /\ UNCHANGED <<up, next, sent, nowAt, mark, highest, lastCkpt, logged>>
        /\ up /\ flight' = 0 /\ queued' \subseteq queued \cup {flight}
    BY <1>4 DEF AppendDiff
  <2> QED
    BY <2>1, <1>t DEF CounterInv, DrainNums
<1>5. ASSUME NEW t \in Tx, LogWrite(t) PROVE CounterInv'
  <2>1. logged' \cup queued' \subseteq logged \cup queued
    BY <1>5 DEF LogWrite, Log!Record
  <2> QED
    BY <1>5, <2>1, <1>0 DEF LogWrite
<1>6. ASSUME NEW t \in Tx, LogSync(t) PROVE CounterInv'
  <2>1. /\ UNCHANGED <<up, next, sent, nowAt, highest, lastCkpt, logged, queued, flight>>
        /\ up /\ mark' = t /\ t \in logged
    BY <1>6 DEF LogSync, Log!Sync
  <2> QED
    BY <2>1 DEF CounterInv
<1>7. CASE WorkerDrain \/ WorkerNow
  <2>1. /\ UNCHANGED <<up, next, sent, nowAt, mark, lastCkpt, logged, queued, flight>>
        /\ up /\ (highest' = highest \/ highest' = sent \/ highest' = nowAt)
    BY <1>7 DEF WorkerDrain, WorkerNow, Greater
  <2> QED
    BY <2>1, <1>t DEF CounterInv, DrainNums
<1>8. CASE WorkerWrite
  <2>1. /\ UNCHANGED <<up, next, sent, nowAt, mark, highest, logged, queued, flight>>
        /\ up /\ lastCkpt' = stamp /\ stamp = highest
    BY <1>8, <1>t DEF WorkerWrite, ControlInv
  <2>2. highest' <= lastCkpt'
    BY <2>1, <1>t DEF DrainNums
  <2> QED
    BY <2>1, <2>2 DEF CounterInv
<1>9. CASE WorkerSnapshot \/ WorkerWriteFails \/ WorkerPrune \/ WorkerPruneFails
  BY <1>9, <1>0 DEF WorkerSnapshot, WorkerWriteFails, WorkerPrune, WorkerPruneFails
<1>10. CASE WorkerCompact
  <2>1. logged' \subseteq logged
    BY <1>10 DEF WorkerCompact, Log!Drop
  <2> QED
    BY <1>10, <2>1, <1>0 DEF WorkerCompact
<1>11. CASE DrainBegin \/ DrainTimeout \/ DrainDurable \/ DrainReply
  BY <1>11, <1>0 DEF DrainBegin, DrainTimeout, DrainDurable, DrainReply
<1>12. CASE DrainAsk
  <2>1. /\ UNCHANGED <<up, next, mark, highest, lastCkpt, logged, queued, flight>>
        /\ up /\ sent' \in {sent, mark} /\ nowAt' \in {nowAt, sent'}
    BY <1>12 DEF DrainAsk, Greater
  <2> QED
    BY <2>1 DEF CounterInv
<1>13. CASE ProcessCrash \/ OSCrash
  BY <1>13 DEF ProcessCrash, OSCrash, Down, CounterInv
<1>14. CASE Rot
  BY <1>14, <1>0 DEF Rot
<1>15. CASE Recover
  <2>1. PICK n \in TxOpt, l \in TxOpt, w \in TxOpt, s \in {mem'} :
          IsLast(l, logged) /\ Fresh(s, ResumeAt(l, n), l, w)
    BY <1>15 DEF Recover, Fresh
  <2>2. n \in Nat /\ l \in Nat /\ w \in Nat /\ \A t \in logged : t <= l
    BY <2>1, TxNat DEF IsLast
  <2>3. /\ next' = ResumeAt(l, n) + 1 /\ queued' = {} /\ flight' = 0 /\ mark' = l /\ sent' = 0
        /\ nowAt' = 0 /\ highest' = w /\ lastCkpt' = w /\ logged' = logged
    BY <2>1, <1>15 DEF Fresh, Recover
  <2>4. next' \in Nat /\ l < next' /\ 0 < next'
    BY <2>2, <2>3 DEF ResumeAt, Greater
  <2> QED
    BY <2>2, <2>3, <2>4, <1>t DEF CounterInv, DrainNums
<1> QED
  BY <1>1, <1>3, <1>4, <1>5, <1>6, <1>7, <1>8, <1>9, <1>10, <1>11, <1>12, <1>13, <1>14,
     <1>15 DEF Next

\* Nothing commits behind the drain's barrier.
LEMMA BarrierStep == SInv /\ CounterInv /\ BarrierLast /\ Next => BarrierLast'
<1> SUFFICES ASSUME SInv, CounterInv, BarrierLast, Next PROVE BarrierLast'
  OBVIOUS
<1> USE DEF disk, pipeline, worker, request, draining, faults
<1>t. TypeOK /\ DrainNums
  BY DrainTypes DEF SInv
<1>0. ASSUME UNCHANGED <<up, next, jobs, flight, mark, drain, barrier, drained>>
      PROVE  BarrierLast'
  BY <1>0 DEF BarrierLast
<1>1. CASE Submit
  <2>1. UNCHANGED <<up, next, flight, mark, drain, barrier, drained>> /\ drain = "no"
    BY <1>1 DEF Submit
  <2> QED
    BY <2>1 DEF BarrierLast
<1>2. CASE Rollback
  <2>1. UNCHANGED <<up, next, flight, mark, drain, barrier, drained>> /\ flight = 0 /\ jobs > 0
    BY <1>2 DEF Rollback
  <2> QED
    BY <2>1, <1>t DEF BarrierLast, DrainNums
<1>3. ASSUME NEW W \in SUBSET Keys, Execute(W) PROVE BarrierLast'
  <2>1. UNCHANGED <<up, mark, drain, barrier, drained>> /\ flight = 0 /\ jobs > 0
    BY <1>3 DEF Execute, Commit
  <2> QED
    BY <2>1, <1>t DEF BarrierLast, DrainNums
<1>4. CASE ExecuteBarrier
  <2>1. /\ UNCHANGED <<up, mark, drain, jobs, drained>> /\ jobs = 0
        /\ barrier /\ barrier' = FALSE /\ next' = next + 1 /\ flight' = next
    BY <1>4 DEF ExecuteBarrier, Commit
  <2>2. drained = 0
    BY <2>1 DEF BarrierLast
  <2> QED
    BY <2>1, <2>2, <1>t DEF BarrierLast, DrainNums
<1>5. CASE AppendDiff
  <2>1. /\ UNCHANGED <<up, next, jobs, mark, barrier>> /\ up /\ flight # 0 /\ flight' = 0
        /\ \/ UNCHANGED <<drain, drained>> /\ ~IsBarrier
           \/ IsBarrier /\ drain' = "ask" /\ drained' = drained
           \/ IsBarrier /\ drain' = "durable" /\ drained' = flight
    BY <1>5 DEF AppendDiff
  <2>2. drained = 0
    BY <2>1 DEF BarrierLast
  <2> QED
    BY <2>1, <2>2, <1>t DEF BarrierLast, DrainNums, IsBarrier
<1>6. CASE Ack \/ LogFails \/ \E t \in Tx : LogWrite(t)
  BY <1>6, <1>0 DEF Ack, LogFails, LogWrite
<1>7. ASSUME NEW t \in Tx, LogSync(t) PROVE BarrierLast'
  <2>1. UNCHANGED <<up, next, jobs, flight, drain, barrier, drained>> /\ mark' = t /\ t > mark
    BY <1>7 DEF LogSync
  <2>2. t \in Nat
    BY TxNat
  <2> QED
    BY <2>1, <2>2, <1>t DEF BarrierLast, DrainNums
<1>8. CASE WorkerDrain \/ WorkerNow \/ WorkerSnapshot \/ WorkerWrite
  BY <1>8, <1>0 DEF WorkerDrain, WorkerNow, WorkerSnapshot, WorkerWrite
<1>9. CASE WorkerWriteFails \/ WorkerPrune \/ WorkerPruneFails \/ WorkerCompact
  BY <1>9, <1>0 DEF WorkerWriteFails, WorkerPrune, WorkerPruneFails, WorkerCompact
<1>10. CASE DrainBegin
  <2>1. UNCHANGED <<up, next, jobs, flight, mark>> /\ drained' = 0
        /\ ((drain' = "barrier" /\ barrier' = TRUE) \/ drain' = "ask")
    BY <1>10 DEF DrainBegin
  <2> QED
    BY <2>1 DEF BarrierLast
<1>11. CASE DrainTimeout
  BY <1>11 DEF DrainTimeout, BarrierLast
<1>12. CASE DrainDurable
  <2>1. /\ UNCHANGED <<up, next, jobs, flight, mark, barrier>> /\ drain' = "ask"
        /\ ((mark >= drained /\ drained' = drained) \/ drained' = 0)
    BY <1>12 DEF DrainDurable
  <2> QED
    BY <2>1 DEF BarrierLast
<1>13. CASE DrainAsk
  <2>1. /\ UNCHANGED <<up, next, jobs, flight, mark, barrier, drained>>
        /\ drain = "ask" /\ drain' \in {"err", "done", "wait"}
    BY <1>13 DEF DrainAsk
  <2> QED
    BY <2>1 DEF BarrierLast
<1>14. CASE DrainReply
  <2>1. /\ UNCHANGED <<up, next, jobs, flight, mark, barrier, drained>>
        /\ drain = "wait" /\ drain' \in {"err", "done"}
    BY <1>14 DEF DrainReply
  <2> QED
    BY <2>1 DEF BarrierLast
<1>15. CASE ProcessCrash \/ OSCrash \/ Recover
  <2>1. drained' = 0 /\ drain' = "no" /\ barrier' = FALSE
    BY <1>15 DEF ProcessCrash, OSCrash, Recover, Down, Fresh
  <2> QED
    BY <2>1 DEF BarrierLast
<1>16. CASE Rot
  BY <1>16, <1>0 DEF Rot
<1> QED
  BY <1>1, <1>2, <1>3, <1>4, <1>5, <1>6, <1>7, <1>8, <1>9, <1>10, <1>11, <1>12, <1>13,
     <1>14, <1>15, <1>16 DEF Next

\* The worker's part of the drain reads only these variables.
LEMMA FinalKept ==
  FinalCheckpoint /\ UNCHANGED <<ckpts, mem, next, wpc, highest, lastCkpt, stamp, image, now,
                                nowAt, drain, drained>> => FinalCheckpoint'
  BY DEF FinalCheckpoint, NewestServed, Settled

\* The worker answers "ok" only with the state of the last commit written,
\* and neither pruning nor a later cadence check touches it.
LEMMA FinalStep ==
  SInv /\ CounterInv /\ BarrierLast /\ FinalCheckpoint /\ Next => FinalCheckpoint'
<1> SUFFICES ASSUME SInv, CounterInv, BarrierLast, FinalCheckpoint, Next PROVE FinalCheckpoint'
  OBVIOUS
<1> USE DEF disk, pipeline, worker, request, draining, faults
<1>t. TypeOK /\ ControlInv /\ DrainNums
  BY DrainTypes DEF SInv
<1>z. drained' = 0 => FinalCheckpoint'
  BY DEF FinalCheckpoint
<1>1. CASE Submit \/ Rollback \/ Ack \/ LogFails \/ \E t \in Tx : LogWrite(t) \/ LogSync(t)
  <2>1. CASE \E t \in Tx : LogWrite(t) \/ LogSync(t)
    BY <2>1, FinalKept DEF LogWrite, LogSync
  <2>2. CASE Submit \/ Rollback \/ Ack \/ LogFails
    BY <2>2, FinalKept DEF Submit, Rollback, Ack, LogFails
  <2> QED
    BY <1>1, <2>1, <2>2
<1>2. CASE ExecuteBarrier \/ \E W \in SUBSET Keys : Execute(W)
  <2>1. drained' = drained /\ (jobs > 0 \/ barrier)
    BY <1>2 DEF ExecuteBarrier, Execute, Commit
  <2>2. drained = 0
    BY <2>1, <1>t DEF BarrierLast, DrainNums
  <2> QED
    BY <2>1, <2>2, <1>z
<1>3. CASE AppendDiff
  <2>1. /\ UNCHANGED <<ckpts, mem, next, wpc, highest, lastCkpt, stamp, image, now, nowAt>>
        /\ flight # 0
        /\ \/ UNCHANGED <<drain, drained>>
           \/ IsBarrier /\ drain' = "ask" /\ drained' = drained
           \/ drain' = "durable"
    BY <1>3 DEF AppendDiff
  <2> QED
    BY <2>1, FinalKept DEF FinalCheckpoint
<1>4. CASE WorkerDrain
  <2> SUFFICES ASSUME drained' # 0 PROVE FinalCheckpoint'
    BY <1>z
  <2>1. /\ UNCHANGED <<ckpts, mem, next, lastCkpt, image, now, nowAt, drain, drained>>
        /\ up /\ wpc = "idle" /\ now # "asked" /\ highest' = Greater(highest, sent)
        /\ (highest' >= lastCkpt + IntervalTx \/ UNCHANGED <<wpc, stamp>>)
    BY <1>4 DEF WorkerDrain
  <2>2. drained # 0 /\ sent <= next - 1
    BY <2>1, <1>t DEF CounterInv, DrainNums
  <2>3. highest = next - 1 /\ lastCkpt = next - 1 => highest' = next - 1 /\ wpc' = wpc
    BY <2>1, <2>2, <1>t, ShardOptions DEF ShardOptions, DrainNums, Greater
  <2>4. NewestServed' <=> NewestServed
    BY <2>1 DEF NewestServed
  <2>5. drain = "wait" /\ now = "running" => FALSE
    BY <2>1, <2>2 DEF FinalCheckpoint
  <2>6. Settled => Settled'
    BY <2>1, <2>3 DEF Settled
  <2> HIDE DEF NewestServed, Settled
  <2> QED
    BY <2>1, <2>2, <2>4, <2>5, <2>6 DEF FinalCheckpoint
<1>5. CASE WorkerNow
  <2> SUFFICES ASSUME drained' # 0 PROVE FinalCheckpoint'
    BY <1>z
  <2>1. /\ UNCHANGED <<ckpts, mem, next, lastCkpt, image, nowAt, drain, drained>>
        /\ up /\ wpc = "idle" /\ now = "asked" /\ highest' = Greater(highest, nowAt)
        /\ \/ highest' > lastCkpt /\ wpc' = "snap" /\ stamp' = highest' /\ now' = "running"
           \/ now' = "nothing"
    BY <1>5 DEF WorkerNow
  <2>2. nowAt = next - 1 /\ highest' > lastCkpt => highest' = next - 1
    BY <2>1, <1>t DEF CounterInv, DrainNums, Greater
  <2>3. drain # "done"
    BY <2>1 DEF FinalCheckpoint
  <2> QED
    BY <2>1, <2>2, <2>3 DEF FinalCheckpoint
<1>6. CASE WorkerSnapshot
  <2>1. /\ UNCHANGED <<ckpts, mem, next, lastCkpt, highest, stamp, now, nowAt, drain, drained>>
        /\ wpc = "snap" /\ wpc' = "write" /\ image' = mem
    BY <1>6 DEF WorkerSnapshot
  <2> QED
    BY <2>1 DEF FinalCheckpoint, Settled
<1>7. CASE WorkerWrite
  <2>1. /\ UNCHANGED <<mem, next, highest, now, nowAt, drain, drained>>
        /\ wpc = "write" /\ wpc' = "prune" /\ lastCkpt' = stamp /\ ~StampRefused
        /\ ckpts' = ckpts \cup {[stamp |-> stamp, image |-> image, ok |-> "good"]}
    BY <1>7 DEF WorkerWrite
  <2>2. ASSUME stamp = next - 1, image = mem PROVE NewestServed'
    <3> DEFINE c == [stamp |-> stamp, image |-> image, ok |-> "good"]
    <3>1. c.stamp = stamp /\ c.image = image /\ c \in ckpts'
      BY <2>1
    <3>2. \A d \in ckpts : d.stamp < stamp
      BY <2>1, <1>t DEF StampRefused, DrainNums
    <3>3. \A d \in ckpts' : d = c \/ d \in ckpts
      BY <2>1
    <3> HIDE DEF c
    <3>4. \A d \in ckpts' : d = c \/ d.stamp < c.stamp
      BY <3>1, <3>2, <3>3
    <3> QED
      BY <3>1, <3>4, <2>1, <2>2 DEF NewestServed
  <2> QED
    BY <2>1, <2>2 DEF FinalCheckpoint, Settled
<1>8. CASE WorkerWriteFails
  <2>1. /\ UNCHANGED <<ckpts, mem, next, lastCkpt, highest, nowAt, drain, drained>>
        /\ wpc = "write" /\ now' = IF now = "running" THEN "failed" ELSE now
    BY <1>8 DEF WorkerWriteFails, Answer
  <2> QED
    BY <2>1 DEF FinalCheckpoint, Settled
<1>9. CASE WorkerPrune
  <2>1. /\ UNCHANGED <<mem, next, lastCkpt, highest, stamp, image, now, nowAt, drain, drained>>
        /\ wpc = "prune" /\ wpc' \in {"prune", "compact"}
    BY <1>9 DEF WorkerPrune
  <2>2. ASSUME NewestServed PROVE NewestServed'
    <3>1. CASE ckpts' = ckpts
      BY <3>1, <2>1, <2>2 DEF NewestServed
    <3>2. CASE ckpts' # ckpts
      <4>1. PICK o \in ckpts : IsOldest(o) /\ ckpts' = ckpts \ {o} /\ Cardinality(ckpts) > Retention
        BY <3>2, <1>9 DEF WorkerPrune
      <4>2. PICK c \in ckpts : /\ c.stamp = next - 1 /\ c.image = mem
                              /\ \A d \in ckpts : d = c \/ d.stamp < c.stamp
        BY <2>2 DEF NewestServed
      <4>3. o # c
        <5> SUFFICES ASSUME o = c PROVE FALSE
          OBVIOUS
        <5>1. Cardinality({c}) = 1
          BY FS_Singleton
        <5>2. ckpts # {c}
          BY <4>1, <5>1, ShardOptions DEF ShardOptions
        <5>3. PICK d \in ckpts : d # c
          BY <5>2
        <5> QED
          BY <4>1, <4>2, <5>3, <1>t DEF IsOldest, DrainNums
      <4> QED
        BY <4>1, <4>2, <4>3, <2>1 DEF NewestServed
    <3> QED
      BY <3>1, <3>2
  <2> QED
    BY <2>1, <2>2 DEF FinalCheckpoint, Settled
<1>10. CASE WorkerPruneFails
  <2>1. /\ UNCHANGED <<ckpts, mem, next, lastCkpt, highest, stamp, image, now, nowAt, drain, drained>>
        /\ wpc = "prune" /\ wpc' = "compact"
    BY <1>10 DEF WorkerPruneFails
  <2>2. NewestServed' <=> NewestServed
    BY <2>1 DEF NewestServed
  <2> QED
    BY <2>1, <2>2 DEF FinalCheckpoint, Settled
<1>11. CASE WorkerCompact
  <2>1. /\ UNCHANGED <<ckpts, mem, next, lastCkpt, highest, stamp, image, nowAt, drain, drained>>
        /\ wpc = "compact" /\ wpc' = "idle" /\ now' = IF now = "running" THEN "ok" ELSE now
    BY <1>11 DEF WorkerCompact, Answer
  <2>2. NewestServed' <=> NewestServed
    BY <2>1 DEF NewestServed
  <2> QED
    BY <2>1, <2>2 DEF FinalCheckpoint, Settled
<1>12. CASE DrainBegin \/ DrainTimeout \/ ProcessCrash \/ OSCrash \/ Recover
  BY <1>12, <1>z DEF DrainBegin, DrainTimeout, ProcessCrash, OSCrash, Recover, Down, Fresh
<1>13. CASE DrainDurable
  BY <1>13, <1>z DEF DrainDurable, FinalCheckpoint
<1>14. CASE DrainAsk
  <2> SUFFICES ASSUME drained' # 0 PROVE FinalCheckpoint'
    BY <1>z
  <2>1. /\ UNCHANGED <<next, drained>> /\ up /\ drain = "ask" /\ drained # 0
        /\ \/ drain' = "err"
           \/ drain' = "done" /\ mark = 0
           \/ drain' = "wait" /\ now' = "asked" /\ nowAt' = Greater(sent, mark)
    BY <1>14 DEF DrainAsk
  <2>2. mark = next - 1 /\ next - 1 # 0
    BY <2>1, <1>t DEF BarrierLast, CounterInv, DrainNums
  <2>3. Greater(sent, mark) = next - 1
    BY <2>1, <2>2, <1>t DEF CounterInv, DrainNums, Greater
  <2> QED
    BY <2>1, <2>2, <2>3 DEF FinalCheckpoint
<1>15. CASE DrainReply
  <2>1. /\ UNCHANGED <<ckpts, mem, next, wpc, lastCkpt, highest, stamp, image, nowAt, drained>>
        /\ drain = "wait" /\ now' = "no" /\ ((now = "ok" /\ drain' = "done") \/ drain' = "err")
    BY <1>15 DEF DrainReply
  <2>2. (NewestServed' <=> NewestServed) /\ (Settled' <=> Settled)
    BY <2>1 DEF NewestServed, Settled
  <2> QED
    BY <2>1, <2>2 DEF FinalCheckpoint
<1>16. CASE Rot
  <2>1. UNCHANGED <<mem, next, wpc, lastCkpt, highest, stamp, image, now, nowAt, drain, drained>>
    BY <1>16 DEF Rot
  <2>2. PICK r \in ckpts, how \in {"object", "manifest"} :
          ckpts' = (ckpts \ {r}) \cup {[r EXCEPT !.ok = how]}
    BY <1>16 DEF Rot
  <2> DEFINE q == [r EXCEPT !.ok = how]
  <2>3. q.stamp = r.stamp /\ q.image = r.image
    BY DEF TypeOK, Checkpoints
  <2>4. ckpts' = (ckpts \ {r}) \cup {q}
    BY <2>2
  <2> HIDE DEF q
  <2>5. ASSUME NewestServed PROVE NewestServed'
    <3>1. PICK c \in ckpts : /\ c.stamp = next - 1 /\ c.image = mem
                            /\ \A d \in ckpts : d = c \/ d.stamp < c.stamp
      BY <2>5 DEF NewestServed
    <3>2. CASE c = r
      BY <3>1, <3>2, <2>1, <2>3, <2>4 DEF NewestServed
    <3>3. CASE c # r
      <4>1. c \in ckpts' /\ \A d \in ckpts' : d = c \/ d.stamp < c.stamp
        BY <3>1, <3>3, <2>3, <2>4
      <4> QED
        BY <4>1, <3>1, <2>1 DEF NewestServed
    <3> QED
      BY <3>2, <3>3
  <2>6. Settled' <=> Settled
    BY <2>1 DEF Settled
  <2> QED
    BY <2>1, <2>5, <2>6 DEF FinalCheckpoint
<1> QED
  BY <1>1, <1>2, <1>3, <1>4, <1>5, <1>6, <1>7, <1>8, <1>9, <1>10, <1>11, <1>12, <1>13,
     <1>14, <1>15, <1>16 DEF Next

\* The drain's own invariant, on top of SInv.
THEOREM DrainInvariant == Spec => []DrainInv
<1>1. Init => DrainInv
  BY DEF Init, DrainInv, CounterInv, BarrierLast, FinalCheckpoint
<1>2. SInv /\ DrainInv /\ [Next]_vars => DrainInv'
  <2>1. CASE UNCHANGED vars
    <3>1. UNCHANGED <<ckpts, mem, next, wpc, highest, lastCkpt, stamp, image, now, nowAt, drain,
                      drained, up, jobs, flight, mark, barrier, logged, queued, sent>>
      BY <2>1 DEF vars, disk, pipeline, worker, request, draining
    <3> QED
      BY <3>1, FinalKept DEF DrainInv, CounterInv, BarrierLast
  <2>2. CASE Next
    BY <2>2, CounterStep, BarrierStep, FinalStep DEF DrainInv
  <2> QED
    BY <2>1, <2>2
<1> QED
  BY <1>1, <1>2, ShardInvariant, PTL DEF Spec

\* A drain that reports its final checkpoint over a durable barrier leaves the
\* next boot nothing to replay: no commit slipped behind the barrier, the
\* snapshot is of the last commit, and pruning kept it.
THEOREM DrainCoversAll == Spec => []DrainCovers
<1>1. DrainInv => DrainCovers
  BY DEF DrainInv, FinalCheckpoint, NewestServed, DrainCovers
<1> QED
  BY <1>1, DrainInvariant, PTL

=============================================================================
