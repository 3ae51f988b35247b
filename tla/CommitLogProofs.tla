--------------------------- MODULE CommitLogProofs ---------------------------
(***************************************************************************)
(* Machine-checked proofs about CommitLog, for every number of             *)
(* transactions, epochs, crashes and faults, every queue depth and batch   *)
(* size.  IInv (module CommitLogInv) holds initially (InitInv) and is      *)
(* preserved by every action (one lemma per action); the theorems follow   *)
(* from it, and close() with what DrainInv adds.                           *)
(***************************************************************************)
EXTENDS CommitLogInv, TLAPS

-----------------------------------------------------------------------------
(* Facts about the constant sets and about typed states.                   *)

\* Transaction ids are positive naturals, 0 is the id of nothing.
LEMMA TxFacts ==
  /\ \A t \in Tx : t \in Nat /\ t > 0 /\ t \in TxOpt
  /\ \A t \in TxOpt : t \in Nat /\ (t = 0 \/ t \in Tx)
  /\ 0 \in TxOpt
  /\ \A c \in Nat : \A t \in Tx : t \in 1..c <=> t <= c
  BY BoundsAreNat DEF BoundsAreNat, Tx, TxOpt

\* What TypeOK says of the values the invariants compare.
Nums ==
  /\ live \subseteq Tx /\ headed \subseteq live /\ torn \subseteq live
  /\ \A t \in Tx : home[t] \in Nat
  /\ stable \subseteq Tx /\ issued \subseteq Tx /\ buf \subseteq Tx
  /\ acked \subseteq Tx /\ confirmed \subseteq Tx
  /\ lastAppended \in Nat /\ lastWritten \in Nat /\ writtenMark \in Nat /\ durableMark \in Nat
  /\ cHandle \in Nat /\ cWritten \in Nat /\ sHandle \in Nat /\ sTarget \in Nat
  /\ current \in Nat /\ covered \in Nat /\ syncFaults \in Nat /\ osCrashes \in Nat
  /\ bootEpoch \in Nat /\ wEpoch \in Nat /\ \A t \in Tx : entryEpoch[t] \in Nat
  /\ batch \in Nat /\ Len(queue) \in Nat
  /\ \A i \in 1..Len(queue) : queue[i].op \in {"append", "epoch"} /\ queue[i].arg \in Nat

\* What the type of the channel says of its commands: an append carries a
\* tx_id, a set_epoch an epoch.
LEMMA CommandFacts ==
  /\ \A c \in Command : c.op \in {"append", "epoch"} /\ c.arg \in Nat
  /\ \A c \in Command : c.op = "append" => c.arg \in Tx
  /\ \A c \in Command : c.op = "epoch" => c.arg \in Epochs
  /\ \A t \in Tx : [op |-> "append", arg |-> t] \in Command
  /\ \A e \in Epochs : [op |-> "epoch", arg |-> e] \in Command
  BY TxFacts, BoundsAreNat DEF BoundsAreNat, Command, Epochs

\* The type invariant, weakened to the numeric facts the steps below use.
LEMMA TypeNums == TypeOK => Nums
<1> SUFFICES ASSUME TypeOK PROVE Nums
  OBVIOUS
<1> USE TxFacts DEF TypeOK, ValuesOK
<1>1. \A i \in 1..Len(queue) : queue[i].op \in {"append", "epoch"} /\ queue[i].arg \in Nat
  BY CommandFacts
<1>2. /\ bootEpoch \in Nat /\ wEpoch \in Nat /\ \A t \in Tx : entryEpoch[t] \in Nat
      /\ Len(queue) \in Nat
  BY BoundsAreNat DEF BoundsAreNat, Epochs
<1> QED
  BY <1>1, <1>2 DEF Nums

\* A log opened on an empty directory satisfies the inductive invariant.
LEMMA InitInv == Init => IInv
<1> SUFFICES ASSUME Init PROVE IInv
  OBVIOUS
<1> USE BoundsAreNat, OptionsValid DEF BoundsAreNat, OptionsValid, Init, OnDisk, Tx, TxOpt
<1>1. FlagsOK
  BY DEF FlagsOK
<1>2. ValuesOK
  BY DEF ValuesOK, Epochs, Command
<1>3. QueueInv
  BY DEF QueueInv, Rotating, Queued
<1>4. DiskInv /\ NameInv /\ ControlInv /\ WriterInv /\ MarkInv /\ EpochInv /\ Promises
  BY DEF DiskInv, NameInv, ControlInv, WriterInv, MarkInv, EpochInv, Promises, Healthy, IsLast,
         IsTail, Sealed, NamesBelow, Predecessors, Accounted, Queued, Rotating
<1> QED
  BY <1>1, <1>2, <1>3, <1>4 DEF IInv, TypeOK

\* Predecessors survives a step that only removes commands and keeps what is
\* accounted for.
LEMMA PredecessorsStep ==
  ASSUME Nums, QueueInv, Predecessors, Len(queue') \in Nat,
         \A i \in 1..Len(queue') : queue'[i].op = "append" =>
           \E j \in 1..Len(queue) : queue'[i] = queue[j],
         \A x \in Nat : Accounted(x) => Accounted(x)'
  PROVE  Predecessors'
<1> SUFFICES ASSUME NEW i \in 1..Len(queue'), queue'[i].op = "append"
             PROVE  \E x \in Nat : x = queue'[i].arg - 1 /\ Accounted(x)'
  BY DEF Predecessors
<1>1. PICK j \in 1..Len(queue) : queue'[i] = queue[j]
  OBVIOUS
<1>2. queue[j].arg - 1 \in Nat
  BY <1>1 DEF Nums, QueueInv
<1> QED
  BY <1>1, <1>2 DEF Predecessors

-----------------------------------------------------------------------------
(* One lemma per action of the handle.                                     *)

\* A new record enters the queue above every other one.
LEMMA AppendTxInv ==
  ASSUME IInv, NEW t \in Tx, AppendTx(t)
  PROVE  IInv'
<1> USE TxFacts
<1>i. /\ TypeOK /\ QueueInv /\ DiskInv /\ NameInv
      /\ ControlInv /\ WriterInv /\ MarkInv /\ EpochInv /\ Promises
  BY DEF IInv
<1>n. Nums
  BY <1>i, TypeNums
<1>f. /\ live' = live /\ headed' = headed /\ home' = home /\ stable' = stable
      /\ torn' = torn /\ eio' = eio /\ holed' = holed /\ up' = up /\ wpc' = wpc
      /\ why' = why /\ batch' = batch /\ buf' = buf /\ current' = current
      /\ lastWritten' = lastWritten /\ rxClosed' = rxClosed /\ wfailed' = wfailed
      /\ spc' = spc /\ sHandle' = sHandle /\ sTarget' = sTarget /\ cHandle' = cHandle
      /\ cWritten' = cWritten /\ writtenMark' = writtenMark /\ durableMark' = durableMark
      /\ durableFailed' = durableFailed /\ acked' = acked /\ confirmed' = confirmed
      /\ covered' = covered /\ syncFaults' = syncFaults /\ osCrashes' = osCrashes
      /\ bootEpoch' = bootEpoch /\ entryEpoch' = entryEpoch /\ wEpoch' = wEpoch
  BY DEF AppendTx, disk, handle, writer, syncer, cursor, written, durable, told,
     faults, Send, AtLeast
<1>e. /\ issued' = issued \cup {t} /\ lastAppended' = t /\ t > lastAppended /\ ~rxClosed /\ up
      /\ t = (IF lastAppended >= covered THEN lastAppended ELSE covered) + 1
  BY <1>i DEF AppendTx, Send, AtLeast
<1>a. queue' = Append(queue, [op |-> "append", arg |-> t])
  BY DEF AppendTx, Send
<1>q. /\ queue \in Seq(Command) /\ [op |-> "append", arg |-> t] \in Command
  BY <1>i, CommandFacts DEF TypeOK, ValuesOK
<1>s. /\ Len(queue') = Len(queue) + 1 /\ queue'[Len(queue) + 1] = [op |-> "append", arg |-> t]
      /\ \A i \in 1..Len(queue) : queue'[i] = queue[i]
      /\ queue' \in Seq(Command)
  BY <1>q, <1>a
<1>x. \A i \in 1..Len(queue') :
         \/ i \in 1..Len(queue) /\ queue'[i] = queue[i]
         \/ i = Len(queue) + 1 /\ queue'[i].op = "append" /\ queue'[i].arg = t
  BY <1>n, <1>s DEF Nums
<1>k. \A x \in Nat : Queued(x)' <=> Queued(x) \/ x = t
  <2>1. ASSUME NEW x \in Nat, Queued(x) PROVE Queued(x)'
    <3>1. PICK i \in 1..Len(queue) : queue[i].op = "append" /\ queue[i].arg = x
      BY <2>1 DEF Queued
    <3>2. i \in 1..Len(queue') /\ queue'[i] = queue[i]
      BY <1>n, <1>s DEF Nums
    <3> QED
      BY <3>1, <3>2 DEF Queued
  <2>2. ASSUME NEW x \in Nat, Queued(x)' PROVE Queued(x) \/ x = t
    BY <2>2, <1>x DEF Queued
  <2>3. Queued(t)'
    <3>1. Len(queue) + 1 \in 1..Len(queue')
      BY <1>n, <1>s DEF Nums
    <3>2. queue'[Len(queue) + 1].op = "append" /\ queue'[Len(queue) + 1].arg = t
      BY <1>s
    <3> QED
      BY <3>1, <3>2 DEF Queued
  <2> QED
    BY <2>1, <2>2, <2>3
<1>r. Rotating' = Rotating
  BY <1>f DEF Rotating
<1>ac. Accounted(t - 1) /\ \A x \in Nat : Accounted(x) => Accounted(x)'
  BY <1>n, <1>f, <1>e, <1>k, <1>i DEF NameInv, Accounted, OnDisk, Nums
<1>bc. Accounted(lastAppended)'
  BY <1>n, <1>e, <1>k DEF Accounted, Nums
<1>mc. t > lastWritten /\ t > durableMark
  BY <1>i, <1>n, <1>e DEF QueueInv, Nums
<1>cc. \A i \in 1..Len(queue) : queue[i].op = "append" => queue[i].arg < t
  BY <1>i, <1>n, <1>e DEF QueueInv, Nums
<1>dc. Rotating => Len(queue) > 0 /\ queue[1].op = "append"
  BY <1>i, <1>n DEF QueueInv, Nums
<1>rc. \A f \in live : f <= t
  BY <1>n, <1>e, <1>i DEF NameInv, Nums
<1>uc. ASSUME Rotating, wpc # "header", NEW f \in live PROVE f < t
  <2>1. f < queue[1].arg /\ queue[1].arg < t /\ queue[1].arg \in Nat
    BY <1>n, <1>e, <1>i, <1>cc, <1>dc, <1>uc DEF NameInv, NamesBelow, Nums
  <2> QED
    BY <2>1, <1>n DEF Nums
<1>pc. NamesBelow'
  BY <1>n, <1>f, <1>e, <1>x, <1>r, <1>i, <1>rc, <1>uc DEF NameInv, NamesBelow, Nums
<1>qc. Predecessors'
  <2> SUFFICES ASSUME NEW i \in 1..Len(queue'), queue'[i].op = "append"
               PROVE  \E x \in Nat : x = queue'[i].arg - 1 /\ Accounted(x)'
    BY DEF Predecessors
  <2>1. CASE queue'[i].arg = t
    BY <2>1, <1>n, <1>ac DEF Nums
  <2>2. CASE i \in 1..Len(queue) /\ queue'[i] = queue[i]
    <3>1. queue[i].arg - 1 \in Nat
      BY <2>2, <1>n, <1>i DEF Nums, QueueInv
    <3> QED
      BY <2>2, <3>1, <1>ac, <1>i, <1>e DEF NameInv, Predecessors
  <2> QED
    BY <2>1, <2>2, <1>x
<1>1. FlagsOK'
  BY <1>i DEF TypeOK, FlagsOK, AppendTx, disk, handle, writer, syncer, cursor, written,
     durable, told, faults
<1>2. ValuesOK'
  BY <1>i, <1>s DEF TypeOK, ValuesOK, AppendTx, disk, handle, writer, syncer, cursor,
     written, durable, told, faults, Send
<1>3. QueueInv'
  <2>1. Len(queue') = Len(queue) + 1
    BY <1>s
  <2>2. \A i \in 1..Len(queue') : queue'[i].op = "append" =>
          lastWritten < queue'[i].arg /\ queue'[i].arg <= t
    <3> SUFFICES ASSUME NEW i \in 1..Len(queue'), queue'[i].op = "append"
                 PROVE  lastWritten < queue'[i].arg /\ queue'[i].arg <= t
      OBVIOUS
    <3>1. CASE i \in 1..Len(queue) /\ queue'[i] = queue[i]
      BY <3>1, <1>cc, <1>i, <1>n DEF QueueInv, Nums
    <3>2. CASE queue'[i].arg = t
      BY <3>2, <1>mc
    <3> QED
      BY <1>x, <3>1, <3>2
  <2>3. \A i, j \in 1..Len(queue') :
          i < j /\ queue'[i].op = "append" /\ queue'[j].op = "append" => queue'[i].arg < queue'[j].arg
    <3> SUFFICES ASSUME NEW i \in 1..Len(queue'), NEW j \in 1..Len(queue'), i < j,
                        queue'[i].op = "append", queue'[j].op = "append"
                 PROVE  queue'[i].arg < queue'[j].arg
      OBVIOUS
    <3>1. i \in 1..Len(queue) /\ queue'[i] = queue[i]
      BY <1>n, <1>x, <2>1 DEF Nums
    <3>2. CASE j \in 1..Len(queue) /\ queue'[j] = queue[j]
      BY <1>i, <3>1, <3>2 DEF QueueInv
    <3>3. CASE queue'[j].arg = t
      BY <1>cc, <3>1, <3>3
    <3> QED
      BY <1>x, <3>2, <3>3
  <2>4. Rotating' => queue'[1].op = "append"
    BY <1>i, <1>n, <1>s, <1>r DEF QueueInv, Nums
  <2>5. \A x \in issued' : x <= lastAppended' /\ (x > lastWritten => Queued(x)')
    BY <1>i, <1>n, <1>e, <1>k DEF QueueInv, Nums
  <2> QED
    BY <1>i, <1>n, <1>f, <1>e, <1>r, <2>1, <2>2, <2>3, <2>4, <2>5 DEF QueueInv, Nums
<1>4. DiskInv'
  BY <1>i, <1>n, <1>f, <1>e DEF DiskInv, OnDisk, Sealed, Nums
<1>5. NameInv'
  BY <1>n, <1>f, <1>e, <1>i, <1>bc, <1>qc, <1>pc DEF NameInv, OnDisk, Nums
<1>6. ControlInv'
  BY <1>i, <1>n, <1>f, <1>e DEF ControlInv
<1>7. WriterInv'
  BY <1>i, <1>n, <1>f, <1>e, <1>i, <1>s DEF WriterInv, Healthy, IsLast, IsTail, OnDisk,
     Nums, QueueInv, Rotating
<1>8. MarkInv'
  BY <1>i, <1>n, <1>f, <1>e, <1>mc DEF MarkInv, OnDisk, Nums
<1>9. EpochInv'
  BY <1>i, <1>n, <1>f, <1>e, <1>s DEF EpochInv, OnDisk, Nums
<1>10. Promises'
  BY <1>i, <1>n, <1>f, <1>e DEF Promises, OnDisk, Nums
<1> QED
  BY <1>1, <1>2, <1>3, <1>4, <1>5, <1>6, <1>7, <1>8, <1>9, <1>10
     DEF IInv, TypeOK

\* An epoch change enters the queue.
LEMMA SetEpochInv ==
  ASSUME IInv, NEW e \in Epochs, SetEpoch(e)
  PROVE  IInv'
<1> USE TxFacts
<1>i. /\ TypeOK /\ QueueInv /\ DiskInv /\ NameInv
      /\ ControlInv /\ WriterInv /\ MarkInv /\ EpochInv /\ Promises
  BY DEF IInv
<1>n. Nums
  BY <1>i, TypeNums
<1>f. /\ live' = live /\ headed' = headed /\ home' = home /\ stable' = stable
      /\ torn' = torn /\ eio' = eio /\ holed' = holed /\ up' = up
      /\ lastAppended' = lastAppended /\ issued' = issued /\ wpc' = wpc /\ why' = why
      /\ batch' = batch /\ buf' = buf /\ current' = current /\ lastWritten' = lastWritten
      /\ rxClosed' = rxClosed /\ wfailed' = wfailed /\ spc' = spc /\ sHandle' = sHandle
      /\ sTarget' = sTarget /\ cHandle' = cHandle /\ cWritten' = cWritten
      /\ writtenMark' = writtenMark /\ durableMark' = durableMark
      /\ durableFailed' = durableFailed /\ acked' = acked /\ confirmed' = confirmed
      /\ covered' = covered /\ syncFaults' = syncFaults /\ osCrashes' = osCrashes
      /\ entryEpoch' = entryEpoch /\ wEpoch' = wEpoch
  BY DEF SetEpoch, disk, handle, writer, syncer, cursor, written, durable, told,
     faults, Send, AtLeast
<1>e. /\ up /\ ~rxClosed
      /\ bootEpoch' = IF bootEpoch >= e THEN bootEpoch ELSE e
  BY <1>i DEF SetEpoch, Send, AtLeast
<1>a. queue' = Append(queue, [op |-> "epoch", arg |-> e])
  BY DEF SetEpoch, Send
<1>q. /\ queue \in Seq(Command) /\ [op |-> "epoch", arg |-> e] \in Command
  BY <1>i, CommandFacts DEF TypeOK, ValuesOK
<1>s. /\ Len(queue') = Len(queue) + 1 /\ queue'[Len(queue) + 1] = [op |-> "epoch", arg |-> e]
      /\ \A i \in 1..Len(queue) : queue'[i] = queue[i]
      /\ queue' \in Seq(Command)
  BY <1>q, <1>a
<1>b. /\ bootEpoch' \in Epochs /\ epochReq' \in 0..MaxEpoch
      /\ bootEpoch' \in Nat /\ bootEpoch <= bootEpoch' /\ e <= bootEpoch'
  BY <1>i, BoundsAreNat DEF BoundsAreNat, TypeOK, ValuesOK, SetEpoch, AtLeast, Epochs
<1>k. \A x \in Nat : Queued(x) <=> Queued(x)'
  BY <1>n, <1>s DEF Queued, Nums
<1>r. Rotating' = Rotating
  BY <1>f DEF Rotating
<1>p. \A i \in 1..Len(queue') : queue'[i].op = "append" => i \in 1..Len(queue) /\ queue'[i] = queue[i]
  BY <1>n, <1>s DEF Nums
<1>ac. \A x \in Nat : Accounted(x) => Accounted(x)'
  BY <1>f, <1>k DEF Accounted, OnDisk
<1>pc. NamesBelow'
  BY <1>n, <1>f, <1>e, <1>p, <1>r, <1>i DEF NameInv, NamesBelow, Nums
<1>qc. Predecessors'
  BY <1>n, <1>i, <1>ac, <1>s, <1>e, <1>p, PredecessorsStep DEF NameInv, Nums
<1>1. FlagsOK'
  BY <1>i DEF TypeOK, FlagsOK, SetEpoch, disk, handle, writer, syncer, cursor, written,
     durable, told, faults
<1>2. ValuesOK'
  BY <1>i, <1>s, <1>b DEF TypeOK, ValuesOK, SetEpoch, disk, handle, writer, syncer,
     cursor, written, durable, told, faults, Send
<1>3. QueueInv'
  <2>1. Len(queue') = Len(queue) + 1 /\ (Len(queue) > 0 => queue'[1] = queue[1])
    BY <1>s, <1>n DEF Nums
  <2>2. /\ \A i \in 1..Len(queue') : queue'[i].op = "append" =>
             lastWritten < queue'[i].arg /\ queue'[i].arg <= lastAppended
        /\ \A i, j \in 1..Len(queue') :
             i < j /\ queue'[i].op = "append" /\ queue'[j].op = "append" => queue'[i].arg < queue'[j].arg
    BY <1>i, <1>p DEF QueueInv
  <2>3. \A x \in issued : x > lastWritten => Queued(x)'
    BY <1>i, <1>n, <1>e, <1>k DEF QueueInv, Nums
  <2>4. /\ batch <= Len(queue') /\ (Rotating => batch > 0 /\ queue'[1].op = "append")
    BY <1>i, <1>n, <2>1 DEF QueueInv, Nums
  <2> QED
    BY <1>i, <1>n, <1>f, <1>e, <1>r, <2>1, <2>2, <2>3, <2>4 DEF QueueInv
<1>4. DiskInv'
  BY <1>i, <1>n, <1>f, <1>e DEF DiskInv, OnDisk, Sealed, Nums
<1>5. NameInv'
  BY <1>n, <1>f, <1>e, <1>i, <1>ac, <1>pc, <1>qc DEF NameInv, OnDisk, Nums
<1>6. ControlInv'
  BY <1>i, <1>n, <1>f, <1>e DEF ControlInv
<1>7. WriterInv'
  BY <1>i, <1>n, <1>f, <1>e, <1>i, <1>s DEF WriterInv, Healthy, IsLast, IsTail, OnDisk,
     Nums, QueueInv, Rotating
<1>8. MarkInv'
  BY <1>i, <1>n, <1>f, <1>e DEF MarkInv, OnDisk, Nums
<1>9. EpochInv'
  BY <1>i, <1>n, <1>f, <1>e, <1>s, <1>b DEF EpochInv, OnDisk, Nums
<1>10. Promises'
  BY <1>i, <1>n, <1>f, <1>e DEF Promises, OnDisk, Nums
<1> QED
  BY <1>1, <1>2, <1>3, <1>4, <1>5, <1>6, <1>7, <1>8, <1>9, <1>10
     DEF IInv, TypeOK

\* The caller of set_epoch stores the epoch, or learns that the writer is gone.
LEMMA SetEpochReturnsInv ==
  ASSUME IInv, SetEpochReturns
  PROVE  IInv'
<1> USE TxFacts
<1>i. /\ TypeOK /\ QueueInv /\ DiskInv /\ NameInv
      /\ ControlInv /\ WriterInv /\ MarkInv /\ EpochInv /\ Promises
  BY DEF IInv
<1>n. Nums
  BY <1>i, TypeNums
<1>f. /\ live' = live /\ headed' = headed /\ home' = home /\ stable' = stable
      /\ torn' = torn /\ eio' = eio /\ holed' = holed /\ up' = up /\ queue' = queue
      /\ lastAppended' = lastAppended /\ issued' = issued /\ wpc' = wpc /\ why' = why
      /\ batch' = batch /\ buf' = buf /\ current' = current /\ lastWritten' = lastWritten
      /\ rxClosed' = rxClosed /\ wfailed' = wfailed /\ spc' = spc /\ sHandle' = sHandle
      /\ sTarget' = sTarget /\ cHandle' = cHandle /\ cWritten' = cWritten
      /\ writtenMark' = writtenMark /\ durableMark' = durableMark
      /\ durableFailed' = durableFailed /\ acked' = acked /\ confirmed' = confirmed
      /\ covered' = covered /\ syncFaults' = syncFaults /\ osCrashes' = osCrashes
      /\ bootEpoch' = bootEpoch /\ entryEpoch' = entryEpoch /\ wEpoch' = wEpoch
  BY DEF SetEpochReturns, disk, handle, writer, syncer, cursor, written, durable, told,
     faults
<1>b. epoch' \in Epochs /\ epochReq' \in 0..MaxEpoch
  <2>1. epoch \in Epochs /\ epochReq \in 0..MaxEpoch /\ MaxEpoch \in Nat
    BY <1>i, BoundsAreNat DEF BoundsAreNat, TypeOK, ValuesOK
  <2>2. epochReq # 0 /\ epochReq' = 0 /\ (epoch' = epochReq \/ epoch' = epoch)
    BY DEF SetEpochReturns
  <2> QED
    BY <2>1, <2>2 DEF Epochs
<1>1. FlagsOK'
  BY <1>i DEF TypeOK, FlagsOK, SetEpochReturns, disk, handle, writer, syncer, cursor,
     written, durable, told, faults
<1>2. ValuesOK'
  BY <1>i, <1>b DEF TypeOK, ValuesOK, SetEpochReturns, disk, handle, writer, syncer,
     cursor, written, durable, told, faults
<1>3. QueueInv'
  BY <1>i, <1>n, <1>f DEF QueueInv, Rotating, Queued, Nums
<1>4. DiskInv'
  BY <1>i, <1>n, <1>f DEF DiskInv, OnDisk, Sealed, Nums
<1>5. NameInv'
  BY <1>i, <1>n, <1>f DEF NameInv, NamesBelow, Predecessors, Accounted, Rotating,
     Queued, OnDisk, Nums
<1>6. ControlInv'
  BY <1>i, <1>n, <1>f DEF ControlInv
<1>7. WriterInv'
  BY <1>i, <1>n, <1>f DEF WriterInv, Healthy, IsLast, IsTail, OnDisk, Nums
<1>8. MarkInv'
  BY <1>i, <1>n, <1>f DEF MarkInv, OnDisk, Nums
<1>9. EpochInv'
  BY <1>i, <1>n, <1>f DEF EpochInv, OnDisk, Nums
<1>10. Promises'
  BY <1>i, <1>n, <1>f DEF Promises, OnDisk, Nums
<1> QED
  BY <1>1, <1>2, <1>3, <1>4, <1>5, <1>6, <1>7, <1>8, <1>9, <1>10
     DEF IInv, TypeOK

\* An ack is only given for an entry that reached the file before the writer failed.
LEMMA WaitWrittenInv ==
  ASSUME IInv, NEW t \in Tx, WaitWritten(t)
  PROVE  IInv'
<1> USE TxFacts
<1>i. /\ TypeOK /\ QueueInv /\ DiskInv /\ NameInv
      /\ ControlInv /\ WriterInv /\ MarkInv /\ EpochInv /\ Promises
  BY DEF IInv
<1>n. Nums
  BY <1>i, TypeNums
<1>f. /\ live' = live /\ headed' = headed /\ home' = home /\ stable' = stable
      /\ torn' = torn /\ eio' = eio /\ holed' = holed /\ up' = up /\ queue' = queue
      /\ lastAppended' = lastAppended /\ issued' = issued /\ wpc' = wpc /\ why' = why
      /\ batch' = batch /\ buf' = buf /\ current' = current /\ lastWritten' = lastWritten
      /\ rxClosed' = rxClosed /\ wfailed' = wfailed /\ spc' = spc /\ sHandle' = sHandle
      /\ sTarget' = sTarget /\ cHandle' = cHandle /\ cWritten' = cWritten
      /\ writtenMark' = writtenMark /\ durableMark' = durableMark
      /\ durableFailed' = durableFailed /\ confirmed' = confirmed /\ covered' = covered
      /\ syncFaults' = syncFaults /\ osCrashes' = osCrashes /\ bootEpoch' = bootEpoch
      /\ entryEpoch' = entryEpoch /\ wEpoch' = wEpoch
  BY DEF WaitWritten, disk, handle, writer, syncer, cursor, written, durable, told,
     faults
<1>e. /\ up /\ t \in issued /\ writtenMark >= t
      /\ acked' = IF wfailed THEN acked ELSE acked \cup {t}
  BY <1>i DEF WaitWritten
<1>1. FlagsOK'
  BY <1>i DEF TypeOK, FlagsOK, WaitWritten, disk, handle, writer, syncer, cursor,
     written, durable, told, faults
<1>2. ValuesOK'
  BY <1>i DEF TypeOK, ValuesOK, WaitWritten, disk, handle, writer, syncer, cursor,
     written, durable, told, faults
<1>3. QueueInv'
  BY <1>i, <1>n, <1>f, <1>e DEF QueueInv, Rotating, Queued, Nums
<1>4. DiskInv'
  BY <1>i, <1>n, <1>f, <1>e DEF DiskInv, OnDisk, Sealed, Nums
<1>5. NameInv'
  BY <1>i, <1>n, <1>f, <1>e DEF NameInv, NamesBelow, Predecessors, Accounted, Rotating,
     Queued, OnDisk, Nums
<1>6. ControlInv'
  BY <1>i, <1>n, <1>f, <1>e DEF ControlInv
<1>7. WriterInv'
  BY <1>i, <1>n, <1>f, <1>e DEF WriterInv, Healthy, IsLast, IsTail, OnDisk, Nums
<1>8. MarkInv'
  BY <1>i, <1>n, <1>f, <1>e DEF MarkInv, OnDisk, Nums
<1>9. EpochInv'
  BY <1>i, <1>n, <1>f, <1>e DEF EpochInv, OnDisk, Nums
<1>10. Promises'
  BY <1>i, <1>n, <1>f, <1>e, <1>i DEF Promises, OnDisk, Nums, MarkInv, QueueInv
<1> QED
  BY <1>1, <1>2, <1>3, <1>4, <1>5, <1>6, <1>7, <1>8, <1>9, <1>10
     DEF IInv, TypeOK

\* A confirmation is only given for an entry that was fsynced.
LEMMA WaitDurableInv ==
  ASSUME IInv, NEW t \in Tx, WaitDurable(t)
  PROVE  IInv'
<1> USE TxFacts
<1>i. /\ TypeOK /\ QueueInv /\ DiskInv /\ NameInv
      /\ ControlInv /\ WriterInv /\ MarkInv /\ EpochInv /\ Promises
  BY DEF IInv
<1>n. Nums
  BY <1>i, TypeNums
<1>f. /\ live' = live /\ headed' = headed /\ home' = home /\ stable' = stable
      /\ torn' = torn /\ eio' = eio /\ holed' = holed /\ up' = up /\ queue' = queue
      /\ lastAppended' = lastAppended /\ issued' = issued /\ wpc' = wpc /\ why' = why
      /\ batch' = batch /\ buf' = buf /\ current' = current /\ lastWritten' = lastWritten
      /\ rxClosed' = rxClosed /\ wfailed' = wfailed /\ spc' = spc /\ sHandle' = sHandle
      /\ sTarget' = sTarget /\ cHandle' = cHandle /\ cWritten' = cWritten
      /\ writtenMark' = writtenMark /\ durableMark' = durableMark
      /\ durableFailed' = durableFailed /\ acked' = acked /\ covered' = covered
      /\ syncFaults' = syncFaults /\ osCrashes' = osCrashes /\ bootEpoch' = bootEpoch
      /\ entryEpoch' = entryEpoch /\ wEpoch' = wEpoch
  BY DEF WaitDurable, disk, handle, writer, syncer, cursor, written, durable, told,
     faults
<1>e. /\ up /\ t \in issued /\ durableMark >= t /\ ~durableFailed
      /\ confirmed' = IF eio = {} THEN confirmed \cup {t} ELSE confirmed
  BY <1>i DEF WaitDurable
<1>1. FlagsOK'
  BY <1>i DEF TypeOK, FlagsOK, WaitDurable, disk, handle, writer, syncer, cursor,
     written, durable, told, faults
<1>2. ValuesOK'
  BY <1>i DEF TypeOK, ValuesOK, WaitDurable, disk, handle, writer, syncer, cursor,
     written, durable, told, faults
<1>3. QueueInv'
  BY <1>i, <1>n, <1>f, <1>e DEF QueueInv, Rotating, Queued, Nums
<1>4. DiskInv'
  BY <1>i, <1>n, <1>f, <1>e DEF DiskInv, OnDisk, Sealed, Nums
<1>5. NameInv'
  BY <1>i, <1>n, <1>f, <1>e DEF NameInv, NamesBelow, Predecessors, Accounted, Rotating,
     Queued, OnDisk, Nums
<1>6. ControlInv'
  BY <1>i, <1>n, <1>f, <1>e DEF ControlInv
<1>7. WriterInv'
  BY <1>i, <1>n, <1>f, <1>e DEF WriterInv, Healthy, IsLast, IsTail, OnDisk, Nums
<1>8. MarkInv'
  BY <1>i, <1>n, <1>f, <1>e DEF MarkInv, OnDisk, Nums
<1>9. EpochInv'
  BY <1>i, <1>n, <1>f, <1>e DEF EpochInv, OnDisk, Nums
<1>10. Promises'
  BY <1>i, <1>n, <1>f, <1>e DEF Promises, OnDisk, Nums, MarkInv
<1> QED
  BY <1>1, <1>2, <1>3, <1>4, <1>5, <1>6, <1>7, <1>8, <1>9, <1>10
     DEF IInv, TypeOK

\* Only sealed segments go, and all their entries are covered.
LEMMA CompactInv ==
  ASSUME IInv, NEW c \in Tx, NEW h \in TxOpt, Compact(c, h)
  PROVE  IInv'
<1> USE TxFacts
<1>i. /\ TypeOK /\ QueueInv /\ DiskInv /\ NameInv
      /\ ControlInv /\ WriterInv /\ MarkInv /\ EpochInv /\ Promises
  BY DEF IInv
<1>n. Nums
  BY <1>i, TypeNums
<1>f. /\ eio' = eio /\ holed' = holed /\ up' = up /\ queue' = queue
      /\ lastAppended' = lastAppended /\ issued' = issued /\ wpc' = wpc /\ why' = why
      /\ batch' = batch /\ buf' = buf /\ current' = current /\ lastWritten' = lastWritten
      /\ rxClosed' = rxClosed /\ wfailed' = wfailed /\ spc' = spc /\ sHandle' = sHandle
      /\ sTarget' = sTarget /\ cHandle' = cHandle /\ cWritten' = cWritten
      /\ writtenMark' = writtenMark /\ durableMark' = durableMark
      /\ durableFailed' = durableFailed /\ acked' = acked /\ confirmed' = confirmed
      /\ syncFaults' = syncFaults /\ osCrashes' = osCrashes /\ bootEpoch' = bootEpoch
      /\ entryEpoch' = entryEpoch /\ wEpoch' = wEpoch
  BY DEF Compact, disk, handle, writer, syncer, cursor, written, durable, told, faults
<1> DEFINE gone == {f \in live : Deletable(f, c, h)}
<1>e. /\ live' = live \ gone /\ headed' = headed \ gone /\ torn' = torn \ gone
      /\ \A t \in Tx : home'[t] = IF home[t] \in gone THEN 0 ELSE home[t]
      /\ stable' = {t \in stable : home[t] \notin gone}
  BY DEF Compact
<1>g. \A f \in gone : f \in live /\ \E g \in live : f < g /\ g <= c + 1 /\ (h = 0 \/ g <= h)
  BY DEF Deletable
<1>v. /\ covered' \in TxOpt /\ covered <= covered'
      /\ \A t \in Nat : t <= c /\ (h = 0 \/ t < h) => t <= covered'
  BY <1>i, BoundsAreNat DEF BoundsAreNat, Compact, AtLeast, AtMost, TypeOK, ValuesOK, Tx, TxOpt
<1>t. home' \in [Tx -> TxOpt]
  BY <1>i DEF Compact, TypeOK, ValuesOK
<1> HIDE DEF gone
<1>dc. \A t \in OnDisk : home[t] \in gone => t <= covered'
  BY <1>n, <1>g, <1>v, <1>i DEF DiskInv, OnDisk, Nums
<1>oc. OnDisk' = {t \in OnDisk : home[t] \notin gone} /\ \A t \in OnDisk' : home'[t] = home[t]
  BY <1>n, <1>e DEF OnDisk, Nums
<1>lc. /\ \A f \in live' : f \in live /\ (Sealed(f)' => Sealed(f))
      /\ \A f \in live : ~(\E g \in live : f < g) => f \in live'
  BY <1>n, <1>e, <1>g DEF Sealed, Nums
<1>ac. \A x \in Nat : Accounted(x) => Accounted(x)'
  BY <1>n, <1>f, <1>v, <1>dc, <1>oc DEF Accounted, Queued, Nums
<1>vc. covered' \in Nat
  BY <1>v
<1>1. FlagsOK'
  BY <1>i DEF TypeOK, FlagsOK, Compact, disk, handle, writer, syncer, cursor, written,
     durable, told, faults
<1>2. ValuesOK'
  BY <1>i, <1>e, <1>v, <1>t DEF TypeOK, ValuesOK, Compact, disk, handle, writer,
     syncer, cursor, written, durable, told, faults
<1>3. QueueInv'
  BY <1>i, <1>n, <1>f DEF QueueInv, Rotating, Queued, Nums
<1>4. DiskInv'
  BY <1>n, <1>f, <1>e, <1>i, <1>oc, <1>lc DEF DiskInv, Nums
<1>5. NameInv'
  <2>1. up => NamesBelow' /\ (~rxClosed => Accounted(lastAppended)')
    BY <1>n, <1>f, <1>e, <1>i, <1>lc, <1>ac DEF NameInv, NamesBelow, Rotating, Nums
  <2>2. up => Predecessors'
    BY <1>n, <1>f, <1>i, <1>ac, PredecessorsStep DEF NameInv, Nums
  <2> QED
    BY <2>1, <2>2, <1>n, <1>f, <1>e, <1>v, <1>vc, <1>i, <1>oc, <1>lc, <1>dc DEF NameInv, Nums
<1>6. ControlInv'
  BY <1>i, <1>n, <1>f DEF ControlInv
<1>7. WriterInv'
  BY <1>n, <1>f, <1>e, <1>i, <1>oc, <1>lc DEF WriterInv, Healthy, IsLast, IsTail, Nums
<1>8. MarkInv'
  BY <1>n, <1>f, <1>e, <1>v, <1>vc, <1>i, <1>oc, <1>dc DEF MarkInv, DiskInv, Nums
<1>9. EpochInv'
  BY <1>n, <1>f, <1>i, <1>oc DEF EpochInv, Nums
<1>10. Promises'
  <2>1. \A t \in stable : t \in stable' \/ t <= covered'
    BY <1>e, <1>dc, <1>i DEF DiskInv
  <2>2. \A t \in Tx : t <= covered => t <= covered'
    BY <1>n, <1>v, <1>vc DEF Nums
  <2>3. \A t \in OnDisk : t \in OnDisk' \/ t <= covered'
    BY <1>oc, <1>dc
  <2> QED
    BY <2>1, <2>2, <2>3, <1>n, <1>f, <1>i DEF Promises, Nums
<1> QED
  BY <1>1, <1>2, <1>3, <1>4, <1>5, <1>6, <1>7, <1>8, <1>9, <1>10
     DEF IInv, TypeOK

\* close() only drops the sender.
LEMMA CloseInv ==
  ASSUME IInv, Close
  PROVE  IInv'
<1> USE TxFacts
<1>i. /\ TypeOK /\ QueueInv /\ DiskInv /\ NameInv
      /\ ControlInv /\ WriterInv /\ MarkInv /\ EpochInv /\ Promises
  BY DEF IInv
<1>n. Nums
  BY <1>i, TypeNums
<1>f. /\ live' = live /\ headed' = headed /\ home' = home /\ stable' = stable
      /\ torn' = torn /\ eio' = eio /\ holed' = holed /\ up' = up /\ queue' = queue
      /\ lastAppended' = lastAppended /\ issued' = issued /\ wpc' = wpc /\ why' = why
      /\ batch' = batch /\ buf' = buf /\ current' = current /\ lastWritten' = lastWritten
      /\ rxClosed' = rxClosed /\ wfailed' = wfailed /\ spc' = spc /\ sHandle' = sHandle
      /\ sTarget' = sTarget /\ cHandle' = cHandle /\ cWritten' = cWritten
      /\ writtenMark' = writtenMark /\ durableMark' = durableMark
      /\ durableFailed' = durableFailed /\ acked' = acked /\ confirmed' = confirmed
      /\ covered' = covered /\ syncFaults' = syncFaults /\ osCrashes' = osCrashes
      /\ bootEpoch' = bootEpoch /\ entryEpoch' = entryEpoch /\ wEpoch' = wEpoch
  BY DEF Close, disk, handle, writer, syncer, cursor, written, durable, told, faults
<1>1. FlagsOK'
  BY <1>i DEF TypeOK, FlagsOK, Close, disk, handle, writer, syncer, cursor, written,
     durable, told, faults
<1>2. ValuesOK'
  BY <1>i DEF TypeOK, ValuesOK, Close, disk, handle, writer, syncer, cursor, written,
     durable, told, faults
<1>3. QueueInv'
  BY <1>i, <1>n, <1>f DEF QueueInv, Rotating, Queued, Nums
<1>4. DiskInv'
  BY <1>i, <1>n, <1>f DEF DiskInv, OnDisk, Sealed, Nums
<1>5. NameInv'
  BY <1>i, <1>n, <1>f DEF NameInv, NamesBelow, Predecessors, Accounted, Rotating,
     Queued, OnDisk, Nums
<1>6. ControlInv'
  BY <1>i, <1>n, <1>f DEF ControlInv
<1>7. WriterInv'
  BY <1>i, <1>n, <1>f DEF WriterInv, Healthy, IsLast, IsTail, OnDisk, Nums
<1>8. MarkInv'
  BY <1>i, <1>n, <1>f DEF MarkInv, OnDisk, Nums
<1>9. EpochInv'
  BY <1>i, <1>n, <1>f DEF EpochInv, OnDisk, Nums
<1>10. Promises'
  BY <1>i, <1>n, <1>f DEF Promises, OnDisk, Nums
<1> QED
  BY <1>1, <1>2, <1>3, <1>4, <1>5, <1>6, <1>7, <1>8, <1>9, <1>10
     DEF IInv, TypeOK
-----------------------------------------------------------------------------
(* The writer thread, before its flushes.                                  *)

\* A batch is taken from the queue, or the poisoned log is closed.
LEMMA ReceiveInv ==
  ASSUME IInv, Receive
  PROVE  IInv'
<1> USE TxFacts
<1>i. /\ TypeOK /\ QueueInv /\ DiskInv /\ NameInv
      /\ ControlInv /\ WriterInv /\ MarkInv /\ EpochInv /\ Promises
  BY DEF IInv
<1>n. Nums
  BY <1>i, TypeNums
<1>f. /\ live' = live /\ headed' = headed /\ home' = home /\ stable' = stable
      /\ torn' = torn /\ eio' = eio /\ holed' = holed /\ up' = up
      /\ lastAppended' = lastAppended /\ issued' = issued /\ buf' = buf
      /\ current' = current /\ lastWritten' = lastWritten /\ wfailed' = wfailed
      /\ spc' = spc /\ sHandle' = sHandle /\ sTarget' = sTarget /\ cHandle' = cHandle
      /\ cWritten' = cWritten /\ writtenMark' = writtenMark /\ durableMark' = durableMark
      /\ durableFailed' = durableFailed /\ acked' = acked /\ confirmed' = confirmed
      /\ covered' = covered /\ syncFaults' = syncFaults /\ osCrashes' = osCrashes
      /\ bootEpoch' = bootEpoch /\ entryEpoch' = entryEpoch /\ wEpoch' = wEpoch
  BY DEF Receive, disk, handle, writer, syncer, cursor, written, durable, told, faults
<1>e. /\ up /\ wpc = "recv"
      /\ wpc' = IF durableFailed THEN "write" ELSE "cmd"
      /\ IF durableFailed THEN why' = "exit" /\ rxClosed' = TRUE ELSE why' = why /\ rxClosed' = rxClosed
  BY <1>i DEF Receive
<1>a. /\ queue \in Seq(Command)
      /\ \/ durableFailed /\ queue' = <<>> /\ batch' = 0
         \/ ~durableFailed /\ queue' = queue /\ batch' = AtMost(Len(queue), MaxBatch)
  BY <1>i DEF TypeOK, ValuesOK, Receive
<1>b. AtMost(Len(queue), MaxBatch) \in Nat /\ AtMost(Len(queue), MaxBatch) <= Len(queue)
  BY <1>n, OptionsValid DEF Nums, AtMost, OptionsValid
<1>s. /\ queue' \in Seq(Command) /\ Len(queue') \in Nat /\ batch' \in Nat /\ batch' <= Len(queue')
      /\ \/ durableFailed /\ Len(queue') = 0
         \/ ~durableFailed /\ queue' = queue
  <2>1. CASE durableFailed
    BY <2>1, <1>a
  <2>2. CASE ~durableFailed
    BY <2>2, <1>a, <1>b, <1>n DEF Nums
  <2> QED
    BY <2>1, <2>2
<1>r. ~Rotating'
  BY <1>e DEF Rotating
<1>z. \A i \in 1..Len(queue') : i \in 1..Len(queue) /\ queue'[i] = queue[i]
  BY <1>s, <1>n DEF Nums
<1>ac. ~rxClosed' => \A x \in Nat : Accounted(x) => Accounted(x)'
  BY <1>f, <1>e, <1>s DEF Accounted, Queued, OnDisk
<1>pc. Predecessors'
  <2>1. CASE durableFailed
    BY <2>1, <1>s DEF Predecessors
  <2>2. CASE ~durableFailed
    <3>1. ~rxClosed'
      BY <2>2, <1>e, <1>i DEF ControlInv
    <3> QED
      BY <3>1, <1>n, <1>e, <1>i, <1>s, <1>z, <1>ac, PredecessorsStep DEF NameInv
  <2> QED
    BY <2>1, <2>2
<1>qc. NamesBelow'
  BY <1>n, <1>f, <1>e, <1>i, <1>s, <1>z, <1>r DEF NameInv, NamesBelow, Nums
<1>1. FlagsOK'
  BY <1>i DEF TypeOK, FlagsOK, Receive, disk, handle, writer, syncer, cursor, written,
     durable, told, faults
<1>2. ValuesOK'
  BY <1>i, <1>s DEF TypeOK, ValuesOK, Receive, disk, handle, writer, syncer, cursor,
     written, durable, told, faults
<1>3. QueueInv'
  BY <1>i, <1>n, <1>f, <1>e, <1>s, <1>r DEF QueueInv, Queued, Nums
<1>4. DiskInv'
  BY <1>i, <1>n, <1>f, <1>e DEF DiskInv, OnDisk, Sealed, Nums
<1>5. NameInv'
  BY <1>n, <1>f, <1>e, <1>i, <1>s, <1>ac, <1>pc, <1>qc DEF NameInv, OnDisk, Nums
<1>6. ControlInv'
  BY <1>i, <1>n, <1>f, <1>e DEF ControlInv
<1>7. WriterInv'
  BY <1>i, <1>n, <1>f, <1>e DEF WriterInv, Healthy, IsLast, IsTail, OnDisk, Nums
<1>8. MarkInv'
  BY <1>i, <1>n, <1>f, <1>e DEF MarkInv, OnDisk, Nums
<1>9. EpochInv'
  BY <1>i, <1>n, <1>f, <1>e, <1>s, <1>z DEF EpochInv, OnDisk, Nums
<1>10. Promises'
  BY <1>i, <1>n, <1>f, <1>e DEF Promises, OnDisk, Nums
<1> QED
  BY <1>1, <1>2, <1>3, <1>4, <1>5, <1>6, <1>7, <1>8, <1>9, <1>10
     DEF IInv, TypeOK

\* The queue is drained and the sender gone.
LEMMA ReceiveClosedInv ==
  ASSUME IInv, ReceiveClosed
  PROVE  IInv'
<1> USE TxFacts
<1>i. /\ TypeOK /\ QueueInv /\ DiskInv /\ NameInv
      /\ ControlInv /\ WriterInv /\ MarkInv /\ EpochInv /\ Promises
  BY DEF IInv
<1>n. Nums
  BY <1>i, TypeNums
<1>f. /\ live' = live /\ headed' = headed /\ home' = home /\ stable' = stable
      /\ torn' = torn /\ eio' = eio /\ holed' = holed /\ up' = up /\ queue' = queue
      /\ lastAppended' = lastAppended /\ issued' = issued /\ batch' = batch /\ buf' = buf
      /\ current' = current /\ lastWritten' = lastWritten /\ wfailed' = wfailed
      /\ spc' = spc /\ sHandle' = sHandle /\ sTarget' = sTarget /\ cHandle' = cHandle
      /\ cWritten' = cWritten /\ writtenMark' = writtenMark /\ durableMark' = durableMark
      /\ durableFailed' = durableFailed /\ acked' = acked /\ confirmed' = confirmed
      /\ covered' = covered /\ syncFaults' = syncFaults /\ osCrashes' = osCrashes
      /\ bootEpoch' = bootEpoch /\ entryEpoch' = entryEpoch /\ wEpoch' = wEpoch
  BY DEF ReceiveClosed, disk, handle, writer, syncer, cursor, written, durable, told,
     faults
<1>e. /\ up /\ wpc = "recv" /\ wpc' = "write" /\ why' = "exit" /\ rxClosed' = TRUE
      /\ queue = <<>>
  BY <1>i DEF ReceiveClosed
<1>s. Len(queue) = 0
  BY <1>e
<1>1. FlagsOK'
  BY <1>i DEF TypeOK, FlagsOK, ReceiveClosed, disk, handle, writer, syncer, cursor,
     written, durable, told, faults
<1>2. ValuesOK'
  BY <1>i DEF TypeOK, ValuesOK, ReceiveClosed, disk, handle, writer, syncer, cursor,
     written, durable, told, faults
<1>3. QueueInv'
  BY <1>i, <1>n, <1>f, <1>e, <1>s DEF QueueInv, Rotating, Queued, Nums
<1>4. DiskInv'
  BY <1>i, <1>n, <1>f, <1>e DEF DiskInv, OnDisk, Sealed, Nums
<1>5. NameInv'
  BY <1>i, <1>n, <1>f, <1>e, <1>s DEF NameInv, NamesBelow, Predecessors, Accounted,
     Rotating, Queued, OnDisk, Nums
<1>6. ControlInv'
  BY <1>i, <1>n, <1>f, <1>e DEF ControlInv
<1>7. WriterInv'
  BY <1>i, <1>n, <1>f, <1>e DEF WriterInv, Healthy, IsLast, IsTail, OnDisk, Nums
<1>8. MarkInv'
  BY <1>i, <1>n, <1>f, <1>e DEF MarkInv, OnDisk, Nums
<1>9. EpochInv'
  BY <1>i, <1>n, <1>f, <1>e DEF EpochInv, OnDisk, Nums
<1>10. Promises'
  BY <1>i, <1>n, <1>f, <1>e DEF Promises, OnDisk, Nums
<1> QED
  BY <1>1, <1>2, <1>3, <1>4, <1>5, <1>6, <1>7, <1>8, <1>9, <1>10
     DEF IInv, TypeOK

\* The buffered record is newer than everything on the disk.
LEMMA BufferRecordInv ==
  ASSUME IInv, BufferRecord
  PROVE  IInv'
<1> USE TxFacts
<1>i. /\ TypeOK /\ QueueInv /\ DiskInv /\ NameInv
      /\ ControlInv /\ WriterInv /\ MarkInv /\ EpochInv /\ Promises
  BY DEF IInv
<1>n. Nums
  BY <1>i, TypeNums
<1>f. /\ live' = live /\ headed' = headed /\ home' = home /\ stable' = stable
      /\ torn' = torn /\ eio' = eio /\ holed' = holed /\ up' = up
      /\ lastAppended' = lastAppended /\ issued' = issued /\ wpc' = wpc /\ why' = why
      /\ current' = current /\ rxClosed' = rxClosed /\ wfailed' = wfailed /\ spc' = spc
      /\ sHandle' = sHandle /\ sTarget' = sTarget /\ cHandle' = cHandle
      /\ cWritten' = cWritten /\ writtenMark' = writtenMark /\ durableMark' = durableMark
      /\ durableFailed' = durableFailed /\ acked' = acked /\ confirmed' = confirmed
      /\ covered' = covered /\ syncFaults' = syncFaults /\ osCrashes' = osCrashes
      /\ bootEpoch' = bootEpoch /\ wEpoch' = wEpoch /\ closing' = closing /\ epoch' = epoch
      /\ epochReq' = epochReq /\ cSynced' = cSynced /\ shutdown' = shutdown
      /\ writtenFailed' = writtenFailed /\ lateAcked' = lateAcked /\ crashes' = crashes
      /\ writeFaults' = writeFaults
  BY DEF BufferRecord, disk, handle, writer, syncer, cursor, written, durable, told,
     faults
<1>e. /\ up /\ wpc = "cmd" /\ batch > 0 /\ Head1.op = "append" /\ current # 0
      /\ buf' = buf \cup {Head1.arg} /\ lastWritten' = Head1.arg /\ batch' = batch - 1
  BY <1>i DEF BufferRecord
<1>l. Len(queue) > 0
  BY <1>i, <1>n, <1>e DEF QueueInv, Rotating, Nums
<1>h. /\ queue \in Seq(Command) /\ Len(queue) > 0 /\ Head1 = queue[1] /\ 1 \in 1..Len(queue)
  BY <1>i, <1>l DEF TypeOK, ValuesOK, Head1
<1>g. queue[1].arg \in Tx /\ lastWritten < queue[1].arg /\ queue[1].arg <= lastAppended
  BY <1>i, <1>n, <1>e, <1>h, CommandFacts DEF QueueInv, Rotating
<1>q. queue' = Tail(queue)
  BY DEF BufferRecord
<1>s. /\ Len(queue') = Len(queue) - 1 /\ queue' \in Seq(Command)
      /\ \A i \in 1..Len(queue') : i + 1 \in 1..Len(queue) /\ queue'[i] = queue[i + 1]
  BY <1>h, <1>n, <1>q DEF Nums
<1>x. \A i \in 1..Len(queue) : i = 1 \/ (i - 1 \in 1..Len(queue') /\ queue'[i - 1] = queue[i])
  BY <1>s, <1>n DEF Nums
<1>y. /\ entryEpoch' \in [Tx -> 0..MaxEpoch] /\ entryEpoch'[queue[1].arg] = wEpoch
      /\ \A t \in Tx : t # queue[1].arg => entryEpoch'[t] = entryEpoch[t]
  BY <1>i, <1>h, <1>g, BoundsAreNat DEF BoundsAreNat, TypeOK, ValuesOK, BufferRecord, Epochs
<1>v. buf' \subseteq Tx /\ lastWritten' \in TxOpt /\ batch' \in Nat /\ batch' <= Len(queue')
  BY <1>i, <1>n, <1>e, <1>h, <1>g, <1>s DEF QueueInv, Nums
<1>r. ~Rotating /\ ~Rotating' /\ ~rxClosed
  BY <1>f, <1>e, <1>i DEF Rotating, ControlInv
<1>o. queue[1].op = "append"
  BY <1>e, <1>h
<1>k. \A x \in Nat : Queued(x) <=> Queued(x)' \/ x = queue[1].arg
  <2>1. ASSUME NEW x \in Nat, Queued(x), x # queue[1].arg PROVE Queued(x)'
    BY <2>1, <1>x DEF Queued
  <2>2. ASSUME NEW x \in Nat, Queued(x)' PROVE Queued(x)
    BY <2>2, <1>s DEF Queued
  <2>3. Queued(queue[1].arg)
    BY <1>h, <1>o DEF Queued
  <2> QED
    BY <2>1, <2>2, <2>3
<1>tc. ~wfailed /\ current \in live /\ IsTail(current) /\ current \in headed /\ current <= queue[1].arg
  BY <1>i, <1>n, <1>e, <1>h DEF ControlInv, WriterInv, Healthy, IsLast, IsTail, NameInv, NamesBelow, Nums
<1>ac. \A x \in Nat : Accounted(x) => Accounted(x)'
  BY <1>f, <1>e, <1>h, <1>k DEF Accounted, OnDisk
<1>pc. Predecessors'
  BY <1>n, <1>e, <1>i, <1>s, <1>ac, PredecessorsStep DEF NameInv, Nums
<1>qc. NamesBelow'
  BY <1>n, <1>f, <1>e, <1>i, <1>s, <1>r DEF NameInv, NamesBelow, Nums
<1>wc. \A t \in issued : t <= queue[1].arg => t <= lastWritten \/ t = queue[1].arg
  <2> SUFFICES ASSUME NEW t \in issued, t <= queue[1].arg, ~(t <= lastWritten) PROVE t = queue[1].arg
    OBVIOUS
  <2>1. Queued(t) /\ t \in Nat
    BY <1>n, <1>i, <1>r DEF QueueInv, Nums
  <2>2. PICK i \in 1..Len(queue) : queue[i].op = "append" /\ queue[i].arg = t
    BY <2>1 DEF Queued
  <2>3. i = 1 \/ queue[1].arg < t
    BY <2>2, <1>i, <1>h, <1>o, <1>n DEF QueueInv, Nums
  <2> QED
    BY <2>1, <2>2, <2>3, <1>g
<1>1. FlagsOK'
  BY <1>i DEF TypeOK, FlagsOK, BufferRecord, disk, handle, writer, syncer, cursor,
     written, durable, told, faults
<1>2. ValuesOK'
  BY <1>i, <1>f, <1>y, <1>s, <1>v DEF TypeOK, ValuesOK
<1>3. QueueInv'
  <2>1. \A i \in 1..Len(queue') : queue'[i].op = "append" =>
          queue[1].arg < queue'[i].arg /\ queue'[i].arg <= lastAppended
    <3> SUFFICES ASSUME NEW i \in 1..Len(queue'), queue'[i].op = "append"
                 PROVE  queue[1].arg < queue'[i].arg /\ queue'[i].arg <= lastAppended
      OBVIOUS
    <3>1. i + 1 \in 1..Len(queue) /\ 1 < i + 1 /\ queue'[i] = queue[i + 1]
      BY <1>s
    <3> QED
      BY <1>i, <1>h, <1>o, <3>1 DEF QueueInv
  <2>2. \A i, j \in 1..Len(queue') :
          i < j /\ queue'[i].op = "append" /\ queue'[j].op = "append" => queue'[i].arg < queue'[j].arg
    <3> SUFFICES ASSUME NEW i \in 1..Len(queue'), NEW j \in 1..Len(queue'), i < j,
                        queue'[i].op = "append", queue'[j].op = "append"
                 PROVE  queue'[i].arg < queue'[j].arg
      OBVIOUS
    <3>1. /\ i + 1 \in 1..Len(queue) /\ queue'[i] = queue[i + 1]
          /\ j + 1 \in 1..Len(queue) /\ queue'[j] = queue[j + 1] /\ i + 1 < j + 1
      BY <1>s
    <3> QED
      BY <1>i, <3>1 DEF QueueInv
  <2>3. \A t \in issued : t > queue[1].arg => Queued(t)'
    BY <1>i, <1>n, <1>g, <1>k, <1>r DEF QueueInv, Nums
  <2> QED
    BY <1>i, <1>n, <1>f, <1>e, <1>h, <1>g, <1>r, <1>v, <2>1, <2>2, <2>3 DEF QueueInv, Nums
<1>4. DiskInv'
  BY <1>i, <1>n, <1>f, <1>e DEF DiskInv, OnDisk, Sealed, Nums
<1>5. NameInv'
  BY <1>n, <1>f, <1>e, <1>h, <1>i, <1>ac, <1>pc, <1>qc, <1>tc DEF NameInv, OnDisk, Nums
<1>6. ControlInv'
  BY <1>i, <1>n, <1>f, <1>e DEF ControlInv
<1>7. WriterInv'
  BY <1>n, <1>f, <1>e, <1>h, <1>g, <1>i, <1>tc DEF WriterInv, Healthy, IsLast, IsTail, OnDisk, Nums
<1>8. MarkInv'
  BY <1>n, <1>f, <1>e, <1>h, <1>g, <1>i, <1>wc DEF MarkInv, QueueInv, OnDisk, Nums
<1>9. EpochInv'
  <2>1. \A t \in OnDisk \cup buf : t <= lastWritten /\ entryEpoch'[t] = entryEpoch[t]
    BY <1>n, <1>e, <1>g, <1>y, <1>i DEF WriterInv, OnDisk, Nums
  <2>2. OnDisk' = OnDisk /\ buf' = buf \cup {queue[1].arg}
    BY <1>f, <1>e, <1>h DEF OnDisk
  <2>3. \A t, u \in (OnDisk \cup buf)' : t < u => entryEpoch'[t] <= entryEpoch'[u]
    <3> SUFFICES ASSUME NEW t \in OnDisk' \cup buf', NEW u \in OnDisk' \cup buf', t < u
                 PROVE  entryEpoch'[t] <= entryEpoch'[u]
      OBVIOUS
    <3>1. t \in OnDisk \cup buf
      BY <1>n, <1>g, <2>1, <2>2 DEF OnDisk, Nums
    <3>2. CASE u \in OnDisk \cup buf
      BY <3>1, <3>2, <1>i, <2>1 DEF EpochInv
    <3>3. CASE u = queue[1].arg
      BY <3>1, <3>3, <1>e, <1>i, <1>y, <2>1 DEF EpochInv
    <3> QED
      BY <2>2, <3>2, <3>3
  <2>4. \A i \in 1..Len(queue') : queue'[i].op = "epoch" => queue'[i].arg <= bootEpoch
    BY <1>i, <1>e, <1>s DEF EpochInv
  <2> QED
    <3>1. \A t \in OnDisk' : entryEpoch'[t] <= bootEpoch
      BY <1>i, <2>1, <2>2 DEF EpochInv
    <3>2. \A t \in (OnDisk \cup buf)' : entryEpoch'[t] <= wEpoch
      BY <1>n, <1>e, <1>y, <1>i, <2>1, <2>2 DEF EpochInv, Nums
    <3> QED
      BY <1>f, <1>e, <1>i, <2>3, <2>4, <3>1, <3>2 DEF EpochInv
<1>10. Promises'
  BY <1>i, <1>n, <1>f, <1>e DEF Promises, OnDisk, Nums
<1> QED
  BY <1>1, <1>2, <1>3, <1>4, <1>5, <1>6, <1>7, <1>8, <1>9, <1>10
     DEF IInv, TypeOK

\* The segment that is sealed holds a record, so the next file has a higher name.
LEMMA BeginRotationInv ==
  ASSUME IInv, BeginRotation
  PROVE  IInv'
<1> USE TxFacts
<1>i. /\ TypeOK /\ QueueInv /\ DiskInv /\ NameInv
      /\ ControlInv /\ WriterInv /\ MarkInv /\ EpochInv /\ Promises
  BY DEF IInv
<1>n. Nums
  BY <1>i, TypeNums
<1>f. /\ live' = live /\ headed' = headed /\ home' = home /\ stable' = stable
      /\ torn' = torn /\ eio' = eio /\ holed' = holed /\ up' = up /\ queue' = queue
      /\ lastAppended' = lastAppended /\ issued' = issued /\ batch' = batch /\ buf' = buf
      /\ current' = current /\ lastWritten' = lastWritten /\ rxClosed' = rxClosed
      /\ wfailed' = wfailed /\ spc' = spc /\ sHandle' = sHandle /\ sTarget' = sTarget
      /\ cHandle' = cHandle /\ cWritten' = cWritten /\ writtenMark' = writtenMark
      /\ durableMark' = durableMark /\ durableFailed' = durableFailed /\ acked' = acked
      /\ confirmed' = confirmed /\ covered' = covered /\ syncFaults' = syncFaults
      /\ osCrashes' = osCrashes /\ bootEpoch' = bootEpoch /\ entryEpoch' = entryEpoch
      /\ wEpoch' = wEpoch
  BY DEF BeginRotation, disk, handle, writer, syncer, cursor, written, durable, told,
     faults
<1>e. /\ up /\ wpc = "cmd" /\ batch > 0 /\ Head1.op = "append"
      /\ IF current = 0 THEN wpc' = "create" /\ why' = why ELSE wpc' = "write" /\ why' = "rotate"
      /\ current = 0 \/ buf # {} \/ \E t \in Tx : home[t] = current
  BY <1>i DEF BeginRotation
<1>l. Len(queue) > 0
  BY <1>i, <1>n, <1>e DEF QueueInv, Rotating, Nums
<1>h. /\ queue \in Seq(Command) /\ Len(queue) > 0 /\ Head1 = queue[1] /\ 1 \in 1..Len(queue)
  BY <1>i, <1>l DEF TypeOK, ValuesOK, Head1
<1>g. queue[1].arg \in Tx /\ lastWritten < queue[1].arg /\ queue[1].arg <= lastAppended
  BY <1>i, <1>n, <1>e, <1>h, CommandFacts DEF QueueInv, Rotating
<1>tc. ~wfailed /\ IsLast(current, live) /\ (current = 0 => buf = {} /\ live = {})
  BY <1>i, <1>n, <1>e DEF ControlInv, WriterInv, Healthy, IsLast, IsTail, Nums
<1>wc. current = 0 \/ current <= lastWritten
  BY <1>i, <1>n, <1>e DEF NameInv, WriterInv, OnDisk, Nums
<1>qc. NamesBelow'
  BY <1>n, <1>f, <1>i, <1>tc, <1>wc DEF QueueInv, IsLast, NamesBelow, Nums
<1>1. FlagsOK'
  BY <1>i DEF TypeOK, FlagsOK, BeginRotation, disk, handle, writer, syncer, cursor,
     written, durable, told, faults
<1>2. ValuesOK'
  BY <1>i DEF TypeOK, ValuesOK, BeginRotation, disk, handle, writer, syncer, cursor,
     written, durable, told, faults
<1>3. QueueInv'
  BY <1>i, <1>n, <1>f, <1>e, <1>h DEF QueueInv, Rotating, Queued, Nums
<1>4. DiskInv'
  BY <1>i, <1>n, <1>f, <1>e DEF DiskInv, OnDisk, Sealed, Nums
<1>5. NameInv'
  BY <1>n, <1>f, <1>e, <1>i, <1>qc DEF NameInv, Predecessors, Accounted, Queued, OnDisk, Nums
<1>6. ControlInv'
  BY <1>i, <1>n, <1>f, <1>e, <1>tc DEF ControlInv
<1>7. WriterInv'
  BY <1>i, <1>n, <1>f, <1>e, <1>tc DEF WriterInv, Healthy, IsLast, IsTail, OnDisk, Nums
<1>8. MarkInv'
  BY <1>i, <1>n, <1>f, <1>e DEF MarkInv, OnDisk, Nums
<1>9. EpochInv'
  BY <1>i, <1>n, <1>f, <1>e DEF EpochInv, OnDisk, Nums
<1>10. Promises'
  BY <1>i, <1>n, <1>f, <1>e DEF Promises, OnDisk, Nums
<1> QED
  BY <1>1, <1>2, <1>3, <1>4, <1>5, <1>6, <1>7, <1>8, <1>9, <1>10
     DEF IInv, TypeOK

\* The new file is the tail; the file behind it is fully fsynced.
LEMMA CreateSegmentInv ==
  ASSUME IInv, CreateSegment
  PROVE  IInv'
<1> USE TxFacts
<1>i. /\ TypeOK /\ QueueInv /\ DiskInv /\ NameInv
      /\ ControlInv /\ WriterInv /\ MarkInv /\ EpochInv /\ Promises
  BY DEF IInv
<1>n. Nums
  BY <1>i, TypeNums
<1>f. /\ headed' = headed /\ home' = home /\ stable' = stable /\ torn' = torn /\ eio' = eio
      /\ holed' = holed /\ up' = up /\ queue' = queue /\ lastAppended' = lastAppended
      /\ issued' = issued /\ why' = why /\ batch' = batch /\ buf' = buf
      /\ current' = current /\ lastWritten' = lastWritten /\ rxClosed' = rxClosed
      /\ wfailed' = wfailed /\ spc' = spc /\ sHandle' = sHandle /\ sTarget' = sTarget
      /\ cHandle' = cHandle /\ cWritten' = cWritten /\ writtenMark' = writtenMark
      /\ durableMark' = durableMark /\ durableFailed' = durableFailed /\ acked' = acked
      /\ confirmed' = confirmed /\ covered' = covered /\ syncFaults' = syncFaults
      /\ osCrashes' = osCrashes /\ bootEpoch' = bootEpoch /\ entryEpoch' = entryEpoch
      /\ wEpoch' = wEpoch
  BY DEF CreateSegment, disk, handle, writer, syncer, cursor, written, durable, told,
     faults
<1>e. /\ up /\ wpc = "create" /\ wpc' = "header"
      /\ live' = live \cup {Head1.arg}
  BY <1>i DEF CreateSegment
<1>l. Len(queue) > 0
  BY <1>i, <1>n, <1>e DEF QueueInv, Rotating, Nums
<1>h. /\ queue \in Seq(Command) /\ Len(queue) > 0 /\ Head1 = queue[1] /\ 1 \in 1..Len(queue)
  BY <1>i, <1>l DEF TypeOK, ValuesOK, Head1
<1>g. queue[1].arg \in Tx /\ lastWritten < queue[1].arg /\ queue[1].arg <= lastAppended
  BY <1>i, <1>n, <1>e, <1>h, CommandFacts DEF QueueInv, Rotating
<1>r. Rotating /\ Rotating'
  BY <1>e DEF Rotating
<1>tc. ~wfailed /\ buf = {} /\ torn = {} /\ IsLast(current, live) /\ live \subseteq headed
  BY <1>i, <1>n, <1>e DEF ControlInv, WriterInv, Healthy
<1>lc. \A f \in live : f < queue[1].arg
  BY <1>i, <1>n, <1>e, <1>h, <1>r DEF QueueInv, NameInv, NamesBelow, Nums
<1>mc. \A i \in 1..Len(queue) : queue[i].op = "append" => queue[1].arg <= queue[i].arg
  BY <1>i, <1>n, <1>h, <1>r DEF QueueInv, Nums
<1>pc. queue[1].arg = 1 \/ queue[1].arg - 1 <= covered \/ queue[1].arg - 1 \in OnDisk
  BY <1>i, <1>n, <1>e, <1>h, <1>g, <1>r, <1>tc, <1>mc DEF QueueInv, NameInv, Predecessors, Accounted, Queued, Nums
<1>qc. NamesBelow'
  BY <1>n, <1>f, <1>e, <1>h, <1>i, <1>mc DEF NameInv, NamesBelow, Nums
<1>cc. \A t \in OnDisk : home[t] \in live /\ (~Sealed(home[t]) => home[t] = current)
  BY <1>i, <1>n, <1>tc DEF DiskInv, IsLast, Sealed, OnDisk, Nums
<1>sc. /\ \A f \in live : Sealed(f)'
      /\ ~Sealed(queue[1].arg)'
  BY <1>n, <1>e, <1>h, <1>g, <1>f, <1>lc DEF Sealed, Nums
<1>oc. OnDisk' = OnDisk
  BY <1>f DEF OnDisk
<1>1. FlagsOK'
  BY <1>i DEF TypeOK, FlagsOK, CreateSegment, disk, handle, writer, syncer, cursor,
     written, durable, told, faults
<1>2. ValuesOK'
  BY <1>i, <1>g, <1>h DEF TypeOK, ValuesOK, CreateSegment, disk, handle, writer,
     syncer, cursor, written, durable, told, faults
<1>3. QueueInv'
  BY <1>i, <1>n, <1>f, <1>e, <1>h DEF QueueInv, Rotating, Queued, Nums
<1>4. DiskInv'
  <2>1. \A t \in OnDisk, g \in live' : home[t] < g => t < g
    BY <1>n, <1>e, <1>h, <1>g, <1>i DEF DiskInv, WriterInv, OnDisk, Nums
  <2>2. \A t \in OnDisk : home[t] \notin eio => t \in stable
    BY <1>e, <1>i, <1>cc DEF DiskInv, WriterInv
  <2>3. \A f \in live' : Sealed(f)' => f \in headed
    BY <1>f, <1>e, <1>h, <1>tc, <1>sc
  <2> QED
    BY <1>f, <1>i, <1>tc, <1>oc, <2>1, <2>2, <2>3 DEF DiskInv
<1>5. NameInv'
  BY <1>n, <1>f, <1>e, <1>h, <1>g, <1>i, <1>pc, <1>qc DEF NameInv, Predecessors, Accounted, Queued, OnDisk, Nums
<1>6. ControlInv'
  BY <1>i, <1>n, <1>f, <1>e DEF ControlInv
<1>7. WriterInv'
  BY <1>n, <1>f, <1>e, <1>h, <1>g, <1>i, <1>tc, <1>lc, <1>oc DEF WriterInv, Healthy, IsTail, IsLast, Nums
<1>8. MarkInv'
  BY <1>i, <1>n, <1>f, <1>e DEF MarkInv, OnDisk, Nums
<1>9. EpochInv'
  BY <1>i, <1>n, <1>f, <1>e DEF EpochInv, OnDisk, Nums
<1>10. Promises'
  BY <1>i, <1>n, <1>f, <1>e DEF Promises, OnDisk, Nums
<1> QED
  BY <1>1, <1>2, <1>3, <1>4, <1>5, <1>6, <1>7, <1>8, <1>9, <1>10
     DEF IInv, TypeOK

\* The file becomes the writer's segment.
LEMMA WriteHeaderInv ==
  ASSUME IInv, WriteHeader
  PROVE  IInv'
<1> USE TxFacts
<1>i. /\ TypeOK /\ QueueInv /\ DiskInv /\ NameInv
      /\ ControlInv /\ WriterInv /\ MarkInv /\ EpochInv /\ Promises
  BY DEF IInv
<1>n. Nums
  BY <1>i, TypeNums
<1>f. /\ live' = live /\ home' = home /\ stable' = stable /\ torn' = torn /\ eio' = eio
      /\ holed' = holed /\ up' = up /\ queue' = queue /\ lastAppended' = lastAppended
      /\ issued' = issued /\ why' = why /\ batch' = batch /\ buf' = buf
      /\ lastWritten' = lastWritten /\ rxClosed' = rxClosed /\ wfailed' = wfailed
      /\ spc' = spc /\ sHandle' = sHandle /\ sTarget' = sTarget /\ cHandle' = cHandle
      /\ cWritten' = cWritten /\ writtenMark' = writtenMark /\ durableMark' = durableMark
      /\ durableFailed' = durableFailed /\ acked' = acked /\ confirmed' = confirmed
      /\ covered' = covered /\ syncFaults' = syncFaults /\ osCrashes' = osCrashes
      /\ bootEpoch' = bootEpoch /\ entryEpoch' = entryEpoch /\ wEpoch' = wEpoch
  BY DEF WriteHeader, disk, handle, writer, syncer, cursor, written, durable, told,
     faults
<1>e. /\ up /\ wpc = "header" /\ wpc' = "cmd"
      /\ headed' = headed \cup {Head1.arg} /\ current' = Head1.arg
  BY <1>i DEF WriteHeader
<1>l. Len(queue) > 0
  BY <1>i, <1>n, <1>e DEF QueueInv, Rotating, Nums
<1>h. /\ queue \in Seq(Command) /\ Len(queue) > 0 /\ Head1 = queue[1] /\ 1 \in 1..Len(queue)
  BY <1>i, <1>l DEF TypeOK, ValuesOK, Head1
<1>g. queue[1].arg \in Tx /\ lastWritten < queue[1].arg /\ queue[1].arg <= lastAppended
  BY <1>i, <1>n, <1>e, <1>h, CommandFacts DEF QueueInv, Rotating
<1>t. queue[1].arg \in live /\ IsTail(queue[1].arg) /\ buf = {} /\ live \subseteq headed'
  BY <1>i, <1>n, <1>e, <1>h DEF ControlInv, WriterInv, IsTail, Nums
<1>r. ~Rotating'
  BY <1>e DEF Rotating
<1>qc. NamesBelow'
  BY <1>n, <1>f, <1>e, <1>i, <1>r DEF NameInv, NamesBelow, Nums
<1>1. FlagsOK'
  BY <1>i DEF TypeOK, FlagsOK, WriteHeader, disk, handle, writer, syncer, cursor,
     written, durable, told, faults
<1>2. ValuesOK'
  BY <1>i, <1>g, <1>h, <1>t DEF TypeOK, ValuesOK, WriteHeader, disk, handle, writer,
     syncer, cursor, written, durable, told, faults
<1>3. QueueInv'
  BY <1>i, <1>n, <1>f, <1>e, <1>h DEF QueueInv, Rotating, Queued, Nums
<1>4. DiskInv'
  BY <1>i, <1>n, <1>f, <1>e DEF DiskInv, OnDisk, Sealed, Nums
<1>5. NameInv'
  BY <1>n, <1>f, <1>e, <1>i, <1>t, <1>qc DEF NameInv, Predecessors, Accounted, Queued, OnDisk, Nums
<1>6. ControlInv'
  BY <1>i, <1>n, <1>f, <1>e, <1>t DEF ControlInv
<1>7. WriterInv'
  BY <1>n, <1>f, <1>e, <1>h, <1>g, <1>t, <1>i DEF WriterInv, Healthy, IsTail, IsLast, OnDisk, Nums
<1>8. MarkInv'
  BY <1>i, <1>n, <1>f, <1>e DEF MarkInv, OnDisk, Nums
<1>9. EpochInv'
  BY <1>i, <1>n, <1>f, <1>e DEF EpochInv, OnDisk, Nums
<1>10. Promises'
  BY <1>i, <1>n, <1>f, <1>e DEF Promises, OnDisk, Nums
<1> QED
  BY <1>1, <1>2, <1>3, <1>4, <1>5, <1>6, <1>7, <1>8, <1>9, <1>10
     DEF IInv, TypeOK

\* An epoch change waits for the flush of the batch, then takes effect.
LEMMA ApplyEpochInv ==
  ASSUME IInv, ApplyEpoch
  PROVE  IInv'
<1> USE TxFacts
<1>i. /\ TypeOK /\ QueueInv /\ DiskInv /\ NameInv
      /\ ControlInv /\ WriterInv /\ MarkInv /\ EpochInv /\ Promises
  BY DEF IInv
<1>n. Nums
  BY <1>i, TypeNums
<1>f. /\ live' = live /\ headed' = headed /\ home' = home /\ stable' = stable
      /\ torn' = torn /\ eio' = eio /\ holed' = holed /\ up' = up
      /\ lastAppended' = lastAppended /\ issued' = issued /\ buf' = buf
      /\ current' = current /\ lastWritten' = lastWritten /\ rxClosed' = rxClosed
      /\ wfailed' = wfailed /\ spc' = spc /\ sHandle' = sHandle /\ sTarget' = sTarget
      /\ cHandle' = cHandle /\ cWritten' = cWritten /\ writtenMark' = writtenMark
      /\ durableMark' = durableMark /\ durableFailed' = durableFailed /\ acked' = acked
      /\ confirmed' = confirmed /\ covered' = covered /\ syncFaults' = syncFaults
      /\ osCrashes' = osCrashes /\ bootEpoch' = bootEpoch /\ entryEpoch' = entryEpoch
      /\ closing' = closing /\ epoch' = epoch /\ epochReq' = epochReq /\ cSynced' = cSynced
      /\ shutdown' = shutdown /\ writtenFailed' = writtenFailed /\ lateAcked' = lateAcked
      /\ crashes' = crashes /\ writeFaults' = writeFaults
  BY DEF ApplyEpoch, disk, handle, writer, syncer, cursor, written, durable, told,
     faults
<1>e. /\ up /\ wpc = "cmd" /\ batch > 0 /\ Head1.op = "epoch"
  BY <1>i DEF ApplyEpoch
<1>l. Len(queue) > 0
  BY <1>i, <1>n, <1>e DEF QueueInv, Rotating, Nums
<1>h. /\ queue \in Seq(Command) /\ Len(queue) > 0 /\ Head1 = queue[1] /\ 1 \in 1..Len(queue)
  BY <1>i, <1>l DEF TypeOK, ValuesOK, Head1
<1>a. \/ /\ buf # {} /\ wpc' = "write" /\ why' = "epoch"
         /\ wEpoch' = wEpoch /\ queue' = queue /\ batch' = batch
      \/ /\ wEpoch' = AtLeast(wEpoch, queue[1].arg) /\ queue' = Tail(queue)
         /\ batch' = batch - 1 /\ wpc' = wpc /\ why' = why
  BY <1>h DEF ApplyEpoch
<1>c. /\ queue' \in Seq(Command) /\ Len(queue') \in Nat
      /\ \A i \in 1..Len(queue') : \E j \in 1..Len(queue) : queue'[i] = queue[j] /\ j = i + Len(queue) - Len(queue')
      /\ \A i \in 1..Len(queue) : queue[i].op = "append" =>
           \E j \in 1..Len(queue') : queue'[j] = queue[i]
      /\ batch' \in Nat /\ batch' <= Len(queue')
  <2>1. CASE queue' = queue /\ batch' = batch
    BY <2>1, <1>h, <1>i, <1>n DEF QueueInv, Nums
  <2>2. CASE queue' = Tail(queue) /\ batch' = batch - 1
    <3>1. /\ Len(queue') = Len(queue) - 1 /\ queue' \in Seq(Command)
          /\ \A i \in 1..Len(queue') : i + 1 \in 1..Len(queue) /\ queue'[i] = queue[i + 1]
      BY <2>2, <1>h, <1>n DEF Nums
    <3>2. \A i \in 1..Len(queue) : i = 1 \/ (i - 1 \in 1..Len(queue') /\ queue'[i - 1] = queue[i])
      BY <3>1, <1>n DEF Nums
    <3>3. queue[1].op = "epoch"
      BY <1>e, <1>h
    <3>4. \A i \in 1..Len(queue) : queue[i].op = "append" =>
           \E j \in 1..Len(queue') : queue'[j] = queue[i]
      BY <3>2, <3>3
    <3>5. batch' \in Nat /\ batch' <= Len(queue')
      BY <2>2, <3>1, <1>e, <1>i, <1>n DEF QueueInv, Nums
    <3>6. \A i \in 1..Len(queue') : \E j \in 1..Len(queue) : queue'[i] = queue[j] /\ j = i + Len(queue) - Len(queue')
      BY <3>1, <1>n DEF Nums
    <3> QED
      BY <3>1, <3>4, <3>5, <3>6, <1>n DEF Nums
  <2> QED
    BY <1>a, <2>1, <2>2
<1>y. wEpoch' \in Epochs /\ wEpoch' \in Nat /\ wEpoch <= wEpoch' /\ wEpoch' <= bootEpoch
  <2>1. queue[1].op = "epoch" /\ queue[1].arg \in Epochs /\ queue[1].arg \in Nat
    BY <1>e, <1>h, CommandFacts
  <2>2. queue[1].arg <= bootEpoch /\ wEpoch <= bootEpoch /\ wEpoch \in Epochs
    BY <1>i, <1>e, <1>h, <2>1 DEF EpochInv, TypeOK, ValuesOK
  <2> QED
    BY <1>a, <1>n, <2>1, <2>2 DEF AtLeast, Nums
<1>r. ~Rotating /\ ~Rotating'
  BY <1>a, <1>e DEF Rotating
<1>k. \A x \in Nat : Queued(x) <=> Queued(x)'
  <2>1. ASSUME NEW x \in Nat, Queued(x) PROVE Queued(x)'
    BY <2>1, <1>c DEF Queued
  <2>2. ASSUME NEW x \in Nat, Queued(x)' PROVE Queued(x)
    BY <2>2, <1>c DEF Queued
  <2> QED
    BY <2>1, <2>2
<1>w. wpc' \in {"cmd", "write"} /\ (why' = why \/ why' = "epoch") /\ (wpc' = "cmd" => why' = why)
  BY <1>a, <1>e
<1>ac. \A x \in Nat : Accounted(x) => Accounted(x)'
  BY <1>f, <1>k DEF Accounted, OnDisk
<1>pc. Predecessors'
  BY <1>n, <1>e, <1>i, <1>c, <1>ac, PredecessorsStep DEF NameInv
<1>qc. NamesBelow'
  BY <1>n, <1>f, <1>e, <1>i, <1>c, <1>r DEF NameInv, NamesBelow, Nums
<1>1. FlagsOK'
  BY <1>i DEF TypeOK, FlagsOK, ApplyEpoch, disk, handle, writer, syncer, cursor,
     written, durable, told, faults
<1>2. ValuesOK'
  BY <1>i, <1>f, <1>c, <1>y, <1>w DEF TypeOK, ValuesOK
<1>3. QueueInv'
  <2>1. /\ \A i \in 1..Len(queue') : queue'[i].op = "append" =>
             lastWritten < queue'[i].arg /\ queue'[i].arg <= lastAppended
    BY <1>i, <1>c DEF QueueInv
  <2>2. \A i, j \in 1..Len(queue') :
          i < j /\ queue'[i].op = "append" /\ queue'[j].op = "append" => queue'[i].arg < queue'[j].arg
    <3> SUFFICES ASSUME NEW i \in 1..Len(queue'), NEW j \in 1..Len(queue'), i < j,
                        queue'[i].op = "append", queue'[j].op = "append"
                 PROVE  queue'[i].arg < queue'[j].arg
      OBVIOUS
    <3>1. PICK k \in 1..Len(queue) : queue'[i] = queue[k] /\ k = i + Len(queue) - Len(queue')
      BY <1>c
    <3>2. PICK l \in 1..Len(queue) : queue'[j] = queue[l] /\ l = j + Len(queue) - Len(queue')
      BY <1>c
    <3>3. k < l
      BY <3>1, <3>2, <1>c, <1>n DEF Nums
    <3> QED
      BY <1>i, <3>1, <3>2, <3>3 DEF QueueInv
  <2>3. /\ ~rxClosed' => \A t \in issued' : t > lastWritten' => Queued(t)'
        /\ ~rxClosed
    BY <1>i, <1>n, <1>f, <1>e, <1>k DEF QueueInv, ControlInv, Nums
  <2> QED
    BY <1>i, <1>n, <1>f, <1>r, <1>c, <2>1, <2>2, <2>3 DEF QueueInv, Nums
<1>4. DiskInv'
  BY <1>i, <1>n, <1>f, <1>e DEF DiskInv, OnDisk, Sealed, Nums
<1>5. NameInv'
  BY <1>n, <1>f, <1>e, <1>i, <1>ac, <1>pc, <1>qc DEF NameInv, OnDisk, Nums
<1>6. ControlInv'
  BY <1>i, <1>n, <1>f, <1>e, <1>w DEF ControlInv
<1>7. WriterInv'
  BY <1>i, <1>n, <1>f, <1>e, <1>w DEF WriterInv, Healthy, IsLast, IsTail, OnDisk, Nums
<1>8. MarkInv'
  BY <1>i, <1>n, <1>f, <1>e DEF MarkInv, OnDisk, Nums
<1>9. EpochInv'
  <2>1. OnDisk' = OnDisk
    BY <1>f DEF OnDisk
  <2>2. \A i \in 1..Len(queue') : queue'[i].op = "epoch" => queue'[i].arg <= bootEpoch
    BY <1>c, <1>e, <1>i DEF EpochInv
  <2>3. \A t \in OnDisk \cup buf : entryEpoch[t] <= wEpoch'
    BY <1>n, <1>e, <1>y, <1>i DEF EpochInv, OnDisk, Nums
  <2> QED
    BY <2>1, <2>2, <2>3, <1>f, <1>y, <1>i DEF EpochInv
<1>10. Promises'
  BY <1>i, <1>n, <1>f, <1>e DEF Promises, OnDisk, Nums
<1> QED
  BY <1>1, <1>2, <1>3, <1>4, <1>5, <1>6, <1>7, <1>8, <1>9, <1>10
     DEF IInv, TypeOK

\* The batch ends with a flush when it buffered anything.
LEMMA BatchDoneInv ==
  ASSUME IInv, BatchDone
  PROVE  IInv'
<1> USE TxFacts
<1>i. /\ TypeOK /\ QueueInv /\ DiskInv /\ NameInv
      /\ ControlInv /\ WriterInv /\ MarkInv /\ EpochInv /\ Promises
  BY DEF IInv
<1>n. Nums
  BY <1>i, TypeNums
<1>f. /\ live' = live /\ headed' = headed /\ home' = home /\ stable' = stable
      /\ torn' = torn /\ eio' = eio /\ holed' = holed /\ up' = up /\ queue' = queue
      /\ lastAppended' = lastAppended /\ issued' = issued /\ batch' = batch /\ buf' = buf
      /\ current' = current /\ lastWritten' = lastWritten /\ rxClosed' = rxClosed
      /\ wfailed' = wfailed /\ spc' = spc /\ sHandle' = sHandle /\ sTarget' = sTarget
      /\ cHandle' = cHandle /\ cWritten' = cWritten /\ writtenMark' = writtenMark
      /\ durableMark' = durableMark /\ durableFailed' = durableFailed /\ acked' = acked
      /\ confirmed' = confirmed /\ covered' = covered /\ syncFaults' = syncFaults
      /\ osCrashes' = osCrashes /\ bootEpoch' = bootEpoch /\ entryEpoch' = entryEpoch
      /\ wEpoch' = wEpoch
  BY DEF BatchDone, disk, handle, writer, syncer, cursor, written, durable, told,
     faults
<1>e. /\ up /\ wpc = "cmd" /\ batch = 0
      /\ IF buf # {} THEN wpc' = "write" /\ why' = "end" ELSE wpc' = "recv" /\ why' = why
  BY <1>i DEF BatchDone
<1>1. FlagsOK'
  BY <1>i DEF TypeOK, FlagsOK, BatchDone, disk, handle, writer, syncer, cursor,
     written, durable, told, faults
<1>2. ValuesOK'
  BY <1>i DEF TypeOK, ValuesOK, BatchDone, disk, handle, writer, syncer, cursor,
     written, durable, told, faults
<1>3. QueueInv'
  BY <1>i, <1>n, <1>f, <1>e DEF QueueInv, Rotating, Queued, Nums
<1>4. DiskInv'
  BY <1>i, <1>n, <1>f, <1>e DEF DiskInv, OnDisk, Sealed, Nums
<1>5. NameInv'
  BY <1>i, <1>n, <1>f, <1>e DEF NameInv, NamesBelow, Predecessors, Accounted, Rotating,
     Queued, OnDisk, Nums, ControlInv
<1>6. ControlInv'
  BY <1>i, <1>n, <1>f, <1>e DEF ControlInv
<1>7. WriterInv'
  BY <1>i, <1>n, <1>f, <1>e DEF WriterInv, Healthy, IsLast, IsTail, OnDisk, Nums
<1>8. MarkInv'
  BY <1>i, <1>n, <1>f, <1>e DEF MarkInv, OnDisk, Nums
<1>9. EpochInv'
  BY <1>i, <1>n, <1>f, <1>e DEF EpochInv, OnDisk, Nums
<1>10. Promises'
  BY <1>i, <1>n, <1>f, <1>e DEF Promises, OnDisk, Nums
<1> QED
  BY <1>1, <1>2, <1>3, <1>4, <1>5, <1>6, <1>7, <1>8, <1>9, <1>10
     DEF IInv, TypeOK

\* A record that cannot be written stops the writer; a new file may have got its header.
LEMMA WriteRecordFailsInv ==
  ASSUME IInv, WriteRecordFails
  PROVE  IInv'
<1> USE TxFacts
<1>i. /\ TypeOK /\ QueueInv /\ DiskInv /\ NameInv
      /\ ControlInv /\ WriterInv /\ MarkInv /\ EpochInv /\ Promises
  BY DEF IInv
<1>n. Nums
  BY <1>i, TypeNums
<1>f. /\ live' = live /\ home' = home /\ stable' = stable /\ torn' = torn /\ eio' = eio
      /\ holed' = holed /\ up' = up /\ queue' = queue /\ lastAppended' = lastAppended
      /\ issued' = issued /\ why' = why /\ batch' = batch /\ buf' = buf
      /\ current' = current /\ lastWritten' = lastWritten /\ rxClosed' = rxClosed
      /\ wfailed' = wfailed /\ spc' = spc /\ sHandle' = sHandle /\ sTarget' = sTarget
      /\ cHandle' = cHandle /\ cWritten' = cWritten /\ writtenMark' = writtenMark
      /\ durableMark' = durableMark /\ durableFailed' = durableFailed /\ acked' = acked
      /\ confirmed' = confirmed /\ covered' = covered /\ syncFaults' = syncFaults
      /\ osCrashes' = osCrashes /\ bootEpoch' = bootEpoch /\ entryEpoch' = entryEpoch
      /\ wEpoch' = wEpoch /\ closing' = closing /\ epoch' = epoch /\ epochReq' = epochReq
      /\ cSynced' = cSynced /\ shutdown' = shutdown /\ writtenFailed' = writtenFailed
      /\ lateAcked' = lateAcked /\ crashes' = crashes
  BY DEF WriteRecordFails, disk, handle, writer, syncer, cursor, written, durable,
     told, faults, Rotating
<1>e. /\ up /\ wpc \in {"cmd", "create", "header"} /\ wpc' = "fail"
      /\ headed' = headed \/ (wpc = "header" /\ headed' = headed \cup {Head1.arg})
      /\ batch > 0 \/ Rotating
  BY <1>i DEF WriteRecordFails, Rotating
<1>l. Len(queue) > 0
  BY <1>i, <1>n, <1>e DEF QueueInv, Rotating, Nums
<1>h. /\ queue \in Seq(Command) /\ Len(queue) > 0 /\ Head1 = queue[1] /\ 1 \in 1..Len(queue)
  BY <1>i, <1>l DEF TypeOK, ValuesOK, Head1
<1>t. headed \subseteq headed' /\ headed' \subseteq live
  BY <1>i, <1>n, <1>e, <1>h DEF WriterInv, IsTail, Nums
<1>r. ~Rotating'
  BY <1>e DEF Rotating
<1>v. writeFaults' \in Nat
  BY <1>i DEF TypeOK, ValuesOK, WriteRecordFails
<1>qc. NamesBelow'
  BY <1>n, <1>f, <1>e, <1>i, <1>r DEF NameInv, NamesBelow, Nums
<1>1. FlagsOK'
  BY <1>i DEF TypeOK, FlagsOK, WriteRecordFails, disk, handle, writer, syncer, cursor,
     written, durable, told, faults
<1>2. ValuesOK'
  BY <1>i, <1>f, <1>t, <1>e, <1>v DEF TypeOK, ValuesOK
<1>3. QueueInv'
  BY <1>i, <1>n, <1>f, <1>e, <1>r DEF QueueInv, Queued, Nums
<1>4. DiskInv'
  BY <1>i, <1>n, <1>f, <1>e, <1>t DEF DiskInv, OnDisk, Sealed, Nums
<1>5. NameInv'
  BY <1>n, <1>f, <1>e, <1>i, <1>qc DEF NameInv, Predecessors, Accounted, Queued, OnDisk, Nums
<1>6. ControlInv'
  BY <1>i, <1>n, <1>f, <1>e DEF ControlInv
<1>7. WriterInv'
  BY <1>i, <1>n, <1>f, <1>e, <1>t DEF WriterInv, Healthy, IsLast, IsTail, OnDisk, Nums
<1>8. MarkInv'
  BY <1>i, <1>n, <1>f, <1>e DEF MarkInv, OnDisk, Nums
<1>9. EpochInv'
  BY <1>i, <1>n, <1>f, <1>e DEF EpochInv, OnDisk, Nums
<1>10. Promises'
  BY <1>i, <1>n, <1>f, <1>e DEF Promises, OnDisk, Nums
<1> QED
  BY <1>1, <1>2, <1>3, <1>4, <1>5, <1>6, <1>7, <1>8, <1>9, <1>10
     DEF IInv, TypeOK

\* The failure is published; what was buffered is still there.
LEMMA FailInv ==
  ASSUME IInv, Fail
  PROVE  IInv'
<1> USE TxFacts
<1>i. /\ TypeOK /\ QueueInv /\ DiskInv /\ NameInv
      /\ ControlInv /\ WriterInv /\ MarkInv /\ EpochInv /\ Promises
  BY DEF IInv
<1>n. Nums
  BY <1>i, TypeNums
<1>f. /\ live' = live /\ headed' = headed /\ home' = home /\ stable' = stable
      /\ torn' = torn /\ eio' = eio /\ holed' = holed /\ up' = up
      /\ lastAppended' = lastAppended /\ issued' = issued /\ buf' = buf
      /\ current' = current /\ lastWritten' = lastWritten /\ spc' = spc
      /\ sHandle' = sHandle /\ sTarget' = sTarget /\ cHandle' = cHandle
      /\ cWritten' = cWritten /\ writtenMark' = writtenMark /\ durableMark' = durableMark
      /\ acked' = acked /\ confirmed' = confirmed /\ covered' = covered
      /\ syncFaults' = syncFaults /\ osCrashes' = osCrashes /\ bootEpoch' = bootEpoch
      /\ entryEpoch' = entryEpoch /\ wEpoch' = wEpoch
  BY DEF Fail, disk, handle, writer, syncer, cursor, written, durable, told, faults
<1>e. /\ up /\ wpc = "fail" /\ wpc' = "write" /\ why' = "exit"
      /\ durableFailed' = TRUE /\ rxClosed' = TRUE /\ wfailed' = TRUE /\ batch' = 0
      /\ queue' = <<>>
  BY <1>i DEF Fail
<1>s. Len(queue') = 0 /\ queue' \in Seq(Command)
  BY <1>e
<1>1. FlagsOK'
  BY <1>i DEF TypeOK, FlagsOK, Fail, disk, handle, writer, syncer, cursor, written,
     durable, told, faults
<1>2. ValuesOK'
  BY <1>i, <1>s DEF TypeOK, ValuesOK, Fail, disk, handle, writer, syncer, cursor,
     written, durable, told, faults
<1>3. QueueInv'
  BY <1>i, <1>n, <1>f, <1>e, <1>s DEF QueueInv, Rotating, Queued, Nums
<1>4. DiskInv'
  BY <1>i, <1>n, <1>f, <1>e DEF DiskInv, OnDisk, Sealed, Nums
<1>5. NameInv'
  BY <1>i, <1>n, <1>f, <1>e, <1>s DEF NameInv, NamesBelow, Predecessors, Accounted,
     Rotating, Queued, OnDisk, Nums
<1>6. ControlInv'
  BY <1>i, <1>n, <1>f, <1>e DEF ControlInv
<1>7. WriterInv'
  BY <1>i, <1>n, <1>f, <1>e DEF WriterInv, Healthy, IsLast, IsTail, OnDisk, Nums
<1>8. MarkInv'
  BY <1>i, <1>n, <1>f, <1>e DEF MarkInv, OnDisk, Nums
<1>9. EpochInv'
  BY <1>i, <1>n, <1>f, <1>e, <1>s DEF EpochInv, OnDisk, Nums
<1>10. Promises'
  BY <1>i, <1>n, <1>f, <1>e DEF Promises, OnDisk, Nums
<1> QED
  BY <1>1, <1>2, <1>3, <1>4, <1>5, <1>6, <1>7, <1>8, <1>9, <1>10
     DEF IInv, TypeOK

-----------------------------------------------------------------------------
(* The writer's flushes and the syncer.                                    *)

\* What a write to the tail does to the files: some buffered entries become
\* readable in the writer's segment, nothing else moves.
Written ==
  /\ \A t \in Tx : \/ home'[t] = home[t]
                   \/ t \in buf /\ t \notin OnDisk /\ home'[t] = current
  /\ torn' = torn \/ torn' = torn \cup {current}
  /\ \A t, u \in Tx : t < u /\ t \in buf /\ u \in buf /\ u \in OnDisk' => t \in OnDisk'
  /\ home' \in [Tx -> TxOpt]

\* A whole write adds its frames to the segment, or tears it, and moves no
\* entry that was readable.
LEMMA WriteFramesFacts ==
  ASSUME IInv, up, buf # {}, WriteFrames(buf, current)
  PROVE  /\ Written
         /\ ~wfailed /\ wpc # "fail" => torn' = {} /\ \A t \in buf : home'[t] = current
<1> USE TxFacts
<1>i. TypeOK /\ Nums /\ DiskInv /\ WriterInv
  BY TypeNums DEF IInv
<1>c. current \in Tx /\ home \in [Tx -> TxOpt] /\ buf \subseteq Tx
  BY <1>i DEF WriterInv, IsTail, TypeOK, ValuesOK
<1>b. \A t \in buf : t \in OnDisk => home[t] = current
  BY <1>i DEF WriterInv, OnDisk, Nums
<1>1. CASE current \in torn \/ \E t \in buf : home[t] = current
  <2>1. torn' = torn \cup {current} /\ home' = home
    BY <1>1 DEF WriteFrames
  <2>2. wfailed \/ wpc = "fail"
    BY <1>1, <1>i, <1>c DEF WriterInv, Healthy, OnDisk, Nums
  <2> QED
    BY <2>1, <2>2, <1>c, <1>i DEF Written, WriterInv, OnDisk
<1>2. CASE ~(current \in torn \/ \E t \in buf : home[t] = current)
  <2>1. torn' = torn /\ home' = [t \in Tx |-> IF t \in buf THEN current ELSE home[t]]
    BY <1>2 DEF WriteFrames
  <2>2. \A t \in buf : t \notin OnDisk
    BY <1>2, <1>b
  <2>3. \A t \in buf : home'[t] = current /\ t \in OnDisk'
    BY <2>1, <1>c DEF OnDisk
  <2>4. Written
    BY <2>1, <2>2, <2>3, <1>c DEF Written
  <2>5. ~wfailed /\ wpc # "fail" => torn' = {}
    BY <2>1, <1>i DEF WriterInv, Healthy
  <2> QED
    BY <2>3, <2>4, <2>5
<1> QED
  BY <1>1, <1>2

\* A write that stopped midway adds a prefix of its frames, or tears the
\* segment, and moves no entry that was readable.
LEMMA WritePartFacts ==
  ASSUME IInv, up, buf # {}, WritePart(buf, current)
  PROVE  Written
<1> USE TxFacts
<1>i. TypeOK /\ Nums /\ DiskInv /\ WriterInv
  BY TypeNums DEF IInv
<1>c. current \in Tx /\ home \in [Tx -> TxOpt] /\ buf \subseteq Tx
  BY <1>i DEF WriterInv, IsTail, TypeOK, ValuesOK
<1>b. \A t \in buf : t \in OnDisk => home[t] = current
  BY <1>i DEF WriterInv, OnDisk, Nums
<1>k. PICK k \in TxOpt :
        \E extra \in {{}, {current}} :
          IF current \in torn \/ \E t \in {x \in buf : x <= k} : home[t] = current
          THEN torn' = torn \cup {current} /\ home' = home
          ELSE /\ torn' = torn \cup extra
               /\ home' = [t \in Tx |-> IF t \in {x \in buf : x <= k} THEN current ELSE home[t]]
  BY DEF WritePart
<1> DEFINE done == {x \in buf : x <= k}
<1>1. CASE current \in torn \/ \E t \in done : home[t] = current
  BY <1>1, <1>k, <1>c, <1>i DEF Written, WriterInv, OnDisk
<1>2. CASE ~(current \in torn \/ \E t \in done : home[t] = current)
  <2>1. (torn' = torn \/ torn' = torn \cup {current})
    BY <1>2, <1>k
  <2>2. home' = [t \in Tx |-> IF t \in done THEN current ELSE home[t]]
    BY <1>2, <1>k
  <2>3. \A t \in done : t \notin OnDisk
    BY <1>2, <1>b
  <2>4. \A t \in Tx : home'[t] = IF t \in done THEN current ELSE home[t]
    BY <2>2
  <2>5. \A t \in Tx : t \in OnDisk' <=> t \in done \/ t \in OnDisk
    BY <2>4, <1>c DEF OnDisk
  <2>6. \A t, u \in Tx : t < u /\ t \in buf /\ u \in buf /\ u \in OnDisk' => t \in OnDisk'
    <3>1. \A t, u \in Tx : t < u /\ t \in buf /\ u \in done => t \in done
      OBVIOUS
    <3>2. \A t, u \in Tx : t < u /\ t \in buf /\ u \in buf /\ u \in OnDisk => t \in OnDisk
      BY <1>i DEF WriterInv
    <3> QED
      BY <3>1, <3>2, <2>5
  <2>7. home' \in [Tx -> TxOpt]
    BY <2>2, <1>c
  <2> QED
    BY <2>1, <2>3, <2>4, <2>6, <2>7 DEF Written
<1> QED
  BY <1>1, <1>2

\* A write leaves the files in order, whatever is done with the buffer next.
LEMMA WrittenDisk ==
  ASSUME IInv, up, buf # {}, Written, live' = live, headed \subseteq headed', stable' = stable,
         eio' = eio, syncFaults' = syncFaults
  PROVE  /\ OnDisk \subseteq OnDisk' /\ OnDisk' \subseteq OnDisk \cup buf
         /\ \A t \in OnDisk : home'[t] = home[t]
         /\ \A t \in OnDisk' : t \in OnDisk \/ (t \in buf /\ home'[t] = current)
         /\ IsTail(current) /\ current \in headed /\ torn' \subseteq live'
         /\ DiskInv' /\ \A t \in OnDisk' : home'[t] <= t
<1> USE TxFacts
<1>i. TypeOK /\ Nums /\ DiskInv /\ NameInv /\ WriterInv
  BY TypeNums DEF IInv
<1>1. IsTail(current) /\ current \in headed /\ current \in live /\ current \in Tx
  BY <1>i DEF WriterInv, IsTail, Nums
<1>2. /\ OnDisk \subseteq OnDisk' /\ OnDisk' \subseteq OnDisk \cup buf
      /\ \A t \in OnDisk : home'[t] = home[t]
      /\ \A t \in OnDisk' : t \in OnDisk \/ (t \in buf /\ home'[t] = current)
  BY <1>1 DEF Written, OnDisk
<1>3. \A t \in OnDisk' : home'[t] <= t
  BY <1>2, <1>i DEF NameInv
<1>4. \A f \in Nat : Sealed(f)' <=> Sealed(f)
  BY DEF Sealed
<1>5. ~Sealed(current)
  BY <1>1, <1>i DEF Sealed, IsTail, Nums
<1>6. torn' \subseteq headed' /\ torn' \subseteq live' /\ (syncFaults = 0 => \A f \in torn' : ~Sealed(f))
  BY <1>1, <1>5, <1>i DEF Written, DiskInv, Nums
<1>7. \A t \in OnDisk' : home'[t] \in headed' /\ home'[t] \in Nat
  BY <1>1, <1>2, <1>i DEF DiskInv, Nums, OnDisk
<1>8. \A t \in OnDisk', g \in live : home'[t] < g => t < g
  BY <1>1, <1>2, <1>i DEF DiskInv, IsTail, Nums
<1>9. \A t \in OnDisk' : Sealed(home'[t]) /\ home'[t] \notin eio => t \in stable
  BY <1>2, <1>5, <1>i DEF DiskInv
<1>10. DiskInv'
  <2>1. \A f \in live' : Sealed(f)' => f \in headed'
    BY <1>4, <1>i DEF DiskInv, Nums
  <2>2. \A t \in OnDisk' : Sealed(home[t])' /\ home'[t] \notin eio => t \in stable
    BY <1>9 DEF Sealed
  <2>3. syncFaults = 0 => \A f \in torn' : ~Sealed(f)'
    BY <1>4, <1>6, <1>i DEF Nums
  <2> QED
    BY <1>2, <1>6, <1>7, <1>8, <2>1, <2>2, <2>3, <1>i DEF DiskInv
<1> QED
  BY <1>1, <1>2, <1>3, <1>6, <1>10

\* The buffer reaches the tail as a whole, unless an earlier write of it failed.
LEMMA FlushWrittenInv ==
  ASSUME IInv, FlushWritten
  PROVE  IInv'
<1> USE TxFacts
<1>i. /\ TypeOK /\ QueueInv /\ DiskInv /\ NameInv
      /\ ControlInv /\ WriterInv /\ MarkInv /\ EpochInv /\ Promises
  BY DEF IInv
<1>n. Nums
  BY <1>i, TypeNums
<1>f. /\ live' = live /\ headed' = headed /\ stable' = stable /\ eio' = eio
      /\ holed' = holed /\ up' = up /\ queue' = queue /\ lastAppended' = lastAppended
      /\ issued' = issued /\ why' = why /\ batch' = batch /\ current' = current
      /\ lastWritten' = lastWritten /\ rxClosed' = rxClosed /\ wfailed' = wfailed
      /\ spc' = spc /\ sHandle' = sHandle /\ sTarget' = sTarget
      /\ durableMark' = durableMark /\ durableFailed' = durableFailed /\ acked' = acked
      /\ confirmed' = confirmed /\ covered' = covered /\ syncFaults' = syncFaults
      /\ osCrashes' = osCrashes /\ bootEpoch' = bootEpoch /\ entryEpoch' = entryEpoch
      /\ wEpoch' = wEpoch /\ closing' = closing /\ epoch' = epoch /\ epochReq' = epochReq
      /\ cSynced' = cSynced /\ lateAcked' = lateAcked /\ crashes' = crashes
      /\ writeFaults' = writeFaults
  BY DEF FlushWritten, disk, handle, writer, syncer, cursor, written, durable, told,
     faults, written
<1>e. /\ up /\ wpc = "write" /\ buf' = {}
      /\ IF buf # {} THEN WriteFrames(buf, current) /\ writtenMark' = lastWritten ELSE home' = home /\ torn' = torn /\ writtenMark' = writtenMark
      /\ IF why = "end" THEN cHandle' = current /\ cWritten' = lastWritten /\ wpc' = "recv" ELSE cHandle' = cHandle /\ cWritten' = cWritten
      /\ why # "end" => wpc' = IF current = 0 THEN "done" ELSE "sync"
  BY <1>i DEF FlushWritten, written
<1>w. buf # {} => Written /\ (~wfailed => torn' = {} /\ \A t \in buf : home'[t] = current)
  BY <1>e, WriteFramesFacts
<1>d. /\ OnDisk \subseteq OnDisk' /\ OnDisk' \subseteq OnDisk \cup buf
      /\ \A t \in OnDisk : home'[t] = home[t]
      /\ \A t \in OnDisk' : t \in OnDisk \/ (t \in buf /\ home'[t] = current)
      /\ torn' \subseteq live /\ home' \in [Tx -> TxOpt]
      /\ DiskInv' /\ \A t \in OnDisk' : home'[t] <= t
  <2>1. CASE buf # {}
    BY <2>1, <1>w, <1>f, <1>e, WrittenDisk DEF Written
  <2>2. CASE buf = {}
    <3>1. OnDisk' = OnDisk /\ home' = home /\ torn' = torn
      BY <2>2, <1>e DEF OnDisk
    <3>2. DiskInv'
      BY <1>i, <1>f, <3>1 DEF DiskInv, Sealed
    <3> QED
      BY <3>1, <3>2, <1>i DEF NameInv, TypeOK, ValuesOK
  <2> QED
    BY <2>1, <2>2
<1>h. ~wfailed => torn' = {} /\ OnDisk' = OnDisk \cup buf
  <2>1. CASE buf # {}
    <3>1. current # 0 /\ buf \subseteq Tx
      BY <2>1, <1>i, <1>n, <1>e DEF WriterInv, IsTail, Nums
    <3>2. ~wfailed => buf \subseteq OnDisk'
      BY <2>1, <3>1, <1>w DEF OnDisk
    <3> QED
      BY <2>1, <3>2, <1>w, <1>d
  <2>2. CASE buf = {}
    BY <2>2, <1>d, <1>e, <1>i DEF WriterInv, Healthy
  <2> QED
    BY <2>1, <2>2
<1>v. /\ cHandle' \in TxOpt /\ cWritten' \in TxOpt /\ writtenMark' \in TxOpt
      /\ wpc' \in {"recv", "done", "sync"} /\ writtenMark' = lastWritten
  BY <1>e, <1>i DEF TypeOK, ValuesOK, QueueInv
<1>r. (Rotating' => Rotating) /\ (wfailed => why = "exit" /\ rxClosed /\ Len(queue) = 0)
  BY <1>e, <1>f, <1>i DEF Rotating, ControlInv, QueueInv
<1>ac. ~rxClosed => \A x \in Nat : Accounted(x) => Accounted(x)'
  BY <1>f, <1>h, <1>r DEF Accounted, Queued
<1>pc. Predecessors'
  <2>1. CASE rxClosed
    BY <2>1, <1>i, <1>f DEF QueueInv, Predecessors
  <2>2. CASE ~rxClosed
    BY <2>2, <1>n, <1>f, <1>e, <1>i, <1>ac, PredecessorsStep DEF NameInv, Nums
  <2> QED
    BY <2>1, <2>2
<1>qc. NamesBelow'
  BY <1>n, <1>f, <1>e, <1>i, <1>r DEF NameInv, NamesBelow, Nums
<1>sc. why = "end" => \A t \in OnDisk : home[t] = current \/ t \in stable \/ home[t] \in eio
  BY <1>i, <1>n, <1>e, <1>r DEF WriterInv, Healthy, IsLast, DiskInv, Sealed, OnDisk, Nums
<1>bc. \A t \in buf : ~(t <= cWritten) /\ ~(t <= sTarget)
  BY <1>i, <1>n, <1>e DEF MarkInv, QueueInv, Nums
<1>1. FlagsOK'
  BY <1>i, <1>f DEF TypeOK, FlagsOK, FlushWritten, disk, handle, writer, syncer,
     cursor, written, durable, told, faults, Fail
<1>2. ValuesOK'
  BY <1>i, <1>f, <1>d, <1>v, <1>e DEF TypeOK, ValuesOK
<1>3. QueueInv'
  BY <1>i, <1>n, <1>f, <1>e, <1>v, <1>r DEF QueueInv, Queued, Nums
<1>4. DiskInv'
  BY <1>d
<1>5. NameInv'
  BY <1>n, <1>f, <1>e, <1>d, <1>i, <1>ac, <1>pc, <1>qc DEF NameInv, Nums
<1>6. ControlInv'
  BY <1>i, <1>n, <1>f, <1>e DEF ControlInv
<1>7. WriterInv'
  BY <1>n, <1>f, <1>e, <1>d, <1>h, <1>v, <1>i DEF WriterInv, Healthy, IsTail, IsLast, Nums
<1>8. MarkInv'
  <2>1. \A t \in OnDisk' : t <= cWritten' /\ home'[t] # cHandle' => t \in stable \/ home'[t] \in eio
    <3>1. CASE why = "end"
      BY <3>1, <1>e, <1>d, <1>sc
    <3>2. CASE why # "end"
      <4>1. cHandle' = cHandle /\ cWritten' = cWritten
        BY <3>2, <1>e
      <4>2. \A t \in OnDisk : t <= cWritten /\ home[t] # cHandle => t \in stable \/ home[t] \in eio
        BY <1>e, <1>i DEF MarkInv
      <4> QED
        BY <4>1, <4>2, <1>bc, <1>d
    <3> QED
      BY <3>1, <3>2
  <2>2. spc = "sync" => sHandle # 0 /\
          \A t \in OnDisk' : t <= sTarget /\ home'[t] # sHandle => t \in stable \/ home'[t] \in eio
    BY <1>e, <1>d, <1>i, <1>bc DEF MarkInv
  <2>3. spc = "publish" => \A t \in OnDisk' : t <= sTarget => t \in stable \/ home'[t] \in eio
    BY <1>e, <1>d, <1>i, <1>bc DEF MarkInv
  <2>4. ~wfailed => \A t \in issued : t <= lastWritten => t \in OnDisk' \/ t <= covered
    BY <1>e, <1>h, <1>i DEF MarkInv
  <2> QED
    BY <1>n, <1>f, <1>e, <1>i, <2>1, <2>2, <2>3, <2>4 DEF MarkInv, Nums
<1>9. EpochInv'
  <2>1. (OnDisk \cup buf)' \subseteq OnDisk \cup buf /\ \A t \in OnDisk' : t \in OnDisk \cup buf
    BY <1>d, <1>e
  <2> QED
    BY <2>1, <1>n, <1>f, <1>e, <1>i DEF EpochInv, OnDisk, Nums
<1>10. Promises'
  BY <1>n, <1>f, <1>e, <1>d, <1>i DEF Promises
<1> QED
  BY <1>1, <1>2, <1>3, <1>4, <1>5, <1>6, <1>7, <1>8, <1>9, <1>10
     DEF IInv, TypeOK

\* Part of the buffer reaches the tail and the writer stops.
LEMMA FlushWrittenFailsInv ==
  ASSUME IInv, FlushWrittenFails
  PROVE  IInv'
<1> USE TxFacts
<1>i. /\ TypeOK /\ QueueInv /\ DiskInv /\ NameInv
      /\ ControlInv /\ WriterInv /\ MarkInv /\ EpochInv /\ Promises
  BY DEF IInv
<1>n. Nums
  BY <1>i, TypeNums
<1>f. /\ live' = live /\ headed' = headed /\ stable' = stable /\ eio' = eio
      /\ holed' = holed /\ up' = up /\ queue' = queue /\ lastAppended' = lastAppended
      /\ issued' = issued /\ why' = why /\ batch' = batch /\ buf' = buf
      /\ current' = current /\ lastWritten' = lastWritten /\ rxClosed' = rxClosed
      /\ wfailed' = wfailed /\ spc' = spc /\ sHandle' = sHandle /\ sTarget' = sTarget
      /\ cHandle' = cHandle /\ cWritten' = cWritten /\ writtenMark' = writtenMark
      /\ durableMark' = durableMark /\ acked' = acked /\ confirmed' = confirmed
      /\ covered' = covered /\ syncFaults' = syncFaults /\ osCrashes' = osCrashes
      /\ bootEpoch' = bootEpoch /\ entryEpoch' = entryEpoch /\ wEpoch' = wEpoch
      /\ closing' = closing /\ epoch' = epoch /\ epochReq' = epochReq /\ cSynced' = cSynced
      /\ lateAcked' = lateAcked /\ crashes' = crashes
  BY DEF FlushWrittenFails, disk, handle, writer, syncer, cursor, written, durable,
     told, faults, AfterError
<1>e. /\ up /\ wpc = "write" /\ buf # {}
      /\ WritePart(buf, current)
      /\ IF why = "exit" THEN wpc' = "done" /\ durableFailed' = TRUE ELSE wpc' = "fail" /\ durableFailed' = durableFailed
  BY <1>i DEF FlushWrittenFails, AfterError
<1>w. Written
  BY <1>e, WritePartFacts
<1>d. /\ OnDisk \subseteq OnDisk' /\ OnDisk' \subseteq OnDisk \cup buf
      /\ \A t \in OnDisk : home'[t] = home[t]
      /\ \A t \in OnDisk' : t \in OnDisk \/ (t \in buf /\ home'[t] = current)
      /\ torn' \subseteq live /\ home' \in [Tx -> TxOpt]
      /\ DiskInv' /\ \A t \in OnDisk' : home'[t] <= t
  BY <1>w, <1>f, <1>e, WrittenDisk DEF Written
<1>v. wpc' \in {"done", "fail"} /\ writeFaults' \in Nat
  BY <1>e, <1>i DEF FlushWrittenFails, TypeOK, ValuesOK
<1>r. ~Rotating'
  BY <1>v DEF Rotating
<1>ac. \A x \in Nat : Accounted(x) => Accounted(x)'
  BY <1>f, <1>d DEF Accounted, Queued
<1>pc. Predecessors'
  BY <1>n, <1>f, <1>e, <1>i, <1>ac, PredecessorsStep DEF NameInv, Nums
<1>qc. NamesBelow'
  BY <1>n, <1>f, <1>e, <1>i, <1>r DEF NameInv, NamesBelow, Nums
<1>bc. \A t \in buf : ~(t <= cWritten) /\ ~(t <= sTarget)
  BY <1>i, <1>n, <1>e DEF MarkInv, QueueInv, Nums
<1>hc. ~Healthy'
  BY <1>e, <1>f, <1>i DEF Healthy, ControlInv
<1>1. FlagsOK'
  BY <1>i DEF TypeOK, FlagsOK, FlushWrittenFails, disk, handle, writer, syncer, cursor,
     written, durable, told, faults, AfterError
<1>2. ValuesOK'
  BY <1>i, <1>f, <1>d, <1>v DEF TypeOK, ValuesOK
<1>3. QueueInv'
  BY <1>i, <1>n, <1>f, <1>e, <1>r DEF QueueInv, Queued, Nums
<1>4. DiskInv'
  BY <1>d
<1>5. NameInv'
  BY <1>n, <1>f, <1>e, <1>d, <1>i, <1>ac, <1>pc, <1>qc DEF NameInv, Nums
<1>6. ControlInv'
  BY <1>i, <1>n, <1>f, <1>e DEF ControlInv
<1>7. WriterInv'
  <2>1. \A t \in buf, u \in OnDisk' : u < t \/ (u \in buf /\ home'[u] = current)
    BY <1>e, <1>d, <1>i DEF WriterInv
  <2>2. \A t \in buf, u \in (OnDisk \cap buf)' : t < u => t \in OnDisk'
    BY <1>n, <1>f, <1>w DEF Written, Nums
  <2>3. \A t \in (OnDisk \cup buf)' : t <= lastWritten
    BY <1>e, <1>d, <1>f, <1>i DEF WriterInv
  <2> QED
    BY <1>f, <1>e, <1>v, <1>i, <1>hc, <2>1, <2>2, <2>3 DEF WriterInv, IsTail
<1>8. MarkInv'
  <2>1. \A t \in OnDisk' : t <= cWritten' /\ home'[t] # cHandle' => t \in stable \/ home'[t] \in eio
    BY <1>f, <1>e, <1>d, <1>i, <1>bc DEF MarkInv
  <2>2. spc = "sync" => sHandle # 0 /\
          \A t \in OnDisk' : t <= sTarget /\ home'[t] # sHandle => t \in stable \/ home'[t] \in eio
    BY <1>e, <1>d, <1>i, <1>bc DEF MarkInv
  <2>3. spc = "publish" => \A t \in OnDisk' : t <= sTarget => t \in stable \/ home'[t] \in eio
    BY <1>e, <1>d, <1>i, <1>bc DEF MarkInv
  <2>4. ~wfailed => \A t \in issued : t <= lastWritten => t \in OnDisk' \/ t \in buf \/ t <= covered
    BY <1>e, <1>d, <1>i DEF MarkInv
  <2> QED
    BY <1>n, <1>f, <1>e, <1>i, <2>1, <2>2, <2>3, <2>4 DEF MarkInv, Nums
<1>9. EpochInv'
  <2>1. (OnDisk \cup buf)' \subseteq OnDisk \cup buf /\ \A t \in OnDisk' : t \in OnDisk \cup buf
    BY <1>d, <1>f
  <2> QED
    BY <2>1, <1>n, <1>f, <1>e, <1>i DEF EpochInv, OnDisk, Nums
<1>10. Promises'
  BY <1>n, <1>f, <1>e, <1>d, <1>i DEF Promises
<1> QED
  BY <1>1, <1>2, <1>3, <1>4, <1>5, <1>6, <1>7, <1>8, <1>9, <1>10
     DEF IInv, TypeOK

\* The fsync covers every entry of the writer's segment.
LEMMA FlushSyncInv ==
  ASSUME IInv, FlushSync
  PROVE  IInv'
<1> USE TxFacts
<1>i. /\ TypeOK /\ QueueInv /\ DiskInv /\ NameInv
      /\ ControlInv /\ WriterInv /\ MarkInv /\ EpochInv /\ Promises
  BY DEF IInv
<1>n. Nums
  BY <1>i, TypeNums
<1>f. /\ live' = live /\ headed' = headed /\ home' = home /\ torn' = torn /\ eio' = eio
      /\ holed' = holed /\ up' = up /\ queue' = queue /\ lastAppended' = lastAppended
      /\ issued' = issued /\ why' = why /\ batch' = batch /\ buf' = buf
      /\ current' = current /\ lastWritten' = lastWritten /\ rxClosed' = rxClosed
      /\ wfailed' = wfailed /\ spc' = spc /\ sHandle' = sHandle /\ sTarget' = sTarget
      /\ cHandle' = cHandle /\ cWritten' = cWritten /\ writtenMark' = writtenMark
      /\ durableMark' = durableMark /\ durableFailed' = durableFailed /\ acked' = acked
      /\ confirmed' = confirmed /\ covered' = covered /\ syncFaults' = syncFaults
      /\ osCrashes' = osCrashes /\ bootEpoch' = bootEpoch /\ entryEpoch' = entryEpoch
      /\ wEpoch' = wEpoch
  BY DEF FlushSync, disk, handle, writer, syncer, cursor, written, durable, told,
     faults
<1>e. /\ up /\ wpc = "sync" /\ wpc' = "publish"
  BY <1>i DEF FlushSync
<1>a. /\ stable' = stable \cup (IF current \in eio THEN {} ELSE {t \in Tx : home[t] = current /\ t <= MaxTx})
      /\ \A t \in Tx : t <= MaxTx
  BY BoundsAreNat DEF BoundsAreNat, FlushSync, Fsynced, Tx
<1>o. stable \subseteq stable' /\ stable' \subseteq OnDisk /\ OnDisk' = OnDisk
  BY <1>i, <1>n, <1>f, <1>a, <1>e DEF OnDisk, DiskInv, ControlInv, Nums
<1>c. \A t \in OnDisk : home[t] = current /\ current \notin eio => t \in stable'
  BY <1>a DEF OnDisk
<1>v. stable' \subseteq Tx
  BY <1>o DEF OnDisk
<1>1. FlagsOK'
  BY <1>i DEF TypeOK, FlagsOK, FlushSync, disk, handle, writer, syncer, cursor,
     written, durable, told, faults
<1>2. ValuesOK'
  BY <1>i, <1>v DEF TypeOK, ValuesOK, FlushSync, disk, handle, writer, syncer, cursor,
     written, durable, told, faults
<1>3. QueueInv'
  BY <1>i, <1>n, <1>f, <1>e DEF QueueInv, Rotating, Queued, Nums
<1>4. DiskInv'
  BY <1>n, <1>f, <1>i, <1>o DEF DiskInv, Sealed, Nums
<1>5. NameInv'
  BY <1>i, <1>n, <1>f, <1>e DEF NameInv, NamesBelow, Predecessors, Accounted, Rotating,
     Queued, OnDisk, Nums
<1>6. ControlInv'
  BY <1>i, <1>n, <1>f, <1>e DEF ControlInv
<1>7. WriterInv'
  BY <1>n, <1>f, <1>e, <1>i, <1>o, <1>c DEF WriterInv, Healthy, IsLast, IsTail, Nums
<1>8. MarkInv'
  BY <1>n, <1>f, <1>e, <1>i, <1>o DEF MarkInv, Nums
<1>9. EpochInv'
  BY <1>i, <1>n, <1>f, <1>e DEF EpochInv, OnDisk, Nums
<1>10. Promises'
  BY <1>n, <1>f, <1>i, <1>o DEF Promises
<1> QED
  BY <1>1, <1>2, <1>3, <1>4, <1>5, <1>6, <1>7, <1>8, <1>9, <1>10
     DEF IInv, TypeOK

\* The durable mark covers only entries of sealed segments and of the fsynced one.
LEMMA FlushPublishInv ==
  ASSUME IInv, FlushPublish
  PROVE  IInv'
<1> USE TxFacts
<1>i. /\ TypeOK /\ QueueInv /\ DiskInv /\ NameInv
      /\ ControlInv /\ WriterInv /\ MarkInv /\ EpochInv /\ Promises
  BY DEF IInv
<1>n. Nums
  BY <1>i, TypeNums
<1>f. /\ live' = live /\ headed' = headed /\ home' = home /\ stable' = stable
      /\ torn' = torn /\ eio' = eio /\ holed' = holed /\ up' = up /\ queue' = queue
      /\ lastAppended' = lastAppended /\ issued' = issued /\ why' = why /\ batch' = batch
      /\ buf' = buf /\ current' = current /\ lastWritten' = lastWritten
      /\ rxClosed' = rxClosed /\ wfailed' = wfailed /\ spc' = spc /\ sHandle' = sHandle
      /\ sTarget' = sTarget /\ cHandle' = cHandle /\ cWritten' = cWritten
      /\ writtenMark' = writtenMark /\ durableFailed' = durableFailed /\ acked' = acked
      /\ confirmed' = confirmed /\ covered' = covered /\ syncFaults' = syncFaults
      /\ osCrashes' = osCrashes /\ bootEpoch' = bootEpoch /\ entryEpoch' = entryEpoch
      /\ wEpoch' = wEpoch /\ closing' = closing /\ epoch' = epoch /\ epochReq' = epochReq
      /\ writtenFailed' = writtenFailed /\ lateAcked' = lateAcked /\ crashes' = crashes
      /\ writeFaults' = writeFaults
  BY DEF FlushPublish, disk, handle, writer, syncer, cursor, written, durable, told,
     faults, PublishDurable, AtLeast
<1>e. /\ up /\ wpc = "publish"
      /\ wpc' = IF why = "rotate" THEN "create" ELSE IF why = "exit" THEN "done" ELSE "cmd"
      /\ durableMark' = IF durableFailed THEN durableMark ELSE IF durableMark >= lastWritten THEN durableMark ELSE lastWritten
  BY <1>i DEF FlushPublish, PublishDurable, AtLeast
<1>v. cSynced' \in TxOpt /\ durableMark' \in TxOpt /\ durableMark' <= lastAppended
  BY <1>e, <1>i, <1>n DEF FlushPublish, AtLeast, TypeOK, ValuesOK, QueueInv, Nums
<1>w. wpc' \in {"create", "done", "cmd"} /\ (wpc' = "create" <=> why = "rotate") /\ (why = "exit" => wpc' = "done")
  BY <1>e
<1>r. (Rotating' <=> Rotating) /\ (Rotating <=> why = "rotate")
  BY <1>e, <1>w, <1>f DEF Rotating
<1>b. buf = {}
  BY <1>e, <1>i DEF ControlInv
<1>qc. NamesBelow'
  BY <1>n, <1>f, <1>e, <1>i, <1>r DEF NameInv, NamesBelow, Nums
<1>sc. eio = {} /\ ~durableFailed => \A t \in OnDisk : t \in stable
  BY <1>i, <1>n, <1>e DEF ControlInv, WriterInv, Healthy, IsLast, DiskInv, Sealed, OnDisk, Nums
<1>mc. eio = {} /\ ~durableFailed => \A t \in issued : t <= lastWritten => t \in stable \/ t <= covered
  BY <1>i, <1>b, <1>e, <1>sc DEF MarkInv, ControlInv
<1>1. FlagsOK'
  BY <1>i DEF TypeOK, FlagsOK, FlushPublish, disk, handle, writer, syncer, cursor,
     written, durable, told, faults, PublishDurable
<1>2. ValuesOK'
  BY <1>i, <1>f, <1>v, <1>w DEF TypeOK, ValuesOK
<1>3. QueueInv'
  BY <1>i, <1>n, <1>f, <1>v, <1>r DEF QueueInv, Queued, Nums
<1>4. DiskInv'
  BY <1>i, <1>n, <1>f, <1>e DEF DiskInv, OnDisk, Sealed, Nums
<1>5. NameInv'
  BY <1>n, <1>f, <1>e, <1>i, <1>qc DEF NameInv, Predecessors, Accounted, Queued, OnDisk, Nums
<1>6. ControlInv'
  BY <1>f, <1>e, <1>w, <1>b, <1>i DEF ControlInv
<1>7. WriterInv'
  BY <1>n, <1>f, <1>e, <1>w, <1>b, <1>i DEF WriterInv, Healthy, IsLast, IsTail, OnDisk, Nums
<1>8. MarkInv'
  BY <1>i, <1>n, <1>f, <1>e, <1>mc DEF MarkInv, OnDisk, Nums
<1>9. EpochInv'
  BY <1>i, <1>n, <1>f, <1>e DEF EpochInv, OnDisk, Nums
<1>10. Promises'
  BY <1>i, <1>n, <1>f, <1>e DEF Promises, OnDisk, Nums
<1> QED
  BY <1>1, <1>2, <1>3, <1>4, <1>5, <1>6, <1>7, <1>8, <1>9, <1>10
     DEF IInv, TypeOK

\* A failed fsync stops the writer; the segment's pages are suspect.
LEMMA FlushSyncFailsInv ==
  ASSUME IInv, FlushSyncFails
  PROVE  IInv'
<1> USE TxFacts
<1>i. /\ TypeOK /\ QueueInv /\ DiskInv /\ NameInv
      /\ ControlInv /\ WriterInv /\ MarkInv /\ EpochInv /\ Promises
  BY DEF IInv
<1>n. Nums
  BY <1>i, TypeNums
<1>f. /\ live' = live /\ headed' = headed /\ home' = home /\ stable' = stable
      /\ torn' = torn /\ holed' = holed /\ up' = up /\ queue' = queue
      /\ lastAppended' = lastAppended /\ issued' = issued /\ why' = why /\ batch' = batch
      /\ buf' = buf /\ current' = current /\ lastWritten' = lastWritten
      /\ rxClosed' = rxClosed /\ wfailed' = wfailed /\ spc' = spc /\ sHandle' = sHandle
      /\ sTarget' = sTarget /\ cHandle' = cHandle /\ cWritten' = cWritten
      /\ writtenMark' = writtenMark /\ durableMark' = durableMark /\ acked' = acked
      /\ confirmed' = confirmed /\ covered' = covered /\ osCrashes' = osCrashes
      /\ bootEpoch' = bootEpoch /\ entryEpoch' = entryEpoch /\ wEpoch' = wEpoch
      /\ closing' = closing /\ epoch' = epoch /\ epochReq' = epochReq /\ cSynced' = cSynced
      /\ lateAcked' = lateAcked /\ crashes' = crashes /\ writeFaults' = writeFaults
  BY DEF FlushSyncFails, disk, handle, writer, syncer, cursor, written, durable, told,
     faults, AfterError
<1>e. /\ up /\ wpc = "sync"
      /\ IF why = "exit" THEN wpc' = "done" /\ durableFailed' = TRUE ELSE wpc' = "fail" /\ durableFailed' = durableFailed
      /\ eio' = eio \cup {current} /\ syncFaults' = syncFaults + 1
  BY <1>i DEF FlushSyncFails, AfterError
<1>v. wpc' \in {"done", "fail"} /\ eio' \subseteq TxOpt /\ syncFaults' \in Nat
  BY <1>e, <1>i DEF TypeOK, ValuesOK
<1>r. ~Rotating'
  BY <1>v DEF Rotating
<1>qc. NamesBelow'
  BY <1>n, <1>f, <1>e, <1>i, <1>r DEF NameInv, NamesBelow, Nums
<1>1. FlagsOK'
  BY <1>i DEF TypeOK, FlagsOK, FlushSyncFails, disk, handle, writer, syncer, cursor,
     written, durable, told, faults, AfterError
<1>2. ValuesOK'
  BY <1>i, <1>f, <1>v DEF TypeOK, ValuesOK
<1>3. QueueInv'
  BY <1>i, <1>n, <1>f, <1>r DEF QueueInv, Queued, Nums
<1>4. DiskInv'
  BY <1>i, <1>n, <1>f, <1>e DEF DiskInv, OnDisk, Sealed, Nums
<1>5. NameInv'
  BY <1>n, <1>f, <1>e, <1>i, <1>qc DEF NameInv, Predecessors, Accounted, Queued, OnDisk, Nums
<1>6. ControlInv'
  BY <1>i, <1>n, <1>f, <1>e DEF ControlInv
<1>7. WriterInv'
  BY <1>i, <1>n, <1>f, <1>e DEF WriterInv, Healthy, IsLast, IsTail, OnDisk, Nums
<1>8. MarkInv'
  BY <1>i, <1>n, <1>f, <1>e DEF MarkInv, OnDisk, Nums
<1>9. EpochInv'
  BY <1>i, <1>n, <1>f, <1>e DEF EpochInv, OnDisk, Nums
<1>10. Promises'
  BY <1>i, <1>n, <1>f, <1>e DEF Promises, OnDisk, Nums
<1> QED
  BY <1>1, <1>2, <1>3, <1>4, <1>5, <1>6, <1>7, <1>8, <1>9, <1>10
     DEF IInv, TypeOK

\* The syncer takes the segment and the mark the writer left together.
LEMMA SyncerCaptureInv ==
  ASSUME IInv, SyncerCapture
  PROVE  IInv'
<1> USE TxFacts
<1>i. /\ TypeOK /\ QueueInv /\ DiskInv /\ NameInv
      /\ ControlInv /\ WriterInv /\ MarkInv /\ EpochInv /\ Promises
  BY DEF IInv
<1>n. Nums
  BY <1>i, TypeNums
<1>f. /\ live' = live /\ headed' = headed /\ home' = home /\ stable' = stable
      /\ torn' = torn /\ eio' = eio /\ holed' = holed /\ up' = up /\ queue' = queue
      /\ lastAppended' = lastAppended /\ issued' = issued /\ wpc' = wpc /\ why' = why
      /\ batch' = batch /\ buf' = buf /\ current' = current /\ lastWritten' = lastWritten
      /\ rxClosed' = rxClosed /\ wfailed' = wfailed /\ cHandle' = cHandle
      /\ cWritten' = cWritten /\ writtenMark' = writtenMark /\ durableMark' = durableMark
      /\ durableFailed' = durableFailed /\ acked' = acked /\ confirmed' = confirmed
      /\ covered' = covered /\ syncFaults' = syncFaults /\ osCrashes' = osCrashes
      /\ bootEpoch' = bootEpoch /\ entryEpoch' = entryEpoch /\ wEpoch' = wEpoch
  BY DEF SyncerCapture, disk, handle, writer, syncer, cursor, written, durable, told,
     faults
<1>e. /\ up /\ spc' = "sync" /\ sHandle' = cHandle /\ sTarget' = cWritten /\ cHandle # 0
  BY <1>i DEF SyncerCapture
<1>1. FlagsOK'
  BY <1>i DEF TypeOK, FlagsOK, SyncerCapture, disk, handle, writer, syncer, cursor,
     written, durable, told, faults
<1>2. ValuesOK'
  BY <1>i DEF TypeOK, ValuesOK, SyncerCapture, disk, handle, writer, syncer, cursor,
     written, durable, told, faults
<1>3. QueueInv'
  BY <1>i, <1>n, <1>f, <1>e DEF QueueInv, Rotating, Queued, Nums
<1>4. DiskInv'
  BY <1>i, <1>n, <1>f, <1>e DEF DiskInv, OnDisk, Sealed, Nums
<1>5. NameInv'
  BY <1>i, <1>n, <1>f, <1>e DEF NameInv, NamesBelow, Predecessors, Accounted, Rotating,
     Queued, OnDisk, Nums
<1>6. ControlInv'
  BY <1>i, <1>n, <1>f, <1>e DEF ControlInv
<1>7. WriterInv'
  BY <1>i, <1>n, <1>f, <1>e DEF WriterInv, Healthy, IsLast, IsTail, OnDisk, Nums
<1>8. MarkInv'
  BY <1>i, <1>n, <1>f, <1>e DEF MarkInv, OnDisk, Nums
<1>9. EpochInv'
  BY <1>i, <1>n, <1>f, <1>e DEF EpochInv, OnDisk, Nums
<1>10. Promises'
  BY <1>i, <1>n, <1>f, <1>e DEF Promises, OnDisk, Nums
<1> QED
  BY <1>1, <1>2, <1>3, <1>4, <1>5, <1>6, <1>7, <1>8, <1>9, <1>10
     DEF IInv, TypeOK

\* The syncer begins its pause.
LEMMA SyncerNoticeInv ==
  ASSUME IInv, SyncerNotice
  PROVE  IInv'
<1> USE TxFacts
<1>i. /\ TypeOK /\ QueueInv /\ DiskInv /\ NameInv
      /\ ControlInv /\ WriterInv /\ MarkInv /\ EpochInv /\ Promises
  BY DEF IInv
<1>n. Nums
  BY <1>i, TypeNums
<1>f. /\ live' = live /\ headed' = headed /\ home' = home /\ stable' = stable
      /\ torn' = torn /\ eio' = eio /\ holed' = holed /\ up' = up /\ queue' = queue
      /\ lastAppended' = lastAppended /\ issued' = issued /\ wpc' = wpc /\ why' = why
      /\ batch' = batch /\ buf' = buf /\ current' = current /\ lastWritten' = lastWritten
      /\ rxClosed' = rxClosed /\ wfailed' = wfailed /\ sHandle' = sHandle
      /\ sTarget' = sTarget /\ cHandle' = cHandle /\ cWritten' = cWritten
      /\ writtenMark' = writtenMark /\ durableMark' = durableMark
      /\ durableFailed' = durableFailed /\ acked' = acked /\ confirmed' = confirmed
      /\ covered' = covered /\ syncFaults' = syncFaults /\ osCrashes' = osCrashes
      /\ bootEpoch' = bootEpoch /\ entryEpoch' = entryEpoch /\ wEpoch' = wEpoch
  BY DEF SyncerNotice, disk, handle, writer, syncer, cursor, written, durable, told,
     faults
<1>e. /\ spc' = "pace"
  BY <1>i DEF SyncerNotice
<1>1. FlagsOK'
  BY <1>i DEF TypeOK, FlagsOK, SyncerNotice, disk, handle, writer, syncer, cursor,
     written, durable, told, faults
<1>2. ValuesOK'
  BY <1>i DEF TypeOK, ValuesOK, SyncerNotice, disk, handle, writer, syncer, cursor,
     written, durable, told, faults
<1>3. QueueInv'
  BY <1>i, <1>n, <1>f, <1>e DEF QueueInv, Rotating, Queued, Nums
<1>4. DiskInv'
  BY <1>i, <1>n, <1>f, <1>e DEF DiskInv, OnDisk, Sealed, Nums
<1>5. NameInv'
  BY <1>i, <1>n, <1>f, <1>e DEF NameInv, NamesBelow, Predecessors, Accounted, Rotating,
     Queued, OnDisk, Nums
<1>6. ControlInv'
  BY <1>i, <1>n, <1>f, <1>e DEF ControlInv
<1>7. WriterInv'
  BY <1>i, <1>n, <1>f, <1>e DEF WriterInv, Healthy, IsLast, IsTail, OnDisk, Nums
<1>8. MarkInv'
  BY <1>i, <1>n, <1>f, <1>e DEF MarkInv, OnDisk, Nums
<1>9. EpochInv'
  BY <1>i, <1>n, <1>f, <1>e DEF EpochInv, OnDisk, Nums
<1>10. Promises'
  BY <1>i, <1>n, <1>f, <1>e DEF Promises, OnDisk, Nums
<1> QED
  BY <1>1, <1>2, <1>3, <1>4, <1>5, <1>6, <1>7, <1>8, <1>9, <1>10
     DEF IInv, TypeOK

\* The syncer leaves once nothing is unsynced.
LEMMA SyncerExitInv ==
  ASSUME IInv, SyncerExit
  PROVE  IInv'
<1> USE TxFacts
<1>i. /\ TypeOK /\ QueueInv /\ DiskInv /\ NameInv
      /\ ControlInv /\ WriterInv /\ MarkInv /\ EpochInv /\ Promises
  BY DEF IInv
<1>n. Nums
  BY <1>i, TypeNums
<1>f. /\ live' = live /\ headed' = headed /\ home' = home /\ stable' = stable
      /\ torn' = torn /\ eio' = eio /\ holed' = holed /\ up' = up /\ queue' = queue
      /\ lastAppended' = lastAppended /\ issued' = issued /\ wpc' = wpc /\ why' = why
      /\ batch' = batch /\ buf' = buf /\ current' = current /\ lastWritten' = lastWritten
      /\ rxClosed' = rxClosed /\ wfailed' = wfailed /\ sHandle' = sHandle
      /\ sTarget' = sTarget /\ cHandle' = cHandle /\ cWritten' = cWritten
      /\ writtenMark' = writtenMark /\ durableMark' = durableMark
      /\ durableFailed' = durableFailed /\ acked' = acked /\ confirmed' = confirmed
      /\ covered' = covered /\ syncFaults' = syncFaults /\ osCrashes' = osCrashes
      /\ bootEpoch' = bootEpoch /\ entryEpoch' = entryEpoch /\ wEpoch' = wEpoch
  BY DEF SyncerExit, disk, handle, writer, syncer, cursor, written, durable, told,
     faults
<1>e. /\ spc' = "exit"
  BY <1>i DEF SyncerExit
<1>1. FlagsOK'
  BY <1>i DEF TypeOK, FlagsOK, SyncerExit, disk, handle, writer, syncer, cursor,
     written, durable, told, faults
<1>2. ValuesOK'
  BY <1>i DEF TypeOK, ValuesOK, SyncerExit, disk, handle, writer, syncer, cursor,
     written, durable, told, faults
<1>3. QueueInv'
  BY <1>i, <1>n, <1>f, <1>e DEF QueueInv, Rotating, Queued, Nums
<1>4. DiskInv'
  BY <1>i, <1>n, <1>f, <1>e DEF DiskInv, OnDisk, Sealed, Nums
<1>5. NameInv'
  BY <1>i, <1>n, <1>f, <1>e DEF NameInv, NamesBelow, Predecessors, Accounted, Rotating,
     Queued, OnDisk, Nums
<1>6. ControlInv'
  BY <1>i, <1>n, <1>f, <1>e DEF ControlInv
<1>7. WriterInv'
  BY <1>i, <1>n, <1>f, <1>e DEF WriterInv, Healthy, IsLast, IsTail, OnDisk, Nums
<1>8. MarkInv'
  BY <1>i, <1>n, <1>f, <1>e DEF MarkInv, OnDisk, Nums
<1>9. EpochInv'
  BY <1>i, <1>n, <1>f, <1>e DEF EpochInv, OnDisk, Nums
<1>10. Promises'
  BY <1>i, <1>n, <1>f, <1>e DEF Promises, OnDisk, Nums
<1> QED
  BY <1>1, <1>2, <1>3, <1>4, <1>5, <1>6, <1>7, <1>8, <1>9, <1>10
     DEF IInv, TypeOK

\* With the captured segment fsynced, everything up to the captured mark is.
LEMMA SyncerSyncInv ==
  ASSUME IInv, SyncerSync
  PROVE  IInv'
<1> USE TxFacts
<1>i. /\ TypeOK /\ QueueInv /\ DiskInv /\ NameInv
      /\ ControlInv /\ WriterInv /\ MarkInv /\ EpochInv /\ Promises
  BY DEF IInv
<1>n. Nums
  BY <1>i, TypeNums
<1>f. /\ live' = live /\ headed' = headed /\ home' = home /\ torn' = torn /\ eio' = eio
      /\ holed' = holed /\ up' = up /\ queue' = queue /\ lastAppended' = lastAppended
      /\ issued' = issued /\ wpc' = wpc /\ why' = why /\ batch' = batch /\ buf' = buf
      /\ current' = current /\ lastWritten' = lastWritten /\ rxClosed' = rxClosed
      /\ wfailed' = wfailed /\ sHandle' = sHandle /\ sTarget' = sTarget
      /\ cHandle' = cHandle /\ cWritten' = cWritten /\ writtenMark' = writtenMark
      /\ durableMark' = durableMark /\ durableFailed' = durableFailed /\ acked' = acked
      /\ confirmed' = confirmed /\ covered' = covered /\ syncFaults' = syncFaults
      /\ osCrashes' = osCrashes /\ bootEpoch' = bootEpoch /\ entryEpoch' = entryEpoch
      /\ wEpoch' = wEpoch
  BY DEF SyncerSync, disk, handle, writer, syncer, cursor, written, durable, told,
     faults
<1>e. /\ up /\ spc = "sync" /\ spc' = "publish"
  BY <1>i DEF SyncerSync
<1>a. stable' = stable \cup (IF sHandle \in eio THEN {} ELSE {t \in Tx : home[t] = sHandle /\ t <= sTarget})
  BY DEF SyncerSync, Fsynced
<1>o. stable \subseteq stable' /\ stable' \subseteq OnDisk /\ OnDisk' = OnDisk
  BY <1>i, <1>n, <1>f, <1>a, <1>e DEF OnDisk, DiskInv, MarkInv, Nums
<1>c. \A t \in OnDisk : t <= sTarget /\ home[t] = sHandle /\ sHandle \notin eio => t \in stable'
  BY <1>a DEF OnDisk
<1>v. stable' \subseteq Tx
  BY <1>o DEF OnDisk
<1>1. FlagsOK'
  BY <1>i DEF TypeOK, FlagsOK, SyncerSync, disk, handle, writer, syncer, cursor,
     written, durable, told, faults
<1>2. ValuesOK'
  BY <1>i, <1>v DEF TypeOK, ValuesOK, SyncerSync, disk, handle, writer, syncer, cursor,
     written, durable, told, faults
<1>3. QueueInv'
  BY <1>i, <1>n, <1>f, <1>e DEF QueueInv, Rotating, Queued, Nums
<1>4. DiskInv'
  BY <1>n, <1>f, <1>i, <1>o DEF DiskInv, Sealed, Nums
<1>5. NameInv'
  BY <1>i, <1>n, <1>f, <1>e DEF NameInv, NamesBelow, Predecessors, Accounted, Rotating,
     Queued, OnDisk, Nums
<1>6. ControlInv'
  BY <1>i, <1>n, <1>f, <1>e DEF ControlInv
<1>7. WriterInv'
  BY <1>n, <1>f, <1>e, <1>i, <1>o DEF WriterInv, Healthy, IsLast, IsTail, Nums
<1>8. MarkInv'
  BY <1>n, <1>f, <1>e, <1>i, <1>o, <1>c DEF MarkInv, Nums
<1>9. EpochInv'
  BY <1>i, <1>n, <1>f, <1>e DEF EpochInv, OnDisk, Nums
<1>10. Promises'
  BY <1>n, <1>f, <1>i, <1>o DEF Promises
<1> QED
  BY <1>1, <1>2, <1>3, <1>4, <1>5, <1>6, <1>7, <1>8, <1>9, <1>10
     DEF IInv, TypeOK

\* The syncer publishes no mark beyond what it fsynced.
LEMMA SyncerPublishInv ==
  ASSUME IInv, SyncerPublish
  PROVE  IInv'
<1> USE TxFacts
<1>i. /\ TypeOK /\ QueueInv /\ DiskInv /\ NameInv
      /\ ControlInv /\ WriterInv /\ MarkInv /\ EpochInv /\ Promises
  BY DEF IInv
<1>n. Nums
  BY <1>i, TypeNums
<1>f. /\ live' = live /\ headed' = headed /\ home' = home /\ stable' = stable
      /\ torn' = torn /\ eio' = eio /\ holed' = holed /\ up' = up /\ queue' = queue
      /\ lastAppended' = lastAppended /\ issued' = issued /\ wpc' = wpc /\ why' = why
      /\ batch' = batch /\ buf' = buf /\ current' = current /\ lastWritten' = lastWritten
      /\ rxClosed' = rxClosed /\ wfailed' = wfailed /\ sHandle' = sHandle
      /\ sTarget' = sTarget /\ cHandle' = cHandle /\ cWritten' = cWritten
      /\ writtenMark' = writtenMark /\ durableFailed' = durableFailed /\ acked' = acked
      /\ confirmed' = confirmed /\ covered' = covered /\ syncFaults' = syncFaults
      /\ osCrashes' = osCrashes /\ bootEpoch' = bootEpoch /\ entryEpoch' = entryEpoch
      /\ wEpoch' = wEpoch /\ closing' = closing /\ epoch' = epoch /\ epochReq' = epochReq
      /\ shutdown' = shutdown /\ writtenFailed' = writtenFailed /\ lateAcked' = lateAcked
      /\ crashes' = crashes /\ writeFaults' = writeFaults
  BY DEF SyncerPublish, disk, handle, writer, syncer, cursor, written, durable, told,
     faults, PublishDurable, AtLeast
<1>e. /\ up /\ spc = "publish" /\ spc' = "wait"
      /\ durableMark' = IF durableFailed THEN durableMark ELSE IF durableMark >= sTarget THEN durableMark ELSE sTarget
  BY <1>i DEF SyncerPublish, PublishDurable, AtLeast
<1>v. cSynced' \in TxOpt /\ durableMark' \in TxOpt /\ durableMark' <= lastAppended
  <2>1. cSynced \in TxOpt /\ durableMark \in TxOpt /\ sTarget \in TxOpt
    BY <1>i DEF TypeOK, ValuesOK
  <2>2. cSynced' = IF cSynced >= sTarget THEN cSynced ELSE sTarget
    BY DEF SyncerPublish, AtLeast
  <2>3. durableMark <= lastAppended /\ sTarget <= lastAppended
    BY <1>i, <1>n DEF QueueInv, Nums
  <2> QED
    BY <1>e, <2>1, <2>2, <2>3
<1>m. eio = {} /\ ~durableFailed => \A t \in issued : t <= sTarget => t \in stable \/ t <= covered
  BY <1>i, <1>n, <1>e DEF MarkInv, ControlInv, QueueInv, OnDisk, Nums
<1>1. FlagsOK'
  BY <1>i DEF TypeOK, FlagsOK, SyncerPublish, disk, handle, writer, syncer, cursor,
     written, durable, told, faults, PublishDurable
<1>2. ValuesOK'
  BY <1>i, <1>f, <1>v, <1>e DEF TypeOK, ValuesOK
<1>3. QueueInv'
  BY <1>i, <1>n, <1>f, <1>v DEF QueueInv, Rotating, Queued, Nums
<1>4. DiskInv'
  BY <1>i, <1>n, <1>f, <1>e DEF DiskInv, OnDisk, Sealed, Nums
<1>5. NameInv'
  BY <1>i, <1>n, <1>f, <1>e DEF NameInv, NamesBelow, Predecessors, Accounted, Rotating,
     Queued, OnDisk, Nums
<1>6. ControlInv'
  BY <1>i, <1>n, <1>f, <1>e DEF ControlInv
<1>7. WriterInv'
  BY <1>i, <1>n, <1>f, <1>e DEF WriterInv, Healthy, IsLast, IsTail, OnDisk, Nums
<1>8. MarkInv'
  BY <1>i, <1>n, <1>f, <1>e, <1>m DEF MarkInv, OnDisk, Nums
<1>9. EpochInv'
  BY <1>i, <1>n, <1>f, <1>e DEF EpochInv, OnDisk, Nums
<1>10. Promises'
  BY <1>i, <1>n, <1>f, <1>e DEF Promises, OnDisk, Nums
<1> QED
  BY <1>1, <1>2, <1>3, <1>4, <1>5, <1>6, <1>7, <1>8, <1>9, <1>10
     DEF IInv, TypeOK

\* A failed fsync of the syncer drops the segment's pages.
LEMMA SyncerSyncFailsInv ==
  ASSUME IInv, SyncerSyncFails
  PROVE  IInv'
<1> USE TxFacts
<1>i. /\ TypeOK /\ QueueInv /\ DiskInv /\ NameInv
      /\ ControlInv /\ WriterInv /\ MarkInv /\ EpochInv /\ Promises
  BY DEF IInv
<1>n. Nums
  BY <1>i, TypeNums
<1>f. /\ live' = live /\ headed' = headed /\ home' = home /\ stable' = stable
      /\ torn' = torn /\ holed' = holed /\ up' = up /\ queue' = queue
      /\ lastAppended' = lastAppended /\ issued' = issued /\ wpc' = wpc /\ why' = why
      /\ batch' = batch /\ buf' = buf /\ current' = current /\ lastWritten' = lastWritten
      /\ rxClosed' = rxClosed /\ wfailed' = wfailed /\ sHandle' = sHandle
      /\ sTarget' = sTarget /\ cHandle' = cHandle /\ cWritten' = cWritten
      /\ writtenMark' = writtenMark /\ durableMark' = durableMark
      /\ durableFailed' = durableFailed /\ acked' = acked /\ confirmed' = confirmed
      /\ covered' = covered /\ osCrashes' = osCrashes /\ bootEpoch' = bootEpoch
      /\ entryEpoch' = entryEpoch /\ wEpoch' = wEpoch /\ closing' = closing
      /\ epoch' = epoch /\ epochReq' = epochReq /\ cSynced' = cSynced
      /\ shutdown' = shutdown /\ writtenFailed' = writtenFailed /\ lateAcked' = lateAcked
      /\ crashes' = crashes /\ writeFaults' = writeFaults
  BY DEF SyncerSyncFails, disk, handle, writer, syncer, cursor, written, durable, told,
     faults
<1>e. /\ up /\ spc = "sync" /\ spc' = "fail"
      /\ eio' = eio \cup {sHandle} /\ syncFaults' = syncFaults + 1
  BY <1>i DEF SyncerSyncFails
<1>v. eio' \subseteq TxOpt /\ syncFaults' \in Nat
  BY <1>e, <1>i DEF TypeOK, ValuesOK
<1>1. FlagsOK'
  BY <1>i DEF TypeOK, FlagsOK, SyncerSyncFails, disk, handle, writer, syncer, cursor,
     written, durable, told, faults
<1>2. ValuesOK'
  BY <1>i, <1>f, <1>v, <1>e DEF TypeOK, ValuesOK
<1>3. QueueInv'
  BY <1>i, <1>n, <1>f, <1>e DEF QueueInv, Rotating, Queued, Nums
<1>4. DiskInv'
  BY <1>i, <1>n, <1>f, <1>e DEF DiskInv, OnDisk, Sealed, Nums
<1>5. NameInv'
  BY <1>i, <1>n, <1>f, <1>e DEF NameInv, NamesBelow, Predecessors, Accounted, Rotating,
     Queued, OnDisk, Nums
<1>6. ControlInv'
  BY <1>i, <1>n, <1>f, <1>e DEF ControlInv
<1>7. WriterInv'
  BY <1>i, <1>n, <1>f, <1>e DEF WriterInv, Healthy, IsLast, IsTail, OnDisk, Nums
<1>8. MarkInv'
  BY <1>i, <1>n, <1>f, <1>e DEF MarkInv, OnDisk, Nums
<1>9. EpochInv'
  BY <1>i, <1>n, <1>f, <1>e DEF EpochInv, OnDisk, Nums
<1>10. Promises'
  BY <1>i, <1>n, <1>f, <1>e DEF Promises, OnDisk, Nums
<1> QED
  BY <1>1, <1>2, <1>3, <1>4, <1>5, <1>6, <1>7, <1>8, <1>9, <1>10
     DEF IInv, TypeOK

\* The syncer poisons the log.
LEMMA SyncerFailInv ==
  ASSUME IInv, SyncerFail
  PROVE  IInv'
<1> USE TxFacts
<1>i. /\ TypeOK /\ QueueInv /\ DiskInv /\ NameInv
      /\ ControlInv /\ WriterInv /\ MarkInv /\ EpochInv /\ Promises
  BY DEF IInv
<1>n. Nums
  BY <1>i, TypeNums
<1>f. /\ live' = live /\ headed' = headed /\ home' = home /\ stable' = stable
      /\ torn' = torn /\ eio' = eio /\ holed' = holed /\ up' = up /\ queue' = queue
      /\ lastAppended' = lastAppended /\ issued' = issued /\ wpc' = wpc /\ why' = why
      /\ batch' = batch /\ buf' = buf /\ current' = current /\ lastWritten' = lastWritten
      /\ rxClosed' = rxClosed /\ wfailed' = wfailed /\ sHandle' = sHandle
      /\ sTarget' = sTarget /\ cHandle' = cHandle /\ cWritten' = cWritten
      /\ writtenMark' = writtenMark /\ durableMark' = durableMark /\ acked' = acked
      /\ confirmed' = confirmed /\ covered' = covered /\ syncFaults' = syncFaults
      /\ osCrashes' = osCrashes /\ bootEpoch' = bootEpoch /\ entryEpoch' = entryEpoch
      /\ wEpoch' = wEpoch
  BY DEF SyncerFail, disk, handle, writer, syncer, cursor, written, durable, told,
     faults
<1>e. /\ durableFailed' = TRUE /\ spc' = "exit"
  BY <1>i DEF SyncerFail
<1>1. FlagsOK'
  BY <1>i DEF TypeOK, FlagsOK, SyncerFail, disk, handle, writer, syncer, cursor,
     written, durable, told, faults
<1>2. ValuesOK'
  BY <1>i DEF TypeOK, ValuesOK, SyncerFail, disk, handle, writer, syncer, cursor,
     written, durable, told, faults
<1>3. QueueInv'
  BY <1>i, <1>n, <1>f, <1>e DEF QueueInv, Rotating, Queued, Nums
<1>4. DiskInv'
  BY <1>i, <1>n, <1>f, <1>e DEF DiskInv, OnDisk, Sealed, Nums
<1>5. NameInv'
  BY <1>i, <1>n, <1>f, <1>e DEF NameInv, NamesBelow, Predecessors, Accounted, Rotating,
     Queued, OnDisk, Nums
<1>6. ControlInv'
  BY <1>i, <1>n, <1>f, <1>e DEF ControlInv
<1>7. WriterInv'
  BY <1>i, <1>n, <1>f, <1>e DEF WriterInv, Healthy, IsLast, IsTail, OnDisk, Nums
<1>8. MarkInv'
  BY <1>i, <1>n, <1>f, <1>e DEF MarkInv, OnDisk, Nums
<1>9. EpochInv'
  BY <1>i, <1>n, <1>f, <1>e DEF EpochInv, OnDisk, Nums
<1>10. Promises'
  BY <1>i, <1>n, <1>f, <1>e DEF Promises, OnDisk, Nums
<1> QED
  BY <1>1, <1>2, <1>3, <1>4, <1>5, <1>6, <1>7, <1>8, <1>9, <1>10
     DEF IInv, TypeOK

-----------------------------------------------------------------------------
(* Crashes and recovery.                                                   *)

\* A process crash leaves every readable entry where it is.
LEMMA ProcessCrashInv ==
  ASSUME IInv, ProcessCrash
  PROVE  IInv'
<1> USE TxFacts
<1>i. /\ TypeOK /\ QueueInv /\ DiskInv /\ NameInv
      /\ ControlInv /\ WriterInv /\ MarkInv /\ EpochInv /\ Promises
  BY DEF IInv
<1>n. Nums
  BY <1>i, TypeNums
<1>f. /\ live' = live /\ stable' = stable /\ eio' = eio /\ holed' = holed /\ acked' = acked
      /\ confirmed' = confirmed /\ covered' = covered /\ syncFaults' = syncFaults
      /\ osCrashes' = osCrashes /\ bootEpoch' = bootEpoch /\ entryEpoch' = entryEpoch
      /\ lateAcked' = lateAcked /\ writeFaults' = writeFaults
  BY DEF ProcessCrash, disk, handle, writer, syncer, cursor, written, durable, told,
     faults
<1>e. /\ up
      /\ crashes' = crashes + 1
      /\ \/ home' = home /\ torn' = torn
         \/ wpc = "write" /\ buf # {} /\ (WriteFrames(buf, current) \/ WritePart(buf, current))
      /\ headed' = headed \/ (wpc = "header" /\ headed' = headed \cup {Head1.arg})
  BY <1>i DEF ProcessCrash
<1>u. up' = FALSE /\ FreshProcess(0, 0, 1)
  BY DEF ProcessCrash, Down
<1>x. /\ closing' = FALSE /\ rxClosed' = FALSE /\ wfailed' = FALSE /\ shutdown' = FALSE
      /\ writtenFailed' = FALSE /\ durableFailed' = FALSE /\ up' = FALSE
  BY <1>u DEF FreshProcess
<1>p. /\ queue' = <<>> /\ lastAppended' = 0 /\ epoch' = 1 /\ epochReq' = 0 /\ issued' = {}
      /\ wpc' = "recv" /\ why' = "end" /\ batch' = 0 /\ buf' = {} /\ current' = 0
      /\ lastWritten' = 0 /\ wEpoch' = 1 /\ spc' = "wait" /\ sHandle' = 0 /\ sTarget' = 0
      /\ cHandle' = 0 /\ cWritten' = 0 /\ cSynced' = 0 /\ writtenMark' = 0 /\ durableMark' = 0
  BY <1>u DEF FreshProcess
<1>s. Len(queue') = 0 /\ queue' \in Seq(Command) /\ 1 \in Epochs
  BY <1>p, BoundsAreNat DEF BoundsAreNat, Epochs
<1>y. /\ queue' \in Seq(Command) /\ lastAppended' \in TxOpt /\ epoch' \in Epochs
      /\ epochReq' \in 0..MaxEpoch /\ issued' \subseteq Tx /\ wpc' = "recv" /\ why' = "end"
      /\ batch' \in Nat /\ buf' \subseteq Tx /\ current' \in TxOpt /\ lastWritten' \in TxOpt
      /\ wEpoch' \in Epochs /\ spc' = "wait" /\ sHandle' \in TxOpt /\ sTarget' \in TxOpt
      /\ cHandle' \in TxOpt /\ cWritten' \in TxOpt /\ cSynced' \in TxOpt
      /\ writtenMark' \in TxOpt /\ durableMark' \in TxOpt
  BY <1>p, <1>s, BoundsAreNat DEF BoundsAreNat
<1>h. headed \subseteq headed' /\ headed' \subseteq live
  <2>1. CASE headed' = headed
    BY <2>1, <1>n DEF Nums
  <2>2. CASE wpc = "header" /\ headed' = headed \cup {Head1.arg}
    <3>1. Len(queue) > 0
      BY <2>2, <1>i, <1>n DEF QueueInv, Rotating, Nums
    <3>2. Head1 = queue[1]
      BY <3>1, <1>i DEF TypeOK, ValuesOK, Head1
    <3> QED
      BY <2>2, <3>2, <1>e, <1>i, <1>n DEF WriterInv, IsTail, Nums
  <2> QED
    BY <2>1, <2>2, <1>e
<1>d. /\ OnDisk \subseteq OnDisk' /\ OnDisk' \subseteq OnDisk \cup buf
      /\ torn' \subseteq live /\ home' \in [Tx -> TxOpt]
      /\ DiskInv' /\ \A t \in OnDisk' : home'[t] <= t
  <2>1. CASE buf # {} /\ (WriteFrames(buf, current) \/ WritePart(buf, current))
    <3>1. Written
      BY <2>1, <1>e, WriteFramesFacts, WritePartFacts
    <3> QED
      BY <2>1, <3>1, <1>f, <1>e, <1>h, WrittenDisk DEF Written
  <2>2. CASE home' = home /\ torn' = torn
    <3>1. OnDisk' = OnDisk
      BY <2>2 DEF OnDisk
    <3>2. DiskInv'
      BY <1>i, <1>f, <1>h, <2>2, <3>1 DEF DiskInv, Sealed
    <3> QED
      BY <2>2, <3>1, <3>2, <1>i DEF NameInv, TypeOK, ValuesOK
  <2> QED
    BY <2>1, <2>2, <1>e
<1>v. crashes' \in Nat
  BY <1>e, <1>i DEF TypeOK, ValuesOK
<1>1. FlagsOK'
  BY <1>i, <1>x, <1>f DEF TypeOK, FlagsOK, ProcessCrash, disk, handle, writer, syncer,
     cursor, written, durable, told, faults
<1>2. ValuesOK'
  BY <1>i, <1>f, <1>y, <1>h, <1>d, <1>v DEF TypeOK, ValuesOK
<1>3. QueueInv'
  BY <1>p, <1>s DEF QueueInv, Rotating, Queued
<1>4. DiskInv'
  BY <1>d
<1>5. NameInv'
  BY <1>x, <1>f, <1>d, <1>e, <1>i DEF NameInv
<1>6. ControlInv'
  BY <1>x DEF ControlInv
<1>7. WriterInv'
  BY <1>x DEF WriterInv
<1>8. MarkInv'
  BY <1>x DEF MarkInv
<1>9. EpochInv'
  <2>1. (OnDisk \cup buf)' \subseteq OnDisk \cup buf /\ OnDisk' \subseteq OnDisk \cup buf
    BY <1>d, <1>p
  <2> QED
    BY <2>1, <1>n, <1>f, <1>e, <1>x, <1>i DEF EpochInv, OnDisk, Nums
<1>10. Promises'
  BY <1>f, <1>d, <1>i DEF Promises
<1> QED
  BY <1>1, <1>2, <1>3, <1>4, <1>5, <1>6, <1>7, <1>8, <1>9, <1>10
     DEF IInv, TypeOK

\* An OS crash takes only entries no fsync covered, none of a sealed segment.
LEMMA OSCrashInv ==
  ASSUME IInv, OSCrash
  PROVE  IInv'
<1> USE TxFacts
<1>i. /\ TypeOK /\ QueueInv /\ DiskInv /\ NameInv
      /\ ControlInv /\ WriterInv /\ MarkInv /\ EpochInv /\ Promises
  BY DEF IInv
<1>n. Nums
  BY <1>i, TypeNums
<1>f. /\ confirmed' = confirmed /\ covered' = covered /\ syncFaults' = syncFaults
      /\ bootEpoch' = bootEpoch /\ entryEpoch' = entryEpoch /\ crashes' = crashes
      /\ writeFaults' = writeFaults
  BY DEF OSCrash, disk, handle, writer, syncer, cursor, written, durable, told, faults
<1>e. /\ osCrashes' = osCrashes + 1 /\ (live' = live \/ live' = headed) /\ headed' = headed
      /\ eio' = eio /\ holed' = (holed \/ eio # {})
  BY <1>i DEF OSCrash
<1>u. up' = FALSE /\ FreshProcess(0, 0, 1)
  BY DEF OSCrash, Down
<1>x. /\ closing' = FALSE /\ rxClosed' = FALSE /\ wfailed' = FALSE /\ shutdown' = FALSE
      /\ writtenFailed' = FALSE /\ durableFailed' = FALSE /\ up' = FALSE
  BY <1>u DEF FreshProcess
<1>p. /\ queue' = <<>> /\ lastAppended' = 0 /\ epoch' = 1 /\ epochReq' = 0 /\ issued' = {}
      /\ wpc' = "recv" /\ why' = "end" /\ batch' = 0 /\ buf' = {} /\ current' = 0
      /\ lastWritten' = 0 /\ wEpoch' = 1 /\ spc' = "wait" /\ sHandle' = 0 /\ sTarget' = 0
      /\ cHandle' = 0 /\ cWritten' = 0 /\ cSynced' = 0 /\ writtenMark' = 0 /\ durableMark' = 0
  BY <1>u DEF FreshProcess
<1>s. Len(queue') = 0 /\ queue' \in Seq(Command) /\ 1 \in Epochs
  BY <1>p, BoundsAreNat DEF BoundsAreNat, Epochs
<1>y. /\ queue' \in Seq(Command) /\ lastAppended' \in TxOpt /\ epoch' \in Epochs
      /\ epochReq' \in 0..MaxEpoch /\ issued' \subseteq Tx /\ wpc' = "recv" /\ why' = "end"
      /\ batch' \in Nat /\ buf' \subseteq Tx /\ current' \in TxOpt /\ lastWritten' \in TxOpt
      /\ wEpoch' \in Epochs /\ spc' = "wait" /\ sHandle' \in TxOpt /\ sTarget' \in TxOpt
      /\ cHandle' \in TxOpt /\ cWritten' \in TxOpt /\ cSynced' \in TxOpt
      /\ writtenMark' \in TxOpt /\ durableMark' \in TxOpt
  BY <1>p, <1>s, BoundsAreNat DEF BoundsAreNat
<1>k. PICK keep \in SUBSET OnDisk :
        /\ stable \subseteq keep
        /\ home' = [t \in Tx |-> IF t \in keep THEN home[t] ELSE 0]
        /\ torn' \in SUBSET (torn \cup {home[t] : t \in OnDisk \ keep})
        /\ stable' = keep
        /\ acked' = acked \ (OnDisk \ keep) /\ lateAcked' = lateAcked \ (OnDisk \ keep)
  BY DEF OSCrash
<1>o. OnDisk' = keep /\ \A t \in keep : t \in OnDisk /\ home'[t] = home[t]
  BY <1>k DEF OnDisk
<1>l. live' \subseteq live /\ headed \subseteq live' /\ \A f \in Nat : Sealed(f)' => Sealed(f)
  BY <1>e, <1>n DEF Sealed, Nums
<1>t. torn' \subseteq headed /\ (syncFaults = 0 => \A f \in torn' : ~Sealed(f))
  <2>1. \A t \in OnDisk \ keep : home[t] \in headed /\ (syncFaults = 0 => ~Sealed(home[t]))
    BY <1>i, <1>k, <1>n DEF DiskInv, Nums
  <2> QED
    BY <2>1, <1>i, <1>k DEF DiskInv
<1>v. /\ home' \in [Tx -> TxOpt] /\ stable' \subseteq Tx /\ acked' \subseteq Tx /\ lateAcked' \subseteq Tx
      /\ live' \subseteq Tx /\ headed' \subseteq live' /\ torn' \subseteq live' /\ osCrashes' \in Nat
  BY <1>i, <1>k, <1>e, <1>l, <1>t DEF TypeOK, ValuesOK, OnDisk
<1>z. holed' \in BOOLEAN
  BY <1>e
<1>m. ~holed' => \A f \in live : f - 1 \in OnDisk => f - 1 \in keep
  <2> SUFFICES ASSUME ~holed', NEW f \in live, f - 1 \in OnDisk PROVE f - 1 \in keep
    OBVIOUS
  <2>1. eio = {}
    BY <1>e
  <2>2. home[f - 1] \in live /\ home[f - 1] < f
    BY <1>i, <1>n DEF DiskInv, NameInv, OnDisk, Nums
  <2> QED
    BY <2>1, <2>2, <1>i, <1>k DEF DiskInv, Sealed
<1>1. FlagsOK'
  BY <1>i, <1>x, <1>z, <1>f DEF TypeOK, FlagsOK, OSCrash, disk, handle, writer, syncer,
     cursor, written, durable, told, faults
<1>2. ValuesOK'
  BY <1>i, <1>f, <1>y, <1>v, <1>e DEF TypeOK, ValuesOK
<1>3. QueueInv'
  BY <1>p, <1>s DEF QueueInv, Rotating, Queued
<1>4. DiskInv'
  <2>1. \A t \in OnDisk' : home'[t] \in headed /\ home'[t] \in Nat /\ home'[t] = home[t] /\ t \in OnDisk
    BY <1>o, <1>i, <1>n DEF DiskInv, OnDisk, Nums
  <2>2. \A t \in OnDisk', g \in live' : home'[t] < g => t < g
    BY <2>1, <1>l, <1>i DEF DiskInv
  <2>3. \A f \in live' : Sealed(f)' => f \in headed'
    BY <1>e, <1>l, <1>n, <1>i DEF DiskInv, Nums
  <2>4. syncFaults = 0 => \A f \in torn' : ~Sealed(f)'
    BY <1>t, <1>l, <1>n DEF Nums
  <2> QED
    BY <2>1, <2>2, <2>3, <2>4, <1>k, <1>o, <1>t, <1>e, <1>f, <1>i DEF DiskInv
<1>5. NameInv'
  BY <1>x, <1>f, <1>e, <1>l, <1>m, <1>o, <1>i DEF NameInv
<1>6. ControlInv'
  BY <1>x DEF ControlInv
<1>7. WriterInv'
  BY <1>x DEF WriterInv
<1>8. MarkInv'
  BY <1>x DEF MarkInv
<1>9. EpochInv'
  <2>1. (OnDisk \cup buf)' \subseteq OnDisk /\ OnDisk' \subseteq OnDisk
    BY <1>o, <1>p
  <2> QED
    BY <2>1, <1>n, <1>f, <1>x, <1>i DEF EpochInv, OnDisk, Nums
<1>10. Promises'
  BY <1>f, <1>k, <1>o, <1>i DEF Promises
<1> QED
  BY <1>1, <1>2, <1>3, <1>4, <1>5, <1>6, <1>7, <1>8, <1>9, <1>10
     DEF IInv, TypeOK

\* A scan of a log that satisfies the invariant refuses nothing.
LEMMA NothingDisordered == IInv => Disordered = {}
<1> USE TxFacts
<1> SUFFICES ASSUME IInv, NEW x \in OnDisk, NEW u \in OnDisk, home[u] < home[x]
             PROVE  ~(u > x \/ entryEpoch[u] > entryEpoch[x])
  BY DEF Disordered
<1>i. Nums /\ DiskInv /\ NameInv /\ EpochInv
  BY TypeNums DEF IInv
<1>1. home[x] \in live /\ home[x] <= x
  BY <1>i DEF DiskInv, NameInv, Nums
<1>2. u < home[x]
  BY <1>1, <1>i DEF DiskInv
<1>3. u < x
  BY <1>1, <1>2, <1>i DEF Nums, OnDisk
<1>4. entryEpoch[u] <= entryEpoch[x]
  BY <1>3, <1>i DEF EpochInv
<1> QED
  BY <1>3, <1>4, <1>i DEF Nums, OnDisk

\* Recovery keeps every readable entry and restarts above all of them.
LEMMA OpenInv ==
  ASSUME IInv, Open
  PROVE  IInv'
<1> USE TxFacts
<1>i. /\ TypeOK /\ QueueInv /\ DiskInv /\ NameInv
      /\ ControlInv /\ WriterInv /\ MarkInv /\ EpochInv /\ Promises
  BY DEF IInv
<1>n. Nums
  BY <1>i, TypeNums
<1>f. /\ eio' = eio /\ holed' = holed /\ acked' = acked /\ confirmed' = confirmed
      /\ covered' = covered /\ syncFaults' = syncFaults /\ osCrashes' = osCrashes
      /\ bootEpoch' = bootEpoch /\ entryEpoch' = entryEpoch /\ lateAcked' = lateAcked
      /\ crashes' = crashes /\ writeFaults' = writeFaults
  BY DEF Open, disk, handle, writer, syncer, cursor, written, durable, told, faults
<1>k. {t \in OnDisk : home[t] \notin Disordered} = OnDisk
  BY NothingDisordered
<1>e. /\ ~up /\ ~holed /\ live' = live \cap headed /\ headed' = headed /\ torn' = {}
      /\ home' = [t \in Tx |-> IF t \in OnDisk THEN home[t] ELSE 0]
      /\ stable' = {t \in OnDisk : t \in stable \/ home[t] \in torn}
      /\ up' = TRUE
  BY <1>k DEF Open
<1>t. PICK last, tail \in TxOpt :
        IsLast(last, OnDisk) /\ IsLast(tail, live') /\ FreshProcess(last, tail, bootEpoch)
  BY <1>k DEF Open
<1>x. /\ closing' = FALSE /\ rxClosed' = FALSE /\ wfailed' = FALSE /\ shutdown' = FALSE
      /\ writtenFailed' = FALSE /\ durableFailed' = FALSE
  BY <1>t DEF FreshProcess
<1>p. /\ queue' = <<>> /\ lastAppended' = last /\ epoch' = bootEpoch /\ epochReq' = 0 /\ issued' = {}
      /\ wpc' = "recv" /\ why' = "end" /\ batch' = 0 /\ buf' = {} /\ current' = tail
      /\ lastWritten' = last /\ wEpoch' = bootEpoch /\ spc' = "wait" /\ sHandle' = 0 /\ sTarget' = 0
      /\ cHandle' = tail /\ cWritten' = last /\ cSynced' = last
      /\ writtenMark' = last /\ durableMark' = last
  BY <1>t DEF FreshProcess
<1>s. Len(queue') = 0 /\ queue' \in Seq(Command)
  BY <1>p
<1>b. bootEpoch \in Epochs
  BY <1>i DEF TypeOK, ValuesOK
<1>y. /\ queue' \in Seq(Command) /\ lastAppended' \in TxOpt /\ epoch' \in Epochs
      /\ epochReq' \in 0..MaxEpoch /\ issued' \subseteq Tx /\ wpc' = "recv" /\ why' = "end"
      /\ batch' \in Nat /\ buf' \subseteq Tx /\ current' \in TxOpt /\ lastWritten' \in TxOpt
      /\ wEpoch' \in Epochs /\ spc' = "wait" /\ sHandle' \in TxOpt /\ sTarget' \in TxOpt
      /\ cHandle' \in TxOpt /\ cWritten' \in TxOpt /\ cSynced' \in TxOpt
      /\ writtenMark' \in TxOpt /\ durableMark' \in TxOpt
  BY <1>p, <1>s, <1>b, BoundsAreNat DEF BoundsAreNat
<1>o. OnDisk' = OnDisk /\ \A t \in OnDisk : home'[t] = home[t]
  BY <1>e DEF OnDisk
<1>l. live' \subseteq live /\ \A f \in Nat : Sealed(f)' => Sealed(f)
  BY <1>e, <1>n DEF Sealed, Nums
<1>m. /\ last \in Nat /\ tail \in Nat /\ (last = 0 \/ last \in OnDisk) /\ \A t \in OnDisk : t <= last
      /\ \A f \in live' : f <= tail
  BY <1>t DEF IsLast
<1>v. /\ home' \in [Tx -> TxOpt] /\ stable' \subseteq Tx /\ live' \subseteq Tx
      /\ headed' \subseteq live' /\ torn' \subseteq live'
  BY <1>i, <1>e DEF TypeOK, ValuesOK, OnDisk
<1>z. stable \subseteq stable' /\ stable' \subseteq OnDisk
  BY <1>e, <1>i DEF DiskInv
<1>d. \A t \in OnDisk : home[t] \in headed /\ home[t] \in live' /\ home[t] \in Nat /\ home[t] <= tail
  BY <1>i, <1>n, <1>e, <1>m DEF DiskInv, OnDisk, Nums
<1>1. FlagsOK'
  BY <1>i, <1>x, <1>f, <1>e DEF TypeOK, FlagsOK, Open, disk, handle, writer, syncer,
     cursor, written, durable, told, faults
<1>2. ValuesOK'
  BY <1>i, <1>f, <1>y, <1>v DEF TypeOK, ValuesOK
<1>3. QueueInv'
  BY <1>p, <1>s, <1>x, <1>m DEF QueueInv, Rotating, Queued
<1>4. DiskInv'
  <2>1. \A f \in live' : Sealed(f)' => f \in headed'
    BY <1>e, <1>l, <1>n, <1>i DEF DiskInv, Nums
  <2>2. \A t \in OnDisk' : Sealed(home[t])' /\ home'[t] \notin eio => t \in stable'
    BY <1>l, <1>d, <1>o, <1>z, <1>i DEF DiskInv
  <2> QED
    BY <2>1, <2>2, <1>o, <1>z, <1>l, <1>e, <1>f, <1>d, <1>i DEF DiskInv
<1>5. NameInv'
  <2>1. NamesBelow' /\ Predecessors'
    BY <1>s DEF NamesBelow, Predecessors
  <2>2. Accounted(lastAppended)'
    BY <1>p, <1>o, <1>m DEF Accounted
  <2>3. \A f \in live' : f <= last + 1 \/ f <= covered + 1
    BY <1>i, <1>n, <1>e, <1>l, <1>m DEF NameInv, Nums
  <2>4. /\ \A f \in live' : f = 1 \/ f - 1 <= covered \/ f - 1 \in OnDisk
        /\ \A t \in OnDisk : home[t] <= t
    BY <1>i, <1>e, <1>l DEF NameInv
  <2> QED
    BY <2>1, <2>2, <2>3, <2>4, <1>p, <1>f, <1>e, <1>o DEF NameInv
<1>6. ControlInv'
  BY <1>x, <1>p DEF ControlInv
<1>7. WriterInv'
  BY <1>x, <1>p, <1>e, <1>o, <1>m, <1>t DEF WriterInv, Healthy, IsTail
<1>8. MarkInv'
  <2>1. \A t \in OnDisk : home[t] # tail => t \in stable' \/ home[t] \in eio
    <3>1. ASSUME NEW t \in OnDisk, home[t] # tail PROVE Sealed(home[t])
      <4>1. tail \in live /\ home[t] \in live /\ home[t] < tail
        BY <3>1, <1>t, <1>d, <1>m, <1>e DEF IsLast
      <4> QED
        BY <4>1 DEF Sealed
    <3> QED
      BY <3>1, <1>z, <1>i DEF DiskInv
  <2> QED
    BY <2>1, <1>p, <1>o, <1>f DEF MarkInv
<1>9. EpochInv'
  <2>1. (OnDisk \cup buf)' = OnDisk
    BY <1>o, <1>p
  <2> QED
    BY <2>1, <1>n, <1>f, <1>o, <1>p, <1>s, <1>i DEF EpochInv, OnDisk, Nums
<1>10. Promises'
  BY <1>f, <1>o, <1>z, <1>i DEF Promises
<1> QED
  BY <1>1, <1>2, <1>3, <1>4, <1>5, <1>6, <1>7, <1>8, <1>9, <1>10
     DEF IInv, TypeOK

-----------------------------------------------------------------------------
(* The theorems.                                                           *)

\* A step that changes nothing preserves the inductive invariant.
LEMMA Unchanged == IInv /\ UNCHANGED vars => IInv'
<1> SUFFICES ASSUME IInv, UNCHANGED vars PROVE IInv'
  OBVIOUS
<1> USE DEF vars, disk, handle, writer, syncer, cursor, written, durable, told, faults
<1>1. TypeOK'
  BY DEF IInv, TypeOK, FlagsOK, ValuesOK
<1>2. QueueInv' /\ ControlInv' /\ MarkInv' /\ EpochInv' /\ Promises'
  BY DEF IInv, QueueInv, Rotating, Queued, ControlInv, MarkInv, EpochInv, Promises, OnDisk
<1>3. DiskInv' /\ NameInv' /\ WriterInv'
  BY DEF IInv, DiskInv, NameInv, NamesBelow, Predecessors, Accounted, Rotating, Queued,
         WriterInv, Healthy, IsLast, IsTail, Sealed, OnDisk
<1> QED
  BY <1>1, <1>2, <1>3 DEF IInv

\* Every step of the handle, of both threads, of the environment and of the
\* recovery preserves the invariant.
LEMMA NextInv == IInv /\ [Next]_vars => IInv'
<1> SUFFICES ASSUME IInv, Next PROVE IInv'
  BY Unchanged
<1>1. CASE WriterStep
  BY <1>1, ReceiveInv, ReceiveClosedInv, BufferRecordInv, BeginRotationInv, CreateSegmentInv,
     WriteHeaderInv, ApplyEpochInv, BatchDoneInv, FlushWrittenInv, FlushSyncInv,
     FlushPublishInv, FlushWrittenFailsInv, FlushSyncFailsInv, WriteRecordFailsInv, FailInv
     DEF WriterStep
<1>2. CASE SyncerStep
  BY <1>2, SyncerNoticeInv, SyncerCaptureInv, SyncerExitInv, SyncerSyncInv, SyncerPublishInv,
     SyncerSyncFailsInv, SyncerFailInv DEF SyncerStep
<1>3. CASE ~WriterStep /\ ~SyncerStep
  BY <1>3, AppendTxInv, WaitWrittenInv, WaitDurableInv, SetEpochInv, SetEpochReturnsInv,
     CompactInv, CloseInv, ProcessCrashInv, OSCrashInv, OpenInv DEF Next
<1> QED
  BY <1>1, <1>2, <1>3

\* The invariant holds in every reachable state.
THEOREM Inductive == Spec => []IInv
  BY InitInv, NextInv, PTL DEF Spec

\* Every variable keeps its type, for every value of the constants.
THEOREM TypeCorrect == Spec => []TypeOK
<1>1. IInv => TypeOK
  BY DEF IInv
<1> QED
  BY <1>1, Inductive, PTL

\* An acknowledged transaction stays readable, or is covered by a checkpoint,
\* through every process crash, torn-tail repair, failed write or fsync.
THEOREM AckedSafe == Spec => []AckedRecoverable
<1>1. IInv => AckedRecoverable
  <2> SUFFICES ASSUME IInv, NEW t \in acked PROVE t \in OnDisk \cup 1..covered
    BY DEF AckedRecoverable
  <2>1. t \in Tx /\ covered \in Nat
    BY TypeNums DEF IInv, Nums
  <2> QED
    BY <2>1, TxFacts DEF IInv, Promises
<1> QED
  BY <1>1, Inductive, PTL

\* A transaction whose wait_durable returned Ok outlives every crash.
THEOREM ConfirmedSafe == Spec => []ConfirmedStable
<1>1. IInv => ConfirmedStable
  <2> SUFFICES ASSUME IInv, NEW t \in confirmed PROVE t \in stable \cup 1..covered
    BY DEF ConfirmedStable
  <2>1. t \in Tx /\ covered \in Nat
    BY TypeNums DEF IInv, Nums
  <2> QED
    BY <2>1, TxFacts DEF IInv, Promises
<1> QED
  BY <1>1, Inductive, PTL

\* While no fsync has failed, every sealed segment is complete and durable, so
\* recovery never refuses a log that merely crashed.
THEOREM SealedSegmentsComplete == Spec => []SealedComplete
<1>1. IInv => SealedComplete
  <2> SUFFICES ASSUME IInv, syncFaults = 0, NEW f \in live, Sealed(f)
               PROVE  f \in headed /\ f \notin torn /\ \A t \in OnDisk : home[t] = f => t \in stable
    BY DEF SealedComplete
  <2>0. DiskInv
    BY DEF IInv
  <2>1. DiskInv /\ eio = {}
    BY <2>0 DEF DiskInv
  <2> QED
    BY <2>1 DEF DiskInv
<1> QED
  BY <1>1, Inductive, PTL

\* The readable log is ordered by file and by epoch, so a scan in file order
\* accepts all of it.
THEOREM LogOrdered == Spec => []EntriesOrdered
<1>1. IInv => EntriesOrdered
  <2> USE TxFacts
  <2> SUFFICES ASSUME IInv, NEW t \in OnDisk, NEW u \in OnDisk, t < u
               PROVE  home[t] <= home[u] /\ entryEpoch[t] <= entryEpoch[u]
    BY DEF EntriesOrdered
  <2>i. Nums /\ DiskInv /\ NameInv /\ EpochInv
    BY TypeNums DEF IInv
  <2>1. home[t] \in live /\ home[t] <= t /\ home[t] \in Nat /\ home[u] \in Nat
    BY <2>i DEF DiskInv, NameInv, Nums, OnDisk
  <2>2. home[u] < home[t] => u < home[t]
    BY <2>1, <2>i DEF DiskInv
  <2>3. ~(home[u] < home[t])
    BY <2>1, <2>2 DEF OnDisk
  <2>4. entryEpoch[t] <= entryEpoch[u]
    BY <2>i DEF EpochInv
  <2> QED
    BY <2>1, <2>3, <2>4
<1> QED
  BY <1>1, Inductive, PTL

-----------------------------------------------------------------------------
(* The log implements DurableLog.                                          *)

\* A step that leaves the entries, the fsynced set and compaction alone is a
\* stutter of the abstract log.
LEMMA Stutters ==
  ASSUME home' = home, stable' = stable, covered' = covered
  PROVE  UNCHANGED Abstract!dvars
  BY DEF Abstract!dvars, OnDisk

\* A write, whole or partial, records entries at the end of the log.
LEMMA WrittenRecords ==
  ASSUME IInv, up, buf # {}, Written, live' = live, headed \subseteq headed', stable' = stable,
         eio' = eio, syncFaults' = syncFaults, covered' = covered
  PROVE  Abstract!DNext
<1> DEFINE S == OnDisk' \ OnDisk
<1>1. OnDisk \subseteq OnDisk' /\ OnDisk' \subseteq OnDisk \cup buf
  BY WrittenDisk
<1>2. S \in SUBSET Abstract!DTx
  BY DEF Abstract!DTx, OnDisk, Tx
<1>3. ASSUME NEW t \in S, NEW u \in OnDisk PROVE u < t
  <2>1. t \in buf /\ t \notin OnDisk /\ t \in Nat /\ u \in Nat
    BY <1>1, TxFacts DEF OnDisk
  <2>2. u < t \/ (u \in buf /\ ~(t < u))
    BY <2>1 DEF IInv, WriterInv
  <2>3. u # t
    BY <2>1
  <2> QED
    BY <2>1, <2>2, <2>3
<1>4. Abstract!Record(S)
  BY <1>1, <1>3 DEF Abstract!Record
<1> QED
  BY <1>2, <1>4 DEF Abstract!DNext

\* An fsync, of either thread, is the abstract Sync.
LEMMA FsyncSyncs ==
  ASSUME IInv, home' = home, covered' = covered, stable \subseteq stable', stable' \subseteq OnDisk
  PROVE  Abstract!DNext
<1>1. stable' \in SUBSET Abstract!DTx
  BY DEF Abstract!DTx, OnDisk, Tx
<1>2. Abstract!Sync(stable')
  BY DEF Abstract!Sync, OnDisk
<1> QED
  BY <1>1, <1>2 DEF Abstract!DNext

\* A machine crash is the abstract Lose: the prefix each segment keeps is a
\* prefix of the whole log, because sealed segments are fsynced.
LEMMA OSCrashLoses ==
  ASSUME IInv, EntriesOrdered, syncFaults = 0, OSCrash
  PROVE  Abstract!DNext
<1> USE TxFacts
<1>0. TypeOK /\ DiskInv
  BY DEF IInv
<1>n. Nums
  BY <1>0, TypeNums
<1>i. Nums /\ DiskInv /\ eio = {}
  BY <1>0, <1>n DEF DiskInv
<1>1. PICK keep \in SUBSET OnDisk :
        /\ stable \subseteq keep
        /\ \A t \in keep, u \in OnDisk : home[u] = home[t] /\ u < t => u \in keep
        /\ home' = [t \in Tx |-> IF t \in keep THEN home[t] ELSE 0]
        /\ stable' = keep
  BY DEF OSCrash
<1>2. OnDisk' = keep /\ covered' = covered
  BY <1>1 DEF OnDisk, OSCrash
<1>3. ASSUME NEW t \in keep, NEW u \in OnDisk, u < t PROVE u \in keep
  <2>1. CASE home[u] = home[t]
    BY <1>1, <1>3, <2>1
  <2>2. CASE home[u] # home[t]
    <3>1. home[u] < home[t] /\ home[u] \in live /\ home[t] \in live
      BY <1>3, <2>2, <1>1, <1>i DEF EntriesOrdered, DiskInv, OnDisk, Nums
    <3> QED
      BY <3>1, <1>1, <1>i DEF DiskInv, Sealed
  <2> QED
    BY <2>1, <2>2
<1>4. keep \in SUBSET Abstract!DTx
  BY <1>1 DEF Abstract!DTx, OnDisk, Tx
<1>5. Abstract!Lose(keep)
  BY <1>1, <1>2, <1>3 DEF Abstract!Lose
<1> QED
  BY <1>4, <1>5 DEF Abstract!DNext

\* Compaction is the abstract Drop: the segments it removes are a prefix of
\* the log and the checkpoint covers them.
LEMMA CompactDrops ==
  ASSUME IInv, EntriesOrdered, NEW c \in Tx, NEW h \in TxOpt, Compact(c, h)
  PROVE  Abstract!DNext
<1> USE TxFacts
<1>i. Nums /\ DiskInv
  BY TypeNums DEF IInv
<1> DEFINE gone == {f \in live : Deletable(f, c, h)}
           S == {t \in OnDisk : home[t] \in gone}
           k == IF h = 0 THEN c ELSE AtMost(c, h - 1)
<1>1. /\ \A t \in Tx : home'[t] = IF home[t] \in gone THEN 0 ELSE home[t]
      /\ stable' = {t \in stable : home[t] \notin gone}
      /\ covered' = AtLeast(covered, k)
  BY DEF Compact
<1>2. k \in 0..MaxTx
  BY BoundsAreNat DEF BoundsAreNat, AtMost, Tx, TxOpt
<1>3. OnDisk' = OnDisk \ S /\ stable' = stable \ S
  BY <1>1, <1>i DEF OnDisk, DiskInv
<1>4. ASSUME NEW t \in S PROVE t <= k
  <2>1. PICK g \in live : home[t] < g /\ g <= c + 1 /\ (h = 0 \/ g <= h)
    BY DEF Deletable
  <2>2. t < g
    BY <2>1, <1>i DEF DiskInv
  <2> QED
    BY <2>1, <2>2, <1>i DEF AtMost, Nums, OnDisk
<1>5. ASSUME NEW t \in S, NEW u \in OnDisk \ S PROVE t < u
  <2>1. PICK g \in live : home[t] < g /\ g <= c + 1 /\ (h = 0 \/ g <= h)
    BY DEF Deletable
  <2>2. /\ home[u] \in live /\ home[u] \in Nat /\ home[t] \in Nat /\ g \in Nat
        /\ t \in Nat /\ u \in Nat /\ t \in OnDisk
    BY <1>i DEF DiskInv, Nums, OnDisk
  <2>3. ~(home[u] < g)
    BY <2>1, <2>2 DEF Deletable
  <2>4. ~(u < t)
    BY <2>1, <2>2, <2>3 DEF EntriesOrdered
  <2> QED
    BY <2>2, <2>4
<1>6. Abstract!Drop(S, k)
  <2>1. covered' = IF covered >= k THEN covered ELSE k
    BY <1>1 DEF AtLeast
  <2> QED
    BY <1>3, <1>4, <1>5, <2>1 DEF Abstract!Drop
<1>7. S \in SUBSET Abstract!DTx
  BY DEF Abstract!DTx, OnDisk, Tx
<1> QED
  BY <1>2, <1>6, <1>7 DEF Abstract!DNext

\* The repair at open loses no entry: it is the abstract Sync of a truncated
\* tail (or a stutter).
LEMMA OpenSyncs ==
  ASSUME IInv, Open
  PROVE  Abstract!DNext
<1>1. /\ home' = [t \in Tx |-> IF t \in OnDisk THEN home[t] ELSE 0]
      /\ stable' = {t \in OnDisk : t \in stable \/ home[t] \in torn}
      /\ covered' = covered
  <2>1. {t \in OnDisk : home[t] \notin Disordered} = OnDisk
    BY NothingDisordered
  <2> QED
    BY <2>1 DEF Open, told
<1>2. home \in [Tx -> TxOpt] /\ stable \subseteq OnDisk
  BY DEF IInv, TypeOK, ValuesOK, DiskInv
<1>3. home' = home
  BY <1>1, <1>2 DEF OnDisk
<1> QED
  BY <1>1, <1>2, <1>3, FsyncSyncs

\* One step of the log is one step of the abstract log, or none.
LEMMA NextImplements ==
  ASSUME IInv, EntriesOrdered, syncFaults = 0, [Next]_vars
  PROVE  [Abstract!DNext]_(Abstract!dvars)
<1> USE DEF disk, handle, writer, syncer, cursor, written, durable, told, faults
<1>i. TypeOK /\ Nums /\ DiskInv /\ ControlInv /\ WriterInv /\ MarkInv
  BY TypeNums DEF IInv
<1>0. CASE UNCHANGED vars
  BY <1>0, Stutters DEF vars
<1>1. CASE \E t \in Tx : AppendTx(t) \/ WaitWritten(t) \/ WaitDurable(t)
  BY <1>1, Stutters DEF AppendTx, WaitWritten, WaitDurable
<1>2. CASE (\E e \in Epochs : SetEpoch(e)) \/ SetEpochReturns \/ Close
  BY <1>2, Stutters DEF SetEpoch, SetEpochReturns, Close
<1>3. CASE \E c \in Tx, h \in TxOpt : Compact(c, h)
  BY <1>3, CompactDrops
<1>4. CASE WriterStep
  <2>1. CASE FlushWritten
    <3>1. CASE buf # {}
      <4>1. WriteFrames(buf, current) /\ up
        BY <2>1, <3>1 DEF FlushWritten
      <4>2. Written
        BY <3>1, <4>1, WriteFramesFacts
      <4>3. /\ live' = live /\ headed' = headed /\ stable' = stable /\ eio' = eio
            /\ syncFaults' = syncFaults /\ covered' = covered
        BY <2>1 DEF FlushWritten
      <4> QED
        BY <3>1, <4>1, <4>2, <4>3, WrittenRecords
    <3>2. CASE buf = {}
      BY <2>1, <3>2, Stutters DEF FlushWritten
    <3> QED
      BY <3>1, <3>2
  <2>2. CASE FlushWrittenFails
    <3>1. WritePart(buf, current) /\ up /\ buf # {}
      BY <2>2 DEF FlushWrittenFails
    <3>2. Written
      BY <3>1, WritePartFacts
    <3>3. /\ live' = live /\ headed' = headed /\ stable' = stable /\ eio' = eio
          /\ syncFaults' = syncFaults /\ covered' = covered
      BY <2>2 DEF FlushWrittenFails
    <3> QED
      BY <3>1, <3>2, <3>3, WrittenRecords
  <2>3. CASE FlushSync
    <3>1. /\ home' = home /\ covered' = covered /\ up /\ wpc = "sync"
          /\ stable' = stable \cup Fsynced(current, MaxTx)
      BY <2>3 DEF FlushSync
    <3>2. current # 0
      BY <3>1, <1>i DEF ControlInv
    <3>3. stable \subseteq stable' /\ stable' \subseteq OnDisk
      BY <3>1, <3>2, <1>i DEF Fsynced, OnDisk, DiskInv
    <3> QED
      BY <3>1, <3>3, FsyncSyncs
  <2>4. CASE Receive \/ ReceiveClosed \/ BufferRecord \/ BeginRotation
    BY <2>4, Stutters DEF Receive, ReceiveClosed, BufferRecord, BeginRotation
  <2>5. CASE CreateSegment \/ WriteHeader \/ ApplyEpoch \/ BatchDone
    BY <2>5, Stutters DEF CreateSegment, WriteHeader, ApplyEpoch, BatchDone
  <2>6. CASE FlushPublish \/ FlushSyncFails \/ WriteRecordFails \/ Fail
    BY <2>6, Stutters DEF FlushPublish, FlushSyncFails, WriteRecordFails, Fail
  <2> QED
    BY <1>4, <2>1, <2>2, <2>3, <2>4, <2>5, <2>6 DEF WriterStep
<1>5. CASE SyncerStep
  <2>1. CASE SyncerSync
    <3>1. /\ home' = home /\ covered' = covered /\ up /\ spc = "sync"
          /\ stable' = stable \cup Fsynced(sHandle, sTarget)
      BY <2>1 DEF SyncerSync
    <3>2. sHandle # 0
      BY <3>1, <1>i DEF MarkInv
    <3>3. stable \subseteq stable' /\ stable' \subseteq OnDisk
      BY <3>1, <3>2, <1>i DEF Fsynced, OnDisk, DiskInv
    <3> QED
      BY <3>1, <3>3, FsyncSyncs
  <2>2. CASE SyncerNotice \/ SyncerCapture \/ SyncerExit \/ SyncerPublish \/ SyncerSyncFails \/ SyncerFail
    BY <2>2, Stutters DEF SyncerNotice, SyncerCapture, SyncerExit, SyncerPublish, SyncerSyncFails, SyncerFail
  <2> QED
    BY <1>5, <2>1, <2>2 DEF SyncerStep
<1>6. CASE ProcessCrash
  <2>1. /\ live' = live /\ stable' = stable /\ eio' = eio /\ up
        /\ syncFaults' = syncFaults /\ covered' = covered /\ headed \subseteq headed'
    BY <1>6 DEF ProcessCrash
  <2>2. CASE home' = home
    BY <2>1, <2>2, Stutters
  <2>3. CASE buf # {} /\ (WriteFrames(buf, current) \/ WritePart(buf, current))
    <3>1. Written
      BY <2>1, <2>3, WriteFramesFacts, WritePartFacts
    <3> QED
      BY <2>1, <2>3, <3>1, WrittenRecords
  <2> QED
    BY <1>6, <2>2, <2>3 DEF ProcessCrash
<1>7. CASE OSCrash
  BY <1>7, OSCrashLoses
<1>8. CASE Open
  BY <1>8, OpenSyncs
<1> QED
  BY <1>0, <1>1, <1>2, <1>3, <1>4, <1>5, <1>6, <1>7, <1>8 DEF Next

\* Where fsync does not fail, the log implements DurableLog: no interleaving
\* of the threads, failed write, process crash, repair or compaction changes
\* what can be read back other than by a recorded, synced, lost or dropped
\* stretch of transactions.
THEOREM Refinement ==
  ASSUME MaxSyncFaults = 0
  PROVE  Spec => ImplementsDurableLog
<1>1. Init => Abstract!DInit
  BY DEF Init, Abstract!DInit, OnDisk
<1>2. Init => syncFaults = 0
  BY DEF Init
<1>3. syncFaults = 0 /\ [Next]_vars => (syncFaults = 0)'
  <2> SUFFICES ASSUME syncFaults = 0, [Next]_vars PROVE syncFaults' = 0
    OBVIOUS
  <2> USE DEF faults
  <2>1. ~FlushSyncFails /\ ~SyncerSyncFails
    BY DEF FlushSyncFails, SyncerSyncFails
  <2>2. CASE WriterStep
    BY <2>1, <2>2 DEF WriterStep, Receive, ReceiveClosed, BufferRecord, BeginRotation,
       CreateSegment, WriteHeader, ApplyEpoch, BatchDone, FlushWritten, FlushSync,
       FlushPublish, FlushWrittenFails, WriteRecordFails, Fail
  <2>3. CASE SyncerStep
    BY <2>1, <2>3 DEF SyncerStep, SyncerNotice, SyncerCapture, SyncerExit, SyncerSync, SyncerPublish, SyncerFail
  <2>4. CASE UNCHANGED vars
    BY <2>4 DEF vars
  <2> QED
    BY <2>2, <2>3, <2>4 DEF Next, AppendTx, WaitWritten, WaitDurable, SetEpoch,
       SetEpochReturns, Compact, Close, ProcessCrash, OSCrash, Open
<1> QED
  BY <1>1, <1>2, <1>3, Inductive, LogOrdered, NextImplements, PTL
     DEF Spec, ImplementsDurableLog, Abstract!DSpec

-----------------------------------------------------------------------------
(* The watermarks.                                                         *)

\* No step of a running process moves a watermark back or clears a durable
\* failure.
LEMMA MarksStep ==
  ASSUME IInv, Next, up, up'
  PROVE  /\ writtenMark' >= writtenMark /\ durableMark' >= durableMark
         /\ durableFailed => durableFailed'
<1> USE DEF disk, handle, writer, syncer, cursor, written, durable, told, faults
<1>n. Nums /\ QueueInv
  BY TypeNums DEF IInv
<1>0. ASSUME writtenMark' = writtenMark, durableMark' = durableMark, durableFailed' = durableFailed
      PROVE  /\ writtenMark' >= writtenMark /\ durableMark' >= durableMark
             /\ durableFailed => durableFailed'
  BY <1>0, <1>n DEF Nums
<1>1. CASE WriterStep
  <2>1. CASE FlushWritten
    <3>1. writtenMark' \in {writtenMark, lastWritten} /\ durableMark' = durableMark
      BY <2>1 DEF FlushWritten
    <3>2. durableFailed' = durableFailed
      BY <2>1 DEF FlushWritten
    <3> QED
      BY <3>1, <3>2, <1>n DEF QueueInv, Nums
  <2>2. CASE FlushPublish
    <3>1. /\ writtenMark' = writtenMark /\ durableFailed' = durableFailed
          /\ durableMark' = IF durableFailed THEN durableMark ELSE AtLeast(durableMark, lastWritten)
      BY <2>2 DEF FlushPublish, PublishDurable
    <3>2. durableMark' >= durableMark
      BY <3>1, <1>n DEF AtLeast, Nums
    <3> QED
      BY <3>1, <3>2, <1>n DEF Nums
  <2>3. CASE FlushWrittenFails \/ FlushSyncFails \/ Fail
    <3>1. writtenMark' = writtenMark /\ durableMark' = durableMark
      BY <2>3 DEF FlushWrittenFails, FlushSyncFails, Fail
    <3>2. durableFailed => durableFailed'
      BY <2>3 DEF FlushWrittenFails, FlushSyncFails, Fail, AfterError
    <3> QED
      BY <3>1, <3>2, <1>n DEF Nums
  <2>4. CASE Receive \/ ReceiveClosed \/ BufferRecord \/ BeginRotation
    BY <2>4, <1>0 DEF Receive, ReceiveClosed, BufferRecord, BeginRotation
  <2>5. CASE CreateSegment \/ WriteHeader \/ ApplyEpoch \/ BatchDone
    BY <2>5, <1>0 DEF CreateSegment, WriteHeader, ApplyEpoch, BatchDone
  <2>6. CASE FlushSync \/ WriteRecordFails
    BY <2>6, <1>0 DEF FlushSync, WriteRecordFails
  <2> QED
    BY <1>1, <2>1, <2>2, <2>3, <2>4, <2>5, <2>6 DEF WriterStep
<1>2. CASE SyncerStep
  <2>1. CASE SyncerPublish
    <3>1. /\ writtenMark' = writtenMark /\ durableFailed' = durableFailed
          /\ durableMark' = IF durableFailed THEN durableMark ELSE AtLeast(durableMark, sTarget)
      BY <2>1 DEF SyncerPublish, PublishDurable
    <3>2. durableMark' >= durableMark
      BY <3>1, <1>n DEF AtLeast, Nums
    <3> QED
      BY <3>1, <3>2, <1>n DEF Nums
  <2>2. CASE SyncerFail
    <3>1. writtenMark' = writtenMark /\ durableMark' = durableMark /\ durableFailed'
      BY <2>2 DEF SyncerFail
    <3> QED
      BY <3>1, <1>n DEF Nums
  <2>3. CASE SyncerNotice \/ SyncerCapture \/ SyncerExit \/ SyncerSync \/ SyncerSyncFails
    BY <2>3, <1>0 DEF SyncerNotice, SyncerCapture, SyncerExit, SyncerSync, SyncerSyncFails
  <2> QED
    BY <1>2, <2>1, <2>2, <2>3 DEF SyncerStep
<1>3. CASE \E t \in Tx : AppendTx(t) \/ WaitWritten(t) \/ WaitDurable(t)
  BY <1>3, <1>0 DEF AppendTx, WaitWritten, WaitDurable
<1>4. CASE (\E e \in Epochs : SetEpoch(e)) \/ SetEpochReturns \/ Close
  BY <1>4, <1>0 DEF SetEpoch, SetEpochReturns, Close
<1>5. CASE \E c \in Tx, h \in TxOpt : Compact(c, h)
  BY <1>5, <1>0 DEF Compact
<1>6. ~ProcessCrash /\ ~OSCrash /\ ~Open
  BY DEF ProcessCrash, OSCrash, Open, Down
<1> QED
  BY <1>1, <1>2, <1>3, <1>4, <1>5, <1>6 DEF Next

\* Neither watermark of a running process ever moves back, and a Failed
\* durable watermark stays Failed.
THEOREM MarksNeverRegress == Spec => MarksAdvance
<1>1. IInv /\ [Next]_vars =>
        [up /\ up' => /\ writtenMark' >= writtenMark /\ durableMark' >= durableMark
                      /\ durableFailed => durableFailed']_vars
  BY MarksStep
<1> QED
  BY <1>1, Inductive, PTL DEF Spec, MarksAdvance

-----------------------------------------------------------------------------
(* close().                                                                *)

\* The parts read only these variables.
LEMMA DrainSame ==
  ASSUME DrainInv, wpc' = wpc, why' = why, current' = current, eio' = eio, up' = up,
         rxClosed' = rxClosed, durableFailed' = durableFailed, issued' = issued,
         lastWritten' = lastWritten, home' = home, stable' = stable, spc' = spc,
         crashes' = crashes, osCrashes' = osCrashes
  PROVE  DrainInv'
BY DEF DrainInv, LoopDrained, DoneSynced, FailureShows, OnDisk

\* Leaving the loop with the channel drained, or poisoned, is the only way to
\* set rxClosed; nothing is appended after it.
LEMMA LoopDrainedStep ==
  ASSUME IInv, LoopDrained, Next
  PROVE  LoopDrained'
<1> USE DEF LoopDrained, disk, handle, writer, syncer, cursor, written, durable, told, faults
<1>0. ASSUME up' = up, rxClosed' = rxClosed, durableFailed => durableFailed', issued' = issued,
             lastWritten' = lastWritten
      PROVE  LoopDrained'
  BY <1>0
<1>i. QueueInv /\ ControlInv
  BY DEF IInv
<1>1. ASSUME NEW t \in Tx, AppendTx(t) \/ WaitWritten(t) \/ WaitDurable(t) PROVE LoopDrained'
  <2>1. CASE AppendTx(t)
    <3>1. ~rxClosed /\ rxClosed' = rxClosed
      BY <2>1 DEF AppendTx, Send
    <3> QED
      BY <3>1
  <2>2. CASE WaitWritten(t) \/ WaitDurable(t)
    BY <2>2, <1>0 DEF WaitWritten, WaitDurable
  <2> QED
    BY <1>1, <2>1, <2>2
<1>2. CASE (\E e \in Epochs : SetEpoch(e)) \/ SetEpochReturns \/ Close
  BY <1>2, <1>0 DEF SetEpoch, SetEpochReturns, Close
<1>3. CASE \E c \in Tx, h \in TxOpt : Compact(c, h)
  BY <1>3, <1>0 DEF Compact
<1>4. CASE WriterStep
  <2>1. CASE Receive
    BY <2>1 DEF Receive
  <2>2. CASE ReceiveClosed
    <3>1. /\ queue = <<>> /\ issued' = issued /\ lastWritten' = lastWritten
          /\ durableFailed' = durableFailed /\ up' = up /\ up
      BY <2>2 DEF ReceiveClosed
    <3>2. \A t : ~Queued(t)
      BY <3>1 DEF Queued
    <3>3. CASE rxClosed
      BY <3>1, <3>3
    <3>4. CASE ~rxClosed
      <4>1. \A t \in issued : ~(t > lastWritten)
        BY <3>2, <3>4, <1>i DEF QueueInv
      <4>2. issued \subseteq Nat /\ lastWritten \in Nat
        BY TypeNums, TxFacts DEF IInv, TypeOK, ValuesOK, Nums
      <4> QED
        BY <4>1, <4>2, <3>1
    <3> QED
      BY <3>3, <3>4
  <2>3. CASE BufferRecord
    BY <2>3, <1>i DEF BufferRecord, ControlInv
  <2>4. CASE BeginRotation \/ CreateSegment \/ WriteHeader \/ ApplyEpoch \/ BatchDone
    BY <2>4, <1>0 DEF BeginRotation, CreateSegment, WriteHeader, ApplyEpoch, BatchDone
  <2>5. CASE FlushWritten \/ FlushSync \/ FlushPublish
    BY <2>5, <1>0 DEF FlushWritten, FlushSync, FlushPublish
  <2>6. CASE FlushWrittenFails \/ FlushSyncFails
    BY <2>6, <1>0 DEF FlushWrittenFails, FlushSyncFails, AfterError
  <2>7. CASE WriteRecordFails \/ Fail
    BY <2>7, <1>0 DEF WriteRecordFails, Fail
  <2> QED
    BY <1>4, <2>1, <2>2, <2>3, <2>4, <2>5, <2>6, <2>7 DEF WriterStep
<1>5. CASE SyncerStep
  BY <1>5, <1>0 DEF SyncerStep, SyncerNotice, SyncerCapture, SyncerExit, SyncerSync,
     SyncerPublish, SyncerSyncFails, SyncerFail
<1>6. CASE ProcessCrash \/ OSCrash \/ Open
  BY <1>6 DEF ProcessCrash, OSCrash, Open, Down, FreshProcess
<1> QED
  BY <1>1, <1>2, <1>3, <1>4, <1>5, <1>6 DEF Next

\* A failed fsync leads to Failed on the durable channel, through the thread
\* that met it.
LEMMA FailureShowsStep ==
  ASSUME IInv, FailureShows, Next
  PROVE  FailureShows'
<1> USE DEF FailureShows, disk, handle, writer, syncer, cursor, written, durable, told, faults
<1>n. crashes \in Nat /\ osCrashes \in Nat
  BY DEF IInv, TypeOK, ValuesOK
<1>0. ASSUME up' = up, crashes' = crashes, osCrashes' = osCrashes, eio' = eio,
             durableFailed => durableFailed', spc = "fail" => spc' = "fail" \/ durableFailed',
             wpc = "fail" => wpc' = "fail" \/ durableFailed'
      PROVE  FailureShows'
  BY <1>0
<1>1. CASE \E t \in Tx : AppendTx(t) \/ WaitWritten(t) \/ WaitDurable(t)
  BY <1>1, <1>0 DEF AppendTx, Send, WaitWritten, WaitDurable
<1>2. CASE (\E e \in Epochs : SetEpoch(e)) \/ SetEpochReturns \/ Close
  BY <1>2, <1>0 DEF SetEpoch, SetEpochReturns, Close
<1>3. CASE \E c \in Tx, h \in TxOpt : Compact(c, h)
  BY <1>3, <1>0 DEF Compact
<1>4. CASE WriterStep
  <2>1. CASE Receive \/ ReceiveClosed \/ BufferRecord
    BY <2>1, <1>0 DEF Receive, ReceiveClosed, BufferRecord
  <2>2. CASE BeginRotation \/ CreateSegment \/ WriteHeader \/ ApplyEpoch \/ BatchDone
    BY <2>2, <1>0 DEF BeginRotation, CreateSegment, WriteHeader, ApplyEpoch, BatchDone
  <2>3. CASE FlushWritten \/ FlushSync \/ FlushPublish
    BY <2>3, <1>0 DEF FlushWritten, FlushSync, FlushPublish
  <2>4. CASE FlushWrittenFails
    BY <2>4, <1>0 DEF FlushWrittenFails, AfterError
  <2>5. CASE FlushSyncFails
    BY <2>5 DEF FlushSyncFails, AfterError
  <2>6. CASE WriteRecordFails \/ Fail
    BY <2>6, <1>0 DEF WriteRecordFails, Fail
  <2> QED
    BY <1>4, <2>1, <2>2, <2>3, <2>4, <2>5, <2>6 DEF WriterStep
<1>5. CASE SyncerStep
  <2>1. CASE SyncerSyncFails
    BY <2>1 DEF SyncerSyncFails
  <2>2. CASE SyncerNotice \/ SyncerCapture \/ SyncerExit \/ SyncerSync \/ SyncerPublish \/ SyncerFail
    BY <2>2, <1>0 DEF SyncerNotice, SyncerCapture, SyncerExit, SyncerSync, SyncerPublish, SyncerFail
  <2> QED
    BY <1>5, <2>1, <2>2 DEF SyncerStep
<1>6. CASE ProcessCrash \/ OSCrash
  <2>1. crashes' + osCrashes' > 0
    BY <1>6, <1>n DEF ProcessCrash, OSCrash
  <2> QED
    BY <2>1
<1>7. CASE Open
  BY <1>7, <1>n DEF Open
<1> QED
  BY <1>1, <1>2, <1>3, <1>4, <1>5, <1>6, <1>7 DEF Next

\* The writer finishes behind a last fsync of the active segment.
LEMMA DoneSyncedStep ==
  ASSUME IInv, DoneSynced, Next
  PROVE  DoneSynced'
<1> USE DEF disk, handle, writer, syncer, cursor, written, durable, told, faults
<1>i. DiskInv /\ ControlInv /\ WriterInv
  BY DEF IInv
<1>0. ASSUME up' = up, wpc' = wpc, why' = why, current' = current, eio \subseteq eio',
             durableFailed => durableFailed',
             \A t \in OnDisk' : t \in OnDisk /\ home'[t] = home[t] /\ (t \in stable => t \in stable')
      PROVE  DoneSynced'
  BY <1>0 DEF DoneSynced
<1>s. ASSUME up' = up, wpc' = wpc, why' = why, current' = current, eio \subseteq eio',
             durableFailed => durableFailed', home' = home, stable \subseteq stable'
      PROVE  DoneSynced'
  BY <1>0, <1>s DEF OnDisk
<1>w. ASSUME wpc' # "done", wpc' = "write" => why' \in {"end", "exit"} \/ current' # 0
      PROVE  DoneSynced'
  BY <1>w DEF DoneSynced
<1>1. ASSUME NEW t \in Tx, AppendTx(t) \/ WaitWritten(t) \/ WaitDurable(t) PROVE DoneSynced'
  BY <1>1, <1>s DEF AppendTx, WaitWritten, WaitDurable
<1>2. CASE (\E e \in Epochs : SetEpoch(e)) \/ SetEpochReturns \/ Close
  <2>1. /\ up' = up /\ wpc' = wpc /\ why' = why /\ current' = current /\ eio' = eio
        /\ durableFailed' = durableFailed /\ home' = home /\ stable' = stable
    BY <1>2 DEF SetEpoch, SetEpochReturns, Close
  <2> QED
    BY <2>1, <1>s
<1>3. ASSUME NEW c \in Tx, NEW h \in TxOpt, Compact(c, h) PROVE DoneSynced'
  <2> DEFINE gone == {f \in live : Deletable(f, c, h)}
  <2>1. /\ home' = [t \in Tx |-> IF home[t] \in gone THEN 0 ELSE home[t]]
        /\ stable' = {t \in stable : home[t] \notin gone}
    BY <1>3 DEF Compact
  <2>2. \A t \in OnDisk' : t \in OnDisk /\ home'[t] = home[t] /\ (t \in stable => t \in stable')
    BY <2>1 DEF OnDisk
  <2> QED
    BY <1>3, <2>2, <1>0 DEF Compact
<1>4. CASE WriterStep
  <2>1. CASE Receive
    BY <2>1, <1>w DEF Receive
  <2>2. CASE ReceiveClosed \/ BufferRecord
    BY <2>2, <1>w DEF ReceiveClosed, BufferRecord
  <2>3. CASE BeginRotation \/ CreateSegment \/ WriteHeader
    BY <2>3, <1>w DEF BeginRotation, CreateSegment, WriteHeader
  <2>4. CASE ApplyEpoch
    <3>1. buf # {} => current # 0
      BY <2>4, <1>i, TxFacts DEF ApplyEpoch, WriterInv, IsTail, IInv, TypeOK, ValuesOK
    <3> QED
      BY <2>4, <3>1, <1>w DEF ApplyEpoch
  <2>5. CASE BatchDone \/ FlushSync \/ WriteRecordFails \/ Fail
    BY <2>5, <1>w DEF BatchDone, FlushSync, WriteRecordFails, Fail
  <2>6. CASE FlushWrittenFails \/ FlushSyncFails
    BY <2>6 DEF FlushWrittenFails, FlushSyncFails, AfterError, DoneSynced
  <2>7. CASE FlushWritten
    <3>1. up /\ wpc = "write" /\ why' = why /\ current' = current /\ durableFailed' = durableFailed
      BY <2>7 DEF FlushWritten
    <3>2. CASE why = "end" \/ current # 0
      BY <2>7, <3>2, <1>w DEF FlushWritten
    <3>3. CASE why # "end" /\ current = 0
      <4>1. why = "exit"
        BY <3>1, <3>3 DEF DoneSynced, IInv, TypeOK, ValuesOK
      <4>2. CASE wfailed
        BY <4>1, <4>2, <3>1, <1>i, <2>7 DEF ControlInv, DoneSynced, FlushWritten
      <4>3. CASE ~wfailed
        <5>1. buf = {} /\ home' = home
          BY <4>1, <4>3, <3>1, <1>i, <2>7 DEF ControlInv, FlushWritten
        <5>2. live = {}
          BY <4>3, <3>1, <3>3, <1>i, TxFacts DEF WriterInv, Healthy, IsLast, IInv, TypeOK, ValuesOK
        <5>3. OnDisk' = {}
          BY <5>1, <5>2, <1>i DEF OnDisk, DiskInv, IInv, TypeOK, ValuesOK
        <5> QED
          BY <4>1, <5>3, <3>1, <2>7 DEF DoneSynced, FlushWritten
      <4> QED
        BY <4>2, <4>3
    <3> QED
      BY <3>2, <3>3
  <2>8. CASE FlushPublish
    <3>1. /\ up /\ wpc = "publish" /\ why' = why /\ current' = current /\ home' = home
          /\ stable' = stable /\ eio' = eio /\ durableFailed' = durableFailed
          /\ wpc' = CASE why = "rotate" -> "create" [] why = "exit" -> "done" [] OTHER -> "cmd"
      BY <2>8 DEF FlushPublish
    <3>2. CASE why # "exit"
      BY <3>1, <3>2, <1>w
    <3>3. CASE why = "exit"
      <4>1. CASE wfailed
        BY <4>1, <3>1, <3>3, <1>i DEF ControlInv, DoneSynced
      <4>2. CASE ~wfailed
        <5>1. IsLast(current, live)
          BY <4>2, <3>1, <1>i DEF WriterInv, Healthy
        <5>2. ASSUME NEW t \in OnDisk, home[t] \notin eio PROVE t \in stable
          <6>1. home[t] \in live
            BY <1>i DEF DiskInv, IInv, TypeOK, ValuesOK
          <6>2. CASE home[t] = current
            BY <5>2, <6>2, <3>1, <1>i DEF WriterInv
          <6>3. CASE home[t] # current
            <7>1. current \in live /\ home[t] <= current
              BY <5>1, <6>1 DEF IsLast
            <7>2. current \in Nat /\ home[t] \in Nat
              <8>1. live \subseteq Tx
                BY DEF IInv, TypeOK, ValuesOK
              <8> QED
                BY <8>1, <7>1, <6>1, TxFacts
            <7>3. home[t] < current
              BY <7>1, <7>2, <6>3
            <7> QED
              BY <5>2, <6>1, <7>1, <7>3, <1>i DEF DiskInv, Sealed
          <6> QED
            BY <6>2, <6>3
        <5> QED
          BY <5>2, <3>1, <3>3 DEF DoneSynced, OnDisk
      <4> QED
        BY <4>1, <4>2
    <3> QED
      BY <3>2, <3>3
  <2> QED
    BY <1>4, <2>1, <2>2, <2>3, <2>4, <2>5, <2>6, <2>7, <2>8 DEF WriterStep
<1>5. CASE SyncerStep
  BY <1>5, <1>s DEF SyncerStep, SyncerNotice, SyncerCapture, SyncerExit, SyncerSync,
     SyncerPublish, SyncerSyncFails, SyncerFail
<1>6. CASE ProcessCrash \/ OSCrash \/ Open
  BY <1>6, <1>w DEF ProcessCrash, OSCrash, Open, Down, FreshProcess
<1> QED
  BY <1>1, <1>2, <1>3, <1>4, <1>5, <1>6 DEF Next

THEOREM DrainInvariant == Spec => []DrainInv
<1>1. Init => DrainInv
  BY DEF Init, DrainInv, LoopDrained, DoneSynced, FailureShows
<1>2. IInv /\ DrainInv /\ [Next]_vars => DrainInv'
  <2> SUFFICES ASSUME IInv, DrainInv, [Next]_vars PROVE DrainInv'
    OBVIOUS
  <2>1. CASE Next
    BY <2>1, LoopDrainedStep, DoneSyncedStep, FailureShowsStep DEF DrainInv
  <2>2. CASE UNCHANGED vars
    BY <2>2, DrainSame DEF vars, disk, handle, writer, syncer, durable, faults
  <2> QED
    BY <2>1, <2>2
<1> QED
  BY <1>1, <1>2, Inductive, PTL DEF Spec

\* close() never reports success over a hole: once both threads have retired
\* without a failure showing, everything this process appended is fsynced or
\* covered by a checkpoint (pages an earlier process's failed fsync dropped
\* aside).
THEOREM CloseDrainsAll == Spec => []CloseDrains
<1>1. IInv /\ DrainInv => CloseDrains
  <2> SUFFICES ASSUME IInv, DrainInv, up, closing, wpc = "done", spc = "exit", ~durableFailed
               PROVE  issued \subseteq stable \cup 1..covered \/ (eio # {} /\ crashes + osCrashes > 0)
    BY DEF CloseDrains
  <2>1. CASE eio # {}
    <3>1. crashes \in Nat /\ osCrashes \in Nat /\ crashes + osCrashes # 0
      BY <2>1 DEF DrainInv, FailureShows, IInv, TypeOK, ValuesOK
    <3> QED
      BY <2>1, <3>1
  <2>2. CASE eio = {}
    <3>1. why = "exit" /\ rxClosed /\ ~wfailed /\ buf = {}
      BY DEF DrainInv, DoneSynced, IInv, ControlInv
    <3>2. ASSUME NEW t \in issued PROVE t \in stable \cup 1..covered
      <4>1. t \in OnDisk \/ t <= covered
        BY <3>1 DEF DrainInv, LoopDrained, IInv, MarkInv
      <4>2. t \in OnDisk => t \in stable
        BY <2>2 DEF DrainInv, DoneSynced
      <4>3. t \in Nat /\ t >= 1 /\ covered \in Nat
        BY TypeNums, TxFacts DEF IInv, TypeOK, ValuesOK, Nums, Tx
      <4> QED
        BY <4>1, <4>2, <4>3
    <3> QED
      BY <3>2
  <2> QED
    BY <2>1, <2>2
<1> QED
  BY <1>1, Inductive, DrainInvariant, PTL

=============================================================================
