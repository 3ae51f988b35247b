----------------------------- MODULE CommitLogInv -----------------------------
(***************************************************************************)
(* The inductive invariant behind the safety properties of CommitLog.      *)
(***************************************************************************)
EXTENDS CommitLog

IsTail(f) == f \in live /\ \A g \in live : g <= f

\* The writer is rotating, or about to create the first segment.
Rotating ==
  wpc \in {"create", "header"} \/ (why = "rotate" /\ wpc \in {"write", "sync", "publish"})

\* The queue holds an append of t.
Queued(t) == \E i \in 1..Len(queue) : queue[i].op = "append" /\ queue[i].arg = t

\* Commands wait in tx_id order, above everything the writer has taken, and
\* the two watermarks and the syncer's cursor never run ahead of the writer.
QueueInv ==
  /\ batch <= Len(queue)
  /\ \A i \in 1..Len(queue) : queue[i].op = "append" =>
       lastWritten < queue[i].arg /\ queue[i].arg <= lastAppended
  /\ \A i, j \in 1..Len(queue) :
       i < j /\ queue[i].op = "append" /\ queue[j].op = "append" => queue[i].arg < queue[j].arg
  /\ Rotating => batch > 0 /\ queue[1].op = "append"
  /\ \A t \in issued : t <= lastAppended
  /\ ~rxClosed => \A t \in issued : t > lastWritten => Queued(t)
  /\ rxClosed => Len(queue) = 0
  /\ buf = {} => writtenMark = lastWritten
  /\ writtenMark <= lastWritten /\ lastWritten <= lastAppended
  /\ durableMark <= lastAppended /\ cWritten <= writtenMark /\ sTarget <= writtenMark

\* Entries live in files with a header, before the next file's name; sealed
\* files are fsynced (a failed fsync aside); only the tail can be torn or
\* lack its header.
DiskInv ==
  /\ stable \subseteq OnDisk /\ torn \subseteq headed
  /\ \A t \in OnDisk : home[t] \in headed
  /\ \A t \in OnDisk, g \in live : home[t] < g => t < g
  /\ \A t \in OnDisk : Sealed(home[t]) /\ home[t] \notin eio => t \in stable
  /\ \A f \in live : Sealed(f) => f \in headed
  /\ eio # {} => syncFaults > 0
  /\ syncFaults = 0 => \A f \in torn : ~Sealed(f)

\* t is accounted for: nothing, dropped, readable, buffered or queued.
Accounted(t) == t = 0 \/ t <= covered \/ t \in OnDisk \/ t \in buf \/ Queued(t)

\* Every queued append is above every segment name (its own file aside), and
\* its predecessor is accounted for.
NamesBelow ==
  \A f \in live : \A i \in 1..Len(queue) : queue[i].op = "append" =>
    f <= queue[i].arg /\ (Rotating /\ wpc # "header" => f < queue[i].arg)

Predecessors ==
  \A i \in 1..Len(queue) : queue[i].op = "append" => Accounted(queue[i].arg - 1)

\* A segment is named after an append whose predecessor is on the disk or
\* covered, so a name is never above the next append, also after a reopen.
NameInv ==
  /\ up => ~holed
  /\ ~holed => \A f \in live : f = 1 \/ f - 1 <= covered \/ f - 1 \in OnDisk
  /\ \A t \in OnDisk : home[t] <= t
  /\ up =>
     /\ \A t \in buf : current <= t
     /\ \A f \in live : f <= lastAppended + 1 \/ f <= covered + 1
     /\ NamesBelow /\ Predecessors
     /\ ~rxClosed => Accounted(lastAppended)

\* Where the writer is: nothing is buffered outside a batch and its flushes,
\* and after the loop has ended only the final flush is left.
ControlInv ==
  up =>
  /\ wpc \in {"recv", "create", "header", "sync", "publish"} => buf = {}
  /\ why = "exit" /\ ~wfailed /\ wpc # "fail" => buf = {}
  /\ why = "exit" => wpc \notin {"recv", "cmd", "create", "header", "fail"}
  /\ wpc \in {"sync", "publish"} => current # 0
  /\ why = "exit" => rxClosed
  /\ rxClosed => why = "exit"
  /\ wfailed => durableFailed /\ why = "exit"

\* process() has not failed in this process.
Healthy == ~wfailed /\ wpc # "fail"

\* The writer appends to the tail; what it buffers is newer than what is on
\* disk, except for the part of a failed write that got through.
WriterInv ==
  up =>
  /\ \A t \in OnDisk \cup buf : t <= lastWritten
  /\ buf # {} => IsTail(current) /\ current \in headed
  /\ \A t \in buf, u \in OnDisk : u < t \/ (u \in buf /\ home[u] = current)
  /\ \A t \in buf, u \in OnDisk \cap buf : t < u => t \in OnDisk
  /\ Healthy => /\ torn = {} /\ \A t \in buf : t \notin OnDisk
                /\ wpc # "header" => IsLast(current, live) /\ live \subseteq headed
  /\ wpc = "header" => IsTail(queue[1].arg) /\ live \ headed \subseteq {queue[1].arg}
  /\ wpc \in {"publish", "create"} =>
       \A t \in OnDisk : home[t] = current /\ current \notin eio => t \in stable

\* What the marks, the cursor and a running fsync stand for.
MarkInv ==
  up =>
  /\ ~wfailed => \A t \in issued : t <= lastWritten => t \in OnDisk \/ t \in buf \/ t <= covered
  /\ \A t \in buf : t > writtenMark
  /\ eio = {} /\ ~durableFailed =>
       \A t \in issued : t <= durableMark => t \in stable \/ t <= covered
  /\ \A t \in OnDisk : t <= cWritten /\ home[t] # cHandle => t \in stable \/ home[t] \in eio
  /\ spc = "sync" => sHandle # 0 /\
       \A t \in OnDisk : t <= sTarget /\ home[t] # sHandle => t \in stable \/ home[t] \in eio
  /\ spc = "publish" =>
       \A t \in OnDisk : t <= sTarget => t \in stable \/ home[t] \in eio

\* Epochs never regress along the log, and no epoch in use is above the one
\* persisted for the next open().
EpochInv ==
  /\ \A t, u \in OnDisk \cup buf : t < u => entryEpoch[t] <= entryEpoch[u]
  /\ \A t \in OnDisk : entryEpoch[t] <= bootEpoch
  /\ up => /\ \A t \in OnDisk \cup buf : entryEpoch[t] <= wEpoch
           /\ wEpoch <= bootEpoch
           /\ \A i \in 1..Len(queue) : queue[i].op = "epoch" => queue[i].arg <= bootEpoch

\* The promises made to callers.
Promises ==
  /\ \A t \in acked : t \in OnDisk \/ t <= covered
  /\ \A t \in confirmed : t \in stable \/ t <= covered

\* The inductive invariant: each part is preserved by every step of the
\* handle, the two threads, the crashes and the repair only together with the
\* others.
IInv ==
  /\ TypeOK /\ QueueInv /\ DiskInv /\ NameInv
  /\ ControlInv /\ WriterInv /\ MarkInv /\ EpochInv /\ Promises

\* What close() relies on.  The writer leaves its loop with the queue drained,
\* or with the failure showing.
LoopDrained == up /\ rxClosed /\ ~durableFailed => \A t \in issued : t <= lastWritten

\* It is done only after its last fsync: of the active segment, the others
\* being sealed.
DoneSynced ==
  up =>
  /\ wpc = "write" /\ why \in {"rotate", "epoch"} => current # 0
  /\ wpc = "done" => why = "exit"
  /\ wpc = "done" /\ ~durableFailed =>
       \A t \in OnDisk : home[t] \notin eio => t \in stable

\* A failed fsync of this process shows, or its thread is about to publish it.
FailureShows ==
  /\ ~up => crashes + osCrashes > 0
  /\ eio # {} /\ crashes + osCrashes = 0 => durableFailed \/ spc = "fail" \/ wpc = "fail"

DrainInv == LoopDrained /\ DoneSynced /\ FailureShows

=============================================================================
