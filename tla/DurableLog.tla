------------------------------ MODULE DurableLog ------------------------------
(***************************************************************************)
(* What a commit log promises, without threads, files, buffers or repair.  *)
(* The log is the set of transactions it can read back.  It grows at its   *)
(* end, fsync moves transactions to safety, a machine crash takes a suffix *)
(* that was not yet safe, and compaction takes a prefix a checkpoint       *)
(* covers.  Nothing else ever changes it: not a process crash, not the     *)
(* repair at open, not a failed write, not shutdown.                       *)
(***************************************************************************)
EXTENDS Integers

CONSTANT MaxTx

VARIABLES
  recorded,  \* transactions the log reads back
  safe,      \* those on stable storage
  dropped    \* compaction may have taken everything up to here

dvars == <<recorded, safe, dropped>>

DTx == 1..MaxTx

DInit == recorded = {} /\ safe = {} /\ dropped = 0

\* Transactions are added at the end only.
Record(S) ==
  /\ \A t \in S : \A u \in recorded : u < t
  /\ recorded' = recorded \cup S
  /\ UNCHANGED <<safe, dropped>>

Sync(S) ==
  /\ S \subseteq recorded
  /\ safe' = safe \cup S
  /\ UNCHANGED <<recorded, dropped>>

\* A machine crash keeps a prefix that includes everything safe; what is read
\* back after it is safe.
Lose(keep) ==
  /\ safe \subseteq keep /\ keep \subseteq recorded
  /\ \A t \in keep, u \in recorded : u < t => u \in keep
  /\ recorded' = keep /\ safe' = keep
  /\ UNCHANGED dropped

\* Compaction under a checkpoint at c removes a covered prefix.
Drop(gone, c) ==
  /\ gone \subseteq recorded
  /\ \A t \in gone : t <= c
  /\ \A t \in gone, u \in recorded \ gone : t < u
  /\ recorded' = recorded \ gone /\ safe' = safe \ gone
  /\ dropped' = IF dropped >= c THEN dropped ELSE c

DNext ==
  \/ \E S \in SUBSET DTx : Record(S) \/ Sync(S) \/ Lose(S)
  \/ \E S \in SUBSET DTx, c \in 0..MaxTx : Drop(S, c)

DSpec == DInit /\ [][DNext]_dvars

=============================================================================
