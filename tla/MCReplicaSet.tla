---------------------------- MODULE MCReplicaSet ----------------------------
(* ReplicaSet for TLC: three members; the two configured as replicas are    *)
(* interchangeable.                                                          *)
EXTENDS ReplicaSetInv, TLC

CONSTANTS
  m1, m2, m3,
  MaxSharedEpoch  \* epochs of a behaviour with sessions, writes or crashes

ReplicaSymmetry == Permutations(Member \ {Boot})

EpochsUsed == {epoch[m] : m \in Member} \cup {round[m] : m \in Member}
              \cup {vote[m].epoch : m \in Member}

\* Elections alone go up to MaxEpoch; beside sessions, writes and crashes they
\* stop at MaxSharedEpoch.
Affordable ==
  \/ dials = 0 /\ admitted = {} /\ txs = 0 /\ crashes = 0
  \/ \A e \in EpochsUsed : e <= MaxSharedEpoch
=============================================================================
