------------------------------- MODULE MCShard -------------------------------
(* Shard for TLC, with its inductive invariant; rows are model values.     *)
EXTENDS ShardInv

CONSTANTS k1, k2

=============================================================================
