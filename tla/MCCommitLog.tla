----------------------------- MODULE MCCommitLog -----------------------------
(* Instances of CommitLog for TLC; the bounds are in the .cfg files.        *)
EXTENDS CommitLogInv

=============================================================================
