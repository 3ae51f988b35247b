------------------------------ MODULE MCTimers ------------------------------
\* The timers of a shard, with one schedule and one row of each kind.
EXTENDS Timers, TLC

CONSTANTS heartbeat

OneStatic == heartbeat :> [delay |-> 0, period |-> 1]
=============================================================================
