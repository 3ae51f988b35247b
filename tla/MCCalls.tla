------------------------------ MODULE MCCalls ------------------------------
\* The submission of calls, with small bounds.
EXTENDS Calls
=============================================================================
