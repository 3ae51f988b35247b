------------------------------ MODULE MCFanOut ------------------------------
EXTENDS FanOut

CONSTANTS t1, h1
OneConnection == {{t1}, {h1}}
=============================================================================
