------------------------------ MODULE MCPages ------------------------------
EXTENDS Pages
=============================================================================
