------------------------------ MODULE MCListener ------------------------------
EXTENDS GSListener
=============================================================================
