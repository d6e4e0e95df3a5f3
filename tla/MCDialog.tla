------------------------------- MODULE MCDialog -------------------------------
EXTENDS LockDialog
=============================================================================
