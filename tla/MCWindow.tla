------------------------------- MODULE MCWindow -------------------------------
EXTENDS GSWindow
=============================================================================
