------------------------------ MODULE MCManager ------------------------------
EXTENDS GSManager, FiniteSets, TLC
Symm == Permutations(Monitors)

\* At most two idle sources are pending at once, of the five there may be
\* (each of a window, of a freed window and of the manager at most MaxIdles).
FewPending ==
  LET emitting == {w \in Monitors : idles.emit[w] > 0}
      freed == {w \in Monitors : idles.freed[w] > 0}
  IN  Cardinality(emitting) + Cardinality(freed) + idles.deactivated <= 2
=============================================================================
