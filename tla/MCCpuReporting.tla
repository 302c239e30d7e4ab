--------------------------- MODULE MCCpuReporting ---------------------------
\* TLC instances of CpuReporting.
EXTENDS CpuReporting, TLC

CONSTANTS m1, m2, board

\* All modules measure the same board.
OneBoard == [m \in Modules |-> board]

\* Modules differ by name only.
Symmetry == Permutations(Modules)
=============================================================================
