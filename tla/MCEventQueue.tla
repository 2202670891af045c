--------------------------- MODULE MCEventQueue ---------------------------
EXTENDS EventQueue, TLC

\* Events are interchangeable: the ids that order them are kept apart.
Symmetry == Permutations(Events)
=============================================================================
