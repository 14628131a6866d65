------------------------- MODULE MCConnectionManager -------------------------
EXTENDS ConnectionManager, TLC

\* Tasks and users are interchangeable: only equality is asked of them.
Symmetry == Permutations(Tasks) \cup Permutations(Users)
=============================================================================
