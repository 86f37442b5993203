------------------------------ MODULE MCCatalog ------------------------------
EXTENDS Catalog, TLC

\* No definition orders the names, the nodes or the editors.
Symmetry == Permutations(Names) \cup Permutations(Editors)
=============================================================================
