----------------------------- MODULE MCCatalog -----------------------------
EXTENDS Catalog
CONSTANTS a, b, s1, s2
Symmetry == Permutations(Editors) \cup Permutations(Slots)
=============================================================================
