----------------------------- MODULE MCNodeRegistry -----------------------------
EXTENDS NodeRegistry, TLC

Symmetry == Permutations(Nodes)
=============================================================================
