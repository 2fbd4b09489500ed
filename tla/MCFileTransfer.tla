----------------------------- MODULE MCFileTransfer -----------------------------
EXTENDS FileTransfer, TLC

Symmetry == Permutations(Sessions)
=============================================================================
