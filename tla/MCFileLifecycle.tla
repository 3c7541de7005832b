-------------------------- MODULE MCFileLifecycle --------------------------
EXTENDS FileInv, TLC
Sym == Permutations(Files)
FileSym == Permutations(Files) \cup Permutations(Readers)
=============================================================================
