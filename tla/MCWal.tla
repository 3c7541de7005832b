------------------------------- MODULE MCWal -------------------------------
EXTENDS WalInv, TLC
Sym == Permutations(Appender)
============================================================================
