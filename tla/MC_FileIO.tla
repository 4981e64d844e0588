------------------------------ MODULE MC_FileIO ------------------------------
EXTENDS FileIO, TLC

CONSTANTS c1, c2, v1, v2

MCClient == {c1, c2}
MCOneClient == {c1}
MCVal == {v1, v2}
MCSymmetry == Permutations(MCClient) \cup Permutations(MCVal)
=============================================================================
