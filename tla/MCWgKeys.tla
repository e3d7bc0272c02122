------------------------------ MODULE MCWgKeys ------------------------------
EXTENDS WgKeys, TLC

Symmetry == Permutations(Keys)
=============================================================================
