------------------------------ MODULE MCServer ------------------------------
EXTENDS Server, TLC

\* Identifiers are only compared.  Sound for the runs without liveness properties.
Symmetry == Permutations(Jobs)

=============================================================================
