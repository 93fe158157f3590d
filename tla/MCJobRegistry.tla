---------------------------- MODULE MCJobRegistry ----------------------------
EXTENDS JobRegistry, TLC

\* Identifiers, keys and fingerprints are only compared.
Symmetry == Permutations(Jobs) \cup Permutations(Keys) \cup Permutations(Digests)

=============================================================================
