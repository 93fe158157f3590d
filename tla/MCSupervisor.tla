---------------------------- MODULE MCSupervisor ----------------------------
EXTENDS Supervisor, TLC

\* Identifiers are only compared.  Sound for the runs without liveness properties.
Symmetry == Permutations(Jobs)

=============================================================================
