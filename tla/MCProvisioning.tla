--------------------------- MODULE MCProvisioning ---------------------------
\* Model values for Provisioning.
EXTENDS Provisioning, TLC

\* Two versions that plan the same grants.
SamePlan == [v \in Versions |-> Grants]

Symmetry == Permutations(Runs) \cup Permutations(Passes) \cup Permutations(Humans)
                \cup Permutations(Versions)
=============================================================================
