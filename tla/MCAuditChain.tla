---------------------------- MODULE MCAuditChain ----------------------------
\* Model values for AuditChain.  The broker's writers are interchangeable.
EXTENDS AuditChain, TLC

Symmetry == Permutations(Writers \ RepeatableRead)
=============================================================================
