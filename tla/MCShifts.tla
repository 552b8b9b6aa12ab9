------------------------------ MODULE MCShifts ------------------------------
\* Model values for Shifts.  Shifts, memories and requests are interchangeable.
EXTENDS Shifts, TLC

Symmetry == Permutations(Shifts) \cup Permutations(Memories)
                \cup Permutations(Requests) \cup Permutations(Ventures)
=============================================================================
