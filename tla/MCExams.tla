------------------------------- MODULE MCExams -------------------------------
\* Model values for Exams.  A behaviour has either three submissions of modules
\* or fewer with the department attested and declared.
EXTENDS Exams, TLC

Passing == {<<"PASS", "full">>}
Labelled == {<<"PASS", "full">>, <<"PASS", "label">>}
SomeGradings == {<<"PASS", "full">>, <<"FAIL", "label">>}

Agenda(v, n, d, a, g) ==
    [versions |-> v, submissions |-> n, declared |-> d, attested |-> a, gradings |-> g]
MCAgendas == {Agenda(2, 3, 0, 0, Passing), Agenda(2, 2, 1, 0, Labelled), Agenda(1, 2, 1, 1, Labelled),
              Agenda(2, 1, 1, 1, Passing)}
LiveAgendas == {Agenda(1, 2, 0, 0, SomeGradings)}

Symmetry == Permutations(Modules) \cup Permutations(Submissions) \cup Permutations(ExamRuns)
=============================================================================
