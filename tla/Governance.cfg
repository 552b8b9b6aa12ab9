SPECIFICATION Spec
CONSTANTS
    Humans = {ann, bob, fix}
    Fixtures = {fix}
    Founder = ann
    Escalations = {e1}
    Incidents = {i1}
    Discharges = {d1, d2, d3}
    Texts = {t1, t2}
    Requests = {r1, r2}
    Agendas <- MCAgendas
    None = none
SYMMETRY Sym
CHECK_DEADLOCK FALSE
INVARIANTS AdministratorRemains EventsAreTrue LaterFilingReplaces
PROPERTIES FirstAnswerStands
