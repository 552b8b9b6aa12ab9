SPECIFICATION Spec
CONSTANTS
    Agents = {a1, a2}
    Requests = {r1, r2}
    Agendas <- MCAgendas
    None = none
SYMMETRY Sym
CHECK_DEADLOCK FALSE
INVARIANTS DepartedCannotCall ReturnRestoresNothing
PROPERTIES RetiredOnce
