SPECIFICATION Spec
CONSTANTS
    None = none
    m1 = m1
    m2 = m2
    p1 = p1
    p2 = p2
    a1 = a1
    a2 = a2
    f1 = f1
    good = good
    better = better
    old = old
    hollow = hollow
    Modules = {m1, m2}
    Positions = {p1, p2}
    Flags = {f1}
    Implied <- MCImplied
    Texts = {good, better, old, hollow}
    Teaching = {good, better, old}
    ByHand = {better, old}
    Stale = {old}
    Roles = {"venture_operator", "compliance_officer"}
    Packs <- MCPacks
    Agents = {a1, a2}
    Rank <- MCRank
    Title <- MCTitle
    Agendas <- MCAgendas
CHECK_DEADLOCK FALSE
INVARIANTS UnattendedWasVetted IssuedWasFeasible ExamsTeach
