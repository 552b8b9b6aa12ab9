SPECIFICATION PacksSpec
CONSTANTS
    Entries = {e1}
    Texts = {t1, t2}
    Humans = {h1, h2, h3}
    None = none
    Versions = {v1, v2}
    Sources <- MCSources
    Cites <- MCCites
    Runs = {1}
    Requests = {r1, r2}
    Agendas <- MCAgendas
SYMMETRY Sym
CHECK_DEADLOCK FALSE
INVARIANTS PacksTypeOK ReliedOnWasRead ProvisionedWasValidated LivePackRemains
