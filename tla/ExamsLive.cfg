SPECIFICATION FairSpec
CONSTANTS
    Modules = {m1}
    Dept = dept
    Submissions = {s1, s2}
    ExamRuns = {r1}
    StalePasses = {daily}
    Examined = {m1}
    Unwritten = {}
    PostedModels = {"label"}
    PatchSensitive = {m1}
    Gradings <- SomeGradings
    Silences = {"IN_PROGRESS"}
    MaxVersion = 1
    MaxApi = 1
    MaxKey = 1
    MaxDeclared = 0
    MaxAttested = 0
    Agendas <- LiveAgendas
    Nobody = nobody
PROPERTIES StaleIsCaught AnswerIsIngested
CHECK_DEADLOCK FALSE
