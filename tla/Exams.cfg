SPECIFICATION ExamsSpec
CONSTANTS
    Modules = {m1}
    Dept = dept
    Submissions = {s1, s2, s3}
    ExamRuns = {r1}
    StalePasses = {daily}
    Examined = {m1}
    Unwritten = {}
    PostedModels = {"label"}
    PatchSensitive = {m1}
    Gradings <- Labelled
    Silences = {"IN_PROGRESS"}
    MaxVersion = 2
    MaxApi = 0
    MaxKey = 0
    MaxDeclared = 1
    MaxAttested = 1
    Agendas <- MCAgendas
    Nobody = nobody
SYMMETRY Symmetry
INVARIANTS EarnedByItsExam ClosedMeansAnswered
PROPERTIES ImplementsCertificate NoAnswerErasesNothing
CHECK_DEADLOCK FALSE
