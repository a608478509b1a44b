SPECIFICATION Spec
CONSTANTS
    r1 = r1
    r2 = r2
    osac = osac
    infra = infra
    Run = {r1}
    Repo = {osac}
    RepoOf <- OneRepo
    Pipeline = {r1}
    Ignored = {}
    MaxAttempt = 2
    MaxCount = 2
    Window = 1
    InitWindow = 1
    Page = 2
    HistoryMax = 9
    BackfillDays = 30
    Fault = {"count", "recent", "crash"}
INVARIANTS TypeOK CountedOnce
