SPECIFICATION Spec
CONSTANTS
    r1 = r1
    r2 = r2
    osac = osac
    infra = infra
    Run = {r1, r2}
    Repo = {osac}
    RepoOf <- OneRepo
    Pipeline = {r1}
    Ignored = {r2}
    MaxAttempt = 1
    MaxCount = 2
    Window = 1
    InitWindow = 1
    Page = 2
    HistoryMax = 1
    BackfillDays = 0
    Fault = {"repos", "count", "list", "jobs", "recent", "get", "db", "crash", "age"}
INVARIANTS OnlyFinishedRunsStored
PROPERTIES LedgerSpec
