SPECIFICATION Spec
CONSTANTS
    r1 = r1
    r2 = r2
    osac = osac
    infra = infra
    Run = {r1, r2}
    Repo = {osac, infra}
    RepoOf <- TwoRepos
    Pipeline = {r1}
    Ignored = {}
    MaxAttempt = 1
    MaxCount = 2
    Window = 1
    InitWindow = 1
    Page = 2
    HistoryMax = 9
    BackfillDays = 0
    Fault = {"list"}
PROPERTIES GaugesCoverActiveRuns
