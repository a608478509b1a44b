SPECIFICATION MCSpec
CONSTANTS
    RunAttempt <- Attempts
    Kind <- Kinds
    Signal = {"spans", "logs"}
    Lines <- Sizes
    Flushed = {"logs"}
    Limit = 1

    Response <- Responses
    MaxRetries = 1
    FallbackRetries = 1
    HasFallback = TRUE
    PricedModels = {"primary"}
    Threshold = 2

    vmaas = vmaas
    caas = caas
    Suite = {vmaas, caas}
    Text <- Answers
    Usage = {1, 2}
    Priced = TRUE

    TrendRun = {1, 2}
    Artifact = {1, 2}
    Test = {"t1", "t2"}
    Content <- Contents
    World <- Histories
    MaxArtifacts = 2
    Retention = 1
    LastDay = 2

    \* Two queued runs, one of them run again; a zombie cache holds one entry.
    Run = {1, 2}
    Rerunnable = {1}
    MaxAttempt = 2
    Grace = 1
    Recheck = 1
    CacheMax = 0
    MaxTime = 2
CHECK_DEADLOCK FALSE
INVARIANTS
    EveryAttemptBilled PostedIsFinished NothingUsefulDropped
    JudgmentOnlyEscalates ReportIsHonest
    DocumentsAgree
    DeliveredOnce RecordsAreTrue KeptUnlessPurged
    QueueGaugeHonest
PROPERTIES
    OutcomesKept CleanPassRepairs
