SPECIFICATION MCSpec
CONSTANTS
    NoRepo = NoRepo
    osac = osac
    PR = {1, 2}
    Repo = {osac}
    RepoOf <- OneRepo
    Retention = 1
    Overlap = 1
    FullEvery = 1
    Page = 1
    Start = 3
    MaxNow = 5
    Options <- TimerAndHand
    Reopenable = {1}
    Touchable = {1}
    Asked = {1}

    e2e = e2e
    lint = lint
    Workflow = {e2e, lint}
    Required = {e2e}
    E2E = {e2e}
    \* To the merge queue and to the code a skipped run is as good as a success.
    Conclusion = {"skipped", "failure"}
    MaxTime = 3
    MaxReviews = 2
    MaxEntries = 2

    Thread = {"r1", "r2"}
    MaxAttempt = 2
    Names <- OneName
    Kinds = {"live"}
    CacheSize = 1
    Ttl = 2
    FailureTtl = 1
    LookupTime = 1
    Ask <- BareOrAttempt
    LastChange = 0
    Horizon = 3
INVARIANTS
    NothingSlipsPast StagesConsistent AttemptsConsistent
    SettledIsRight MixupsExplained
PROPERTIES MissingExplained
CHECK_DEADLOCK FALSE
