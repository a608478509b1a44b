SPECIFICATION FairSpec
CONSTANTS
    Run = {r1}
    NSource = 2
    Start = 3
    End = 4
    Lag = 0
    Grace = 1
    Stale = 1
    Retention = 2
    Margin = 1
    PruneAfter = 1
    HistoryKeep = 2
    Fault = {"source", "db", "crash"}
INVARIANTS QuietCardsMatchTable QuietAbsenceAsAnswered
PROPERTIES IdentityKept CaptureEventuallyRegistered
