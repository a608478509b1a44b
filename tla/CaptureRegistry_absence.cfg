SPECIFICATION Spec
CONSTANTS
    Run = {r1}
    NSource = 2
    Start = 3
    End = 6
    Lag = 1
    Grace = 2
    Stale = 2
    Retention = 2
    Margin = 1
    PruneAfter = 2
    HistoryKeep = 2
    Fault = {"source"}
INVARIANTS QuietAbsenceProven
