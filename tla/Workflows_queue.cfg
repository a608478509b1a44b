SPECIFICATION MCSpec
CONSTANTS
    Attempts = 2
    MaxAge = 1
    Runs = {r1, r3}
    Merge = {r3}
    Suite = {caas, vmaas}
    SuiteOf <- TwoSuites
    Group = {branch, entry}
    Branches <- QueueBranch
    FindFault = {}
    Failing = {r1, r2, r3, r4}
    TestOf <- OneTest
    NoTest = none
    FailingBranches <- TwoBranches
    Promotion = 3
    MaxIssues = 2
    r1 = r1
    r2 = r2
    r3 = r3
    r4 = r4
    caas = caas
    vmaas = vmaas
    branch = branch
    entry = entry
    test = test
    none = none
CHECK_DEADLOCK FALSE
INVARIANTS NoEditLost
