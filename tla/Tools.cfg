SPECIFICATION MCSpec
CONSTANTS
    Permission = {"tools.read", "tools.write", "tools.execute"}
    MaxLife = 1
    Callers = {c1, c2}
    Jobs = {j1}
    Requests <- Small
    Levels = {4}
    MaxSteps = 2
    PageLife = 1
    Executions = {e1, e2}
    Definitions <- Defined
    Arguments = {"short", "long"}
    Checker = TRUE
    MaxHistory = 2
    None = None
    t1 = t1
    t2 = t2
    api = api
    Processes = {api}
    Threads = {t1, t2}
    ProcessOf <- SingleProcess
    MaxEntries = 4
    Faults = {"io_error", "crash", "power_loss"}
CONSTRAINT Bounded
INVARIANTS
    VerifiesUpToErrors
    ReturnedIsLogged
    LevelsAgreed
    RunsWhatWasChecked
PROPERTIES
    PolicySpec
    CommandsEnd
