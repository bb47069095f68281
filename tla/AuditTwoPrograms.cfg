SPECIFICATION Spec
CONSTANTS
    None = None
    t1 = t1
    t2 = t2
    api = api
    cli = cli
    Processes = {api, cli}
    Threads = {t1, t2}
    ProcessOf <- OwnProcess
    MaxEntries = 3
    Faults = {}
INVARIANTS
    ChainVerifies
