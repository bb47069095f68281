SPECIFICATION Spec
CONSTANTS
    None = None
    r1 = r1
    r2 = r2
    x1 = x1
    x2 = x2
    x3 = x3
    c1 = c1
    c2 = c2
    api = api
    Processes = {api}
    Clients = {c1, c2}
    ProcessOf <- SingleProcess
    Ids = {r1, r2}
    Categories = {"personal"}
    Contents = {x1, x2, x3}
    Oversize = {x3}
    Importances = {1, 2}
    MaxKeyVersion = 2
    Backends <- LocalAndS3
    Faults = {"error", "lost_reply", "crash"}
SYMMETRY DataSymmetry
CONSTRAINT SmallInstance
INVARIANTS
    IndexedBlobsOpen
    ReadersCanUnseal
    JournaledOutcomesHold
    CacheCoherent
    SearchIndexCurrent
PROPERTIES
    VaultSpec
