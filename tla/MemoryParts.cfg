SPECIFICATION MCSpec
CONSTANTS
    None = None
    p1 = p1
    p2 = p2
    tag1 = tag1
    MaxRecords = 3
    Pieces = {p1, p2}
    Tags = {tag1}
    MaxImportance = 2
    Given = {1}
    Frequent = 1
    MaxPieces = 3
    MaxJobs = 1
    Interleaved = FALSE
    Faults = {"error", "crash"}
    Keys = {"a", "b", "c"}
    Sizes = {1, 2, 4}
    MaxBytes = 3
    Ttl = 1
    e1 = e1
    e2 = e2
    Embedders = {e1, e2}
    Texts = {"x", "y", " "}
    Blank = " "
    Batches <- SomeBatches
    VectorsKept = 2
    NoVector = NoVector
    Absent = Absent
    k1 = k1
    k2 = k2
    k3 = k3
    k4 = k4
    k5 = k5
    c1 = c1
    api = api
    Processes = {api}
    Clients = {c1}
    ProcessOf <- SingleProcess
    Names = {"meta", "fitness", "temp"}
    Meta = "meta"
    Custom = {"fitness", "temp"}
    Categories = {"meta"}
    Material = {k1, k2, k3, k4, k5}
    KeyFaults = {"error", "crash"}
SYMMETRY DataSymmetry
INVARIANTS
    BytesCounted
    VectorsOfTheirTexts
    SealedObjectsOpen
    StartedCanRead
    ConfiguredHasKey
    CreatedStaysConfigured
PROPERTIES
    JobKeepsContent
    MergeKeepsTags
