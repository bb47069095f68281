SPECIFICATION Spec
CONSTANTS
    None = None
    r1 = r1
    r2 = r2
    x1 = x1
    x2 = x2
    x3 = x3
    c1 = c1
    c2 = c2
    api = api
    Processes = {api}
    Clients = {c1, c2}
    ProcessOf <- SingleProcess
    Ids = {r1}
    Categories = {"personal"}
    Contents = {x1, x2}
    Oversize = {}
    Importances = {1}
    MaxKeyVersion = 1
    Backends <- S3
    Faults = {}
SYMMETRY DataSymmetry
INVARIANTS
    DeletedStayDeleted
