SPECIFICATION KeySpec
CONSTANTS
    Absent = Absent
    k1 = k1
    k2 = k2
    k3 = k3
    k4 = k4
    k5 = k5
    c1 = c1
    api = api
    Processes = {api}
    Clients = {c1}
    ProcessOf <- SingleProcess
    Names = {"meta", "personal"}
    Categories = {"meta"}
    Material = {k1, k2, k3, k4, k5}
    KeyFaults = {}
SYMMETRY KeySymmetry
INVARIANTS
    ActiveKeyOpens
