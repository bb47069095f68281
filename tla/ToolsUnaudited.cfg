SPECIFICATION ToolAuditSpec
CONSTANTS
    Permission = {"tools.execute", "tools.read", "tools.write"}
    MaxLife = 1
    Callers = {c1}
    Jobs = {}
    Requests <- Commands
    Levels = {2}
    MaxSteps = 1
    PageLife = 1
INVARIANTS
    EveryActionAudited
