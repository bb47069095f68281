-------------------------------- MODULE ToolAudit --------------------------------
(***************************************************************************)
(* Which executions of Tools leave an entry in the audit log: those that   *)
(* end with a result, a refusal included, and none that end with an        *)
(* exception ToolGateway.execute does not catch.                           *)
(***************************************************************************)
EXTENDS Tools

VARIABLE
    unlogged    \* observer: the requests that reached their tool and left no entry

ToolAuditVars == <<toolsVars, unlogged>>

ToolAuditInit == ToolsInit /\ unlogged = {}

Logged(c) == Refuse(c) \/ Finish(c) \/ Timeout(c)

ToolAuditNext ==
    \/ /\ \E c \in Callers : Compose(c) \/ Schedule(c) \/ Start(c) \/ Logged(c)
       /\ UNCHANGED unlogged
    \/ \E c \in Callers : Raise(c) /\ unlogged' = unlogged \cup {Request(c)}
    \/ (Parallel \/ User \/ Tick) /\ UNCHANGED unlogged

ToolAuditSpec == ToolAuditInit /\ [][ToolAuditNext]_ToolAuditVars

\* Every action of a tool is audited: when its execution is over, it has left an entry.
EveryActionAudited == unlogged = {}
===================================================================================
