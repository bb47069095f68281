--------------------------------- MODULE MCTools ---------------------------------
(***************************************************************************)
(* Small instances of Tools, TrustMode, ToolExecutor and AuditLog.  The    *)
(* gateway takes its level from its constructor, the engine has a registry *)
(* and an executor of its own, and nothing depends on what is in the log:  *)
(* the four share no state, so a behaviour is one of one of them.          *)
(***************************************************************************)
EXTENDS Tools, TrustMode, ToolExecutor, AuditLog

CONSTANTS t1, t2, api

VARIABLE part

MCVars == <<part, toolsVars, modeVars, executorVars, vars>>

Small == {[tool |-> "filesystem", kind |-> "plain"],
          [tool |-> "terminal", kind |-> "plain"],
          [tool |-> "terminal", kind |-> "upload"],
          [tool |-> "browser", kind |-> "page"],
          [tool |-> Unknown, kind |-> "plain"]}

\* The threads are of one program.
SingleProcess == [t \in Threads |-> api]

MCInit ==
    /\ ToolsInit /\ ModeInit /\ ExecutorInit /\ Init
    /\ \/ part \in {"tools", "executor", "audit"} /\ modeFile = Unreadable
       \/ part = "mode"

\* Two definitions of one name, the second guarded and stricter.
Defined == {[name |-> "lookup", accepts |-> {"short", "long"}, guarded |-> FALSE],
            [name |-> "lookup", accepts |-> {"short"}, guarded |-> TRUE],
            [name |-> "send", accepts |-> {"long"}, guarded |-> TRUE]}

MCNext ==
    /\ UNCHANGED part
    /\ \/ part = "tools" /\ ToolsNext /\ UNCHANGED <<modeVars, executorVars, vars>>
       \/ part = "mode" /\ ModeNext /\ UNCHANGED <<toolsVars, executorVars, vars>>
       \/ part = "executor" /\ ExecutorNext /\ UNCHANGED <<toolsVars, modeVars, vars>>
       \/ part = "audit" /\ Next /\ UNCHANGED <<toolsVars, modeVars, executorVars>>

MCSpec == MCInit /\ [][MCNext]_MCVars /\ (part = "tools" => ToolsFairness)

\* Bound: two calls of one request or one composition under way, and a background job
\* only beside an idle gateway.
InUse == {c \in Callers : task[c] # Idle}

Bounded ==
    /\ \A c, d \in InUse : c # d => Len(task[c].steps) + Len(task[d].steps) = 2
    /\ (\E j \in Jobs : jobs[j] # "none") => InUse = {}
===================================================================================
