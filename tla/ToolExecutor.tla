------------------------------ MODULE ToolExecutor ------------------------------
(***************************************************************************)
(* The engine's tools (src/mysti/engine/tool_registry.py and               *)
(* tool_executor.py): a registry whose tools may be replaced at any time,  *)
(* and executions that look a tool up, validate the arguments, await the   *)
(* permission and then await the tool.  A definition is known by its name, *)
(* the arguments it accepts and whether it requires a permission.          *)
(***************************************************************************)
EXTENDS Naturals, Sequences

CONSTANTS
    Executions,     \* concurrent callers of execute
    Definitions,    \* tool definitions, [name, accepts, guarded]
    Arguments,      \* what a caller may pass
    Checker,        \* whether a permission checker is configured
    MaxHistory      \* bound on the execution history

ASSUME DefinitionsAssumption ==
    \A d \in Definitions : d.accepts \subseteq Arguments /\ d.guarded \in BOOLEAN
ASSUME CheckerAssumption == Checker \in BOOLEAN /\ MaxHistory \in Nat

VARIABLES
    registry,       \* ToolRegistry._tools: the definitions registered, one of each name
    execution,      \* execution[e]: what caller e is doing
    outcomes,       \* ToolExecutor._execution_history: success or not
    approved        \* observer: approved[e], the definitions e was last cleared to run

executorVars == <<registry, execution, outcomes, approved>>

Waiting == [pc |-> "idle"]

Names == {d.name : d \in Definitions}

ExecutorTypeOK ==
    /\ registry \in SUBSET Definitions
    /\ \A d1, d2 \in registry : d1.name = d2.name => d1 = d2
    /\ execution \in [Executions -> {Waiting} \cup
          [pc : {"permission", "running"}, tool : Definitions, arguments : Arguments]]
    /\ outcomes \in Seq(BOOLEAN)
    /\ approved \in [Executions -> SUBSET Definitions]

ExecutorInit ==
    /\ registry = {}
    /\ execution = [e \in Executions |-> Waiting]
    /\ outcomes = <<>>
    /\ approved = [e \in Executions |-> {}]

\* register: a tool of the same name is replaced.
Register(d) ==
    /\ registry' = {old \in registry : old.name # d.name} \cup {d}
    /\ UNCHANGED <<execution, outcomes, approved>>

Registered(name) == {d \in registry : d.name = name}

\* validate_arguments: the required ones are there, and of the values allowed.
Valid(d, arguments) == arguments \in d.accepts

Enter(e, r) == execution' = [execution EXCEPT ![e] = r]

\* execute, up to its first await.  An unknown tool, invalid arguments, and a guarded
\* tool without a checker are answered at once, outside the history.
Execute(e) ==
    /\ execution[e] = Waiting
    /\ \E name \in Names, arguments \in Arguments : \E d \in Registered(name) :
        /\ Valid(d, arguments)
        /\ d.guarded => Checker
        /\ Enter(e, [pc |-> IF d.guarded THEN "permission" ELSE "running",
                     tool |-> d, arguments |-> arguments])
        /\ approved' = [approved EXCEPT ![e] = IF d.guarded THEN {} ELSE {d}]
    /\ UNCHANGED <<registry, outcomes>>

ExecuteRefused(e) ==
    /\ execution[e] = Waiting
    /\ \E name \in Names, arguments \in Arguments :
          \A d \in Registered(name) : ~Valid(d, arguments) \/ (d.guarded /\ ~Checker)
    /\ UNCHANGED executorVars

\* Mutation: the tool is looked up again after the permission has come.
PermissionGiven_LookedUp(e) ==
    /\ execution[e].pc = "permission"
    /\ approved' = [approved EXCEPT ![e] = {execution[e].tool}]
    /\ \E d \in Registered(execution[e].tool.name) :
          Enter(e, [execution[e] EXCEPT !.pc = "running", !.tool = d])
    /\ UNCHANGED <<registry, outcomes>>

\* The permission was asked for the tool that was looked up, and that one runs, also
\* when another has been registered under its name meanwhile.
PermissionGiven(e) ==
    /\ execution[e].pc = "permission"
    /\ approved' = [approved EXCEPT ![e] = {execution[e].tool}]
    /\ Enter(e, [execution[e] EXCEPT !.pc = "running"])
    /\ UNCHANGED <<registry, outcomes>>

\* Denied, or the checker failed.
PermissionDenied(e) ==
    /\ execution[e].pc = "permission"
    /\ Enter(e, Waiting)
    /\ UNCHANGED <<registry, outcomes, approved>>

\* Bounded by MaxHistory.  The tool returns, or fails or takes longer than its timeout.
Executed(e) ==
    /\ execution[e].pc = "running" /\ Len(outcomes) < MaxHistory
    /\ \E success \in BOOLEAN : outcomes' = Append(outcomes, success)
    /\ Enter(e, Waiting)
    /\ UNCHANGED <<registry, approved>>

ClearHistory ==
    /\ outcomes' = <<>>
    /\ UNCHANGED <<registry, execution, approved>>

ExecutorNext ==
    \/ \E d \in Definitions : Register(d)
    \/ \E e \in Executions :
          \/ Execute(e) \/ ExecuteRefused(e)
          \/ PermissionGiven(e) \/ PermissionDenied(e) \/ Executed(e)
    \/ ClearHistory

ExecutorSpec == ExecutorInit /\ [][ExecutorNext]_executorVars

-----------------------------------------------------------------------------
(* Properties *)

\* What runs is what was checked, whatever is registered during the wait for the
\* permission: the definition cleared, with arguments valid for it.
RunsWhatWasChecked ==
    \A e \in Executions : execution[e].pc = "running" =>
        /\ execution[e].tool \in approved[e]
        /\ Valid(execution[e].tool, execution[e].arguments)
=================================================================================
