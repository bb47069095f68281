---------------------------------- MODULE Tools ----------------------------------
(***************************************************************************)
(* The tools of src/mysti/tools/ behind their gateway: ToolGateway.execute *)
(* with the permission manager and the audit log, ToolComposer, and the    *)
(* tools themselves with the commands, background jobs and page cache they *)
(* keep.                                                                   *)
(*                                                                         *)
(* Callers share one event loop.  What runs between two awaits is one step *)
(* of the model, or several steps during which the loop is Busy and nobody *)
(* else moves.  A request is a tool and the kind of its parameters; the    *)
(* kinds are those the tools tell apart.  Which executions leave an entry  *)
(* in the audit log is in ToolAudit.                                       *)
(***************************************************************************)
EXTENDS Permissions, Sequences

CONSTANTS
    Callers,
    Jobs,           \* names of background jobs
    Requests,       \* requests the callers make, [tool, kind]
    Levels,         \* levels the gateway may be constructed with, of 0 .. 5
    MaxSteps,       \* bound on the steps of a composition
    PageLife        \* BrowserTool: 3600 seconds, in ticks

ASSUME GatewayAssumption == PageLife \in Nat

VARIABLES
    level,          \* ToolGateway.trust_level
    task,           \* task[c]: what caller c is doing
    jobs,           \* TerminalTool._jobs
    pages           \* BrowserTool._cache: the age of each page, PageLife when it has none

callVars == <<level, task>>
toolVars == <<jobs, pages>>
toolsVars == <<permissionVars, callVars, toolVars>>

-----------------------------------------------------------------------------
(* The tools *)

Tool == {"filesystem", "terminal", "browser", "network", "git"}

Unknown == "unknown"    \* a name that no tool is registered under

Read == "tools.read"
Write == "tools.write"
Run == "tools.execute"

ASSUME PermissionAssumption == {Read, Write, Run} \subseteq Permission

\* required_permissions
Required == [t \in Tool |->
    CASE t \in {"filesystem", "git"} -> {Read, Write}
      [] t = "terminal" -> {Run}
      [] OTHER -> {Read}]

\* min_trust_level
MinLevel == [t \in Tool |-> IF t = "filesystem" THEN 1 ELSE 2]

\* SandboxManager.run_in_sandbox: what may run at a trust level.  A command is
\* dangerous (check_safety), reads from the network (fetch), writes to it
\* (upload), or is plain.
Allowed(kind, at) ==
    /\ kind # "dangerous" /\ at \notin {0, 5}
    /\ kind \in {"fetch", "upload"} => at # 1
    /\ kind = "upload" => at # 2

TerminalLevel == 2      \* TerminalTool.trust_level, whatever the gateway's is

\* FilesystemTool._path and the size limits, NetworkTool._check, BrowserTool._url, and
\* an operation or parameter the tool does not have: the tool answers with an error.
Refusals == {"protected", "oversized", "internal", "scheme", "operation"}

\* TerminalTool.execute lets errors of other types than it expects pass, as for a
\* timeout that is not a number; the other tools turn every error into a result.
Raises(r) == r.tool = "terminal" /\ r.kind = "timeout"

\* Requests answered without an await: what is refused, name lookups, the search of
\* BrowserTool, which finds nothing, and everything FilesystemTool does.
Synchronous(r) ==
    r.tool = "filesystem" \/ r.kind \in Refusals \cup {"timeout", "lookup", "search"}

Pages == {r.kind : r \in {q \in Requests : q.tool = "browser" /\ ~Synchronous(q)}}

\* fetch_page: the page is in the cache and young enough.
FreshPage(r) == r.tool = "browser" /\ r.kind \in Pages /\ pages[r.kind] < PageLife

\* The request starts a process that somebody waits for.
HasProcess(r) ==
    r.tool = "terminal" /\ ~Synchronous(r) /\ Allowed(r.kind, TerminalLevel)

\* Whether execute can succeed for a request that has reached the tool.
Outcomes(r) ==
    IF r.kind \in Refusals \/ (r.tool = "terminal" /\ ~HasProcess(r)) THEN {FALSE}
    ELSE BOOLEAN

-----------------------------------------------------------------------------
Idle == [pc |-> "idle"]

Call == [pc : {"queued", "dispatch", "immediate", "running"}, steps : Seq(Requests),
         fed : BOOLEAN]

ToolsTypeOK ==
    /\ PermissionsTypeOK
    /\ level \in Levels
    /\ task \in [Callers -> {Idle} \cup Call]
    /\ \A c \in Callers : task[c] # Idle => task[c].steps # <<>>
    /\ jobs \in [Jobs -> {"none", "running", "completed", "failed", "cancelled"}]
    /\ pages \in [Pages -> 0 .. PageLife]

ToolsInit ==
    /\ PermissionsInit
    /\ level \in Levels
    /\ task = [c \in Callers |-> Idle]
    /\ jobs = [j \in Jobs |-> "none"]
    /\ pages = [u \in Pages |-> PageLife]

At(c, pc) == task[c].pc = pc

Request(c) == Head(task[c].steps)

InTool(c) == At(c, "immediate") \/ At(c, "running")

\* compose hands the output of a step to the next as a parameter `input`, which the
\* terminal ignores and the operations of the other tools do not have: a TypeError,
\* which becomes a failure.
Overfed(c) == task[c].fed /\ Request(c).tool # "terminal"

\* The loop is in the middle of a call: no other callback runs.
Busy == \E c \in Callers : At(c, "dispatch") \/ At(c, "immediate")

Become(c, r) == task' = [task EXCEPT ![c] = r]

-----------------------------------------------------------------------------
(* ToolGateway.execute and ToolComposer *)

\* compose: the steps run one after the other in the caller; one step is a call of
\* execute itself.  A composition raises at a step whose parameters do not make a
\* dictionary, and so is the shorter one that ends before it.  Bounded by MaxSteps.
Compose(c) ==
    /\ ~Busy /\ At(c, "idle")
    /\ \E n \in 1 .. MaxSteps : \E steps \in [1 .. n -> Requests] :
        /\ n > 1 => \A i \in 1 .. n : steps[i].kind # "malformed"
        /\ Become(c, [pc |-> "dispatch", steps |-> steps, fed |-> FALSE])
    /\ UNCHANGED <<permissionVars, level, toolVars>>

\* parallel: a task for each request, which the loop runs when it gets to it.
Parallel ==
    /\ ~Busy
    /\ \E group \in SUBSET {c \in Callers : At(c, "idle")} :
        /\ Cardinality(group) > 1
        /\ \E request \in [group -> Requests] :
              task' = [c \in Callers |->
                        IF c \in group
                        THEN [pc |-> "queued", steps |-> <<request[c]>>, fed |-> FALSE]
                        ELSE task[c]]
    /\ UNCHANGED <<permissionVars, level, toolVars>>

Schedule(c) ==
    /\ ~Busy /\ At(c, "queued")
    /\ Become(c, [task[c] EXCEPT !.pc = "dispatch"])
    /\ UNCHANGED <<permissionVars, level, toolVars>>

\* The tool exists and the trust level allows it.
LevelAllows(t) == t \in Tool /\ level # 5 /\ level >= MinLevel[t]

Permitted(t) == \A p \in Required[t] : Passes(p)

\* An unknown tool, too low a level, a missing permission or malformed parameters: the
\* refusal is logged and returned, which ends a composition.  The checks of the
\* permissions drop those that have expired.
Refuse(c) ==
    /\ At(c, "dispatch")
    /\ LET r == Request(c)
       IN  /\ ~(LevelAllows(r.tool) /\ Permitted(r.tool) /\ r.kind # "malformed")
           /\ granted' = IF LevelAllows(r.tool) THEN Purged(Required[r.tool]) ELSE granted
    /\ Become(c, Idle)
    /\ UNCHANGED <<life, emergency, level, toolVars>>

Start(c) ==
    /\ At(c, "dispatch")
    /\ LET r == Request(c)
       IN  /\ LevelAllows(r.tool) /\ Permitted(r.tool) /\ r.kind # "malformed"
           /\ Become(c, [task[c] EXCEPT !.pc =
                          IF Synchronous(r) \/ FreshPage(r) \/ Overfed(c)
                          THEN "immediate" ELSE "running"])
    /\ UNCHANGED <<permissionVars, level, toolVars>>

MayMove(c) == At(c, "immediate") \/ (At(c, "running") /\ ~Busy)

\* The result is logged and returned.  A composition goes on with its next step, at
\* once, if the result is a success.
Result(c, ok) ==
    Become(c, IF ok /\ Len(task[c].steps) > 1
              THEN [pc |-> "dispatch", steps |-> Tail(task[c].steps), fed |-> TRUE] ELSE Idle)

\* The tool answers.  A page that was fetched is cached.
Finish(c) ==
    /\ MayMove(c) /\ ~Raises(Request(c))
    /\ LET r == Request(c)
       IN  \E ok \in IF Overfed(c) THEN {FALSE}
                    ELSE IF At(c, "immediate") /\ r.kind \in Pages THEN {TRUE}
                    ELSE Outcomes(r) :
            /\ Result(c, ok)
            /\ pages' = IF r.kind \in Pages /\ ok /\ At(c, "running")
                        THEN [pages EXCEPT ![r.kind] = 0] ELSE pages
    /\ UNCHANGED <<permissionVars, level, jobs>>

\* The tool raises what the gateway does not catch, or the entry cannot be written:
\* the exception goes to the caller, without an entry.
Raise(c) ==
    /\ MayMove(c)
    /\ Become(c, Idle)
    /\ UNCHANGED <<permissionVars, level, toolVars>>

-----------------------------------------------------------------------------
(* TerminalTool *)

\* Mutation: the wait has no end.
Timeout_Never(c) == FALSE /\ UNCHANGED toolsVars

\* execute_command: the wait ends after the timeout; the process goes on without
\* anybody waiting for it.
Timeout(c) ==
    /\ At(c, "running") /\ ~Busy /\ HasProcess(Request(c))
    /\ Result(c, FALSE)
    /\ UNCHANGED <<permissionVars, level, toolVars>>

\* execute_background: no gateway, so no permission and no entry.  Bounded by Jobs.
StartJob(j) ==
    /\ ~Busy /\ jobs[j] = "none"
    /\ jobs' = [jobs EXCEPT ![j] = "running"]
    /\ UNCHANGED <<permissionVars, callVars, pages>>

\* The command ends, or the sandbox blocks it, or it takes longer than 30 seconds.
JobEnds(j) ==
    /\ ~Busy /\ jobs[j] = "running"
    /\ jobs' = [jobs EXCEPT ![j] = "completed"]
    /\ UNCHANGED <<permissionVars, callVars, pages>>

JobTimesOut(j) ==
    /\ ~Busy /\ jobs[j] = "running"
    /\ jobs' = [jobs EXCEPT ![j] = "failed"]
    /\ UNCHANGED <<permissionVars, callVars, pages>>

KillJob(j) ==
    /\ ~Busy /\ jobs[j] = "running"
    /\ jobs' = [jobs EXCEPT ![j] = "cancelled"]
    /\ UNCHANGED <<permissionVars, callVars, pages>>

-----------------------------------------------------------------------------
(* The user, the clock, and the program *)

Others == /\ ~Busy
          /\ UNCHANGED <<callVars, toolVars>>

User ==
    /\ \/ \E p \in Permission : GrantPermission(p) \/ RevokePermission(p) \/ CheckPermission(p)
       \/ ListPermissions
       \/ EmergencyRevokeAll
    /\ Others

Tick ==
    /\ ~Busy
    /\ PermissionsTick
    /\ pages' = [u \in Pages |-> IF pages[u] < PageLife THEN pages[u] + 1 ELSE PageLife]
    /\ UNCHANGED <<callVars, jobs>>

\* The program ends at any point and starts again with a new gateway.
Restart ==
    /\ PermissionsRestart
    /\ level' \in Levels
    /\ task' = [c \in Callers |-> Idle]
    /\ jobs' = [j \in Jobs |-> "none"]
    /\ pages' = [u \in Pages |-> PageLife]

Dispatch(c) == Refuse(c) \/ Start(c)

InTerminal(c) == InTool(c) /\ Request(c).tool = "terminal"

ToolsNext ==
    \/ \E c \in Callers :
          \/ Compose(c) \/ Schedule(c)
          \/ Dispatch(c)
          \/ Finish(c) \/ Raise(c) \/ Timeout(c)
    \/ Parallel
    \/ \E j \in Jobs : StartJob(j) \/ JobEnds(j) \/ JobTimesOut(j) \/ KillJob(j)
    \/ User
    \/ Tick
    \/ Restart

\* The loop finishes what it is in the middle of, and runs the timers that are due
\* however busy it is in between.  A command need not end by itself.
ToolsFairness ==
    /\ \A c \in Callers :
        /\ WF_toolsVars(Dispatch(c))
        /\ WF_toolsVars(At(c, "immediate") /\ (Finish(c) \/ Raise(c)))
        /\ SF_toolsVars(Timeout(c))
        /\ SF_toolsVars(InTerminal(c) /\ ~HasProcess(Request(c)) /\ Finish(c))
    /\ \A j \in Jobs : SF_toolsVars(JobTimesOut(j))

ToolsSpec == ToolsInit /\ [][ToolsNext]_toolsVars /\ ToolsFairness

-----------------------------------------------------------------------------
(* Properties *)

\* What the tools run and the permissions in force are as PermissionPolicy promises:
\* no tool starts after everything has been revoked, whatever is granted before or
\* after, nor on a permission that has expired or was revoked between two steps of
\* a composition.
Policy == INSTANCE PermissionPolicy WITH
    Forever <- Forever,
    Nothing <- Unknown,
    left <- [p \in Permission |-> IF Passes(p) THEN life[p] ELSE 0],
    stopped <- emergency,
    runs <- [c \in Callers |-> IF InTool(c) THEN Request(c).tool ELSE Unknown]

PolicySpec == Policy!Spec

\* A command does not keep its caller, or its job, longer than its timeout.
CommandsEnd ==
    /\ \A c \in Callers : InTerminal(c) ~> ~InTerminal(c)
    /\ \A j \in Jobs : jobs[j] = "running" ~> jobs[j] # "running"
===================================================================================
