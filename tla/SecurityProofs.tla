----------------------------- MODULE SecurityProofs -----------------------------
(***************************************************************************)
(* Proofs about the tools and their audit log: what TrustMode,             *)
(* ToolExecutor and Tools promise, for any callers, requests, definitions  *)
(* and bounds, and the hash chain of AuditLog, for any number of threads   *)
(* and entries and all faults.                                             *)
(*                                                                         *)
(* The chain of one program verifies up to the first line that bears the   *)
(* mark of an error.  What makes it inductive: a running program's number  *)
(* and digest are those of the last line, or of the line before it while   *)
(* the thread that holds the lock has written its line and not yet         *)
(* finished, unless an error has left its mark up to there.                *)
(*                                                                         *)
(* What log() has returned for is in the file once, however many programs  *)
(* log.  What makes it inductive: each line that is computed has a digest  *)
(* of its own, and is in the file at most once, and not before its thread  *)
(* has written it.                                                         *)
(***************************************************************************)
EXTENDS Tools, TrustMode, ToolExecutor, AuditLog, TLAPS

-----------------------------------------------------------------------------
(* The trust mode *)

ModeInv == ModeTypeOK /\ LevelsAgreed

\* A mode and a file that agree, or a write that failed, and nothing risky without the
\* user's confirmation.
LEMMA ModeInvFrom ==
  ASSUME mode' \in TrustLevel, modeFile' \in TrustLevel \cup {Unreadable},
         agreed' \in SUBSET Risky,
         mode' \in Risky => mode' \in agreed',
         modeFile' \in Risky => modeFile' \in agreed',
         \/ lost' = TRUE
         \/ lost' = FALSE /\ mode' = Loaded'
  PROVE  ModeInv'
<1>1. lost' \in BOOLEAN /\ (mode' # Loaded' => lost')
  OBVIOUS
<1>2. Risky \cap {mode', modeFile'} \subseteq agreed'
  OBVIOUS
<1>3. QED
  BY <1>1, <1>2 DEF ModeInv, ModeTypeOK, LevelsAgreed, Risky, TrustLevel, Unreadable

LEMMA ModeInvInit == ModeInit => ModeInv
<1> SUFFICES ASSUME ModeInit
             PROVE  ModeInv
  OBVIOUS
<1>1. /\ modeFile \in TrustLevel \cup {Unreadable}
      /\ agreed = Risky \cap {modeFile}
      /\ mode = Loaded /\ lost = FALSE
  BY DEF ModeInit
<1>2. mode \in TrustLevel /\ (mode \in Risky => mode = modeFile)
  BY <1>1 DEF Loaded, TrustLevel, Unreadable, Risky
<1>3. ModeTypeOK
  <2>1. lost \in BOOLEAN
    BY <1>1
  <2>2. agreed \in SUBSET Risky
    BY <1>1
  <2>3. QED
    BY <1>1, <1>2, <2>1, <2>2 DEF ModeTypeOK
<1>4. Risky \cap {mode, modeFile} \subseteq agreed
  BY <1>1, <1>2
<1>5. QED
  BY <1>1, <1>3, <1>4 DEF ModeInv, LevelsAgreed

\* set_mode, whether the write succeeds or not.
LEMMA SetModeKeeps ==
  ASSUME NEW l \in TrustLevel, ModeInv, SetMode(l)
  PROVE  ModeInv'
<1>1. /\ mode \in TrustLevel /\ modeFile \in TrustLevel \cup {Unreadable}
      /\ agreed \in SUBSET Risky
      /\ mode \in Risky => mode \in agreed
      /\ modeFile \in Risky => modeFile \in agreed
  BY DEF ModeInv, ModeTypeOK, LevelsAgreed
<1>2. /\ mode' = l
      /\ agreed' = IF l \in Risky /\ l # mode THEN agreed \cup {l} ELSE agreed
  BY DEF SetMode, NeedsConfirmation
<1>3. agreed' \in SUBSET Risky /\ agreed \subseteq agreed' /\ (mode' \in Risky => mode' \in agreed')
  BY <1>1, <1>2
<1>4. CASE modeFile' = l /\ lost' = FALSE
  <2>1. mode' = Loaded'
    BY <1>2, <1>4 DEF Loaded, TrustLevel, Unreadable
  <2>2. modeFile' \in Risky => modeFile' \in agreed'
    BY <1>2, <1>3, <1>4
  <2>3. QED
    BY <1>2, <1>3, <1>4, <2>1, <2>2, ModeInvFrom
<1>5. CASE modeFile' \in {modeFile, Unreadable} /\ lost' = TRUE
  <2>1. modeFile' \in Risky => modeFile' \in agreed'
    BY <1>1, <1>3, <1>5 DEF Risky, Unreadable
  <2>2. modeFile' \in TrustLevel \cup {Unreadable}
    BY <1>1, <1>5
  <2>3. QED
    BY <1>2, <1>3, <1>5, <2>1, <2>2, ModeInvFrom
<1>6. QED
  BY <1>4, <1>5 DEF SetMode, WriteMode

LEMMA ModeInvNext == ModeInv /\ [ModeNext]_modeVars => ModeInv'
<1> SUFFICES ASSUME ModeInv, [ModeNext]_modeVars
             PROVE  ModeInv'
  OBVIOUS
<1>1. CASE \E l \in TrustLevel : SetMode(l)
  BY <1>1, SetModeKeeps
<1>2. CASE UNCHANGED modeVars
  BY <1>2 DEF modeVars, ModeInv, ModeTypeOK, LevelsAgreed, Loaded
<1>3. CASE \E l \in TrustLevel : ModeDeclined(l)
  BY <1>2, <1>3 DEF ModeDeclined
<1>4. CASE ModeRestart
  <2>1. /\ modeFile \in TrustLevel \cup {Unreadable} /\ agreed \in SUBSET Risky
        /\ modeFile \in Risky => modeFile \in agreed
    BY DEF ModeInv, ModeTypeOK, LevelsAgreed
  <2>2. /\ mode' = Loaded /\ lost' = FALSE
        /\ modeFile' = modeFile /\ agreed' = agreed
    BY <1>4 DEF ModeRestart
  <2>3. /\ mode' = Loaded' /\ mode' \in TrustLevel
        /\ mode' \in Risky => mode' = modeFile
    BY <2>1, <2>2 DEF Loaded, TrustLevel, Unreadable, Risky
  <2>4. QED
    BY <2>1, <2>2, <2>3, ModeInvFrom
<1>5. QED
  BY <1>1, <1>2, <1>3, <1>4 DEF ModeNext

\* However writes fail and the program restarts, a level that allows network writes or
\* automatic execution is in force or in the file only after the user's confirmation.
THEOREM LevelsAlwaysAgreed == ModeSpec => []LevelsAgreed
<1>1. ModeInv => LevelsAgreed
  BY DEF ModeInv
<1>2. QED
  BY ModeInvInit, ModeInvNext, <1>1, PTL DEF ModeSpec

-----------------------------------------------------------------------------
(* The executor *)

Cleared ==
    \A e \in Executions : execution[e].pc # "idle" =>
        Valid(execution[e].tool, execution[e].arguments)

ExecutorInv == ExecutorTypeOK /\ Cleared /\ RunsWhatWasChecked

LEMMA ExecutorInvInit == ExecutorInit => ExecutorInv
  BY DEF ExecutorInit, ExecutorInv, ExecutorTypeOK, Cleared, RunsWhatWasChecked, Waiting

LEMMA ExecuteKeeps ==
  ASSUME ExecutorInv, NEW e \in Executions, Execute(e)
  PROVE  ExecutorInv'
<1>1. PICK name \in Names, arguments \in Arguments : \E d \in Registered(name) :
        /\ Valid(d, arguments)
        /\ d.guarded => Checker
        /\ Enter(e, [pc |-> IF d.guarded THEN "permission" ELSE "running",
                     tool |-> d, arguments |-> arguments])
        /\ approved' = [approved EXCEPT ![e] = IF d.guarded THEN {} ELSE {d}]
  BY DEF Execute
<1>2. PICK d \in Registered(name) :
        /\ Valid(d, arguments)
        /\ Enter(e, [pc |-> IF d.guarded THEN "permission" ELSE "running",
                     tool |-> d, arguments |-> arguments])
        /\ approved' = [approved EXCEPT ![e] = IF d.guarded THEN {} ELSE {d}]
  BY <1>1
<1>3. d \in Definitions
  BY <1>2 DEF Registered, ExecutorInv, ExecutorTypeOK
<1> DEFINE next == [pc |-> IF d.guarded THEN "permission" ELSE "running",
                    tool |-> d, arguments |-> arguments]
<1>4. /\ next \in [pc : {"permission", "running"}, tool : Definitions, arguments : Arguments]
      /\ next.tool = d /\ next.arguments = arguments
      /\ next.pc = "running" => ~d.guarded
  BY <1>3
<1>5. execution' = [execution EXCEPT ![e] = next]
  BY <1>2 DEF Enter
<1>6. UNCHANGED <<registry, outcomes>>
  BY DEF Execute
<1> HIDE DEF next
<1>7. ExecutorTypeOK'
  BY <1>2, <1>3, <1>4, <1>5, <1>6 DEF ExecutorInv, ExecutorTypeOK
<1>8. Cleared'
  BY <1>2, <1>4, <1>5 DEF ExecutorInv, ExecutorTypeOK, Cleared, Valid
<1>9. RunsWhatWasChecked'
  BY <1>2, <1>4, <1>5 DEF ExecutorInv, ExecutorTypeOK, RunsWhatWasChecked, Valid
<1>10. QED
  BY <1>7, <1>8, <1>9 DEF ExecutorInv

LEMMA PermissionGivenKeeps ==
  ASSUME ExecutorInv, NEW e \in Executions, PermissionGiven(e)
  PROVE  ExecutorInv'
<1> DEFINE next == [execution[e] EXCEPT !.pc = "running"]
<1>1. execution[e] \in [pc : {"permission", "running"}, tool : Definitions, arguments : Arguments]
  BY DEF ExecutorInv, ExecutorTypeOK, PermissionGiven, Waiting
<1>2. /\ next \in [pc : {"permission", "running"}, tool : Definitions, arguments : Arguments]
      /\ next.tool = execution[e].tool /\ next.arguments = execution[e].arguments
  BY <1>1
<1>3. execution' = [execution EXCEPT ![e] = next]
  BY DEF PermissionGiven, Enter
<1> HIDE DEF next
<1>4. ExecutorTypeOK'
  BY <1>1, <1>2, <1>3 DEF ExecutorInv, ExecutorTypeOK, PermissionGiven
<1>5. Cleared'
  BY <1>1, <1>2, <1>3 DEF ExecutorInv, ExecutorTypeOK, Cleared, Valid, PermissionGiven
<1>6. RunsWhatWasChecked'
  BY <1>1, <1>2, <1>3 DEF ExecutorInv, ExecutorTypeOK, Cleared, RunsWhatWasChecked, Valid,
                          PermissionGiven
<1>7. QED
  BY <1>4, <1>5, <1>6 DEF ExecutorInv

LEMMA ExecutionEndsKeeps ==
  ASSUME ExecutorInv, NEW e \in Executions, PermissionDenied(e) \/ Executed(e)
  PROVE  ExecutorInv'
<1>1. /\ execution' = [execution EXCEPT ![e] = Waiting]
      /\ UNCHANGED <<registry, approved>>
      /\ outcomes' \in Seq(BOOLEAN)
  BY DEF ExecutorInv, ExecutorTypeOK, PermissionDenied, Executed, Enter
<1>2. QED
  BY <1>1 DEF ExecutorInv, ExecutorTypeOK, Cleared, RunsWhatWasChecked, Valid, Waiting

LEMMA ExecutorInvNext == ExecutorInv /\ [ExecutorNext]_executorVars => ExecutorInv'
<1> SUFFICES ASSUME ExecutorInv, [ExecutorNext]_executorVars
             PROVE  ExecutorInv'
  OBVIOUS
<1>1. ASSUME NEW d \in Definitions, Register(d)
      PROVE  ExecutorInv'
  BY <1>1 DEF ExecutorInv, ExecutorTypeOK, Cleared, RunsWhatWasChecked, Valid, Register
<1>2. ASSUME NEW e \in Executions, Execute(e)
      PROVE  ExecutorInv'
  BY <1>2, ExecuteKeeps
<1>3. ASSUME NEW e \in Executions, PermissionGiven(e)
      PROVE  ExecutorInv'
  BY <1>3, PermissionGivenKeeps
<1>4. ASSUME NEW e \in Executions, PermissionDenied(e) \/ Executed(e)
      PROVE  ExecutorInv'
  BY <1>4, ExecutionEndsKeeps
<1>5. CASE ClearHistory
  BY <1>5 DEF ExecutorInv, ExecutorTypeOK, Cleared, RunsWhatWasChecked, Valid, ClearHistory
<1>6. CASE UNCHANGED executorVars
  BY <1>6 DEF ExecutorInv, ExecutorTypeOK, Cleared, RunsWhatWasChecked, Valid, executorVars
<1>7. QED
  BY <1>1, <1>2, <1>3, <1>4, <1>5, <1>6 DEF ExecutorNext, ExecuteRefused

\* Whatever is registered while a permission is awaited, what runs is the definition that
\* was cleared, with arguments that are valid for it.
THEOREM AlwaysRunsWhatWasChecked == ExecutorSpec => []RunsWhatWasChecked
<1>1. ExecutorInv => RunsWhatWasChecked
  BY DEF ExecutorInv
<1>2. QED
  BY ExecutorInvInit, ExecutorInvNext, <1>1, PTL DEF ExecutorSpec

-----------------------------------------------------------------------------
(* The gateway and the tools: types *)

\* A request under way has a step to do.
LEMMA UnderWay ==
  ASSUME ToolsTypeOK, NEW c \in Callers, task[c] # Idle
  PROVE  /\ task[c] \in Call
         /\ task[c].steps \in Seq(Requests) /\ task[c].steps # <<>>
         /\ Request(c) \in Requests
<1>1. task[c] \in Call /\ task[c].steps # <<>>
  BY DEF ToolsTypeOK
<1>2. task[c].steps \in Seq(Requests)
  BY <1>1 DEF Call
<1>3. QED
  BY <1>1, <1>2 DEF Request

LEMMA NotIdle ==
  ASSUME ToolsTypeOK, NEW c \in Callers, At(c, "queued") \/ At(c, "dispatch") \/ InTool(c)
  PROVE  task[c] # Idle
  BY DEF At, InTool, Idle

\* What a caller becomes.
LEMMA TaskStays ==
  ASSUME ToolsTypeOK, NEW c \in Callers, NEW r, Become(c, r),
         r = Idle \/ (r \in Call /\ r.steps # <<>>)
  PROVE  /\ task' \in [Callers -> {Idle} \cup Call]
         /\ \A d \in Callers : task'[d] # Idle => task'[d].steps # <<>>
  BY DEF ToolsTypeOK, Become

LEMMA TailOf ==
  ASSUME NEW S, NEW s \in Seq(S), Len(s) > 1
  PROVE  Tail(s) \in Seq(S) /\ Tail(s) # <<>>
<1>1. Tail(s) \in Seq(S) /\ Len(Tail(s)) = Len(s) - 1
  OBVIOUS
<1>2. Len(Tail(s)) # 0
  BY <1>1
<1>3. Len(<<>>) = 0
  OBVIOUS
<1>4. QED
  BY <1>1, <1>2, <1>3, Zenon

-----------------------------------------------------------------------------
(* The gateway and the tools *)

LEMMA ToolsTypeInit == ToolsInit => ToolsTypeOK
<1> SUFFICES ASSUME ToolsInit
             PROVE  ToolsTypeOK
  OBVIOUS
<1>1. PermissionsTypeOK
  <2>1. emergency \in BOOLEAN /\ granted \in SUBSET Permission
    BY DEF ToolsInit, PermissionsInit
  <2>2. 0 \in 0 .. Forever
    BY MaxLifeAssumption DEF Forever
  <2>3. life \in [Permission -> 0 .. Forever]
    BY <2>2 DEF ToolsInit, PermissionsInit
  <2>4. QED
    BY <2>1, <2>3 DEF PermissionsTypeOK
<1>2. task \in [Callers -> {Idle} \cup Call] /\ \A c \in Callers : task[c] = Idle
  BY DEF ToolsInit
<1>3. pages \in [Pages -> 0 .. PageLife]
  BY GatewayAssumption DEF ToolsInit
<1>4. QED
  BY <1>1, <1>2, <1>3 DEF ToolsInit, ToolsTypeOK

-----------------------------------------------------------------------------
(* The gateway and the tools: the policy *)

\* What the policy sees of the permissions and of the tools that run.
Left == [p \in Permission |-> IF Passes(p) THEN life[p] ELSE 0]

Runs == [c \in Callers |-> IF InTool(c) THEN Request(c).tool ELSE Unknown]

PolicyStep == [Policy!Next]_(Policy!vars)

LEMMA PolicyStutters ==
  ASSUME Left' = Left, emergency' = emergency, Runs' = Runs
  PROVE  PolicyStep
  BY DEF PolicyStep, Policy!vars, Left, Runs

LEMMA SamePermissions ==
  ASSUME UNCHANGED permissionVars
  PROVE  Left' = Left /\ emergency' = emergency /\ (PermissionsTypeOK => PermissionsTypeOK')
<1>1. granted' = granted /\ life' = life /\ emergency' = emergency
  BY DEF permissionVars
<1>2. Left' = Left
  BY <1>1 DEF Left, Passes
<1>3. PermissionsTypeOK => PermissionsTypeOK'
  BY <1>1 DEF PermissionsTypeOK
<1>4. QED
  BY <1>1, <1>2, <1>3

\* A caller that neither enters nor leaves a tool.
LEMMA Outside ==
  ASSUME ToolsTypeOK, NEW c \in Callers, ~InTool(c), NEW r, Become(c, r),
         r.pc \notin {"immediate", "running"}
  PROVE  Runs' = Runs
<1>1. \A d \in Callers : /\ InTool(d)' = InTool(d)
                         /\ InTool(d) => Request(d)' = Request(d)
  BY DEF ToolsTypeOK, Become, InTool, At, Request
<1>2. QED
  BY <1>1 DEF Runs

LEMMA SameTasks ==
  ASSUME task' = task
  PROVE  Runs' = Runs
  BY DEF Runs, InTool, At, Request

\* Without a permission that has expired the policy sees the same.
LEMMA PurgeUnseen ==
  ASSUME PermissionsTypeOK, granted' \subseteq granted, UNCHANGED <<life, emergency>>,
         \A p \in granted \ granted' : life[p] = 0
  PROVE  Left' = Left /\ PermissionsTypeOK'
<1>1. life \in [Permission -> 0 .. Forever] /\ granted \in SUBSET Permission
  BY DEF PermissionsTypeOK
<1>2. \A p \in Permission : (IF Passes(p) THEN life[p] ELSE 0)' = IF Passes(p) THEN life[p] ELSE 0
  BY <1>1 DEF Passes
<1>3. Left' = Left
  BY <1>2 DEF Left
<1>4. PermissionsTypeOK'
  BY DEF PermissionsTypeOK
<1>5. QED
  BY <1>3, <1>4

\* What has neither a call in it nor a permission.
LEMMA QuietKeeps ==
  ASSUME ToolsTypeOK, PermissionsTypeOK', Left' = Left, emergency' = emergency,
         Runs' = Runs, level' \in Levels,
         task' \in [Callers -> {Idle} \cup Call],
         \A c \in Callers : task'[c] # Idle => task'[c].steps # <<>>,
         jobs' \in [Jobs -> {"none", "running", "completed", "failed", "cancelled"}],
         pages' \in [Pages -> 0 .. PageLife]
  PROVE  ToolsTypeOK' /\ PolicyStep
<1>1. ToolsTypeOK'
  BY DEF ToolsTypeOK
<1>2. QED
  BY <1>1, PolicyStutters

LEMMA ComposeKeeps ==
  ASSUME ToolsTypeOK, NEW c \in Callers, Compose(c)
  PROVE  ToolsTypeOK' /\ PolicyStep
<1>1. PICK n \in 1 .. MaxSteps : \E steps \in [1 .. n -> Requests] :
          Become(c, [pc |-> "dispatch", steps |-> steps, fed |-> FALSE])
  BY DEF Compose
<1>2. PICK steps \in [1 .. n -> Requests] :
          Become(c, [pc |-> "dispatch", steps |-> steps, fed |-> FALSE])
  BY <1>1
<1> DEFINE r == [pc |-> "dispatch", steps |-> steps, fed |-> FALSE]
<1>3. steps \in Seq(Requests) /\ Len(steps) = n /\ n # 0
  BY <1>1, <1>2
<1>4. Len(<<>>) = 0
  OBVIOUS
<1>5. steps # <<>>
  BY <1>3, <1>4, Zenon
<1>6. r \in Call /\ r.steps # <<>> /\ r.pc = "dispatch"
  BY <1>3, <1>5 DEF Call
<1>7. Become(c, r)
  BY <1>2
<1> HIDE DEF r
<1>8. ~InTool(c)
  BY DEF Compose, InTool, At
<1>9. Runs' = Runs
  BY <1>6, <1>7, <1>8, Outside
<1>10. /\ task' \in [Callers -> {Idle} \cup Call]
       /\ \A d \in Callers : task'[d] # Idle => task'[d].steps # <<>>
  BY <1>6, <1>7, TaskStays
<1>11. UNCHANGED <<permissionVars, level, jobs, pages>>
  BY DEF Compose, toolVars
<1>12. QED
  BY <1>9, <1>10, <1>11, SamePermissions, QuietKeeps DEF ToolsTypeOK

LEMMA ScheduleKeeps ==
  ASSUME ToolsTypeOK, NEW c \in Callers, Schedule(c)
  PROVE  ToolsTypeOK' /\ PolicyStep
<1> DEFINE r == [task[c] EXCEPT !.pc = "dispatch"]
<1>1. At(c, "queued") /\ Become(c, r)
  BY DEF Schedule
<1>2. task[c] \in Call /\ task[c].steps # <<>>
  BY <1>1, NotIdle, UnderWay
<1>3. r \in Call /\ r.steps # <<>> /\ r.pc = "dispatch"
  BY <1>2 DEF Call
<1> HIDE DEF r
<1>4. ~InTool(c)
  BY <1>1 DEF InTool, At
<1>5. Runs' = Runs
  BY <1>1, <1>3, <1>4, Outside
<1>6. /\ task' \in [Callers -> {Idle} \cup Call]
      /\ \A d \in Callers : task'[d] # Idle => task'[d].steps # <<>>
  BY <1>1, <1>3, TaskStays
<1>7. UNCHANGED <<permissionVars, level, jobs, pages>>
  BY DEF Schedule, toolVars
<1>8. QED
  BY <1>5, <1>6, <1>7, SamePermissions, QuietKeeps DEF ToolsTypeOK

LEMMA ParallelKeeps ==
  ASSUME ToolsTypeOK, Parallel
  PROVE  ToolsTypeOK' /\ PolicyStep
<1>1. PICK group \in SUBSET {c \in Callers : At(c, "idle")} :
        \E request \in [group -> Requests] :
              task' = [c \in Callers |->
                        IF c \in group
                        THEN [pc |-> "queued", steps |-> <<request[c]>>, fed |-> FALSE]
                        ELSE task[c]]
  BY DEF Parallel
<1>2. PICK request \in [group -> Requests] :
              task' = [c \in Callers |->
                        IF c \in group
                        THEN [pc |-> "queued", steps |-> <<request[c]>>, fed |-> FALSE]
                        ELSE task[c]]
  BY <1>1
<1>3. ASSUME NEW c \in group
      PROVE  <<request[c]>> \in Seq(Requests) /\ <<request[c]>> # <<>>
  BY <1>2
<1>4. /\ task' \in [Callers -> {Idle} \cup Call]
      /\ \A d \in Callers : task'[d] # Idle => task'[d].steps # <<>>
  BY <1>2, <1>3 DEF Call, ToolsTypeOK, ToolsTypeOK
<1>5. \A d \in Callers : /\ InTool(d)' = InTool(d)
                         /\ InTool(d) => Request(d)' = Request(d)
  BY <1>2 DEF InTool, At, Request
<1>6. Runs' = Runs
  BY <1>5 DEF Runs
<1>7. UNCHANGED <<permissionVars, level, jobs, pages>>
  BY DEF Parallel, toolVars
<1>8. QED
  BY <1>4, <1>6, <1>7, SamePermissions, QuietKeeps DEF ToolsTypeOK

\* A caller that is refused, or whose last step is over, becomes idle.
LEMMA RefuseKeeps ==
  ASSUME ToolsTypeOK, NEW c \in Callers, Refuse(c)
  PROVE  ToolsTypeOK' /\ PolicyStep
<1>1. /\ At(c, "dispatch") /\ Become(c, Idle)
      /\ granted' = granted \/ granted' = Purged(Required[Request(c).tool])
      /\ UNCHANGED <<life, emergency, level, jobs, pages>>
  BY DEF Refuse, toolVars
<1>2. ~InTool(c)
  BY <1>1 DEF InTool, At
<1>3. Runs' = Runs
  BY <1>1, <1>2, Outside DEF Idle
<1>4. /\ task' \in [Callers -> {Idle} \cup Call]
      /\ \A d \in Callers : task'[d] # Idle => task'[d].steps # <<>>
  BY <1>1, TaskStays
<1>5. /\ granted' \subseteq granted
      /\ \A p \in granted \ granted' : ~emergency /\ life[p] = 0
  BY <1>1 DEF Purged, Expired
<1>6. Left' = Left /\ PermissionsTypeOK'
  BY <1>1, <1>5, PurgeUnseen DEF ToolsTypeOK
<1>7. QED
  BY <1>1, <1>3, <1>4, <1>6, QuietKeeps DEF ToolsTypeOK

LEMMA StartKeeps ==
  ASSUME ToolsTypeOK, NEW c \in Callers, Start(c)
  PROVE  ToolsTypeOK' /\ PolicyStep
<1> DEFINE r == [task[c] EXCEPT !.pc = IF Synchronous(Request(c)) \/ FreshPage(Request(c))
                                             \/ Overfed(c)
                                       THEN "immediate" ELSE "running"]
           t == Request(c).tool
<1>1. /\ At(c, "dispatch") /\ Become(c, r)
      /\ t \in Tool /\ Permitted(t)
      /\ UNCHANGED <<permissionVars, level, jobs, pages>>
  BY DEF Start, toolVars, LevelAllows
<1>2. task[c] \in Call /\ task[c].steps # <<>>
  BY <1>1, NotIdle, UnderWay
<1>3. /\ r \in Call /\ r.steps = task[c].steps
      /\ r.pc \in {"immediate", "running"}
  BY <1>2 DEF Call
<1> HIDE DEF r
<1>4. ~InTool(c)
  BY <1>1 DEF InTool, At
<1>5. /\ \A d \in Callers : InTool(d)' = (InTool(d) \/ d = c)
      /\ \A d \in Callers : Request(d)' = Request(d)
  BY <1>1, <1>3 DEF ToolsTypeOK, Become, InTool, At, Request
<1>7. Runs' = [Runs EXCEPT ![c] = t]
  BY <1>5 DEF Runs
<1>8. \A p \in Required[t] : Left[p] > 0
  <2>1. Required[t] \subseteq Permission
    BY <1>1, PermissionAssumption DEF Required, Tool
  <2>2. QED
    BY <1>1, <2>1 DEF Permitted, Left, Passes
<1>9. Left' = Left /\ emergency' = emergency /\ PermissionsTypeOK'
  BY <1>1, SamePermissions DEF ToolsTypeOK
<1>10. PolicyStep
  <2>1. Policy!Start(c, t)
    BY <1>7, <1>8, <1>9 DEF Policy!Start, Left, Runs
  <2>2. QED
    BY <1>1, <2>1 DEF PolicyStep, Policy!Next
<1>11. /\ task' \in [Callers -> {Idle} \cup Call]
       /\ \A d \in Callers : task'[d] # Idle => task'[d].steps # <<>>
  BY <1>1, <1>2, <1>3, TaskStays
<1>12. ToolsTypeOK'
  BY <1>1, <1>9, <1>11 DEF ToolsTypeOK
<1>13. QED
  BY <1>10, <1>12

\* What ends an execution, and touches no permission.
LEMMA EndKeeps ==
  ASSUME ToolsTypeOK, NEW c \in Callers, InTool(c), NEW r, Become(c, r),
         r = Idle \/ (r \in Call /\ r.pc = "dispatch" /\ r.steps # <<>>),
         UNCHANGED <<permissionVars, level, jobs>>,
         pages' \in [Pages -> 0 .. PageLife]
  PROVE  ToolsTypeOK' /\ PolicyStep
<1>1. r.pc \notin {"immediate", "running"}
  BY DEF Idle
<1>2. /\ ~InTool(c)'
      /\ \A d \in Callers \ {c} : InTool(d)' = InTool(d) /\ Request(d)' = Request(d)
  BY <1>1 DEF ToolsTypeOK, Become, InTool, At, Request
<1>4. Runs' = [Runs EXCEPT ![c] = Unknown]
  BY <1>2 DEF Runs
<1>5. Left' = Left /\ emergency' = emergency /\ PermissionsTypeOK'
  BY SamePermissions DEF ToolsTypeOK
<1>6. Policy!End(c)
  BY <1>4, <1>5 DEF Policy!End, Left, Runs
<1>7. PolicyStep
  BY <1>6 DEF PolicyStep, Policy!Next
<1>8. /\ task' \in [Callers -> {Idle} \cup Call]
      /\ \A d \in Callers : task'[d] # Idle => task'[d].steps # <<>>
  BY TaskStays
<1>9. ToolsTypeOK'
  BY <1>5, <1>8 DEF ToolsTypeOK
<1>10. QED
  BY <1>7, <1>9

LEMMA ResultKeeps ==
  ASSUME ToolsTypeOK, NEW c \in Callers, InTool(c), NEW ok \in BOOLEAN, Result(c, ok),
         UNCHANGED <<permissionVars, level, jobs>>,
         pages' \in [Pages -> 0 .. PageLife]
  PROVE  ToolsTypeOK' /\ PolicyStep
<1> DEFINE next == [pc |-> "dispatch", steps |-> Tail(task[c].steps), fed |-> TRUE]
           r == IF ok /\ Len(task[c].steps) > 1 THEN next ELSE Idle
<1>1. Become(c, r)
  BY DEF Result
<1>2. ASSUME Len(task[c].steps) > 1
      PROVE  next \in Call /\ next.pc = "dispatch" /\ next.steps # <<>>
  <2>1. Tail(task[c].steps) \in Seq(Requests) /\ Tail(task[c].steps) # <<>>
    BY <1>2, NotIdle, UnderWay, TailOf
  <2>2. QED
    BY <2>1 DEF Call
<1>3. r = Idle \/ (r \in Call /\ r.pc = "dispatch" /\ r.steps # <<>>)
  BY <1>2
<1> HIDE DEF r
<1>4. QED
  BY <1>1, <1>3, EndKeeps

LEMMA ExecutionKeeps ==
  ASSUME ToolsTypeOK, NEW c \in Callers, Finish(c) \/ Raise(c) \/ Timeout(c)
  PROVE  ToolsTypeOK' /\ PolicyStep
<1>1. InTool(c)
  BY DEF Finish, Raise, Timeout, MayMove, InTool
<1>2. pages \in [Pages -> 0 .. PageLife]
  BY DEF ToolsTypeOK
<1>3. CASE Raise(c)
  BY <1>1, <1>2, <1>3, EndKeeps DEF Raise, toolVars
<1>4. CASE Timeout(c)
  BY <1>1, <1>2, <1>4, ResultKeeps DEF Timeout, toolVars
<1>5. CASE Finish(c)
  <2>1. PICK ok \in BOOLEAN :
          /\ Result(c, ok)
          /\ pages' = IF Request(c).kind \in Pages /\ ok /\ At(c, "running")
                      THEN [pages EXCEPT ![Request(c).kind] = 0] ELSE pages
    BY <1>5 DEF Finish, Outcomes
  <2>2. pages' \in [Pages -> 0 .. PageLife]
    BY <1>2, <2>1, GatewayAssumption
  <2>3. QED
    BY <1>1, <1>5, <2>1, <2>2, ResultKeeps DEF Finish
<1>6. QED
  BY <1>3, <1>4, <1>5

LEMMA JobKeeps ==
  ASSUME ToolsTypeOK, NEW j \in Jobs, StartJob(j) \/ JobEnds(j) \/ JobTimesOut(j) \/ KillJob(j)
  PROVE  ToolsTypeOK' /\ PolicyStep
<1>1. /\ jobs' \in [Jobs -> {"none", "running", "completed", "failed", "cancelled"}]
      /\ UNCHANGED <<permissionVars, level, task, pages>>
  BY DEF StartJob, JobEnds, JobTimesOut, KillJob, callVars, ToolsTypeOK, ToolsTypeOK
<1>2. QED
  BY <1>1, SamePermissions, SameTasks, QuietKeeps DEF ToolsTypeOK

\* The tools go on while the permissions change.
LEMMA PermissionsChange ==
  ASSUME ToolsTypeOK, PermissionsTypeOK', PolicyStep, UNCHANGED <<callVars, jobs>>,
         pages' \in [Pages -> 0 .. PageLife]
  PROVE  ToolsTypeOK' /\ PolicyStep
<1>1. UNCHANGED <<level, task, jobs>>
  BY DEF callVars
<1>2. ToolsTypeOK'
  BY <1>1 DEF ToolsTypeOK
<1>3. QED
  BY <1>2

LEMMA UserKeeps ==
  ASSUME ToolsTypeOK, User
  PROVE  ToolsTypeOK' /\ PolicyStep
<1>1. /\ granted \in SUBSET Permission
      /\ life \in [Permission -> 0 .. Forever] /\ emergency \in BOOLEAN
      /\ pages \in [Pages -> 0 .. PageLife]
  BY DEF ToolsTypeOK, PermissionsTypeOK
<1>2. UNCHANGED <<callVars, jobs, pages>>
  BY DEF User, Others, toolVars
<1>3. Runs' = Runs
  BY <1>2, SameTasks DEF callVars
<1>4. Forever \in Nat /\ 0 \in 0 .. Forever
  BY MaxLifeAssumption DEF Forever
<1>5. ASSUME NEW p \in Permission, GrantPermission(p)
      PROVE  PermissionsTypeOK' /\ PolicyStep
  <2>1. PICK time \in 0 .. Forever :
          /\ granted' = granted \cup {p} /\ life' = [life EXCEPT ![p] = time]
          /\ emergency' = emergency
    BY <1>5 DEF GrantPermission
  <2>2. PermissionsTypeOK'
    BY <1>1, <2>1 DEF PermissionsTypeOK
  <2>3. CASE emergency
    <3>1. Left' = Left
      BY <2>1, <2>3 DEF Left, Passes
    <3>2. QED
      BY <1>3, <2>1, <2>2, <3>1, PolicyStutters
  <2>4. CASE ~emergency
    <3>1. Left' = [Left EXCEPT ![p] = time]
      <4>1. \A q \in Permission : (IF Passes(q) THEN life[q] ELSE 0)'
                = IF q = p THEN time ELSE IF Passes(q) THEN life[q] ELSE 0
        BY <1>1, <1>4, <2>1, <2>4 DEF Passes
      <4>2. QED
        BY <4>1 DEF Left
    <3>2. Policy!Grant(p)
      BY <1>3, <2>1, <2>4, <3>1 DEF Policy!Grant, Left, Runs
    <3>3. QED
      BY <2>2, <3>2 DEF PolicyStep, Policy!Next
  <2>5. QED
    BY <2>3, <2>4
<1>6. ASSUME NEW p \in Permission, RevokePermission(p)
      PROVE  PermissionsTypeOK' /\ PolicyStep
  <2>1. /\ granted' = granted \ {p} /\ life' = [life EXCEPT ![p] = 0]
        /\ emergency' = emergency
    BY <1>6 DEF RevokePermission
  <2>2. PermissionsTypeOK'
    BY <1>1, <1>4, <2>1 DEF PermissionsTypeOK
  <2>3. Left' = [Left EXCEPT ![p] = 0]
    <3>1. \A q \in Permission : (IF Passes(q) THEN life[q] ELSE 0)'
              = IF q = p THEN 0 ELSE IF Passes(q) THEN life[q] ELSE 0
      BY <1>1, <2>1 DEF Passes
    <3>2. QED
      BY <3>1 DEF Left
  <2>4. Policy!Revoke(p)
    BY <1>3, <2>1, <2>3 DEF Policy!Revoke, Left, Runs
  <2>5. QED
    BY <2>2, <2>4 DEF PolicyStep, Policy!Next
<1>7. ASSUME ListPermissions \/ \E p \in Permission : CheckPermission(p)
      PROVE  PermissionsTypeOK' /\ PolicyStep
  <2>1. /\ granted' \subseteq granted /\ UNCHANGED <<life, emergency>>
        /\ \A q \in granted \ granted' : life[q] = 0
    BY <1>7 DEF CheckPermission, ListPermissions, Purged, Expired
  <2>2. QED
    BY <1>3, <2>1, PurgeUnseen, PolicyStutters DEF ToolsTypeOK
<1>8. ASSUME EmergencyRevokeAll
      PROVE  PermissionsTypeOK' /\ PolicyStep
  <2>1. granted' = {} /\ life' = [p \in Permission |-> 0] /\ emergency' = TRUE
    BY <1>8 DEF EmergencyRevokeAll
  <2>2. PermissionsTypeOK'
    <3>1. granted' \in SUBSET Permission /\ life' \in [Permission -> 0 .. Forever]
      BY <1>4, <2>1
    <3>2. emergency' \in BOOLEAN
      BY <2>1
    <3>3. QED
      BY <3>1, <3>2 DEF PermissionsTypeOK
  <2>3. Left' = [p \in Permission |-> 0]
    BY <2>1 DEF Left, Passes
  <2>4. Policy!StopAll
    BY <1>3, <2>1, <2>3 DEF Policy!StopAll, Policy!Clear, Left, Runs
  <2>5. QED
    BY <2>2, <2>4 DEF PolicyStep, Policy!Next
<1>9. PermissionsTypeOK' /\ PolicyStep
  BY <1>5, <1>6, <1>7, <1>8 DEF User
<1>10. QED
  BY <1>1, <1>2, <1>9, PermissionsChange

LEMMA TickKeeps ==
  ASSUME ToolsTypeOK, Tick
  PROVE  ToolsTypeOK' /\ PolicyStep
<1>1. /\ life \in [Permission -> 0 .. Forever]
      /\ pages \in [Pages -> 0 .. PageLife]
      /\ PermissionsTypeOK
  BY DEF ToolsTypeOK, PermissionsTypeOK
<1>2. /\ life' = [p \in Permission |-> IF life[p] \in 1 .. MaxLife THEN life[p] - 1 ELSE life[p]]
      /\ pages' = [u \in Pages |-> IF pages[u] < PageLife THEN pages[u] + 1 ELSE PageLife]
      /\ UNCHANGED <<granted, emergency, callVars, jobs>>
  BY DEF Tick, PermissionsTick
<1>3. pages' \in [Pages -> 0 .. PageLife]
  BY <1>1, <1>2, GatewayAssumption
<1>4. life' \in [Permission -> 0 .. Forever]
  BY <1>1, <1>2, MaxLifeAssumption DEF Forever
<1>5. PermissionsTypeOK'
  BY <1>1, <1>2, <1>4 DEF PermissionsTypeOK
<1>6. \A p \in Permission :
        (IF Passes(p) THEN life[p] ELSE 0)'
          = IF Left[p] \in 1 .. Forever - 1 THEN Left[p] - 1 ELSE Left[p]
  <2> TAKE p \in Permission
  <2>1. CASE emergency \/ p \notin granted
    <3>1. ~Passes(p) /\ ~Passes(p)'
      BY <1>2, <2>1 DEF Passes
    <3>2. Left[p] = 0
      BY <3>1 DEF Left
    <3>3. QED
      BY <3>1, <3>2
  <2>2. CASE ~emergency /\ p \in granted
    <3>1. Passes(p) = (life[p] > 0) /\ Passes(p)' = (life'[p] > 0)
      BY <1>2, <2>2 DEF Passes
    <3>2. Left[p] = IF life[p] > 0 THEN life[p] ELSE 0
      BY <3>1 DEF Left
    <3>3. (IF Passes(p) THEN life[p] ELSE 0)' = IF life'[p] > 0 THEN life'[p] ELSE 0
      BY <3>1
    <3>4. /\ life[p] \in 0 .. MaxLife + 1
          /\ life'[p] = IF life[p] \in 1 .. MaxLife THEN life[p] - 1 ELSE life[p]
      BY <1>1, <1>2 DEF Forever
    <3>5. QED
      BY <3>2, <3>3, <3>4, MaxLifeAssumption DEF Forever
  <2>3. QED
    BY <2>1, <2>2
<1>7. Left' = [p \in Permission |-> IF Left[p] \in 1 .. Forever - 1 THEN Left[p] - 1 ELSE Left[p]]
  BY <1>6 DEF Left
<1>8. Runs' = Runs
  BY <1>2, SameTasks DEF callVars
<1>9. Policy!Pass
  BY <1>2, <1>7, <1>8 DEF Policy!Pass, Left, Runs
<1>10. PolicyStep
  BY <1>9 DEF PolicyStep, Policy!Next
<1>11. QED
  BY <1>2, <1>3, <1>5, <1>10, PermissionsChange

LEMMA RestartKeeps ==
  ASSUME ToolsTypeOK, Restart
  PROVE  ToolsTypeOK' /\ PolicyStep
<1>1. /\ granted' = {} /\ life' = [p \in Permission |-> 0] /\ emergency' = FALSE
      /\ task' = [c \in Callers |-> Idle]
      /\ level' \in Levels
      /\ jobs' = [j \in Jobs |-> "none"] /\ pages' = [u \in Pages |-> PageLife]
  BY DEF Restart, PermissionsRestart
<1>2. PermissionsTypeOK'
  <2>1. granted' \in SUBSET Permission /\ life' \in [Permission -> 0 .. Forever]
    BY <1>1, MaxLifeAssumption DEF Forever
  <2>2. emergency' \in BOOLEAN
    BY <1>1
  <2>3. QED
    BY <2>1, <2>2 DEF PermissionsTypeOK
<1>3. ToolsTypeOK'
  <2>1. /\ task' \in [Callers -> {Idle} \cup Call]
        /\ \A c \in Callers : task'[c] # Idle => task'[c].steps # <<>>
    BY <1>1
  <2>2. pages' \in [Pages -> 0 .. PageLife]
    BY <1>1, GatewayAssumption
  <2>3. QED
    BY <1>1, <1>2, <2>1, <2>2 DEF ToolsTypeOK
<1>4. \A c \in Callers : ~InTool(c)'
  BY <1>1 DEF InTool, At, Idle
<1>6. Runs' = [c \in Callers |-> Unknown]
  BY <1>4 DEF Runs
<1>7. Left' = [p \in Permission |-> 0]
  BY <1>1 DEF Left, Passes
<1>8. Policy!Restart
  BY <1>1, <1>6, <1>7 DEF Policy!Restart, Policy!Clear, Left, Runs
<1>9. QED
  BY <1>3, <1>8 DEF PolicyStep, Policy!Next

LEMMA ToolsStep == ToolsTypeOK /\ [ToolsNext]_toolsVars => ToolsTypeOK' /\ PolicyStep
<1> SUFFICES ASSUME ToolsTypeOK, [ToolsNext]_toolsVars
             PROVE  ToolsTypeOK' /\ PolicyStep
  OBVIOUS
<1>1. ASSUME NEW c \in Callers,
             \/ Compose(c) \/ Schedule(c) \/ Dispatch(c)
             \/ Finish(c) \/ Raise(c) \/ Timeout(c)
      PROVE  ToolsTypeOK' /\ PolicyStep
  BY <1>1, ComposeKeeps, ScheduleKeeps, RefuseKeeps, StartKeeps, ExecutionKeeps DEF Dispatch
<1>2. CASE Parallel
  BY <1>2, ParallelKeeps
<1>3. ASSUME NEW j \in Jobs, StartJob(j) \/ JobEnds(j) \/ JobTimesOut(j) \/ KillJob(j)
      PROVE  ToolsTypeOK' /\ PolicyStep
  BY <1>3, JobKeeps
<1>4. CASE User \/ Tick \/ Restart
  BY <1>4, UserKeeps, TickKeeps, RestartKeeps
<1>5. CASE UNCHANGED toolsVars
  <2>1. UNCHANGED <<permissionVars, level, task, jobs, pages>>
    BY <1>5 DEF toolsVars, callVars, toolVars
  <2>2. QED
    BY <2>1, SamePermissions, SameTasks, QuietKeeps DEF ToolsTypeOK
<1>6. QED
  BY <1>1, <1>2, <1>3, <1>4, <1>5 DEF ToolsNext

LEMMA PolicyInit == ToolsInit => Policy!Init
<1> SUFFICES ASSUME ToolsInit
             PROVE  Policy!Init
  OBVIOUS
<1>1. granted = {} /\ emergency = FALSE /\ task = [c \in Callers |-> Idle]
  BY DEF ToolsInit, PermissionsInit
<1>2. Left = [p \in Permission |-> 0]
  BY <1>1 DEF Left, Passes
<1>3. Runs = [c \in Callers |-> Unknown]
  BY <1>1 DEF Runs, InTool, At, Idle
<1>4. QED
  BY <1>1, <1>2, <1>3 DEF Policy!Init, Policy!Clear, Left, Runs

\* For any callers, requests, levels and lifetimes: the tools and the permissions do what
\* PermissionPolicy promises.
THEOREM ToolsImplementPolicy == ToolsSpec => PolicySpec
<1>1. ToolsTypeOK /\ [ToolsNext]_toolsVars => [Policy!Next]_(Policy!vars)
  BY ToolsStep DEF PolicyStep
<1>2. ToolsTypeOK /\ [ToolsNext]_toolsVars => ToolsTypeOK'
  BY ToolsStep
<1>3. QED
  BY ToolsTypeInit, PolicyInit, <1>1, <1>2, PTL DEF ToolsSpec, PolicySpec, Policy!Spec

-----------------------------------------------------------------------------
(* The audit log: what log() has returned for, with any number of programs *)

AnyLine == [seq : Nat, prev : Nat, hash : Nat, kept : {"line", "text", "part"}]

Shape ==
    /\ file \in Seq(AnyLine)
    /\ tail \in [Processes -> (Nat \X Nat) \cup {None}]
    /\ lock \in [Processes -> Threads \cup {None}]
    /\ line \in [Threads -> AnyLine \cup {None}]
    /\ calls \in Nat

\* Every computed line has a digest of its own, in the file at most once.
Digests ==
    /\ \A n \in DOMAIN file : file[n].hash <= calls
    /\ \A m, n \in DOMAIN file : file[m].hash = file[n].hash => m = n
    /\ \A t \in Threads : line[t] # None =>
        /\ line[t].hash <= calls /\ line[t].kept = "line"
        /\ \A n \in DOMAIN file : file[n].hash = line[t].hash => file[n] = line[t]
        /\ \A u \in Threads \ {t} : line[u] # None => line[u].hash # line[t].hash

Logged == \A h \in returned : \E n \in DOMAIN file : file[n].hash = h /\ file[n].kept = "line"

\* The lock is held, and a line computed, in a program that runs.
Running ==
    /\ \A p \in Processes : lock[p] # None => tail[p] # None
    /\ \A t \in Threads : line[t] # None => tail[ProcessOf[t]] # None

LogInv == Shape /\ Digests /\ Logged /\ Running

LEMMA InitLogInv == Init => LogInv
BY ProcessOfAssumption DEF Init, LogInv, Shape, Digests, Logged, Running, Genesis

LEMMA OpenLogged ==
    ASSUME LogInv, NEW p \in Processes, Open(p)
    PROVE  LogInv'
<1>1. UNCHANGED <<file, lock, line, calls, returned>>
  BY DEF Open
<1>2. PICK end \in Nat \X Nat : tail' = [tail EXCEPT ![p] = end]
  <2>1. CASE file = <<>>
    <3>1. tail' = [tail EXCEPT ![p] = <<0, 0>>] /\ <<0, 0>> \in Nat \X Nat
      BY <2>1 DEF Open, Genesis
    <3> QED BY <3>1, Zenon
  <2>2. CASE file # <<>>
    <3>1. Len(file) \in DOMAIN file /\ file[Len(file)] \in AnyLine
      BY <2>2 DEF LogInv, Shape
    <3>2. tail' = [tail EXCEPT ![p] = <<file[Len(file)].seq, file[Len(file)].hash>>]
      BY <2>2 DEF Open, Last
    <3> QED BY <3>1, <3>2 DEF AnyLine
  <2> QED BY <2>1, <2>2
<1>3. end # None
  BY NoneAssumption
<1>4. Shape' /\ Running'
  BY <1>1, <1>2, <1>3, ProcessOfAssumption DEF LogInv, Shape, Running
<1> QED BY <1>1, <1>4 DEF LogInv, Digests, Logged

LEMMA AcquireLogged ==
    ASSUME LogInv, NEW t \in Threads, Acquire(t)
    PROVE  LogInv'
<1>1. UNCHANGED <<file, tail, line, calls, returned>>
  BY DEF Acquire
<1>2. lock' = [lock EXCEPT ![ProcessOf[t]] = t] /\ tail[ProcessOf[t]] # None
  BY DEF Acquire
<1>3. Shape' /\ Running'
  BY <1>1, <1>2, ProcessOfAssumption DEF LogInv, Shape, Running
<1> QED BY <1>1, <1>3 DEF LogInv, Digests, Logged

\* A line that is computed has the next digest, which no other has.
LEMMA ComputeLogged ==
    ASSUME LogInv, NEW t \in Threads, Compute(t)
    PROVE  LogInv'
<1> DEFINE p == ProcessOf[t]
<1> DEFINE new == [seq |-> tail[p][1] + 1, prev |-> tail[p][2], hash |-> calls + 1,
                   kept |-> "line"]
<1>1. /\ line' = [line EXCEPT ![t] = new] /\ calls' = calls + 1
      /\ lock[p] = t
      /\ UNCHANGED <<file, tail, lock, returned>>
  BY DEF Compute
<1>2. p \in Processes /\ tail[p] # None
  BY <1>1, ProcessOfAssumption, NoneAssumption DEF LogInv, Running
<1>3. tail[p] \in Nat \X Nat /\ calls \in Nat
  BY <1>2 DEF LogInv, Shape
<1>4. new \in AnyLine /\ new.hash = calls + 1 /\ new.kept = "line"
  BY <1>3 DEF AnyLine
<1> HIDE DEF new
<1>5. Shape'
  BY <1>1, <1>3, <1>4 DEF LogInv, Shape
<1>6. /\ line'[t] = new
      /\ \A u \in Threads \ {t} : line'[u] = line[u]
  BY <1>1 DEF LogInv, Shape
<1>7. ASSUME NEW n \in DOMAIN file
      PROVE  file[n].hash \in Nat /\ file[n].hash <= calls
  <2>1. file[n] \in AnyLine
    BY DEF LogInv, Shape
  <2> QED BY <2>1 DEF AnyLine, LogInv, Digests
<1>8. \A u \in Threads : line[u] # None => line[u].hash \in Nat /\ line[u].hash <= calls
  BY DEF LogInv, Shape, Digests, AnyLine
<1>9. \A n \in DOMAIN file : file[n].hash <= calls + 1 /\ file[n].hash # calls + 1
  BY <1>3, <1>7
<1>10. \A u \in Threads : line[u] # None => line[u].hash <= calls + 1 /\ line[u].hash # calls + 1
  BY <1>3, <1>8
<1>11. Digests'
  <2>1. \A n \in DOMAIN file' : file'[n].hash <= calls'
    BY <1>1, <1>9
  <2>2. \A m, n \in DOMAIN file' : file'[m].hash = file'[n].hash => m = n
    BY <1>1 DEF LogInv, Digests
  <2>3. ASSUME NEW u \in Threads, line'[u] # None
        PROVE  /\ line'[u].hash <= calls' /\ line'[u].kept = "line"
               /\ \A n \in DOMAIN file' : file'[n].hash = line'[u].hash => file'[n] = line'[u]
               /\ \A v \in Threads \ {u} : line'[v] # None => line'[v].hash # line'[u].hash
    <3>1. CASE u = t
      BY <1>1, <1>3, <1>4, <1>6, <1>9, <1>10, <3>1
    <3>2. CASE u # t
      BY <1>1, <1>4, <1>6, <1>10, <2>3, <3>2 DEF LogInv, Digests
    <3> QED BY <3>1, <3>2
  <2> QED BY <2>1, <2>2, <2>3 DEF Digests
<1>12. Running'
  BY <1>1, <1>2, <1>6 DEF LogInv, Running
<1> QED BY <1>1, <1>5, <1>11, <1>12 DEF LogInv, Logged

\* A digest that is not in the file is appended to it, and no other thread has it.
LEMMA AppendLogged ==
    ASSUME LogInv, NEW t \in Threads, line[t] # None, ~Written(t),
           NEW piece \in AnyLine, piece.hash = line[t].hash, file' = Append(file, piece),
           UNCHANGED calls,
           \A u \in Threads : line'[u] # None =>
               line'[u] = line[u] /\ (u = t => piece = line[t])
    PROVE  /\ file' \in Seq(AnyLine) /\ Digests'
           /\ \A h : (\E n \in DOMAIN file : file[n].hash = h /\ file[n].kept = "line")
                   => \E n \in DOMAIN file' : file'[n].hash = h /\ file'[n].kept = "line"
<1> DEFINE k == Len(file) + 1
<1>1. file \in Seq(AnyLine) /\ line[t].hash <= calls
  BY DEF LogInv, Shape, Digests
<1>2. /\ file' \in Seq(AnyLine) /\ DOMAIN file' = DOMAIN file \cup {k} /\ k \notin DOMAIN file
      /\ file'[k] = piece /\ \A n \in DOMAIN file : file'[n] = file[n]
  BY <1>1
<1> HIDE DEF k
<1>3. \A n \in DOMAIN file : file[n].hash # line[t].hash
  BY DEF Written, LogInv, Digests
<1>4. \A n \in DOMAIN file' : file'[n].hash <= calls'
  BY <1>1, <1>2 DEF LogInv, Digests
<1>5. \A m, n \in DOMAIN file' : file'[m].hash = file'[n].hash => m = n
  BY <1>2, <1>3 DEF LogInv, Digests
<1>6. ASSUME NEW u \in Threads, line'[u] # None
      PROVE  /\ line'[u].hash <= calls' /\ line'[u].kept = "line"
             /\ \A n \in DOMAIN file' : file'[n].hash = line'[u].hash => file'[n] = line'[u]
             /\ \A v \in Threads \ {u} : line'[v] # None => line'[v].hash # line'[u].hash
  BY <1>2, <1>6 DEF LogInv, Digests
<1>7. Digests'
  BY <1>4, <1>5, <1>6 DEF Digests
<1> QED BY <1>2, <1>7

LEMMA WriteLogged ==
    ASSUME LogInv, NEW t \in Threads, WriteLine(t)
    PROVE  LogInv'
<1>1. /\ line[t] # None /\ ~Written(t) /\ file' = Append(file, line[t])
      /\ UNCHANGED <<tail, lock, line, calls, returned>>
  BY DEF WriteLine
<1>2. line[t] \in AnyLine
  BY <1>1 DEF LogInv, Shape
<1>3. /\ file' \in Seq(AnyLine) /\ Digests'
      /\ \A h : (\E n \in DOMAIN file : file[n].hash = h /\ file[n].kept = "line")
              => \E n \in DOMAIN file' : file'[n].hash = h /\ file'[n].kept = "line"
  BY <1>1, <1>2, AppendLogged
<1> QED BY <1>1, <1>3 DEF LogInv, Shape, Logged, Running

LEMMA ReturnLogged ==
    ASSUME LogInv, NEW t \in Threads, LogReturns(t)
    PROVE  LogInv'
<1>1. /\ line[t] # None /\ Written(t)
      /\ line' = [line EXCEPT ![t] = None]
      /\ lock' = [lock EXCEPT ![ProcessOf[t]] = None]
      /\ tail' = [tail EXCEPT ![ProcessOf[t]] = <<line[t].seq, line[t].hash>>]
      /\ returned' = returned \cup {line[t].hash}
      /\ UNCHANGED <<file, calls>>
  BY DEF LogReturns, Release
<1>2. <<line[t].seq, line[t].hash>> \in Nat \X Nat
  BY <1>1 DEF LogInv, Shape, AnyLine
<1>3. <<line[t].seq, line[t].hash>> # None
  BY <1>2, NoneAssumption
<1>4. Shape' /\ Running'
  BY <1>1, <1>2, <1>3, ProcessOfAssumption DEF LogInv, Shape, Running
<1>5. \A u \in Threads : line'[u] # None => line[u] # None /\ line'[u] = line[u]
  BY <1>1 DEF LogInv, Shape
<1>6. Digests'
  BY <1>1, <1>5 DEF LogInv, Digests
<1>7. \E n \in DOMAIN file : file[n].hash = line[t].hash /\ file[n].kept = "line"
  BY <1>1 DEF Written, LogInv, Digests
<1>8. Logged'
  BY <1>1, <1>7 DEF LogInv, Logged
<1> QED BY <1>4, <1>6, <1>8 DEF LogInv

\* Nothing of a line, or its beginning, is written, and its thread lets go of it.
LEMMA CutShortLogged ==
    ASSUME LogInv, NEW t \in Threads, CutShort(t), UNCHANGED calls,
           \A u \in Threads : line'[u] # None => u # t /\ line'[u] = line[u]
    PROVE  /\ file' \in Seq(AnyLine) /\ Digests'
           /\ \A h : (\E n \in DOMAIN file : file[n].hash = h /\ file[n].kept = "line")
                   => \E n \in DOMAIN file' : file'[n].hash = h /\ file'[n].kept = "line"
<1>1. CASE UNCHANGED file
  BY <1>1 DEF LogInv, Shape, Digests
<1>2. CASE line[t] # None /\ ~Written(t) /\ file' # file
  <2>1. PICK kept \in {"text", "part"} : file' = Append(file, [line[t] EXCEPT !.kept = kept])
    BY <1>2 DEF CutShort, Cut
  <2>2. /\ [line[t] EXCEPT !.kept = kept] \in AnyLine
        /\ [line[t] EXCEPT !.kept = kept].hash = line[t].hash
    BY <1>2, <2>1 DEF LogInv, Shape, AnyLine
  <2> QED BY <1>2, <2>1, <2>2, AppendLogged
<1> QED BY <1>1, <1>2 DEF CutShort

LEMMA WriteFailsLogged ==
    ASSUME LogInv, NEW t \in Threads, WriteFails(t)
    PROVE  LogInv'
<1>1. /\ CutShort(t) /\ line' = [line EXCEPT ![t] = None]
      /\ lock' = [lock EXCEPT ![ProcessOf[t]] = None]
      /\ UNCHANGED <<tail, calls, returned>>
  BY DEF WriteFails, Release
<1>2. \A u \in Threads : line'[u] # None => u # t /\ line'[u] = line[u]
  BY <1>1 DEF LogInv, Shape
<1>3. /\ file' \in Seq(AnyLine) /\ Digests'
      /\ \A h : (\E n \in DOMAIN file : file[n].hash = h /\ file[n].kept = "line")
              => \E n \in DOMAIN file' : file'[n].hash = h /\ file'[n].kept = "line"
  BY <1>1, <1>2, CutShortLogged
<1>4. Shape' /\ Running'
  BY <1>1, <1>3, ProcessOfAssumption DEF LogInv, Shape, Running
<1> QED BY <1>1, <1>3, <1>4 DEF LogInv, Logged

\* A program stops.
LEMMA StoppedLogged ==
    ASSUME LogInv, NEW p \in Processes, Stopped(p), file' \in Seq(AnyLine)
    PROVE  /\ Shape' /\ Running' /\ UNCHANGED calls
           /\ \A u \in Threads : line'[u] # None => ProcessOf[u] # p /\ line'[u] = line[u]
<1>1. \A u \in Threads : line'[u] = IF ProcessOf[u] = p THEN None ELSE line[u]
  BY DEF Stopped
<1>2. line' \in [Threads -> AnyLine \cup {None}]
  BY DEF Stopped, LogInv, Shape
<1> QED BY <1>1, <1>2, ProcessOfAssumption DEF Stopped, LogInv, Shape, Running

LEMMA CrashLogged ==
    ASSUME LogInv, NEW p \in Processes, Crash(p)
    PROVE  LogInv'
<1>1. Stopped(p) /\ UNCHANGED <<calls, returned>>
  BY DEF Crash, Stopped
<1>2. \A u \in Threads : line'[u] # None => ProcessOf[u] # p /\ line'[u] = line[u]
  BY <1>1 DEF Stopped
<1>3. /\ file' \in Seq(AnyLine) /\ Digests'
      /\ \A h : (\E n \in DOMAIN file : file[n].hash = h /\ file[n].kept = "line")
              => \E n \in DOMAIN file' : file'[n].hash = h /\ file'[n].kept = "line"
  <2>1. CASE UNCHANGED file
    BY <1>1, <1>2, <2>1 DEF LogInv, Shape, Digests
  <2>2. CASE \E t \in Threads : ProcessOf[t] = p /\ CutShort(t)
    <3>1. PICK t \in Threads : ProcessOf[t] = p /\ CutShort(t)
      BY <2>2
    <3>2. \A u \in Threads : line'[u] # None => u # t /\ line'[u] = line[u]
      BY <1>2, <3>1
    <3> QED BY <1>1, <3>1, <3>2, CutShortLogged
  <2> QED BY <2>1, <2>2 DEF Crash
<1>4. Shape' /\ Running'
  BY <1>1, <1>3, StoppedLogged
<1> QED BY <1>1, <1>3, <1>4 DEF LogInv, Logged

\* What a loss of power leaves of the file: its first n lines, the last cut short or not.
LEMMA PowerLossLeaves ==
    ASSUME LogInv, NEW p \in Processes, PowerLoss(p)
    PROVE  \E n \in 0 .. Len(file) :
             /\ file' \in Seq(AnyLine) /\ DOMAIN file' = 1 .. n /\ 1 .. n \subseteq DOMAIN file
             /\ \A k \in 1 .. n : /\ file'[k].hash = file[k].hash
                                  /\ file'[k] = file[k] \/ file'[k].kept # "line"
<1>1. PICK n \in 0 .. Len(file) :
        \/ file' = SubSeq(file, 1, n)
        \/ n # 0 /\ \E kept \in Cut[file[n].kept] :
                        file' = [SubSeq(file, 1, n) EXCEPT ![n].kept = kept]
  BY DEF PowerLoss
<1> DEFINE s == SubSeq(file, 1, n)
<1>2. file \in Seq(AnyLine) /\ Len(file) \in Nat
  BY DEF LogInv, Shape
<1>3. /\ s \in Seq(AnyLine) /\ DOMAIN s = 1 .. n /\ 1 .. n \subseteq DOMAIN file
      /\ \A k \in 1 .. n : s[k] = file[k]
  BY <1>2
<1> HIDE DEF s
<1>4. CASE file' = s
  BY <1>3, <1>4
<1>5. CASE n # 0 /\ \E kept \in Cut[file[n].kept] : file' = [s EXCEPT ![n].kept = kept]
  <2>1. PICK kept \in Cut[file[n].kept] : file' = [s EXCEPT ![n].kept = kept]
    BY <1>5
  <2>2. n \in 1 .. n /\ file[n] \in AnyLine
    BY <1>2, <1>3, <1>5
  <2>3. kept \in {"text", "part"}
    BY <2>1, <2>2 DEF Cut, AnyLine
  <2>4. [s[n] EXCEPT !.kept = kept] \in AnyLine
        /\ [s[n] EXCEPT !.kept = kept].hash = file[n].hash
        /\ [s[n] EXCEPT !.kept = kept].kept # "line"
    BY <1>3, <2>2, <2>3 DEF AnyLine
  <2>5. file' = [s EXCEPT ![n] = [s[n] EXCEPT !.kept = kept]]
    BY <2>1
  <2>6. file' \in Seq(AnyLine) /\ DOMAIN file' = 1 .. n
    BY <1>3, <2>2, <2>4, <2>5
  <2>7. \A k \in 1 .. n : file'[k] = IF k = n THEN [s[n] EXCEPT !.kept = kept] ELSE file[k]
    BY <1>3, <2>2, <2>5
  <2> QED BY <1>3, <2>4, <2>6, <2>7
<1> QED BY <1>1, <1>4, <1>5 DEF s

LEMMA PowerLossLogged ==
    ASSUME LogInv, NEW p \in Processes, PowerLoss(p)
    PROVE  LogInv'
<1>1. Stopped(p) /\ (\A q \in Processes \ {p} : tail[q] = None)
  BY DEF PowerLoss
<1>2. PICK n \in 0 .. Len(file) :
        /\ file' \in Seq(AnyLine) /\ DOMAIN file' = 1 .. n /\ 1 .. n \subseteq DOMAIN file
        /\ \A k \in 1 .. n : /\ file'[k].hash = file[k].hash
                             /\ file'[k] = file[k] \/ file'[k].kept # "line"
  BY PowerLossLeaves
<1>3. Shape' /\ Running' /\ UNCHANGED calls
      /\ \A u \in Threads : line'[u] # None => ProcessOf[u] # p /\ line'[u] = line[u]
  BY <1>1, <1>2, StoppedLogged
<1>4. \A u \in Threads : line'[u] = None
  BY <1>1, <1>3, ProcessOfAssumption DEF LogInv, Running
<1>5. Digests'
  BY <1>2, <1>3, <1>4 DEF LogInv, Digests
<1>6. Logged'
  BY DEF PowerLoss, Logged
<1> QED BY <1>3, <1>5, <1>6 DEF LogInv

LEMMA LoggedStep ==
    ASSUME LogInv, [Next]_vars
    PROVE  LogInv'
<1>1. ASSUME NEW t \in Threads,
             Acquire(t) \/ Compute(t) \/ WriteLine(t) \/ LogReturns(t) \/ WriteFails(t)
      PROVE  LogInv'
  BY <1>1, AcquireLogged, ComputeLogged, WriteLogged, ReturnLogged, WriteFailsLogged
<1>2. ASSUME NEW p \in Processes, Open(p) \/ Crash(p) \/ PowerLoss(p)
      PROVE  LogInv'
  BY <1>2, OpenLogged, CrashLogged, PowerLossLogged
<1>3. CASE UNCHANGED vars
  <2>1. UNCHANGED <<file, tail, lock, line, calls, returned>>
    BY <1>3 DEF vars
  <2> QED BY <2>1 DEF LogInv, Shape, Digests, Logged, Running
<1> QED BY <1>1, <1>2, <1>3 DEF Next

\* With any number of programs and threads that log to the file, which may break its
\* chain: what log() has returned for stays whole in the file, once, through write
\* errors, crashes and restarts, until a loss of power takes it back.
THEOREM ReturnedAlwaysLogged == Spec => []ReturnedIsLogged
<1>1. Init => LogInv
  BY InitLogInv
<1>2. LogInv /\ [Next]_vars => LogInv'
  BY LoggedStep
<1>3. LogInv => ReturnedIsLogged
  BY DEF LogInv, Logged, Digests, ReturnedIsLogged
<1> QED BY <1>1, <1>2, <1>3, PTL DEF Spec

-----------------------------------------------------------------------------
(* The audit log: its chain, with one program *)

\* None of the first n lines bears the mark of an error.
Clean(n) == \A m \in 1 .. n : ~Marked(m)

\* ... and the last of them did not end in an error either.
Known(n) == Clean(n) /\ (n # 0 => file[n].hash \notin unread)

\* <<number, digest>> of the end of the first n lines.
EndOf(n) == IF n = 0 THEN <<0, Genesis>> ELSE <<n, file[n].hash>>

\* Thread t has computed a line that follows the lines its program knows of.
Follows(t) ==
    LET p == ProcessOf[t]
    IN  /\ lock[p] = t
        /\ line[t].seq = tail[p][1] + 1 /\ line[t].prev = tail[p][2]

LastWritten(t) == file # <<>> /\ line[t] = file[Len(file)]

\* The number of lines before the one a thread has written and not yet finished.
Settled == IF \E t \in Threads : line[t] # None /\ LastWritten(t) THEN Len(file) - 1 ELSE Len(file)

ChainSound == \A n \in DOMAIN file : Clean(n) => Chained(n)

Ordered ==
    \A t \in Threads : line[t] # None =>
        Follows(t) /\ \A n \in DOMAIN file : file[n] = line[t] => n = Len(file)

KnowsEnd == \A p \in Processes : tail[p] # None => (Known(Settled) => tail[p] = EndOf(Settled))

ChainInv == ChainSound /\ Ordered /\ KnowsEnd

\* One program logs to the file.
OneProgram == \A p, q \in Processes : p = q

LEMMA FileFacts ==
    ASSUME LogInv
    PROVE  /\ file \in Seq(AnyLine) /\ Len(file) \in Nat /\ DOMAIN file = 1 .. Len(file)
           /\ file # <<>> => Len(file) \in DOMAIN file
           /\ \A n \in DOMAIN file : file[n] \in AnyLine /\ n \in Nat \ {0}
BY DEF LogInv, Shape

\* Two threads of one program cannot both have computed a line.
LEMMA OneLine ==
    ASSUME Ordered, OneProgram, NEW t \in Threads, NEW u \in Threads,
           line[t] # None, line[u] # None
    PROVE  t = u
<1>1. ProcessOf[t] = ProcessOf[u]
  BY ProcessOfAssumption DEF OneProgram
<1> QED BY <1>1 DEF Ordered, Follows

\* A line bears the same mark when it and the line before are as they were.
LEMMA SameMark ==
    ASSUME NEW n \in Nat, file'[n] = file[n], n > 1 => file'[n - 1] = file[n - 1],
           n > 1 => (file[n - 1].hash \in unread' <=> file[n - 1].hash \in unread)
    PROVE  Marked(n)' <=> Marked(n)
BY DEF Marked

\* What is left of the lines, with the marks of errors, verifies as far as before.
LEMMA SoundLeft ==
    ASSUME LogInv, ChainSound, file' \in Seq(AnyLine), unread \subseteq unread',
           \A n \in DOMAIN file' :
               file'[n].kept # "line" \/ (n \in DOMAIN file /\ file'[n] = file[n])
    PROVE  ChainSound'
<1> SUFFICES ASSUME NEW n \in DOMAIN file', Clean(n)'
             PROVE  Chained(n)'
  BY DEF ChainSound
<1>1. DOMAIN file' = 1 .. Len(file') /\ Len(file') \in Nat /\ n \in Nat
  OBVIOUS
<1>2. \A m \in 1 .. n : m \in DOMAIN file /\ file'[m] = file[m]
  BY <1>1 DEF Clean, Marked
<1>3. ASSUME NEW m \in 1 .. n
      PROVE  ~Marked(m)
  <2>1. ~Marked(m)' /\ file'[m] = file[m] /\ (m > 1 => file'[m - 1] = file[m - 1])
    BY <1>1, <1>2 DEF Clean
  <2> QED BY <2>1 DEF Marked
<1>4. Chained(n)
  BY <1>1, <1>2, <1>3 DEF ChainSound, Clean
<1> QED BY <1>1, <1>2, <1>4 DEF Chained

LEMMA InitChain == Init => ChainInv
BY DEF Init, ChainInv, ChainSound, Ordered, KnowsEnd

LEMMA OpenChain ==
    ASSUME LogInv, ChainInv, OneProgram, NEW p \in Processes, Open(p)
    PROVE  ChainInv'
<1>0. PICK k \in Nat : k = Len(file)
  BY FileFacts
<1>1. /\ tail[p] = None /\ UNCHANGED <<file, lock, line, calls, returned>>
      /\ unread' = {h \in unread : file # <<>> => h # Last(file).hash}
  BY DEF Open
<1>2. \A t \in Threads : line[t] = None
  BY <1>1, ProcessOfAssumption DEF LogInv, Running, OneProgram
<1>3. ASSUME NEW n \in DOMAIN file
      PROVE  Marked(n)' <=> Marked(n)
  <2>1. ASSUME n > 1
        PROVE  n - 1 \in DOMAIN file /\ file[n - 1].hash # Last(file).hash
    <3>1. n - 1 \in DOMAIN file /\ k \in DOMAIN file /\ n - 1 # k
      BY <1>0, <2>1, FileFacts
    <3> QED BY <1>0, <3>1 DEF LogInv, Digests, Last
  <2> QED BY <1>1, <2>1, FileFacts, SameMark
<1>4. ASSUME NEW n \in DOMAIN file \cup {0}
      PROVE  Clean(n)' <=> Clean(n)
  <2>1. \A m \in 1 .. n : m \in DOMAIN file
    BY FileFacts
  <2> QED BY <1>3, <2>1 DEF Clean
<1>5. ChainSound'
  BY <1>1, <1>4 DEF ChainInv, ChainSound, Chained
<1>6. Ordered' /\ Settled' = k
  BY <1>0, <1>1, <1>2 DEF Ordered, Settled
<1>7. ASSUME NEW q \in Processes, Known(k)'
      PROVE  tail'[q] = (EndOf(k))'
  <2>1. q = p
    BY DEF OneProgram
  <2>2. CASE file = <<>>
    <3>1. k = 0 /\ tail' = [tail EXCEPT ![p] = <<0, Genesis>>]
      BY <1>0, <2>2 DEF Open
    <3> QED BY <2>1, <3>1 DEF EndOf, LogInv, Shape
  <2>3. CASE file # <<>>
    <3>1. k \in DOMAIN file /\ k # 0
      BY <1>0, <2>3, FileFacts
    <3>2. file[k].seq = k
      <4>1. Clean(k)
        BY <1>4, <1>7, <3>1 DEF Known
      <4> QED BY <3>1, <4>1 DEF ChainInv, ChainSound, Chained
    <3>3. tail' = [tail EXCEPT ![p] = <<file[k].seq, file[k].hash>>]
      BY <1>0, <2>3 DEF Open, Last
    <3> QED BY <1>1, <2>1, <3>1, <3>2, <3>3 DEF EndOf, LogInv, Shape
  <2> QED BY <2>2, <2>3
<1> QED BY <1>5, <1>6, <1>7 DEF ChainInv, KnowsEnd

\* The file is left alone, and so are the marks: the chain is as sound as before.
LEMMA SameFile ==
    ASSUME ChainSound, UNCHANGED <<file, unread>>
    PROVE  /\ ChainSound'
           /\ \A n : Known(n)' <=> Known(n)
           /\ \A n : (EndOf(n))' = EndOf(n)
BY DEF ChainSound, Known, Clean, Marked, Chained, EndOf

LEMMA AcquireChain ==
    ASSUME LogInv, ChainInv, OneProgram, NEW t \in Threads, Acquire(t)
    PROVE  ChainInv'
<1>1. UNCHANGED <<file, tail, line, unread>> /\ lock[ProcessOf[t]] = None
  BY DEF Acquire
<1>2. \A u \in Threads : line[u] = None
  <2>1. SUFFICES ASSUME NEW u \in Threads, line[u] # None PROVE FALSE
    OBVIOUS
  <2>2. lock[ProcessOf[u]] = u /\ u # None /\ ProcessOf[u] = ProcessOf[t]
    BY <2>1, ProcessOfAssumption, NoneAssumption DEF ChainInv, Ordered, Follows, OneProgram
  <2> QED BY <1>1, <2>2
<1>3. Ordered' /\ Settled' = Settled
  BY <1>1, <1>2 DEF Ordered, Settled
<1> QED BY <1>1, <1>3, SameFile DEF ChainInv, KnowsEnd

LEMMA ComputeChain ==
    ASSUME LogInv, LogInv', ChainInv, OneProgram, NEW t \in Threads, Compute(t)
    PROVE  ChainInv'
<1> DEFINE p == ProcessOf[t]
<1> DEFINE new == [seq |-> tail[p][1] + 1, prev |-> tail[p][2], hash |-> calls + 1,
                   kept |-> "line"]
<1>1. /\ lock[p] = t /\ line[t] = None /\ p \in Processes
      /\ line' = [line EXCEPT ![t] = new] /\ calls' = calls + 1
      /\ UNCHANGED <<file, tail, lock, unread>>
  BY ProcessOfAssumption DEF Compute
<1>2. \A u \in Threads : line[u] = None
  <2>1. SUFFICES ASSUME NEW u \in Threads, line[u] # None PROVE FALSE
    OBVIOUS
  <2>2. lock[p] = u
    BY <1>1, <2>1, ProcessOfAssumption DEF ChainInv, Ordered, Follows, OneProgram
  <2> QED BY <1>1, <2>1, <2>2
<1>3. line'[t] = new /\ \A u \in Threads \ {t} : line'[u] = None
  BY <1>1, <1>2 DEF LogInv, Shape
<1>4. \A n \in DOMAIN file : file[n] # new
  <2>1. SUFFICES ASSUME NEW n \in DOMAIN file, file[n] = new PROVE FALSE
    OBVIOUS
  <2>2. file[n].hash = calls + 1 /\ file[n].hash <= calls /\ calls \in Nat
    BY <2>1 DEF LogInv, Digests, Shape
  <2> QED BY <2>2
<1>5. Follows(t)'
  BY <1>1, <1>3 DEF Follows
<1> HIDE DEF new
<1>6. Ordered'
  BY <1>1, <1>3, <1>4, <1>5 DEF Ordered
<1>7. Settled' = Settled
  BY <1>1, <1>2, <1>3, <1>4, FileFacts DEF Settled, LastWritten
<1> QED BY <1>1, <1>6, <1>7, SameFile DEF ChainInv, KnowsEnd

\* What the invariant says of a thread that has computed its line and not written it.
LEMMA Pending ==
    ASSUME LogInv, ChainInv, OneProgram, NEW t \in Threads, line[t] # None, ~Written(t)
    PROVE  /\ ProcessOf[t] \in Processes /\ line[t] \in AnyLine /\ line[t].kept = "line"
           /\ Settled = Len(file)
           /\ Known(Len(file)) => /\ tail[ProcessOf[t]] = EndOf(Len(file))
                                  /\ line[t].seq = Len(file) + 1
                                  /\ line[t].prev = EndOf(Len(file))[2]
<1>1. ProcessOf[t] \in Processes /\ line[t] \in AnyLine /\ line[t].kept = "line"
      /\ tail[ProcessOf[t]] # None
  BY ProcessOfAssumption DEF LogInv, Shape, Digests, Running
<1>2. Settled = Len(file)
  <2>1. SUFFICES ASSUME NEW u \in Threads, line[u] # None, LastWritten(u) PROVE FALSE
    BY DEF Settled
  <2>2. u = t
    BY <2>1, OneLine DEF ChainInv
  <2> QED BY <2>1, <2>2, FileFacts DEF LastWritten, Written
<1>3. Len(file) \in Nat /\ EndOf(Len(file))[1] = Len(file)
  BY FileFacts DEF EndOf
<1> QED BY <1>1, <1>2, <1>3 DEF ChainInv, KnowsEnd, Ordered, Follows

\* One more line: the marks on the others are as before.
LEMMA OneMoreLine ==
    ASSUME LogInv, NEW piece, file' = Append(file, piece), UNCHANGED unread
    PROVE  /\ DOMAIN file' = 1 .. Len(file) + 1 /\ Len(file') = Len(file) + 1
           /\ file'[Len(file) + 1] = piece
           /\ \A n \in 1 .. Len(file) : file'[n] = file[n]
           /\ \A n \in 0 .. Len(file) : /\ Clean(n)' <=> Clean(n)
                                        /\ Known(n)' <=> Known(n)
                                        /\ (EndOf(n))' = EndOf(n)
<1>1. /\ DOMAIN file' = 1 .. Len(file) + 1 /\ Len(file') = Len(file) + 1
      /\ file'[Len(file) + 1] = piece
      /\ \A n \in 1 .. Len(file) : file'[n] = file[n]
  BY FileFacts
<1>2. ASSUME NEW n \in 1 .. Len(file)
      PROVE  Marked(n)' <=> Marked(n)
  <2>1. n \in Nat /\ (n > 1 => n - 1 \in 1 .. Len(file))
    BY FileFacts
  <2> QED BY <1>1, <2>1, SameMark
<1>3. ASSUME NEW n \in 0 .. Len(file)
      PROVE  /\ Clean(n)' <=> Clean(n)
             /\ Known(n)' <=> Known(n)
             /\ (EndOf(n))' = EndOf(n)
  <2>1. (\A m \in 1 .. n : m \in 1 .. Len(file)) /\ (n # 0 => n \in 1 .. Len(file))
    BY FileFacts
  <2>2. Clean(n)' <=> Clean(n)
    BY <1>2, <2>1 DEF Clean
  <2>3. n # 0 => file'[n] = file[n]
    BY <1>1, <2>1
  <2> QED BY <2>2, <2>3 DEF Known, EndOf
<1> QED BY <1>1, <1>3

LEMMA WriteChain ==
    ASSUME LogInv, ChainInv, OneProgram, NEW t \in Threads, WriteLine(t)
    PROVE  ChainInv'
<1> DEFINE p == ProcessOf[t]
<1>0. PICK k \in Nat : k = Len(file)
  BY FileFacts
<1>1. /\ line[t] # None /\ ~Written(t) /\ file' = Append(file, line[t])
      /\ UNCHANGED <<tail, lock, line, calls, unread>>
  BY DEF WriteLine
<1>2. /\ p \in Processes /\ line[t].kept = "line" /\ Settled = k
      /\ Known(k) => /\ tail[p] = EndOf(k)
                     /\ line[t].seq = k + 1 /\ line[t].prev = EndOf(k)[2]
  BY <1>0, <1>1, Pending
<1>3. /\ DOMAIN file' = 1 .. k + 1 /\ Len(file') = k + 1 /\ k \in Nat
      /\ file'[k + 1] = line[t]
      /\ \A n \in 1 .. k : file'[n] = file[n]
      /\ \A n \in 0 .. k : /\ Clean(n)' <=> Clean(n)
                           /\ Known(n)' <=> Known(n)
                           /\ (EndOf(n))' = EndOf(n)
  BY <1>0, <1>1, OneMoreLine, FileFacts
<1>4. ChainSound'
  <2>1. ASSUME NEW n \in 1 .. k, Clean(n)'
        PROVE  Chained(n)'
    <3>1. Chained(n) /\ (n # 1 => n - 1 \in 1 .. k)
      BY <1>0, <1>3, <2>1, FileFacts DEF ChainInv, ChainSound
    <3> QED BY <1>3, <3>1 DEF Chained
  <2>2. ASSUME Clean(k + 1)'
        PROVE  Chained(k + 1)'
    <3>1. Clean(k)' /\ ~Marked(k + 1)'
      BY <1>3, <2>2 DEF Clean
    <3>2. k # 0 => file[k].hash \notin unread
      <4>1. SUFFICES ASSUME k # 0 PROVE file[k].hash \notin unread
        OBVIOUS
      <4>2. k + 1 > 1 /\ k + 1 - 1 = k /\ k \in 1 .. k
        BY <1>3, <4>1
      <4> QED BY <1>1, <1>3, <3>1, <4>2 DEF Marked
    <3>3. Known(k)
      BY <1>3, <3>1, <3>2 DEF Known
    <3>4. k # 0 => k \in 1 .. k /\ k + 1 - 1 = k
      BY <1>3
    <3> QED BY <1>2, <1>3, <3>3, <3>4 DEF Chained, EndOf
  <2>3. \A n \in DOMAIN file' : n \in 1 .. k \/ n = k + 1
    BY <1>3
  <2> QED BY <2>1, <2>2, <2>3 DEF ChainSound
<1>5. Ordered'
  <2>1. \A u \in Threads : line[u] # None => u = t
    BY <1>1, OneLine DEF ChainInv
  <2>2. Follows(t)'
    BY <1>1 DEF ChainInv, Ordered, Follows
  <2>3. \A n \in DOMAIN file' : file'[n] = line[t] => n = Len(file')
    BY <1>0, <1>1, <1>3, FileFacts DEF Written
  <2> QED BY <1>1, <2>1, <2>2, <2>3 DEF Ordered
<1>6. Settled' = k
  <2>1. LastWritten(t)'
    BY <1>1, <1>3 DEF LastWritten
  <2>2. Settled' = Len(file') - 1
    BY <1>1, <2>1 DEF Settled
  <2> QED BY <1>3, <2>2
<1> QED BY <1>1, <1>2, <1>3, <1>4, <1>5, <1>6 DEF ChainInv, KnowsEnd

LEMMA ReturnChain ==
    ASSUME LogInv, ChainInv, OneProgram, NEW t \in Threads, LogReturns(t)
    PROVE  ChainInv'
<1> DEFINE p == ProcessOf[t]
           k == Len(file)
<1>1. /\ line[t] # None /\ Written(t) /\ p \in Processes
      /\ line' = [line EXCEPT ![t] = None]
      /\ tail' = [tail EXCEPT ![p] = <<line[t].seq, line[t].hash>>]
      /\ UNCHANGED <<file, unread>>
  BY ProcessOfAssumption DEF LogReturns, Release
<1>2. \A u \in Threads : line'[u] = None
  BY <1>1, OneLine DEF ChainInv, LogInv, Shape
<1>3. Ordered' /\ Settled' = k
  BY <1>1, <1>2 DEF Ordered, Settled
<1>4. line[t] = file[k] /\ k \in DOMAIN file /\ k # 0
  BY <1>1, FileFacts DEF Written, ChainInv, Ordered
<1>5. ASSUME NEW q \in Processes, Known(k)
      PROVE  tail'[q] = EndOf(k)
  <2>1. q = p
    BY <1>1 DEF OneProgram
  <2>2. file[k].seq = k
    BY <1>4, <1>5 DEF Known, ChainInv, ChainSound, Chained
  <2> QED BY <1>1, <1>4, <2>1, <2>2 DEF EndOf, LogInv, Shape
<1> QED BY <1>1, <1>3, <1>5, SameFile DEF ChainInv, KnowsEnd

LEMMA WriteFailsChain ==
    ASSUME LogInv, LogInv', ChainInv, OneProgram, NEW t \in Threads, WriteFails(t)
    PROVE  ChainInv'
<1>0. PICK k \in Nat : k = Len(file)
  BY FileFacts
<1>1. /\ line[t] # None /\ CutShort(t) /\ UNCHANGED tail
      /\ line' = [line EXCEPT ![t] = None]
      /\ unread' = IF Written(t) THEN unread \cup {line[t].hash} ELSE unread
  BY DEF WriteFails, Release
<1>2. \A u \in Threads : line'[u] = None
  BY <1>1, OneLine DEF ChainInv, LogInv, Shape
<1>3. Ordered' /\ Settled' = Len(file')
  BY <1>2 DEF Ordered, Settled
<1>4. CASE UNCHANGED file /\ ~Written(t)
  <2>1. Settled = k
    BY <1>0, <1>1, <1>4, Pending
  <2> QED BY <1>0, <1>1, <1>3, <1>4, <2>1, SameFile DEF ChainInv, KnowsEnd
<1>5. CASE UNCHANGED file /\ Written(t)
  <2>1. line[t] = file[k] /\ k \in DOMAIN file /\ k # 0
    BY <1>0, <1>1, <1>5, FileFacts DEF Written, ChainInv, Ordered
  <2>2. ~Known(k)'
    BY <1>1, <1>5, <2>1 DEF Known
  <2>3. ChainSound'
    BY <1>1, <1>5, FileFacts, SoundLeft DEF ChainInv
  <2> QED BY <1>0, <1>3, <1>5, <2>2, <2>3 DEF ChainInv, KnowsEnd
<1>6. CASE ~Written(t) /\ \E kept \in Cut["line"] :
              file' = Append(file, [line[t] EXCEPT !.kept = kept])
  <2>1. PICK kept \in {"text", "part"} : file' = Append(file, [line[t] EXCEPT !.kept = kept])
    BY <1>6 DEF Cut
  <2> DEFINE piece == [line[t] EXCEPT !.kept = kept]
  <2>2. piece \in AnyLine /\ piece.kept # "line"
    BY <1>1, <2>1 DEF LogInv, Shape, AnyLine
  <2> HIDE DEF piece
  <2>3. file' = Append(file, piece) /\ UNCHANGED unread
    BY <1>1, <1>6, <2>1 DEF piece
  <2>4. /\ DOMAIN file' = 1 .. k + 1 /\ Len(file') = k + 1 /\ file'[k + 1] = piece
        /\ k \in Nat /\ \A n \in 1 .. k : file'[n] = file[n]
    BY <1>0, <2>3, OneMoreLine, FileFacts
  <2>5. ~Known(k + 1)'
    <3>1. k + 1 \in 1 .. k + 1 /\ Marked(k + 1)'
      BY <2>2, <2>4 DEF Marked
    <3> QED BY <3>1 DEF Known, Clean
  <2>6. ChainSound'
    <3>1. file' \in Seq(AnyLine)
      BY DEF LogInv, Shape
    <3>2. \A n \in DOMAIN file' :
            file'[n].kept # "line" \/ (n \in DOMAIN file /\ file'[n] = file[n])
      BY <1>0, <2>2, <2>4, FileFacts
    <3> QED BY <2>3, <3>1, <3>2, SoundLeft DEF ChainInv
  <2> QED BY <1>3, <2>4, <2>5, <2>6 DEF ChainInv, KnowsEnd
<1> QED BY <1>1, <1>4, <1>5, <1>6 DEF CutShort

\* The program stops, and the last line may be cut short.
LEMMA StoppedChain ==
    ASSUME LogInv, LogInv', ChainInv, OneProgram, NEW p \in Processes, Stopped(p),
           \A n \in DOMAIN file' :
               file'[n].kept # "line" \/ (n \in DOMAIN file /\ file'[n] = file[n])
    PROVE  ChainInv'
<1>1. \A q \in Processes : q = p
  BY DEF OneProgram
<1>2. tail'[p] = None /\ UNCHANGED unread
  BY DEF Stopped, LogInv, Shape
<1>3. \A t \in Threads : line'[t] = None
  BY <1>1, ProcessOfAssumption DEF Stopped
<1>4. ChainSound'
  BY <1>2, SoundLeft DEF ChainInv, LogInv, Shape
<1> QED BY <1>1, <1>2, <1>3, <1>4 DEF ChainInv, Ordered, KnowsEnd

LEMMA CrashChain ==
    ASSUME LogInv, LogInv', ChainInv, OneProgram, NEW p \in Processes, Crash(p)
    PROVE  ChainInv'
<1>1. Stopped(p)
  BY DEF Crash
<1>2. CASE UNCHANGED file
  BY <1>1, <1>2, StoppedChain
<1>3. CASE \E t \in Threads : line[t] # None /\ \E kept \in Cut["line"] :
              file' = Append(file, [line[t] EXCEPT !.kept = kept])
  <2>1. PICK t \in Threads : line[t] # None /\ \E kept \in Cut["line"] :
              file' = Append(file, [line[t] EXCEPT !.kept = kept])
    BY <1>3
  <2>2. PICK kept \in {"text", "part"} : file' = Append(file, [line[t] EXCEPT !.kept = kept])
    BY <2>1 DEF Cut
  <2>3. line[t] \in AnyLine
    BY <2>1 DEF LogInv, Shape
  <2>4. [line[t] EXCEPT !.kept = kept].kept # "line"
    BY <2>2, <2>3 DEF AnyLine
  <2>5. UNCHANGED unread
    BY <1>1 DEF Stopped
  <2>6. \A n \in DOMAIN file' :
          file'[n].kept # "line" \/ (n \in DOMAIN file /\ file'[n] = file[n])
    BY <2>2, <2>4, <2>5, OneMoreLine, FileFacts
  <2> QED BY <1>1, <2>6, StoppedChain
<1> QED BY <1>2, <1>3 DEF Crash, CutShort

LEMMA PowerLossChain ==
    ASSUME LogInv, LogInv', ChainInv, OneProgram, NEW p \in Processes, PowerLoss(p)
    PROVE  ChainInv'
<1>1. Stopped(p)
  BY DEF PowerLoss
<1>2. \A n \in DOMAIN file' :
        file'[n].kept # "line" \/ (n \in DOMAIN file /\ file'[n] = file[n])
  BY PowerLossLeaves
<1> QED BY <1>1, <1>2, StoppedChain

LEMMA ChainStep ==
    ASSUME OneProgram, LogInv, LogInv', ChainInv, [Next]_vars
    PROVE  ChainInv'
<1>1. ASSUME NEW t \in Threads,
             Acquire(t) \/ Compute(t) \/ WriteLine(t) \/ LogReturns(t) \/ WriteFails(t)
      PROVE  ChainInv'
  BY <1>1, AcquireChain, ComputeChain, WriteChain, ReturnChain, WriteFailsChain
<1>2. ASSUME NEW p \in Processes, Open(p) \/ Crash(p) \/ PowerLoss(p)
      PROVE  ChainInv'
  BY <1>2, OpenChain, CrashChain, PowerLossChain
<1>3. CASE UNCHANGED vars
  <2>1. UNCHANGED <<file, tail, lock, line, calls, returned, unread>>
    BY <1>3 DEF vars
  <2>2. Ordered' /\ Settled' = Settled
    BY <2>1 DEF ChainInv, Ordered, Follows, Settled, LastWritten
  <2> QED BY <2>1, <2>2, SameFile DEF ChainInv, KnowsEnd
<1> QED BY <1>1, <1>2, <1>3 DEF Next

\* The audit log of one program verifies up to the first line that bears the mark of
\* an error, in every reachable state and for any number of threads and entries: what
\* breaks its chain is a line cut short, or one whose log() raised although it was
\* written, and not a schedule, a crash or a restart.
THEOREM AlwaysVerifiesUpToErrors ==
    ASSUME OneProgram
    PROVE  Spec => []VerifiesUpToErrors
<1>1. Init => LogInv /\ ChainInv
  BY InitLogInv, InitChain
<1>2. LogInv /\ ChainInv /\ [Next]_vars => LogInv' /\ ChainInv'
  BY LoggedStep, ChainStep
<1>3. LogInv /\ ChainInv => VerifiesUpToErrors
  <2>1. SUFFICES ASSUME LogInv, ChainInv, NEW n \in DOMAIN file, Clean(n)
                 PROVE  Readable(n) /\ Chained(n)
    BY DEF VerifiesUpToErrors, Clean
  <2>2. n \in 1 .. n /\ (n > 1 => n - 1 \in 1 .. n)
    BY <2>1, FileFacts
  <2>3. ~Marked(n) /\ (n > 1 => ~Marked(n - 1))
    BY <2>1, <2>2 DEF Clean
  <2> QED BY <2>1, <2>3 DEF Readable, Marked, ChainInv, ChainSound
<1> QED BY <1>1, <1>2, <1>3, PTL DEF Spec
=================================================================================
