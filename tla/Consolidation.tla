----------------------------- MODULE Consolidation -----------------------------
(***************************************************************************)
(* The consolidation job (src/mysti/memory/consolidation.py): remove exact *)
(* duplicates, merge similar records pair by pair, re-score importance,    *)
(* and add the job to an encrypted history.  It works from lists of the    *)
(* records read once per phase, and changes the records one call of the    *)
(* memory service at a time; a merge takes five calls.                     *)
(*                                                                         *)
(* A call of the memory service is one step (MemoryService has what is     *)
(* inside).  A record is its place in the order of the index, which is the *)
(* order of creation.  Its content is the sequence of pieces it was put    *)
(* together from, its hash is its content.  Whether two records are        *)
(* similar is left open, and so are the records without an embedding (they *)
(* are similar to none).                                                   *)
(***************************************************************************)
EXTENDS Naturals, Sequences, FiniteSets, SequencesExt, FiniteSetsExt

CONSTANTS
    MaxRecords,     \* bound on the records ever stored
    Pieces,
    Tags,
    MaxImportance,  \* 10 in the code
    Given,          \* the importances the user gives, after clamping
    Frequent,       \* 5 in the code: accesses that make a record important
    MaxPieces,      \* the longest content max_record_bytes admits, in pieces
    MaxJobs,        \* 50 in the code: the jobs the history keeps
    Interleaved,    \* TRUE: the user's calls may come between the job's
    Faults,         \* subset of {"error", "crash"}
    None

Records == 1 .. MaxRecords

Record == [content : Seq(Pieces), tags : SUBSET Tags, importance : 1 .. MaxImportance,
           uses : 0 .. Frequent, live : BOOLEAN]

Job == [status : {"completed", "failed"}, ended : BOOLEAN]

ASSUME BoundsAssumption ==
    /\ Given \subseteq 1 .. MaxImportance
    /\ MaxRecords \in Nat /\ MaxImportance \in Nat \ {0}
    /\ Frequent \in Nat /\ MaxPieces \in Nat /\ MaxJobs \in Nat

ASSUME NoneAssumption == None \notin Record

VARIABLES
    record,     \* record[r]: the index entry and content of r, None if not stored yet
    history,    \* the recorded jobs, oldest first
    job         \* the job in progress

vars == <<record, history, job>>

\* phase: 1 deduplicate(), 2 the deduplicate() inside consolidate(), 3 merging,
\* 4 update_importance(); view: the list of the phase; todo: the records still
\* to delete or re-score; pair: the two being merged, or the last two that were.
NoJob == [pc |-> "idle", phase |-> 0, view |-> <<>>, todo |-> {}, gone |-> {},
          pair |-> <<0, 0>>, first |-> <<>>, second |-> <<>>, status |-> "running"]

TypeOK ==
    /\ record \in [Records -> Record \cup {None}]
    /\ history \in Seq(Job) /\ Len(history) <= MaxJobs
    /\ job.pc \in {"idle", "entries", "delete", "choose", "read", "update",
                   "describe", "remove", "rescore", "append"}
    /\ job.phase \in 0 .. 4
    /\ job.view = <<>> \/ job.view \in [Records -> Record \cup {None}]
    /\ job.todo \subseteq Records /\ job.gone \subseteq Records
    /\ job.pair \in (0 .. MaxRecords) \X (0 .. MaxRecords)
    /\ job.first \in Seq(Pieces) /\ job.second \in Seq(Pieces)
    /\ job.status \in {"running", "completed", "failed"}

Init ==
    /\ record = [r \in Records |-> None]
    /\ history = <<>>
    /\ job = NoJob

-----------------------------------------------------------------------------
IsLive(r) == record[r] # None /\ record[r].live

\* entries(): the live records, in the index's order.
Entries == [r \in Records |-> IF IsLive(r) THEN record[r] ELSE None]

Listed(view) == {r \in Records : view[r] # None}

\* Newest first, so what goes is what has a newer record of the same content.
Duplicates(view) ==
    {r \in Listed(view) : \E s \in Listed(view) : s > r /\ view[s].content = view[r].content}

Clamped(n) == IF n < 1 THEN 1 ELSE IF n > MaxImportance THEN MaxImportance ELSE n

Larger(m, n) == IF m > n THEN m ELSE n

\* The end of the work, successful or not: the job is to be recorded.
Ends(status) == [NoJob EXCEPT !.pc = "append", !.status = status]

Begins(phase) == [NoJob EXCEPT !.pc = "entries", !.phase = phase]

StartRun ==
    /\ job.pc = "idle"
    /\ job' = Begins(1)
    /\ UNCHANGED <<record, history>>

\* The list of each phase, and what the phase is about to do.
ReadEntries ==
    /\ job.pc = "entries"
    /\ job' = CASE job.phase \in {1, 2} ->
                    [job EXCEPT !.pc = "delete", !.view = Entries, !.todo = Duplicates(Entries)]
                [] job.phase = 3 -> [job EXCEPT !.pc = "choose", !.view = Entries]
                [] job.phase = 4 ->
                    [job EXCEPT !.pc = "rescore", !.view = Entries, !.todo = Listed(Entries)]
    /\ UNCHANGED <<record, history>>

\* delete() takes any record of the index, deleted or not.
DeleteDuplicate ==
    /\ job.pc = "delete" /\ job.todo # {}
    /\ record' = [record EXCEPT ![Max(job.todo)].live = FALSE]
    /\ job' = [job EXCEPT !.todo = @ \ {Max(@)}]
    /\ UNCHANGED history

\* The phase is over; skip_importance leaves the last one out.
NextPhase ==
    /\ \/ job.pc = "delete" /\ job.todo = {} /\ job' = Begins(job.phase + 1)
       \/ job.pc = "choose" /\ job' \in {Begins(4), Ends("completed")}
       \/ job.pc = "rescore" /\ job.todo = {} /\ job' = Ends("completed")
    /\ UNCHANGED <<record, history>>

-----------------------------------------------------------------------------
(* Merging a pair: the similarities were computed from the list, the contents   *)
(* are read now, and the tags and importance come from the list again.          *)

Follows(p, q) == p[1] > q[1] \/ (p[1] = q[1] /\ p[2] > q[2])

\* The next similar pair neither of which has been merged into another.
ChoosePair ==
    /\ job.pc = "choose"
    /\ \E i, j \in Listed(job.view) \ job.gone :
        /\ i < j /\ Follows(<<i, j>>, job.pair)
        /\ job' = [job EXCEPT !.pc = "read", !.pair = <<i, j>>,
                             !.first = record[i].content]
    /\ UNCHANGED <<record, history>>

ReadSecond ==
    /\ job.pc = "read"
    /\ LET second == record[job.pair[2]].content
       IN  job' = IF second = job.first
                  THEN [job EXCEPT !.pc = "choose", !.first = <<>>]
                  ELSE [job EXCEPT !.pc = "update", !.second = second]
    /\ UNCHANGED <<record, history>>

\* Mutation: the second content replaces the first.
UpdateContent_Replace ==
    LET r == job.pair[1]
    IN  /\ job.pc = "update"
        /\ IF IsLive(r) /\ Len(job.first \o job.second) <= MaxPieces
           THEN /\ record' = [record EXCEPT ![r].content = job.second,
                                           ![r].uses = Min({record[r].uses + 1, Frequent})]
                /\ job' = [job EXCEPT !.pc = "describe", !.first = <<>>, !.second = <<>>]
           ELSE /\ job' = Ends("failed")
                /\ UNCHANGED record
        /\ UNCHANGED history

\* update_content() refuses a deleted record and one that is too long; it ends
\* with a retrieve(), which counts as an access.
UpdateContent ==
    LET r == job.pair[1]
        combined == job.first \o job.second
    IN  /\ job.pc = "update"
        /\ IF IsLive(r) /\ Len(combined) <= MaxPieces
           THEN /\ record' = [record EXCEPT ![r].content = combined,
                                           ![r].uses = Min({record[r].uses + 1, Frequent})]
                /\ job' = [job EXCEPT !.pc = "describe", !.first = <<>>, !.second = <<>>]
           ELSE /\ job' = Ends("failed")
                /\ UNCHANGED record
        /\ UNCHANGED history

\* Mutation: the second record goes before its tags are noted.
Describe_RemoveFirst ==
    /\ job.pc = "describe"
    /\ record' = [record EXCEPT ![job.pair[2]].live = FALSE]
    /\ job' = [job EXCEPT !.pc = "remove"]
    /\ UNCHANGED history

Describe ==
    LET r == job.pair[1]
        a == job.view[job.pair[1]]
        b == job.view[job.pair[2]]
    IN  /\ job.pc = "describe"
        /\ IF IsLive(r)
           THEN /\ record' = [record EXCEPT
                        ![r].tags = a.tags \cup b.tags,
                        ![r].importance = Larger(a.importance, b.importance)]
                /\ job' = [job EXCEPT !.pc = "remove"]
           ELSE /\ job' = Ends("failed")
                /\ UNCHANGED record
        /\ UNCHANGED history

RemoveSecond ==
    /\ job.pc = "remove"
    /\ record' = [record EXCEPT ![job.pair[2]].live = FALSE]
    /\ job' = [job EXCEPT !.pc = "choose", !.gone = @ \cup {job.pair[2]}]
    /\ UNCHANGED history

-----------------------------------------------------------------------------
\* update_importance(): up for an often used record, down for one untouched for
\* thirty days, within 1 .. MaxImportance.
Rescored(entry, untouched) ==
    LET up == entry.importance + IF entry.uses >= Frequent THEN 1 ELSE 0
    IN  Clamped(IF untouched THEN up - 1 ELSE up)

Rescore ==
    /\ job.pc = "rescore" /\ job.todo # {}
    /\ \E untouched \in BOOLEAN :
        LET r == Min(job.todo)
            score == Rescored(job.view[r], untouched)
        IN  IF score = job.view[r].importance
            THEN job' = [job EXCEPT !.todo = @ \ {r}] /\ UNCHANGED record
            ELSE IF IsLive(r)
            THEN /\ record' = [record EXCEPT ![r].importance = score]
                 /\ job' = [job EXCEPT !.todo = @ \ {r}]
            ELSE job' = Ends("failed") /\ UNCHANGED record
    /\ UNCHANGED history

\* _append_job: completed_at is set before it when the job has completed, after
\* it when the job has failed.
AppendJob ==
    LET jobs == Append(history, [status |-> job.status, ended |-> job.status = "completed"])
    IN  /\ job.pc = "append"
        /\ history' = IF Len(jobs) > MaxJobs THEN Tail(jobs) ELSE jobs
        /\ job' = NoJob
        /\ UNCHANGED record

\* A call raises: the job has failed; in the recording itself, it goes unrecorded.
CallFails ==
    /\ "error" \in Faults
    /\ job.pc # "idle"
    /\ job' = IF job.pc = "append" THEN NoJob ELSE Ends("failed")
    /\ UNCHANGED <<record, history>>

Crash ==
    /\ "crash" \in Faults
    /\ job.pc # "idle"
    /\ job' = NoJob
    /\ UNCHANGED <<record, history>>

-----------------------------------------------------------------------------
(* The user's calls of the memory service. *)

UserMayAct == Interleaved \/ job.pc = "idle"

\* Bound: MaxRecords.
Store ==
    /\ UserMayAct
    /\ \E p \in Pieces, tags \in SUBSET Tags, n \in Given :
        \E r \in Records :
            /\ record[r] = None /\ \A s \in 1 .. r - 1 : record[s] # None
            /\ record' = [record EXCEPT ![r] =
                    [content |-> <<p>>, tags |-> tags, importance |-> n,
                     uses |-> 0, live |-> TRUE]]
    /\ UNCHANGED <<history, job>>

Delete(r) ==
    /\ UserMayAct /\ IsLive(r)
    /\ record' = [record EXCEPT ![r].live = FALSE]
    /\ UNCHANGED <<history, job>>

Retrieve(r) ==
    /\ UserMayAct /\ IsLive(r)
    /\ record' = [record EXCEPT ![r].uses = Min({record[r].uses + 1, Frequent})]
    /\ UNCHANGED <<history, job>>

Replace(r) ==
    /\ UserMayAct /\ IsLive(r)
    /\ \E p \in Pieces : record' = [record EXCEPT ![r].content = <<p>>]
    /\ UNCHANGED <<history, job>>

JobStep ==
    \/ StartRun \/ ReadEntries \/ DeleteDuplicate \/ NextPhase
    \/ ChoosePair \/ ReadSecond \/ UpdateContent \/ Describe \/ RemoveSecond
    \/ Rescore \/ AppendJob \/ CallFails

Next ==
    \/ JobStep \/ Crash
    \/ Store
    \/ \E r \in Records : Delete(r) \/ Retrieve(r) \/ Replace(r)

Spec == Init /\ [][Next]_vars

-----------------------------------------------------------------------------
(* Properties. *)

Remembered == UNION {ToSet(record[r].content) : r \in {s \in Records : IsLive(s)}}

JobMoves == job' # job

\* No step of the job loses a piece of content the user has not deleted or replaced, nor
\* brings one back that the user has: whatever step fails or is the last before a crash,
\* the live records hold after it what they held before it.  (User's calls not interleaved.)
JobKeepsContent == [][JobMoves => Remembered' = Remembered]_vars

KnownTags == UNION {record[r].tags : r \in {s \in Records : IsLive(s)}}

\* The first merge of a job keeps every tag some live record has, also when it
\* stops half-way: the union is on the first record before the second goes.  (A
\* later merge into the same record starts again from the tags it was listed with.)
MergeKeepsTags ==
    [][job.phase = 3 /\ job.gone = {} /\ JobMoves => KnownTags \subseteq KnownTags']_vars
=============================================================================
