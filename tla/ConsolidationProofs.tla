-------------------------- MODULE ConsolidationProofs --------------------------
(***************************************************************************)
(* Proofs about Consolidation, for every set of pieces and tags, every     *)
(* number of records and every limit.                                      *)
(*                                                                         *)
(* The types hold whatever the user does.  That no step of a job loses or  *)
(* revives content, and that its first merge keeps every tag, is proved    *)
(* for jobs the user's calls do not come into: the job works from lists    *)
(* and contents it has read, and the invariant says what still agrees with *)
(* the records.  While duplicates go, the listed contents are those of the *)
(* records, and the newest record of every content is alive.  While pairs  *)
(* are merged, every listed record that was not merged away is alive, the  *)
(* contents read are those of the pair, once the first record is written   *)
(* it holds what the second one does, and until the first merge is over    *)
(* the listed tags are those of the records, but for the pair's union.     *)
(*                                                                         *)
(* BlobCache: for any keys, sizes and bound, the byte count is the size of *)
(* what is held; the entries are kept in the order of their use.           *)
(* Embeddings: for any texts and callers, each text gets its own vector;   *)
(* an answer fills the places of a request that had none, which the reply  *)
(* lists in any order and the code sorts.                                  *)
(***************************************************************************)
EXTENDS Consolidation, BlobCache, Embeddings, ListProofs

-----------------------------------------------------------------------------
(* The invariant. *)

Merging == {"choose", "read", "update", "describe", "remove"}

Views == {<<>>} \cup [Records -> Record \cup {None}]

JobTypes ==
    [pc : {"idle", "entries", "delete", "rescore", "append"} \cup Merging,
     phase : 0 .. 4, view : Views, todo : SUBSET Records, gone : SUBSET Records,
     pair : (0 .. MaxRecords) \X (0 .. MaxRecords),
     first : Seq(Pieces), second : Seq(Pieces), status : {"running", "completed", "failed"}]

RecordsTyped == record \in [Records -> Record \cup {None}]

HistoryTyped == history \in Seq(Job) /\ Len(history) <= MaxJobs

\* Which phases and results the places of the job go with.
PhaseOf(j) ==
    /\ j.pc = "entries" => j.phase \in 1 .. 4
    /\ j.pc = "delete" => j.phase \in 1 .. 2
    /\ j.pc \in Merging => j.phase = 3
    /\ j.pc = "rescore" => j.phase = 4
    /\ j.pc = "append" => j.phase = 0 /\ j.status \in {"completed", "failed"}
    /\ j.pc \in Merging \cup {"delete", "rescore"} => j.view \in [Records -> Record \cup {None}]
    /\ j.pc \in {"read", "update", "describe", "remove"} =>
            /\ j.pair[1] \in Listed(j.view) /\ j.pair[2] \in Listed(j.view)
            /\ j.pair[1] # j.pair[2]
    /\ j.pc \in {"delete", "rescore"} => j.todo \subseteq Listed(j.view)

\* A record that was listed was stored, and stays stored: a deletion only marks it.
ListedStored ==
    job.pc \in Merging \cup {"delete", "rescore"} =>
        \A r \in Listed(job.view) : record[r] # None

TypeInv ==
    /\ RecordsTyped /\ HistoryTyped /\ job \in JobTypes
    /\ PhaseOf(job) /\ ListedStored

\* While duplicates are deleted.
Deleting ==
    /\ job.todo \subseteq Duplicates(job.view)
    /\ \A r \in Listed(job.view) : record[r].content = job.view[r].content
    /\ \A r \in Listed(job.view) \ Duplicates(job.view) : IsLive(r)

\* While pairs are merged.
PairHeld ==
    /\ \A r \in Listed(job.view) \ job.gone : IsLive(r)
    /\ job.pc # "choose" => job.pair[1] \notin job.gone /\ job.pair[2] \notin job.gone
    /\ job.pc \in {"read", "update"} => job.first = record[job.pair[1]].content
    /\ job.pc = "update" => job.second = record[job.pair[2]].content
    /\ job.pc \in {"describe", "remove"} =>
            ToSet(record[job.pair[2]].content) \subseteq ToSet(record[job.pair[1]].content)

\* Until a first record is merged away.
TagsListed ==
    job.gone = {} =>
        \A r \in Listed(job.view) :
            IF job.pc = "remove" /\ r = job.pair[1]
            THEN record[r].tags = job.view[r].tags \cup job.view[job.pair[2]].tags
            ELSE record[r].tags = job.view[r].tags

JobInv ==
    /\ job.pc = "delete" => Deleting
    /\ job.pc \in Merging => PairHeld /\ TagsListed

-----------------------------------------------------------------------------
(* Lemmas about numbers, sequences and the edits of a record. *)

\* What a content put together from two holds.
LEMMA BothHeld ==
    ASSUME NEW S, NEW a \in Seq(S), NEW b \in Seq(S)
    PROVE  a \o b \in Seq(S) /\ ToSet(a \o b) = ToSet(a) \cup ToSet(b)
<1>1. /\ a \o b \in Seq(S) /\ Len(a \o b) = Len(a) + Len(b)
      /\ \A i \in 1 .. Len(a) + Len(b) : (a \o b)[i] = IF i <= Len(a) THEN a[i] ELSE b[i - Len(a)]
  BY ConcatProperties
<1>2. ASSUME NEW x \in ToSet(a \o b)
      PROVE  x \in ToSet(a) \cup ToSet(b)
  <2>1. PICK i \in 1 .. Len(a) + Len(b) : x = (a \o b)[i]
    BY <1>1 DEF ToSet
  <2>2. CASE i <= Len(a)
    BY <1>1, <2>1, <2>2 DEF ToSet
  <2>3. CASE ~(i <= Len(a))
    <3>1. i - Len(a) \in 1 .. Len(b) /\ x = b[i - Len(a)]
      BY <1>1, <2>1, <2>3
    <3> QED BY <3>1 DEF ToSet
  <2> QED BY <2>2, <2>3
<1>3. ASSUME NEW x \in ToSet(a)
      PROVE  x \in ToSet(a \o b)
  <2>1. PICK i \in 1 .. Len(a) : x = a[i]
    BY DEF ToSet
  <2>2. i \in 1 .. Len(a \o b) /\ (a \o b)[i] = x
    BY <1>1, <2>1
  <2> QED BY <1>1, <2>2 DEF ToSet
<1>4. ASSUME NEW x \in ToSet(b)
      PROVE  x \in ToSet(a \o b)
  <2>1. PICK i \in 1 .. Len(b) : x = b[i]
    BY DEF ToSet
  <2>2. Len(a) + i \in 1 .. Len(a \o b) /\ Len(a) + i - Len(a) = i /\ ~(Len(a) + i <= Len(a))
    BY <1>1, <2>1
  <2>3. (a \o b)[Len(a) + i] = x
    BY <1>1, <2>1, <2>2
  <2> QED BY <1>1, <2>2, <2>3 DEF ToSet
<1> QED BY <1>1, <1>2, <1>3, <1>4

\* Editing a record makes a record: content, tags, importance, uses, live.
LEMMA RecordFields ==
    ASSUME NEW e \in Record
    PROVE  /\ e.content \in Seq(Pieces) /\ e.tags \in SUBSET Tags
           /\ e.importance \in 1 .. MaxImportance /\ e.uses \in 0 .. Frequent
BY Zenon DEF Record

LEMMA RecordWhole ==
    ASSUME NEW e \in Record
    PROVE  e = [content |-> e.content, tags |-> e.tags, importance |-> e.importance,
                uses |-> e.uses, live |-> e.live]
BY Zenon DEF Record

LEMMA Relived ==
    ASSUME NEW e \in Record, NEW l \in BOOLEAN
    PROVE  /\ [e EXCEPT !.live = l] \in Record
           /\ [e EXCEPT !.live = l].content = e.content
           /\ [e EXCEPT !.live = l].tags = e.tags
           /\ [e EXCEPT !.live = l].live = l
<1> DEFINE f == [e EXCEPT !.live = l]
<1>1. e = [content |-> e.content, tags |-> e.tags, importance |-> e.importance,
           uses |-> e.uses, live |-> e.live]
  BY RecordWhole, Zenon
<1>2. /\ e.content \in Seq(Pieces) /\ e.tags \in SUBSET Tags
      /\ e.importance \in 1 .. MaxImportance /\ e.uses \in 0 .. Frequent
  BY RecordFields
<1>3. \A x : [e EXCEPT !.live = x] = [content |-> e.content, tags |-> e.tags,
            importance |-> e.importance, uses |-> e.uses, live |-> x]
  BY <1>1
<1>4. f = [content |-> e.content, tags |-> e.tags,
            importance |-> e.importance, uses |-> e.uses, live |-> l]
  BY <1>3, Zenon
<1>5. [content |-> e.content, tags |-> e.tags,
            importance |-> e.importance, uses |-> e.uses, live |-> l] \in Record
  BY <1>2, Zenon DEF Record
<1>6. f \in Record
  BY <1>4, <1>5, Zenon
<1>7. f.content = e.content /\ f.tags = e.tags /\ f.live = l
  BY <1>4, Zenon
<1> QED BY <1>6, <1>7, Zenon

LEMMA Deleted ==
    ASSUME NEW e \in Record
    PROVE  /\ [e EXCEPT !.live = FALSE] \in Record
           /\ [e EXCEPT !.live = FALSE].content = e.content
           /\ [e EXCEPT !.live = FALSE].tags = e.tags
           /\ ~ [e EXCEPT !.live = FALSE].live
BY Relived, Zenon

\* f is the record e with the content c and the tags t.
Like(f, e, c, t) == f \in Record /\ f.content = c /\ f.tags = t /\ f.live = e.live

LEMMA Rewritten ==
    ASSUME NEW e \in Record, NEW c \in Seq(Pieces), NEW u \in 0 .. Frequent,
           NEW f, f = [e EXCEPT !.content = c, !.uses = u]
    PROVE  Like(f, e, c, e.tags)
<1>1. f = [[e EXCEPT !.content = c] EXCEPT !.uses = u]
  OBVIOUS
<1>2. e = [content |-> e.content, tags |-> e.tags, importance |-> e.importance,
           uses |-> e.uses, live |-> e.live]
  BY RecordWhole, Zenon
<1>3. [e EXCEPT !.content = c] = [content |-> c, tags |-> e.tags,
            importance |-> e.importance, uses |-> e.uses, live |-> e.live]
  BY <1>2
<1>4. f = [content |-> c, tags |-> e.tags,
            importance |-> e.importance, uses |-> u, live |-> e.live]
  <2>1. PICK g : g = [e EXCEPT !.content = c]
    OBVIOUS
  <2>2. f = [g EXCEPT !.uses = u]
    BY <1>1, <2>1
  <2>3. PICK l : l = e.live
    OBVIOUS
  <2>4. g = [content |-> c, tags |-> e.tags,
             importance |-> e.importance, uses |-> e.uses, live |-> l]
    BY <1>3, <2>1, <2>3
  <2>5. [g EXCEPT !.uses = u] = [content |-> c, tags |-> e.tags,
            importance |-> e.importance, uses |-> u, live |-> l]
    BY <2>4
  <2> QED BY <2>2, <2>3, <2>5
<1>5. /\ e.tags \in SUBSET Tags /\ e.importance \in 1 .. MaxImportance
      /\ e.live \in BOOLEAN
  BY Zenon DEF Record
<1>6. [content |-> c, tags |-> e.tags,
            importance |-> e.importance, uses |-> u, live |-> e.live] \in Record
  BY <1>5, Zenon DEF Record
<1> QED BY <1>4, <1>6, Zenon DEF Like

\* The same for the two edits of the metadata, for the access count and for the content alone.
LEMMA Redescribed ==
    ASSUME NEW e \in Record, NEW t \in SUBSET Tags, NEW n \in 1 .. MaxImportance,
           NEW f, f = [e EXCEPT !.tags = t, !.importance = n]
    PROVE  Like(f, e, e.content, t)
<1>1. f = [[e EXCEPT !.tags = t] EXCEPT !.importance = n]
  OBVIOUS
<1>2. e = [content |-> e.content, tags |-> e.tags, importance |-> e.importance,
           uses |-> e.uses, live |-> e.live]
  BY RecordWhole, Zenon
<1>3. [e EXCEPT !.tags = t] = [content |-> e.content, tags |-> t,
            importance |-> e.importance, uses |-> e.uses, live |-> e.live]
  BY <1>2
<1>4. f = [content |-> e.content, tags |-> t,
            importance |-> n, uses |-> e.uses, live |-> e.live]
  <2>1. PICK g : g = [e EXCEPT !.tags = t]
    OBVIOUS
  <2>2. f = [g EXCEPT !.importance = n]
    BY <1>1, <2>1
  <2>3. PICK l : l = e.live
    OBVIOUS
  <2>4. g = [content |-> e.content, tags |-> t,
             importance |-> e.importance, uses |-> e.uses, live |-> l]
    BY <1>3, <2>1, <2>3
  <2>5. [g EXCEPT !.importance = n] = [content |-> e.content, tags |-> t,
            importance |-> n, uses |-> e.uses, live |-> l]
    BY <2>4
  <2> QED BY <2>2, <2>3, <2>5
<1>5. /\ e.content \in Seq(Pieces) /\ e.uses \in 0 .. Frequent
      /\ e.live \in BOOLEAN
  BY Zenon DEF Record
<1>6. [content |-> e.content, tags |-> t,
            importance |-> n, uses |-> e.uses, live |-> e.live] \in Record
  BY <1>5, Zenon DEF Record
<1> QED BY <1>4, <1>6, Zenon DEF Like

LEMMA Rerated ==
    ASSUME NEW e \in Record, NEW n \in 1 .. MaxImportance,
           NEW f, f = [e EXCEPT !.importance = n]
    PROVE  Like(f, e, e.content, e.tags)
<1>1. e.tags \in SUBSET Tags
  BY RecordFields
<1>2. e = [content |-> e.content, tags |-> e.tags, importance |-> e.importance,
           uses |-> e.uses, live |-> e.live]
  BY RecordWhole, Zenon
<1>3. [e EXCEPT !.importance = n] = [content |-> e.content, tags |-> e.tags,
            importance |-> n, uses |-> e.uses, live |-> e.live]
  BY <1>2
<1>4. /\ e.content \in Seq(Pieces) /\ e.uses \in 0 .. Frequent
      /\ e.live \in BOOLEAN
  BY Zenon DEF Record
<1>5. [content |-> e.content, tags |-> e.tags,
            importance |-> n, uses |-> e.uses, live |-> e.live] \in Record
  BY <1>1, <1>4, Zenon DEF Record
<1> QED BY <1>3, <1>5, Zenon DEF Like

LEMMA UsesTyped ==
    ASSUME NEW e \in Record, NEW u \in 0 .. Frequent
    PROVE  [e EXCEPT !.uses = u] \in Record
<1>1. e = [content |-> e.content, tags |-> e.tags, importance |-> e.importance,
           uses |-> e.uses, live |-> e.live]
  BY RecordWhole, Zenon
<1>2. [e EXCEPT !.uses = u] = [content |-> e.content, tags |-> e.tags,
            importance |-> e.importance, uses |-> u, live |-> e.live]
  BY <1>1
<1>3. /\ e.content \in Seq(Pieces) /\ e.tags \in SUBSET Tags
      /\ e.importance \in 1 .. MaxImportance /\ e.live \in BOOLEAN
  BY Zenon DEF Record
<1>4. [content |-> e.content, tags |-> e.tags,
            importance |-> e.importance, uses |-> u, live |-> e.live] \in Record
  BY <1>3, Zenon DEF Record
<1> QED BY <1>2, <1>4, Zenon

LEMMA Replaced ==
    ASSUME NEW e \in Record, NEW c \in Seq(Pieces)
    PROVE  [e EXCEPT !.content = c] \in Record
<1>1. e = [content |-> e.content, tags |-> e.tags, importance |-> e.importance,
           uses |-> e.uses, live |-> e.live]
  BY RecordWhole, Zenon
<1>2. [e EXCEPT !.content = c] = [content |-> c, tags |-> e.tags,
            importance |-> e.importance, uses |-> e.uses, live |-> e.live]
  BY <1>1
<1>3. /\ e.uses \in 0 .. Frequent /\ e.tags \in SUBSET Tags
      /\ e.importance \in 1 .. MaxImportance /\ e.live \in BOOLEAN
  BY Zenon DEF Record
<1>4. [content |-> c, tags |-> e.tags,
            importance |-> e.importance, uses |-> e.uses, live |-> e.live] \in Record
  BY <1>3, Zenon DEF Record
<1> QED BY <1>2, <1>4, Zenon

\* An access is counted up to Frequent.
LEMMA Counted ==
    ASSUME NEW u \in 0 .. Frequent
    PROVE  Min({u + 1, Frequent}) \in 0 .. Frequent
<1>1. Frequent \in Nat /\ {u + 1, Frequent} \subseteq Nat /\ {u + 1, Frequent} # {}
  BY BoundsAssumption
<1>2. /\ Min({u + 1, Frequent}) \in {u + 1, Frequent}
      /\ \A x \in {u + 1, Frequent} : Min({u + 1, Frequent}) <= x
  BY <1>1, LeastIsMin
<1>3. PICK m : m = Min({u + 1, Frequent})
  OBVIOUS
<1>4. m \in {u + 1, Frequent} /\ m <= Frequent
  BY <1>2, <1>3
<1> QED BY <1>1, <1>3, <1>4

-----------------------------------------------------------------------------
(* The types. *)

LEMMA Edited ==
    ASSUME RecordsTyped, NEW r \in Records, NEW e \in Record,
           record' = [record EXCEPT ![r] = e]
    PROVE  /\ RecordsTyped' /\ record'[r] = e
           /\ \A s \in Records : s # r => record'[s] = record[s]
           /\ \A s \in Records : record[s] # None => record'[s] # None
BY NoneAssumption DEF RecordsTyped

LEMMA NoPieces == <<>> \in Seq(Pieces)
OBVIOUS

LEMMA Idle == NoJob \in JobTypes /\ NoJob.pc = "idle"
BY BoundsAssumption DEF NoJob, JobTypes, Merging, Views

LEMMA Begun ==
    ASSUME NEW n \in 1 .. 4
    PROVE  Begins(n) \in JobTypes /\ Begins(n).pc = "entries" /\ Begins(n).phase = n
<1>1. PICK j \in JobTypes : j = NoJob
  BY Idle
<1>2. Begins(n) = [j EXCEPT !.pc = "entries", !.phase = n]
  BY <1>1 DEF Begins
<1>3. n \in 0 .. 4
  OBVIOUS
<1> QED BY <1>1, <1>2, <1>3 DEF JobTypes, Merging

LEMMA Ended ==
    ASSUME NEW s \in {"completed", "failed"}
    PROVE  /\ Ends(s) \in JobTypes /\ Ends(s).pc = "append"
           /\ Ends(s).phase = 0 /\ Ends(s).status = s
<1>1. PICK j \in JobTypes : j = NoJob
  BY Idle
<1>2. Ends(s) = [j EXCEPT !.pc = "append", !.status = s] /\ j.phase = 0
  BY <1>1 DEF Ends, NoJob
<1> QED BY <1>1, <1>2 DEF JobTypes, Merging

\* Where the job is, when it works from no list.
Away(j) == j.pc \in {"idle", "entries", "append"}

LEMMA AwayTyped ==
    /\ PhaseOf(NoJob) /\ Away(NoJob)
    /\ \A n \in 1 .. 4 : PhaseOf(Begins(n)) /\ Away(Begins(n))
    /\ \A s \in {"completed", "failed"} : PhaseOf(Ends(s)) /\ Away(Ends(s))
<1>1. PhaseOf(NoJob) /\ Away(NoJob)
  BY Idle DEF PhaseOf, Merging, Away
<1>2. ASSUME NEW n \in 1 .. 4
      PROVE  PhaseOf(Begins(n)) /\ Away(Begins(n))
  BY Begun DEF PhaseOf, Merging, Away
<1>3. ASSUME NEW s \in {"completed", "failed"}
      PROVE  PhaseOf(Ends(s)) /\ Away(Ends(s))
  BY Ended DEF PhaseOf, Merging, Away
<1> QED BY <1>1, <1>2, <1>3

LEMMA AwayInv ==
    ASSUME RecordsTyped', HistoryTyped', job' \in JobTypes, PhaseOf(job'), Away(job')
    PROVE  TypeInv' /\ JobInv'
BY DEF TypeInv, ListedStored, JobInv, Away, Merging

LEMMA TypeInit == Init => TypeInv
<1> SUFFICES ASSUME Init PROVE TypeInv
  OBVIOUS
<1>1. RecordsTyped /\ HistoryTyped
  BY BoundsAssumption DEF Init, RecordsTyped, HistoryTyped
<1>2. job \in JobTypes /\ job.pc = "idle"
  BY Idle DEF Init
<1> QED BY <1>1, <1>2, AwayTyped DEF Init, TypeInv, ListedStored, Merging

LEMMA EntriesTyped ==
    ASSUME RecordsTyped
    PROVE  /\ Entries \in [Records -> Record \cup {None}]
           /\ Duplicates(Entries) \subseteq Listed(Entries) /\ Listed(Entries) \subseteq Records
           /\ \A r \in Listed(Entries) : record[r] # None /\ IsLive(r) /\ Entries[r] = record[r]
BY DEF RecordsTyped, Entries, Duplicates, Listed, IsLive

\* The steps that do not touch the records and leave the lists of the job behind.
LEMMA StepsAway ==
    ASSUME TypeInv, StartRun \/ CallFails \/ Crash \/ (job.pc # "choose" /\ NextPhase)
    PROVE  Away(job') /\ TypeInv'
<1>1. RecordsTyped' /\ HistoryTyped'
  BY DEF TypeInv, RecordsTyped, HistoryTyped, StartRun, CallFails, Crash, NextPhase
<1>2. CASE StartRun
  BY <1>1, <1>2, Begun, AwayTyped, AwayInv DEF StartRun
<1>3. CASE CallFails
  BY <1>1, <1>3, Idle, Ended, AwayTyped, AwayInv DEF CallFails
<1>4. CASE Crash
  BY <1>1, <1>4, Idle, AwayTyped, AwayInv DEF Crash
<1>5. CASE job.pc # "choose" /\ NextPhase
  <2>1. CASE job.pc = "delete"
    <3>1. job.phase + 1 \in 1 .. 4
      BY <2>1 DEF TypeInv, PhaseOf
    <3>2. job' = Begins(job.phase + 1)
      BY <1>5, <2>1 DEF NextPhase
    <3> QED BY <1>1, <3>1, <3>2, Begun, AwayTyped, AwayInv
  <2>2. CASE job.pc # "delete"
    BY <1>1, <1>5, <2>2, Ended, AwayTyped, AwayInv DEF NextPhase
  <2> QED BY <2>1, <2>2
<1> QED BY <1>2, <1>3, <1>4, <1>5

LEMMA ChooseEnds ==
    ASSUME TypeInv, job.pc = "choose", NextPhase
    PROVE  Away(job') /\ TypeInv'
<1>1. RecordsTyped' /\ HistoryTyped'
  BY DEF TypeInv, RecordsTyped, HistoryTyped, NextPhase
<1>2. job' = Begins(4) \/ job' = Ends("completed")
  BY DEF NextPhase
<1> QED BY <1>1, <1>2, Begun, Ended, AwayTyped, AwayInv

LEMMA EntriesRead ==
    ASSUME TypeInv, ReadEntries
    PROVE  /\ TypeInv' /\ record' = record /\ job'.view = Entries
           /\ job'.pc = "delete" => job'.todo = Duplicates(Entries)
           /\ job'.pc \in {"delete", "choose", "rescore"} /\ job'.gone = job.gone
<1>1. RecordsTyped' /\ HistoryTyped' /\ record' = record
  BY DEF TypeInv, RecordsTyped, HistoryTyped, ReadEntries
<1>2. /\ Entries \in [Records -> Record \cup {None}] /\ Entries \in Views
      /\ Duplicates(Entries) \subseteq Listed(Entries) /\ Listed(Entries) \subseteq Records
      /\ \A r \in Listed(Entries) : record[r] # None
  BY EntriesTyped DEF TypeInv, Views
<1>3. /\ job \in JobTypes /\ job.pc = "entries" /\ job.phase \in 1 .. 4
  BY DEF TypeInv, ReadEntries, PhaseOf
<1> DEFINE view == Entries
           dups == Duplicates(Entries)
           all == Listed(Entries)
<1>4. /\ view \in Views /\ dups \subseteq Records /\ all \subseteq Records
  BY <1>2
<1>5. \/ job.phase \in {1, 2} /\ job' = [job EXCEPT !.pc = "delete", !.view = view, !.todo = dups]
      \/ job.phase = 3 /\ job' = [job EXCEPT !.pc = "choose", !.view = view]
      \/ job.phase = 4 /\ job' = [job EXCEPT !.pc = "rescore", !.view = view, !.todo = all]
  BY <1>3 DEF ReadEntries
<1> HIDE DEF view, dups, all
<1>6. CASE job.phase \in {1, 2} /\ job' = [job EXCEPT !.pc = "delete", !.view = view, !.todo = dups]
  <2>1. /\ job' \in JobTypes /\ job'.pc = "delete" /\ job'.phase \in 1 .. 2
        /\ job'.view = view /\ job'.todo = dups /\ job'.gone = job.gone
    <3>1. job' \in JobTypes
      BY <1>3, <1>4, <1>6 DEF JobTypes, Merging
    <3> QED BY <1>3, <1>6, <3>1 DEF JobTypes
  <2> QED BY <1>1, <1>2, <2>1 DEF TypeInv, PhaseOf, ListedStored, Merging, view, dups
<1>7. CASE job.phase = 3 /\ job' = [job EXCEPT !.pc = "choose", !.view = view]
  <2>1. /\ job' \in JobTypes /\ job'.pc = "choose" /\ job'.phase = 3
        /\ job'.view = view /\ job'.gone = job.gone
    BY <1>3, <1>4, <1>7 DEF JobTypes, Merging
  <2> QED BY <1>1, <1>2, <2>1 DEF TypeInv, PhaseOf, ListedStored, Merging, view
<1>8. CASE job.phase = 4 /\ job' = [job EXCEPT !.pc = "rescore", !.view = view, !.todo = all]
  <2>1. /\ job' \in JobTypes /\ job'.pc = "rescore" /\ job'.phase = 4
        /\ job'.view = view /\ job'.todo = all /\ job'.gone = job.gone
    BY <1>3, <1>4, <1>8 DEF JobTypes, Merging
  <2> QED BY <1>1, <1>2, <2>1 DEF TypeInv, PhaseOf, ListedStored, Merging, view, all
<1> QED BY <1>5, <1>6, <1>7, <1>8

\* Marking a record deleted changes nothing else.
LEMMA Deletion ==
    ASSUME RecordsTyped, NEW r \in Records, record[r] # None,
           record' = [record EXCEPT ![r].live = FALSE]
    PROVE  /\ RecordsTyped'
           /\ \A s \in Records : /\ record[s] # None => record'[s] # None
                                 /\ s # r => record'[s] = record[s]
           /\ record'[r].content = record[r].content
           /\ record'[r].tags = record[r].tags
           /\ ~ record'[r].live
<1>1. record[r] \in Record
  BY DEF RecordsTyped
<1>2. PICK l : l = FALSE
  OBVIOUS
<1>3. PICK e : e = [record[r] EXCEPT !.live = l]
  OBVIOUS
<1>4. record' = [record EXCEPT ![r].live = l]
  BY <1>2, Zenon
<1>5. record' = [record EXCEPT ![r] = e]
  BY <1>3, <1>4
<1>6. /\ e \in Record /\ e.content = record[r].content /\ e.tags = record[r].tags
      /\ ~ e.live
  BY <1>1, <1>2, <1>3, Deleted, Zenon
<1>7. /\ RecordsTyped' /\ record'[r] = e
      /\ \A s \in Records : s # r => record'[s] = record[s]
      /\ \A s \in Records : record[s] # None => record'[s] # None
  BY <1>5, <1>6, Edited
<1> QED BY <1>6, <1>7

LEMMA DuplicateDeleted ==
    ASSUME TypeInv, DeleteDuplicate
    PROVE  /\ TypeInv'
           /\ job'.pc = "delete" /\ job'.view = job.view /\ job'.todo \subseteq job.todo
           /\ \E r \in job.todo : record' = [record EXCEPT ![r].live = FALSE] /\ record[r] # None
<1>1. /\ RecordsTyped /\ job \in JobTypes /\ job.pc = "delete" /\ job.phase \in 1 .. 2
      /\ job.view \in [Records -> Record \cup {None}]
      /\ job.todo # {} /\ job.todo \subseteq Listed(job.view) /\ job.todo \subseteq Records
      /\ \A r \in Listed(job.view) : record[r] # None
  BY DEF TypeInv, PhaseOf, ListedStored, DeleteDuplicate, JobTypes
<1>2. PICK r : r = Max(job.todo)
  OBVIOUS
<1>3. r \in job.todo
  BY <1>1, <1>2, GreatestIsMax, BoundsAssumption DEF Records
<1>4. record' = [record EXCEPT ![r].live = FALSE]
  BY <1>2, Zenon DEF DeleteDuplicate
<1>5. /\ RecordsTyped'
      /\ \A s \in Records : record[s] # None => record'[s] # None
  BY <1>1, <1>3, <1>4, Deletion
<1>6. PICK left : left = job.todo \ {r}
  OBVIOUS
<1>7. job' = [job EXCEPT !.todo = left] /\ left \subseteq job.todo /\ left \subseteq Records
  BY <1>1, <1>2, <1>6 DEF DeleteDuplicate
<1>8. /\ job' \in JobTypes /\ job'.pc = "delete" /\ job'.phase = job.phase
      /\ job'.view = job.view /\ job'.todo = left
  BY <1>1, <1>7 DEF JobTypes, Merging
<1>9. HistoryTyped'
  BY DEF TypeInv, HistoryTyped, DeleteDuplicate
<1>10. PhaseOf(job')
  BY <1>1, <1>7, <1>8 DEF PhaseOf, Merging
<1>11. ListedStored'
  BY <1>1, <1>5, <1>8 DEF ListedStored, Listed
<1> QED BY <1>1, <1>3, <1>4, <1>5, <1>7, <1>8, <1>9, <1>10, <1>11, Zenon DEF TypeInv

LEMMA PairChosen ==
    ASSUME TypeInv, ChoosePair
    PROVE  /\ TypeInv' /\ record' = record /\ job.pc = "choose" /\ job'.pc = "read"
           /\ job'.view = job.view /\ job'.gone = job.gone
           /\ job'.pair[1] \in Listed(job.view) \ job.gone
           /\ job'.pair[2] \in Listed(job.view) \ job.gone
           /\ job'.first = record[job'.pair[1]].content
<1>1. /\ RecordsTyped /\ job \in JobTypes /\ job.pc = "choose" /\ job.phase = 3
      /\ job.view \in [Records -> Record \cup {None}]
      /\ \A r \in Listed(job.view) : record[r] # None
  BY DEF TypeInv, PhaseOf, ListedStored, ChoosePair, JobTypes, Merging
<1>2. PICK i, j \in Listed(job.view) \ job.gone :
        /\ i < j
        /\ job' = [job EXCEPT !.pc = "read", !.pair = <<i, j>>, !.first = record[i].content]
  BY DEF ChoosePair
<1>3. i \in Records /\ j \in Records /\ i # j
  BY <1>2 DEF Listed, Records
<1>4. PICK c, p : c = record[i].content /\ p = <<i, j>>
  OBVIOUS
<1>5. c \in Seq(Pieces)
  BY <1>1, <1>2, <1>3, <1>4, RecordFields DEF RecordsTyped
<1>6. p \in (0 .. MaxRecords) \X (0 .. MaxRecords) /\ p[1] = i /\ p[2] = j
  BY <1>3, <1>4, BoundsAssumption DEF Records
<1>7. job' = [job EXCEPT !.pc = "read", !.pair = p, !.first = c]
  BY <1>2, <1>4
<1>8. job' \in JobTypes
  BY <1>1, <1>5, <1>6, <1>7 DEF JobTypes, Merging
<1>9. /\ job'.pc = "read" /\ job'.phase = 3 /\ job'.view = job.view
      /\ job'.gone = job.gone /\ job'.pair = p /\ job'.first = c
  BY <1>1, <1>7 DEF JobTypes
<1>10. RecordsTyped' /\ HistoryTyped' /\ record' = record
  BY DEF TypeInv, RecordsTyped, HistoryTyped, ChoosePair
<1>11. PhaseOf(job')
  BY <1>1, <1>2, <1>3, <1>6, <1>9 DEF PhaseOf, Merging
<1>12. ListedStored'
  BY <1>1, <1>9, <1>10 DEF ListedStored, Listed
<1> QED BY <1>1, <1>2, <1>4, <1>6, <1>8, <1>9, <1>10, <1>11, <1>12 DEF TypeInv

\* What the places of a merge have in common.
LEMMA PairTyped ==
    ASSUME TypeInv, job.pc \in {"read", "update", "describe", "remove"}
    PROVE  /\ RecordsTyped /\ HistoryTyped /\ job \in JobTypes /\ job.phase = 3
           /\ job.view \in [Records -> Record \cup {None}]
           /\ job.pair[1] \in Listed(job.view) /\ job.pair[2] \in Listed(job.view)
           /\ job.pair[1] \in Records /\ job.pair[2] \in Records
           /\ job.pair[1] # job.pair[2]
           /\ record[job.pair[1]] \in Record /\ record[job.pair[2]] \in Record
           /\ \A r \in Listed(job.view) : r \in Records /\ record[r] # None
<1>1. /\ RecordsTyped /\ HistoryTyped /\ job \in JobTypes /\ job.phase = 3
      /\ job.view \in [Records -> Record \cup {None}]
      /\ job.pair[1] \in Listed(job.view) /\ job.pair[2] \in Listed(job.view)
      /\ job.pair[1] # job.pair[2]
      /\ \A r \in Listed(job.view) : record[r] # None
  BY DEF TypeInv, PhaseOf, ListedStored, Merging
<1>2. job.pair[1] \in Records /\ job.pair[2] \in Records
      /\ \A r \in Listed(job.view) : r \in Records
  BY <1>1 DEF Listed
<1>3. record[job.pair[1]] \in Record /\ record[job.pair[2]] \in Record
  BY <1>1, <1>2 DEF RecordsTyped
<1> QED BY <1>1, <1>2, <1>3

LEMMA SecondRead ==
    ASSUME TypeInv, ReadSecond
    PROVE  /\ TypeInv' /\ record' = record /\ job.pc = "read"
           /\ job'.view = job.view /\ job'.gone = job.gone
           /\ \/ job'.pc = "choose"
              \/ /\ job'.pc = "update" /\ job'.pair = job.pair /\ job'.first = job.first
                 /\ job'.second = record[job.pair[2]].content
<1>1. job.pc = "read"
  BY DEF ReadSecond
<1> USE PairTyped, <1>1
<1>2. PICK c : c = record[job.pair[2]].content
  OBVIOUS
<1>3. c \in Seq(Pieces)
  BY <1>2, RecordFields
<1>4. RecordsTyped' /\ HistoryTyped' /\ record' = record
  BY DEF TypeInv, RecordsTyped, HistoryTyped, ReadSecond
<1>5. CASE job' = [job EXCEPT !.pc = "choose", !.first = <<>>]
  <2>1. job' \in JobTypes
    <3>1. PICK z \in Seq(Pieces) : z = <<>>
      BY NoPieces
    <3>2. job' = [job EXCEPT !.pc = "choose", !.first = z]
      BY <1>5, <3>1
    <3> QED BY <3>2 DEF JobTypes, Merging
  <2>2. /\ job'.pc = "choose" /\ job'.phase = 3
        /\ job'.view = job.view /\ job'.gone = job.gone
    BY <1>5 DEF JobTypes
  <2>3. PhaseOf(job') /\ ListedStored'
    BY <1>4, <2>2 DEF PhaseOf, ListedStored, Listed, Merging
  <2> QED BY <1>4, <2>1, <2>2, <2>3 DEF TypeInv
<1>6. CASE job' = [job EXCEPT !.pc = "update", !.second = c]
  <2>1. job' \in JobTypes
    BY <1>3, <1>6 DEF JobTypes, Merging
  <2>2. /\ job'.pc = "update" /\ job'.phase = 3 /\ job'.pair = job.pair
        /\ job'.view = job.view /\ job'.gone = job.gone
        /\ job'.first = job.first /\ job'.second = c
    BY <1>6 DEF JobTypes
  <2>3. PhaseOf(job') /\ ListedStored'
    BY <1>4, <2>2 DEF PhaseOf, ListedStored, Listed, Merging
  <2> QED BY <1>2, <1>4, <2>1, <2>2, <2>3 DEF TypeInv
<1> QED BY <1>2, <1>5, <1>6 DEF ReadSecond

LEMMA ContentUpdated ==
    ASSUME TypeInv, UpdateContent
    PROVE  /\ TypeInv' /\ job.pc = "update"
           /\ \/ Away(job') /\ record' = record
              \/ /\ job'.pc = "describe" /\ job'.pair = job.pair
                 /\ job'.view = job.view /\ job'.gone = job.gone
                 /\ \A s \in Records : s # job.pair[1] => record'[s] = record[s]
                 /\ record'[job.pair[1]].content = job.first \o job.second
                 /\ record'[job.pair[1]].tags = record[job.pair[1]].tags
                 /\ IsLive(job.pair[1]) /\ IsLive(job.pair[1])'
<1>1. job.pc = "update" /\ HistoryTyped'
  BY DEF TypeInv, HistoryTyped, UpdateContent
<1> USE PairTyped, <1>1
<1>2. PICK r : r = job.pair[1]
  OBVIOUS
<1>3. r \in Records /\ record[r] \in Record
  BY <1>2
<1>4. PICK u : u = Min({record[r].uses + 1, Frequent})
  OBVIOUS
<1>5. u \in 0 .. Frequent
  BY <1>3, <1>4, Counted, RecordFields
<1>6. PICK c : c = job.first \o job.second
  OBVIOUS
<1>7. c \in Seq(Pieces)
  BY <1>6, BothHeld DEF JobTypes
<1>8. CASE /\ IsLive(r)
           /\ record' = [record EXCEPT ![r].content = c, ![r].uses = u]
           /\ job' = [job EXCEPT !.pc = "describe", !.first = <<>>, !.second = <<>>]
  <2>1. PICK e : e = [record[r] EXCEPT !.content = c, !.uses = u]
    OBVIOUS
  <2>2. record' = [record EXCEPT ![r] = e]
    <3>1. record' = [[record EXCEPT ![r].content = c] EXCEPT ![r].uses = u]
      BY <1>8
    <3>2. PICK g : g = [record EXCEPT ![r].content = c]
      OBVIOUS
    <3>3. PICK d : d = [record[r] EXCEPT !.content = c]
      OBVIOUS
    <3>4. g = [record EXCEPT ![r] = d] /\ e = [d EXCEPT !.uses = u]
      BY <2>1, <3>2, <3>3
    <3>5. record' = [g EXCEPT ![r].uses = u]
      BY <3>1, <3>2
    <3>6. g[r] = d
      BY <1>3, <3>4 DEF RecordsTyped
    <3>7. record' = [g EXCEPT ![r] = e]
      BY <3>4, <3>5, <3>6
    <3> QED BY <3>4, <3>7
  <2>3. /\ e \in Record /\ e.content = c /\ e.tags = record[r].tags
        /\ e.live = record[r].live
    <3>1. PICK x : x = record[r] /\ x \in Record
      BY <1>3
    <3>2. e = [x EXCEPT !.content = c, !.uses = u]
      BY <2>1, <3>1
    <3>3. Like(e, x, c, x.tags)
      BY ONLY <1>5, <1>7, <3>1, <3>2, Rewritten
    <3> QED BY ONLY <3>1, <3>3 DEF Like
  <2>4. /\ RecordsTyped' /\ record'[r] = e
        /\ \A s \in Records : s # r => record'[s] = record[s]
        /\ \A s \in Records : record[s] # None => record'[s] # None
    BY <1>3, <2>2, <2>3, Edited
  <2>5. IsLive(r)'
    <3>1. record'[r] # None /\ record[r].live
      BY <1>3, <1>8, <2>4, NoneAssumption DEF IsLive
    <3> QED BY <2>3, <2>4, <3>1 DEF IsLive
  <2>6. job' \in JobTypes
    <3>1. PICK z \in Seq(Pieces) : z = <<>>
      BY NoPieces
    <3>2. job' = [job EXCEPT !.pc = "describe", !.first = z, !.second = z]
      BY <1>8, <3>1
    <3> QED BY <3>2 DEF JobTypes, Merging
  <2>7. /\ job'.pc = "describe" /\ job'.phase = 3 /\ job'.pair = job.pair
        /\ job'.view = job.view /\ job'.gone = job.gone
    BY <1>8 DEF JobTypes
  <2>8. PhaseOf(job') /\ ListedStored'
    BY <2>4, <2>7 DEF PhaseOf, ListedStored, Listed, Merging
  <2>9. TypeInv'
    BY <2>4, <2>6, <2>8 DEF TypeInv
  <2> QED BY <1>2, <1>6, <1>8, <2>3, <2>4, <2>5, <2>7, <2>9
<1>9. CASE job' = Ends("failed") /\ record' = record
  <2>1. RecordsTyped'
    BY <1>9 DEF RecordsTyped
  <2> QED BY <1>9, <2>1, Ended, AwayTyped, AwayInv
<1> QED BY <1>2, <1>4, <1>6, <1>8, <1>9 DEF UpdateContent

LEMMA LargerIsOne ==
    ASSUME NEW m \in 1 .. MaxImportance, NEW n \in 1 .. MaxImportance
    PROVE  Larger(m, n) \in 1 .. MaxImportance
BY DEF Larger

LEMMA Described ==
    ASSUME TypeInv, Describe
    PROVE  /\ TypeInv' /\ job.pc = "describe"
           /\ \/ Away(job') /\ record' = record
              \/ /\ job'.pc = "remove" /\ job'.pair = job.pair
                 /\ job'.view = job.view /\ job'.gone = job.gone
                 /\ \A s \in Records : s # job.pair[1] => record'[s] = record[s]
                 /\ record'[job.pair[1]].content = record[job.pair[1]].content
                 /\ record'[job.pair[1]].tags
                        = job.view[job.pair[1]].tags \cup job.view[job.pair[2]].tags
                 /\ IsLive(job.pair[1]) /\ IsLive(job.pair[1])'
<1>1. job.pc = "describe" /\ HistoryTyped'
  BY DEF TypeInv, HistoryTyped, Describe
<1> USE PairTyped, <1>1
<1>2. PICK r : r = job.pair[1]
  OBVIOUS
<1>3. r \in Records /\ record[r] \in Record
  BY <1>2
<1>4. PICK a, b : a = job.view[job.pair[1]] /\ b = job.view[job.pair[2]]
  OBVIOUS
<1>5. a \in Record /\ b \in Record
  BY <1>4 DEF Listed
<1>6. PICK t, n : t = a.tags \cup b.tags /\ n = Larger(a.importance, b.importance)
  OBVIOUS
<1>7. t \in SUBSET Tags /\ n \in 1 .. MaxImportance
  BY <1>5, <1>6, RecordFields, LargerIsOne
<1>8. CASE /\ IsLive(r)
           /\ record' = [record EXCEPT ![r].tags = t, ![r].importance = n]
           /\ job' = [job EXCEPT !.pc = "remove"]
  <2>1. PICK e : e = [record[r] EXCEPT !.tags = t, !.importance = n]
    OBVIOUS
  <2>2. record' = [record EXCEPT ![r] = e]
    <3>1. record' = [[record EXCEPT ![r].tags = t] EXCEPT ![r].importance = n]
      BY <1>8
    <3>2. PICK g : g = [record EXCEPT ![r].tags = t]
      OBVIOUS
    <3>3. PICK d : d = [record[r] EXCEPT !.tags = t]
      OBVIOUS
    <3>4. g = [record EXCEPT ![r] = d] /\ e = [d EXCEPT !.importance = n]
      BY <2>1, <3>2, <3>3
    <3>5. record' = [g EXCEPT ![r].importance = n]
      BY <3>1, <3>2
    <3>6. g[r] = d
      BY <1>3, <3>4 DEF RecordsTyped
    <3>7. record' = [g EXCEPT ![r] = e]
      BY <3>4, <3>5, <3>6
    <3> QED BY <3>4, <3>7
  <2>3. /\ e \in Record /\ e.content = record[r].content /\ e.tags = t
        /\ e.live = record[r].live
    <3>1. PICK x : x = record[r] /\ x \in Record
      BY <1>3
    <3>2. e = [x EXCEPT !.tags = t, !.importance = n]
      BY <2>1, <3>1
    <3>3. Like(e, x, x.content, t)
      BY ONLY <1>7, <3>1, <3>2, Redescribed
    <3> QED BY ONLY <3>1, <3>3 DEF Like
  <2>4. /\ RecordsTyped' /\ record'[r] = e
        /\ \A s \in Records : s # r => record'[s] = record[s]
        /\ \A s \in Records : record[s] # None => record'[s] # None
    BY <1>3, <2>2, <2>3, Edited
  <2>5. IsLive(r)'
    <3>1. record'[r] # None /\ record[r].live
      BY <1>3, <1>8, <2>4, NoneAssumption DEF IsLive
    <3> QED BY <2>3, <2>4, <3>1 DEF IsLive
  <2>6. job' \in JobTypes
    BY <1>8 DEF JobTypes, Merging
  <2>7. /\ job'.pc = "remove" /\ job'.phase = 3 /\ job'.pair = job.pair
        /\ job'.view = job.view /\ job'.gone = job.gone
    BY <1>8 DEF JobTypes
  <2>8. PhaseOf(job') /\ ListedStored'
    BY <2>4, <2>7 DEF PhaseOf, ListedStored, Listed, Merging
  <2>9. TypeInv'
    BY <2>4, <2>6, <2>8 DEF TypeInv
  <2> QED BY <1>2, <1>4, <1>6, <1>8, <2>3, <2>4, <2>5, <2>7, <2>9
<1>9. CASE job' = Ends("failed") /\ record' = record
  <2>1. RecordsTyped'
    BY <1>9 DEF RecordsTyped
  <2> QED BY <1>9, <2>1, Ended, AwayTyped, AwayInv
<1> QED BY <1>2, <1>4, <1>6, <1>8, <1>9 DEF Describe

LEMMA SecondRemoved ==
    ASSUME TypeInv, RemoveSecond
    PROVE  /\ TypeInv' /\ job.pc = "remove" /\ job'.pc = "choose"
           /\ job'.view = job.view /\ job'.gone = job.gone \cup {job.pair[2]}
           /\ record' = [record EXCEPT ![job.pair[2]].live = FALSE]
<1>1. job.pc = "remove" /\ HistoryTyped'
  BY DEF TypeInv, HistoryTyped, RemoveSecond
<1> USE PairTyped, <1>1
<1>2. PICK r : r = job.pair[2]
  OBVIOUS
<1>3. r \in Records /\ record[r] # None
  BY <1>2
<1>4. record' = [record EXCEPT ![r].live = FALSE]
  BY <1>2, Zenon DEF RemoveSecond
<1>5. RecordsTyped' /\ \A s \in Records : record[s] # None => record'[s] # None
  BY <1>3, <1>4, Deletion
<1>6. PICK gone : gone = job.gone \cup {r}
  OBVIOUS
<1>7. gone \subseteq Records
  BY <1>3, <1>6 DEF JobTypes
<1>8. job' = [job EXCEPT !.pc = "choose", !.gone = gone]
  BY <1>2, <1>6 DEF RemoveSecond
<1>9. job' \in JobTypes
  BY <1>7, <1>8 DEF JobTypes, Merging
<1>10. /\ job'.pc = "choose" /\ job'.phase = 3 /\ job'.view = job.view /\ job'.gone = gone
  BY <1>8 DEF JobTypes
<1>11. PhaseOf(job') /\ ListedStored'
  BY <1>5, <1>10 DEF PhaseOf, ListedStored, Listed, Merging
<1>12. TypeInv'
  BY <1>5, <1>9, <1>11 DEF TypeInv
<1> QED BY <1>2, <1>4, <1>6, <1>10, <1>12, Zenon

LEMMA ScoreInRange ==
    ASSUME NEW entry \in Record, NEW untouched
    PROVE  Rescored(entry, untouched) \in 1 .. MaxImportance
<1>1. entry.importance \in 1 .. MaxImportance /\ MaxImportance \in Nat \ {0}
  BY RecordFields, BoundsAssumption
<1>2. PICK up : up = entry.importance + IF entry.uses >= Frequent THEN 1 ELSE 0
  OBVIOUS
<1>3. up \in Int
  BY <1>1, <1>2
<1>4. \A n \in Int : Clamped(n) \in 1 .. MaxImportance
  BY <1>1 DEF Clamped
<1>5. Clamped(up) \in 1 .. MaxImportance /\ Clamped(up - 1) \in 1 .. MaxImportance
  BY <1>3, <1>4
<1>6. Rescored(entry, untouched) = Clamped(IF untouched THEN up - 1 ELSE up)
  BY <1>2 DEF Rescored
<1> QED BY <1>5, <1>6

\* r keeps its content and its tags, and lives or not as before.
SameMemory(r) ==
    /\ record'[r].content = record[r].content
    /\ record'[r].tags = record[r].tags
    /\ IsLive(r)' <=> IsLive(r)

LEMMA RescoreKeeps ==
    ASSUME TypeInv, Rescore
    PROVE  /\ TypeInv' /\ job.pc = "rescore" /\ job'.pc \in {"rescore", "append"}
           /\ \A s \in Records : SameMemory(s)
<1>1. /\ RecordsTyped /\ job \in JobTypes /\ job.pc = "rescore" /\ job.phase = 4
      /\ job.view \in [Records -> Record \cup {None}]
      /\ job.todo # {} /\ job.todo \subseteq Listed(job.view) /\ job.todo \subseteq Records
      /\ \A r \in Listed(job.view) : record[r] # None
      /\ HistoryTyped'
  BY DEF TypeInv, PhaseOf, ListedStored, Rescore, JobTypes, HistoryTyped
<1>2. PICK r : r = Min(job.todo)
  OBVIOUS
<1>3. r \in job.todo
  BY <1>1, <1>2, LeastIsMin, BoundsAssumption DEF Records
<1>4. /\ job.view[r] \in Record /\ record[r] \in Record /\ r \in Records
  BY <1>1, <1>3 DEF Listed, RecordsTyped
<1>5. PICK untouched \in BOOLEAN :
        LET score == Rescored(job.view[r], untouched)
        IN  IF score = job.view[r].importance
            THEN job' = [job EXCEPT !.todo = @ \ {r}] /\ UNCHANGED record
            ELSE IF IsLive(r)
            THEN /\ record' = [record EXCEPT ![r].importance = score]
                 /\ job' = [job EXCEPT !.todo = @ \ {r}]
            ELSE job' = Ends("failed") /\ UNCHANGED record
  BY <1>2 DEF Rescore
<1>6. PICK score : score = Rescored(job.view[r], untouched)
  OBVIOUS
<1>7. score \in 1 .. MaxImportance
  BY <1>4, <1>6, ScoreInRange
<1>8. PICK left : left = job.todo \ {r}
  OBVIOUS
<1>9. left \subseteq job.todo /\ left \subseteq Records
  BY <1>1, <1>8
<1>10. \/ job' = [job EXCEPT !.todo = left] /\ record' = record
       \/ /\ job' = [job EXCEPT !.todo = left] /\ IsLive(r)
          /\ record' = [record EXCEPT ![r].importance = score]
       \/ job' = Ends("failed") /\ record' = record
  BY <1>5, <1>6, <1>8
<1>12. ASSUME job' = [job EXCEPT !.todo = left],
              RecordsTyped', \A s \in Records : record[s] # None => record'[s] # None
       PROVE  TypeInv' /\ job'.pc = "rescore"
  <2>1. /\ job' \in JobTypes /\ job'.pc = "rescore" /\ job'.phase = 4
        /\ job'.view = job.view /\ job'.todo = left
    BY <1>1, <1>9, <1>12 DEF JobTypes, Merging
  <2>2. PhaseOf(job')
    BY <1>1, <1>9, <2>1 DEF PhaseOf, Merging
  <2>3. ListedStored'
    BY <1>1, <1>12, <2>1 DEF ListedStored, Listed
  <2> QED BY <1>1, <1>12, <2>1, <2>2, <2>3 DEF TypeInv
<1>13. CASE job' = [job EXCEPT !.todo = left] /\ record' = record
  BY <1>1, <1>12, <1>13 DEF RecordsTyped, SameMemory, IsLive
<1>14. CASE /\ job' = [job EXCEPT !.todo = left] /\ IsLive(r)
            /\ record' = [record EXCEPT ![r].importance = score]
  <2>1. PICK x : x = record[r] /\ x \in Record
    BY <1>4
  <2>2. PICK e : e = [x EXCEPT !.importance = score]
    OBVIOUS
  <2>3. Like(e, x, x.content, x.tags)
    BY ONLY <1>7, <2>1, <2>2, Rerated
  <2>4. e \in Record /\ e.content = x.content /\ e.tags = x.tags /\ e.live = x.live
    BY ONLY <2>3 DEF Like
  <2>5. record' = [record EXCEPT ![r] = e]
    BY <1>14, <2>1, <2>2
  <2>6. /\ RecordsTyped' /\ record'[r] = e
        /\ \A s \in Records : s # r => record'[s] = record[s]
        /\ \A s \in Records : record[s] # None => record'[s] # None
    BY <1>1, <1>4, <2>4, <2>5, Edited
  <2>7. SameMemory(r)
    <3>1. record'[r] # None /\ record[r] # None
      BY <1>4, <2>6, NoneAssumption
    <3>2. record'[r].content = record[r].content /\ record'[r].tags = record[r].tags
      BY <2>1, <2>4, <2>6
    <3>3. record'[r].live = record[r].live
      BY <2>1, <2>4, <2>6
    <3> QED BY <3>1, <3>2, <3>3 DEF SameMemory, IsLive
  <2>8. \A s \in Records : s # r => SameMemory(s)
    BY <2>6 DEF SameMemory, IsLive
  <2> QED BY <1>1, <1>12, <1>14, <2>6, <2>7, <2>8
<1>15. CASE job' = Ends("failed") /\ record' = record
  <2>1. RecordsTyped' /\ \A s \in Records : SameMemory(s)
    BY <1>1, <1>15 DEF RecordsTyped, SameMemory, IsLive
  <2> QED BY <1>1, <1>15, <2>1, Ended, AwayTyped, AwayInv
<1> QED BY <1>10, <1>13, <1>14, <1>15

LEMMA JobMade ==
    ASSUME NEW s \in {"completed", "failed"}, NEW b \in BOOLEAN
    PROVE  [status |-> s, ended |-> b] \in Job
BY Zenon DEF Job

\* The history keeps the last MaxJobs.
LEMMA JobRecorded ==
    ASSUME TypeInv, AppendJob
    PROVE  TypeInv' /\ record' = record /\ Away(job')
<1>1. /\ RecordsTyped /\ HistoryTyped /\ job \in JobTypes /\ job.pc = "append"
      /\ job.status \in {"completed", "failed"} /\ job' = NoJob /\ record' = record
  BY DEF TypeInv, PhaseOf, AppendJob
<1>2. PICK j : j = [status |-> job.status, ended |-> job.status = "completed"]
  OBVIOUS
<1>3. j \in Job
  <2>1. PICK b \in BOOLEAN : b = (job.status = "completed")
    BY Zenon
  <2>2. j = [status |-> job.status, ended |-> b]
    BY <1>2, <2>1, Zenon
  <2> QED BY <1>1, <2>2, JobMade, Zenon
<1>4. PICK jobs : jobs = Append(history, j)
  OBVIOUS
<1>5. history' = IF Len(jobs) > MaxJobs THEN Tail(jobs) ELSE jobs
  BY <1>2, <1>4, Zenon DEF AppendJob
<1>6. history \in Seq(Job) /\ Len(history) <= MaxJobs /\ Len(history) \in Nat /\ MaxJobs \in Nat
  BY <1>1, BoundsAssumption DEF HistoryTyped
<1>7. jobs \in Seq(Job) /\ Len(jobs) = Len(history) + 1 /\ jobs # <<>>
  BY <1>3, <1>4, <1>6
<1>8. Tail(jobs) \in Seq(Job) /\ Len(Tail(jobs)) = Len(history)
  BY <1>6, <1>7
<1>9. HistoryTyped'
  BY <1>5, <1>6, <1>7, <1>8 DEF HistoryTyped
<1>10. RecordsTyped'
  BY <1>1 DEF RecordsTyped
<1> QED BY <1>1, <1>9, <1>10, Idle, AwayTyped, AwayInv

\* A record that is written, whole, by the user.
LEMMA UserWrites ==
    ASSUME TypeInv, job' = job, history' = history,
           NEW r \in Records, NEW e \in Record, record' = [record EXCEPT ![r] = e]
    PROVE  TypeInv'
<1>1. /\ RecordsTyped' /\ \A s \in Records : record[s] # None => record'[s] # None
  BY Edited DEF TypeInv
<1>2. HistoryTyped' /\ job' \in JobTypes /\ PhaseOf(job')
  BY DEF TypeInv, HistoryTyped
<1>3. ListedStored'
  BY <1>1 DEF TypeInv, ListedStored, Listed
<1> QED BY <1>1, <1>2, <1>3 DEF TypeInv

LEMMA UserTyped ==
    ASSUME TypeInv, Store \/ \E r \in Records : Delete(r) \/ Retrieve(r) \/ Replace(r)
    PROVE  TypeInv' /\ job' = job /\ UserMayAct
<1>1. CASE Store
  <2>1. PICK p \in Pieces, tags \in SUBSET Tags, n \in Given, r \in Records :
            record' = [record EXCEPT ![r] =
                [content |-> <<p>>, tags |-> tags, importance |-> n,
                 uses |-> 0, live |-> TRUE]]
    BY <1>1, Zenon DEF Store
  <2>2. job' = job /\ history' = history /\ UserMayAct
    BY <1>1 DEF Store
  <2>3. PICK e : e = [content |-> <<p>>, tags |-> tags, importance |-> n,
                      uses |-> 0, live |-> TRUE]
    OBVIOUS
  <2>4. e \in Record
    <3>1. /\ <<p>> \in Seq(Pieces) /\ n \in 1 .. MaxImportance /\ 0 \in 0 .. Frequent
      BY BoundsAssumption
    <3> QED BY <2>3, <3>1, Zenon DEF Record
  <2>5. record' = [record EXCEPT ![r] = e]
    BY <2>1, <2>3, Zenon
  <2> QED BY <2>2, <2>4, <2>5, UserWrites
<1>2. ASSUME NEW r \in Records, Delete(r)
      PROVE  TypeInv' /\ job' = job /\ UserMayAct
  <2>1. job' = job /\ history' = history /\ UserMayAct /\ record[r] # None
    BY <1>2 DEF Delete, IsLive
  <2>2. record' = [record EXCEPT ![r].live = FALSE]
    BY <1>2, Zenon DEF Delete
  <2>3. RecordsTyped' /\ \A s \in Records : record[s] # None => record'[s] # None
    BY <2>1, <2>2, Deletion DEF TypeInv
  <2>4. HistoryTyped' /\ job' \in JobTypes /\ PhaseOf(job')
    BY <2>1 DEF TypeInv, HistoryTyped
  <2>5. ListedStored'
    BY <2>1, <2>3 DEF TypeInv, ListedStored, Listed
  <2> QED BY <2>1, <2>3, <2>4, <2>5 DEF TypeInv
<1>3. ASSUME NEW r \in Records, Retrieve(r)
      PROVE  TypeInv' /\ job' = job /\ UserMayAct
  <2>1. job' = job /\ history' = history /\ UserMayAct /\ record[r] \in Record
    BY <1>3 DEF Retrieve, IsLive, TypeInv, RecordsTyped
  <2>2. PICK u : u = Min({record[r].uses + 1, Frequent})
    OBVIOUS
  <2>3. u \in 0 .. Frequent
    BY <2>1, <2>2, Counted, RecordFields
  <2>4. PICK e : e = [record[r] EXCEPT !.uses = u]
    OBVIOUS
  <2>5. record' = [record EXCEPT ![r] = e]
    BY <1>3, <2>2, <2>4 DEF Retrieve
  <2>6. e \in Record
    BY <2>1, <2>3, <2>4, UsesTyped
  <2> QED BY <2>1, <2>5, <2>6, UserWrites
<1>4. ASSUME NEW r \in Records, Replace(r)
      PROVE  TypeInv' /\ job' = job /\ UserMayAct
  <2>1. job' = job /\ history' = history /\ UserMayAct /\ record[r] \in Record
    BY <1>4 DEF Replace, IsLive, TypeInv, RecordsTyped
  <2>2. PICK p \in Pieces : record' = [record EXCEPT ![r].content = <<p>>]
    BY <1>4 DEF Replace
  <2>3. PICK e : e = [record[r] EXCEPT !.content = <<p>>]
    OBVIOUS
  <2>4. record' = [record EXCEPT ![r] = e]
    BY <2>2, <2>3
  <2>5. <<p>> \in Seq(Pieces)
    OBVIOUS
  <2>6. e \in Record
    BY <2>1, <2>3, <2>5, Replaced
  <2> QED BY <2>1, <2>4, <2>6, UserWrites
<1> QED BY <1>1, <1>2, <1>3, <1>4

LEMMA TypeStep == TypeInv /\ [Next]_vars => TypeInv'
<1> SUFFICES ASSUME TypeInv, [Next]_vars PROVE TypeInv'
  OBVIOUS
<1>1. CASE UNCHANGED vars
  BY <1>1 DEF vars, TypeInv, RecordsTyped, HistoryTyped, ListedStored, Listed
<1>2. CASE JobStep
  BY <1>2, StepsAway, ChooseEnds, EntriesRead, DuplicateDeleted, PairChosen, SecondRead,
     ContentUpdated, Described, SecondRemoved, RescoreKeeps, JobRecorded DEF JobStep
<1>3. CASE Crash
  BY <1>3, StepsAway
<1>4. CASE Store \/ \E r \in Records : Delete(r) \/ Retrieve(r) \/ Replace(r)
  BY <1>4, UserTyped
<1> QED BY <1>1, <1>2, <1>3, <1>4 DEF Next

\* Every record, every listed record and the job have the parts the code gives them, a
\* record the job has listed stays stored, and the history is never longer than it may
\* be, also when the user's calls come between the job's.
THEOREM ConsolidationTypeCorrect == Spec => []TypeOK
<1>1. TypeInv => TypeOK
  BY DEF TypeInv, RecordsTyped, HistoryTyped, JobTypes, Views, Merging, TypeOK
<1> QED BY <1>1, TypeInit, TypeStep, PTL DEF Spec

-----------------------------------------------------------------------------
(* What the job has read still agrees with the records. *)

LEMMA AwayJobInv == ASSUME job'.pc \notin Merging \cup {"delete"} PROVE JobInv'
BY DEF JobInv, Merging

LEMMA EntriesAgree ==
    ASSUME TypeInv, ReadEntries
    PROVE  JobInv'
<1>1. /\ record' = record /\ job'.view = Entries
      /\ job'.pc = "delete" => job'.todo = Duplicates(Entries)
      /\ job'.pc \in {"delete", "choose", "rescore"}
  BY EntriesRead
<1>2. \A r \in Listed(Entries) : record[r] # None /\ IsLive(r) /\ Entries[r] = record[r]
  BY EntriesTyped DEF TypeInv
<1>3. PICK view : view = Entries
  OBVIOUS
<1>4. \A r \in Listed(view) : IsLive(r)' /\ view[r] = record'[r]
  BY <1>1, <1>2, <1>3 DEF IsLive
<1>5. job'.view = view /\ (job'.pc = "delete" => job'.todo = Duplicates(view))
  BY <1>1, <1>3
<1>6. CASE job'.pc = "delete"
  <2>1. Deleting'
    BY <1>4, <1>5, <1>6 DEF Deleting
  <2> QED BY <1>6, <2>1 DEF JobInv, Merging
<1>7. CASE job'.pc = "choose"
  <2>1. PairHeld' /\ TagsListed'
    BY <1>4, <1>5, <1>7 DEF PairHeld, TagsListed
  <2> QED BY <1>7, <2>1 DEF JobInv
<1>8. CASE job'.pc = "rescore"
  BY <1>8, AwayJobInv DEF Merging
<1> QED BY <1>1, <1>6, <1>7, <1>8

LEMMA DeletionAgrees ==
    ASSUME TypeInv, JobInv, DeleteDuplicate
    PROVE  JobInv'
<1>1. /\ job'.pc = "delete" /\ job'.view = job.view /\ job'.todo \subseteq job.todo
      /\ job.pc = "delete"
  BY DuplicateDeleted DEF DeleteDuplicate
<1>2. PICK r \in job.todo : record' = [record EXCEPT ![r].live = FALSE] /\ record[r] # None
  BY DuplicateDeleted, Zenon
<1>3. Deleting
  BY <1>1 DEF JobInv
<1>4. r \in Duplicates(job.view) /\ r \in Records /\ RecordsTyped
  BY <1>3 DEF Deleting, Duplicates, Listed, TypeInv
<1>5. /\ \A s \in Records : s # r => record'[s] = record[s]
      /\ record'[r].content = record[r].content
  BY <1>2, <1>4, Deletion
<1>6. \A s \in Listed(job.view) : s \in Records
  BY DEF Listed
<1>7. \A s \in Listed(job.view) : record'[s].content = job.view[s].content
  <2>1. \A s \in Listed(job.view) : record[s].content = job.view[s].content
    BY <1>3 DEF Deleting
  <2> QED BY <1>5, <1>6, <2>1
<1>8. \A s \in Listed(job.view) \ Duplicates(job.view) : IsLive(s)'
  <2>1. \A s \in Listed(job.view) \ Duplicates(job.view) : IsLive(s) /\ s # r
    BY <1>3, <1>4 DEF Deleting
  <2> QED BY <1>5, <1>6, <2>1 DEF IsLive
<1>9. Deleting'
  BY <1>1, <1>3, <1>7, <1>8 DEF Deleting
<1> QED BY <1>1, <1>9 DEF JobInv, Merging

LEMMA ChoiceAgrees ==
    ASSUME TypeInv, JobInv, ChoosePair
    PROVE  JobInv'
<1>1. /\ record' = record /\ job.pc = "choose" /\ job'.pc = "read"
      /\ job'.view = job.view /\ job'.gone = job.gone
      /\ job'.pair[1] \in Listed(job.view) \ job.gone
      /\ job'.pair[2] \in Listed(job.view) \ job.gone
      /\ job'.first = record[job'.pair[1]].content
  BY PairChosen
<1>2. PairHeld /\ TagsListed
  BY <1>1 DEF JobInv, Merging
<1>3. PairHeld'
  BY <1>1, <1>2 DEF PairHeld, IsLive
<1>4. TagsListed'
  BY <1>1, <1>2 DEF TagsListed
<1> QED BY <1>1, <1>3, <1>4 DEF JobInv

LEMMA ReadingAgrees ==
    ASSUME TypeInv, JobInv, ReadSecond
    PROVE  JobInv'
<1>1. /\ record' = record /\ job.pc = "read"
      /\ job'.view = job.view /\ job'.gone = job.gone
      /\ \/ job'.pc = "choose"
         \/ /\ job'.pc = "update" /\ job'.pair = job.pair /\ job'.first = job.first
            /\ job'.second = record[job.pair[2]].content
  BY SecondRead
<1>2. PairHeld /\ TagsListed
  BY <1>1 DEF JobInv, Merging
<1>3. PairHeld'
  BY <1>1, <1>2 DEF PairHeld, IsLive
<1>4. TagsListed'
  BY <1>1, <1>2 DEF TagsListed
<1> QED BY <1>1, <1>3, <1>4 DEF JobInv

LEMMA UpdateAgrees ==
    ASSUME TypeInv, JobInv, UpdateContent
    PROVE  JobInv'
<1>1. job.pc = "update" /\ PairHeld /\ TagsListed
  BY ContentUpdated DEF JobInv, Merging
<1>2. CASE Away(job')
  BY <1>2, AwayJobInv DEF Away, Merging
<1>3. CASE ~ Away(job')
  <2>1. /\ job'.pc = "describe" /\ job'.pair = job.pair
        /\ job'.view = job.view /\ job'.gone = job.gone
        /\ \A s \in Records : s # job.pair[1] => record'[s] = record[s]
        /\ record'[job.pair[1]].content = job.first \o job.second
        /\ record'[job.pair[1]].tags = record[job.pair[1]].tags
        /\ IsLive(job.pair[1])'
    BY <1>3, ContentUpdated
  <2>2. /\ job.pair[2] \in Records /\ job.pair[1] # job.pair[2]
        /\ \A r \in Listed(job.view) : r \in Records
    BY <1>1, PairTyped
  <2>3. ToSet(record'[job.pair[2]].content) \subseteq ToSet(record'[job.pair[1]].content)
    <3>1. record'[job.pair[2]].content = job.second
      BY <1>1, <2>1, <2>2 DEF PairHeld
    <3>2. job.first \in Seq(Pieces) /\ job.second \in Seq(Pieces)
      BY <1>1, PairTyped DEF JobTypes
    <3>3. ToSet(job.second) \subseteq ToSet(job.first \o job.second)
      BY <3>2, BothHeld
    <3> QED BY <2>1, <3>1, <3>3
  <2>4. PairHeld'
    <3>1. \A r \in Listed(job.view) \ job.gone : IsLive(r)'
      BY <1>1, <2>1, <2>2 DEF PairHeld, IsLive
    <3>2. job.pair[1] \notin job.gone /\ job.pair[2] \notin job.gone
      BY <1>1 DEF PairHeld
    <3> QED BY <2>1, <2>3, <3>1, <3>2 DEF PairHeld
  <2>5. TagsListed'
    BY <1>1, <2>1, <2>2 DEF TagsListed
  <2> QED BY <2>1, <2>4, <2>5 DEF JobInv
<1> QED BY <1>2, <1>3

LEMMA DescriptionAgrees ==
    ASSUME TypeInv, JobInv, Describe
    PROVE  JobInv'
<1>1. job.pc = "describe" /\ PairHeld /\ TagsListed
  BY Described DEF JobInv, Merging
<1>2. CASE Away(job')
  BY <1>2, AwayJobInv DEF Away, Merging
<1>3. CASE ~ Away(job')
  <2>1. /\ job'.pc = "remove" /\ job'.pair = job.pair
        /\ job'.view = job.view /\ job'.gone = job.gone
        /\ \A s \in Records : s # job.pair[1] => record'[s] = record[s]
        /\ record'[job.pair[1]].content = record[job.pair[1]].content
        /\ record'[job.pair[1]].tags
               = job.view[job.pair[1]].tags \cup job.view[job.pair[2]].tags
        /\ IsLive(job.pair[1])'
    BY <1>3, Described
  <2>2. /\ job.pair[2] \in Records /\ job.pair[1] # job.pair[2]
        /\ \A r \in Listed(job.view) : r \in Records
    BY <1>1, PairTyped
  <2>3. PairHeld'
    <3>1. \A r \in Listed(job.view) \ job.gone : IsLive(r)'
      BY <1>1, <2>1, <2>2 DEF PairHeld, IsLive
    <3>2. job.pair[1] \notin job.gone /\ job.pair[2] \notin job.gone
      BY <1>1 DEF PairHeld
    <3>3. ToSet(record'[job.pair[2]].content) \subseteq ToSet(record'[job.pair[1]].content)
      BY <1>1, <2>1, <2>2 DEF PairHeld
    <3> QED BY <2>1, <3>1, <3>2, <3>3 DEF PairHeld
  <2>4. TagsListed'
    BY <1>1, <2>1, <2>2 DEF TagsListed
  <2> QED BY <2>1, <2>3, <2>4 DEF JobInv
<1> QED BY <1>2, <1>3

LEMMA RemovalAgrees ==
    ASSUME TypeInv, JobInv, RemoveSecond
    PROVE  JobInv'
<1>1. /\ job.pc = "remove" /\ job'.pc = "choose" /\ job'.view = job.view
      /\ job'.gone = job.gone \cup {job.pair[2]}
      /\ record' = [record EXCEPT ![job.pair[2]].live = FALSE]
  BY SecondRemoved, Zenon
<1>2. PairHeld
  BY <1>1 DEF JobInv, Merging
<1>3. /\ RecordsTyped /\ job.pair[2] \in Records /\ record[job.pair[2]] # None
      /\ \A r \in Listed(job.view) : r \in Records
  BY <1>1, PairTyped
<1>4. \A s \in Records : s # job.pair[2] => record'[s] = record[s]
  BY <1>1, <1>3, Deletion
<1>5. \A r \in Listed(job.view) \ job'.gone : IsLive(r)'
  BY <1>1, <1>2, <1>3, <1>4 DEF PairHeld, IsLive
<1>6. PairHeld'
  BY <1>1, <1>5 DEF PairHeld
<1>7. TagsListed'
  BY <1>1 DEF TagsListed
<1> QED BY <1>1, <1>6, <1>7 DEF JobInv

LEMMA JobInvInit == Init => JobInv
BY Idle DEF Init, JobInv, Merging

LEMMA JobInvStep ==
    ASSUME Interleaved = FALSE, TypeInv, JobInv, [Next]_vars
    PROVE  JobInv'
<1>1. CASE UNCHANGED vars
  BY <1>1 DEF vars, JobInv, Deleting, PairHeld, TagsListed, IsLive
<1>2. CASE StartRun \/ CallFails \/ Crash \/ NextPhase \/ AppendJob
  <2>1. Away(job')
    BY <1>2, StepsAway, ChooseEnds, JobRecorded
  <2> QED BY <2>1, AwayJobInv DEF Away, Merging
<1>3. CASE Rescore
  BY <1>3, RescoreKeeps, AwayJobInv DEF Merging
<1>4. CASE Store \/ \E r \in Records : Delete(r) \/ Retrieve(r) \/ Replace(r)
  <2>1. job' = job /\ job.pc = "idle"
    BY <1>4, UserTyped DEF UserMayAct
  <2> QED BY <2>1, AwayJobInv DEF Merging
<1> QED BY <1>1, <1>2, <1>3, <1>4, EntriesAgree, DeletionAgrees, ChoiceAgrees, ReadingAgrees,
            UpdateAgrees, DescriptionAgrees, RemovalAgrees DEF Next, JobStep

-----------------------------------------------------------------------------
(* What the live records hold. *)

LEMMA RememberedIn ==
    ASSUME NEW x
    PROVE  x \in Remembered <=> \E r \in Records : IsLive(r) /\ x \in ToSet(record[r].content)
BY DEF Remembered

LEMMA RememberedNext ==
    ASSUME NEW x
    PROVE  x \in Remembered' <=> \E r \in Records : IsLive(r)' /\ x \in ToSet(record'[r].content)
BY DEF Remembered

LEMMA KnownIn ==
    ASSUME NEW x
    PROVE  x \in KnownTags <=> \E r \in Records : IsLive(r) /\ x \in record[r].tags
BY DEF KnownTags

LEMMA KnownNext ==
    ASSUME NEW x
    PROVE  x \in KnownTags' <=> \E r \in Records : IsLive(r)' /\ x \in record'[r].tags
BY DEF KnownTags

LEMMA ContentSame ==
    ASSUME \A r \in Records : /\ record'[r].content = record[r].content
                              /\ IsLive(r)' <=> IsLive(r)
    PROVE  Remembered' = Remembered
<1>1. \A x : x \in Remembered' <=> x \in Remembered
  BY RememberedIn, RememberedNext
<1> QED BY <1>1

\* A record can go when another that is alive holds what it does.
LEMMA Absorbed ==
    ASSUME RecordsTyped, NEW r \in Records, NEW s \in Records, r # s, IsLive(s),
           record[r] # None, ToSet(record[r].content) \subseteq ToSet(record[s].content),
           record' = [record EXCEPT ![r].live = FALSE]
    PROVE  Remembered' = Remembered
<1>1. /\ \A q \in Records : q # r => record'[q] = record[q]
      /\ ~ record'[r].live
  BY Deletion
<1>2. \A q \in Records : q # r => (IsLive(q)' <=> IsLive(q))
  BY <1>1 DEF IsLive
<1>3. ~ IsLive(r)'
  BY <1>1 DEF IsLive
<1>4. ASSUME NEW x \in Remembered PROVE x \in Remembered'
  <2>1. PICK q \in Records : IsLive(q) /\ x \in ToSet(record[q].content)
    BY RememberedIn
  <2>2. CASE q = r
    BY <1>1, <1>2, <2>1, <2>2, RememberedNext
  <2>3. CASE q # r
    BY <1>1, <1>2, <2>1, <2>3, RememberedNext
  <2> QED BY <2>2, <2>3
<1>5. ASSUME NEW x \in Remembered' PROVE x \in Remembered
  <2>1. PICK q \in Records : IsLive(q)' /\ x \in ToSet(record'[q].content)
    BY RememberedNext
  <2>2. q # r /\ IsLive(q) /\ record'[q] = record[q]
    BY <1>1, <1>2, <1>3, <2>1
  <2> QED BY <2>1, <2>2, RememberedIn
<1> QED BY <1>4, <1>5

\* The newest of the listed records of a content is no duplicate.
LEMMA NewestStays ==
    ASSUME NEW view, NEW r \in Duplicates(view)
    PROVE  \E s \in Listed(view) \ Duplicates(view) : s # r /\ view[s].content = view[r].content
<1> DEFINE same == {s \in Listed(view) : view[s].content = view[r].content}
<1>1. r \in Listed(view) /\ r \in same
  BY DEF Duplicates
<1>2. same \subseteq 1 .. MaxRecords /\ MaxRecords \in Nat
  BY BoundsAssumption DEF Listed, Records
<1>3. PICK s \in same : \A x \in same : x <= s
  BY <1>1, <1>2, GreatestIsMax
<1>4. s \notin Duplicates(view)
  <2>1. SUFFICES ASSUME s \in Duplicates(view) PROVE FALSE
    OBVIOUS
  <2>2. PICK x \in Listed(view) : x > s /\ view[x].content = view[s].content
    BY <2>1 DEF Duplicates
  <2>3. x \in same /\ x \in Nat /\ s \in Nat
    BY <1>2, <2>2
  <2>4. x <= s
    BY <1>3, <2>3
  <2> QED BY <2>2, <2>3, <2>4
<1> QED BY <1>3, <1>4

-----------------------------------------------------------------------------
(* The action properties. *)

LEMMA UpdateKeeps ==
    ASSUME TypeInv, JobInv, UpdateContent
    PROVE  Remembered' = Remembered /\ KnownTags' = KnownTags
<1>1. job.pc = "update" /\ PairHeld
  BY ContentUpdated DEF JobInv, Merging
<1>2. CASE record' = record
  BY <1>2 DEF Remembered, KnownTags, IsLive
<1>3. CASE record' # record
  <2>1. /\ \A s \in Records : s # job.pair[1] => record'[s] = record[s]
        /\ record'[job.pair[1]].content = job.first \o job.second
        /\ record'[job.pair[1]].tags = record[job.pair[1]].tags
        /\ IsLive(job.pair[1]) /\ IsLive(job.pair[1])' /\ job'.pair = job.pair
    BY <1>3, ContentUpdated
  <2>2. /\ job.pair[1] \in Records /\ job.pair[2] \in Records /\ job.pair[1] # job.pair[2]
        /\ job.pair[2] \in Listed(job.view)
        /\ job.first \in Seq(Pieces) /\ job.second \in Seq(Pieces)
    BY <1>1, PairTyped DEF JobTypes
  <2>3. PICK i, j : i = job.pair[1] /\ j = job.pair[2]
    OBVIOUS
  <2>4. /\ i \in Records /\ j \in Records /\ i # j
        /\ IsLive(i) /\ IsLive(i)' /\ IsLive(j)
        /\ \A s \in Records : s # i => record'[s] = record[s] /\ (IsLive(s)' <=> IsLive(s))
        /\ record'[i].tags = record[i].tags
    <3>1. \A s \in Records : s # i => record'[s] = record[s]
      BY <2>1, <2>3
    <3>2. \A s \in Records : s # i => (IsLive(s)' <=> IsLive(s))
      BY <3>1 DEF IsLive
    <3>3. IsLive(j)
      BY <1>1, <2>2, <2>3 DEF PairHeld
    <3>4. IsLive(i) /\ IsLive(i)' /\ record'[i].tags = record[i].tags
      BY <2>1, <2>3 DEF IsLive
    <3> QED BY <2>2, <2>3, <3>1, <3>2, <3>3, <3>4
  <2>5. ToSet(record'[i].content) = ToSet(record[i].content) \cup ToSet(record[j].content)
    <3>1. job.first = record[i].content /\ job.second = record[j].content
      BY <1>1, <2>3 DEF PairHeld
    <3>2. PICK a, b : a = job.first /\ b = job.second
      OBVIOUS
    <3>3. ToSet(a \o b) = ToSet(a) \cup ToSet(b)
      BY <2>2, <3>2, BothHeld
    <3>4. record'[i].content = a \o b
      BY <2>1, <2>3, <3>2
    <3> QED BY <3>1, <3>2, <3>3, <3>4
  <2>6. \A x : x \in Remembered' <=> x \in Remembered
    <3>1. ASSUME NEW x \in Remembered PROVE x \in Remembered'
      <4>1. PICK q \in Records : IsLive(q) /\ x \in ToSet(record[q].content)
        BY RememberedIn
      <4>2. IsLive(q)' /\ x \in ToSet(record'[q].content)
        BY <2>4, <2>5, <4>1
      <4> QED BY <4>2, RememberedNext
    <3>2. ASSUME NEW x \in Remembered' PROVE x \in Remembered
      <4>1. PICK q \in Records : IsLive(q)' /\ x \in ToSet(record'[q].content)
        BY RememberedNext
      <4>2. CASE q = i
        BY <2>4, <2>5, <4>1, <4>2, RememberedIn
      <4>3. CASE q # i
        BY <2>4, <4>1, <4>3, RememberedIn
      <4> QED BY <4>2, <4>3
    <3> QED BY <3>1, <3>2
  <2>7. \A q \in Records : record'[q].tags = record[q].tags /\ (IsLive(q)' <=> IsLive(q))
    BY <2>4
  <2>8. \A x : x \in KnownTags' <=> x \in KnownTags
    BY <2>7, KnownIn, KnownNext
  <2> QED BY <2>6, <2>8
<1> QED BY <1>2, <1>3

LEMMA DescriptionKeeps ==
    ASSUME TypeInv, JobInv, Describe
    PROVE  Remembered' = Remembered /\ (job.gone = {} => KnownTags \subseteq KnownTags')
<1>1. job.pc = "describe" /\ PairHeld /\ TagsListed
  BY Described DEF JobInv, Merging
<1>2. CASE record' = record
  BY <1>2 DEF Remembered, KnownTags, IsLive
<1>3. CASE record' # record
  <2>1. PICK i, j : i = job.pair[1] /\ j = job.pair[2]
    OBVIOUS
  <2>2. /\ \A s \in Records : s # i => record'[s] = record[s]
        /\ record'[i].content = record[i].content
        /\ record'[i].tags = job.view[i].tags \cup job.view[j].tags
        /\ IsLive(i) /\ IsLive(i)'
    BY <1>3, <2>1, Described
  <2>3. /\ i \in Records /\ i \in Listed(job.view)
    BY <1>1, <2>1, PairTyped
  <2>4. \A s \in Records : record'[s].content = record[s].content /\ (IsLive(s)' <=> IsLive(s))
    BY <2>2 DEF IsLive
  <2>5. ASSUME job.gone = {} PROVE KnownTags \subseteq KnownTags'
    <3>1. \A s \in Records : record[s].tags \subseteq record'[s].tags
      <4>1. record[i].tags = job.view[i].tags
        BY <1>1, <2>3, <2>5 DEF TagsListed
      <4> QED BY <2>2, <4>1
    <3>2. ASSUME NEW x \in KnownTags PROVE x \in KnownTags'
      BY <2>4, <3>1, KnownIn, KnownNext
    <3> QED BY <3>2
  <2> QED BY <2>4, <2>5, ContentSame
<1> QED BY <1>2, <1>3

LEMMA RemovalKeeps ==
    ASSUME TypeInv, JobInv, RemoveSecond
    PROVE  Remembered' = Remembered /\ (job.gone = {} => KnownTags \subseteq KnownTags')
<1>1. job.pc = "remove" /\ PairHeld /\ TagsListed
  BY SecondRemoved DEF JobInv, Merging
<1>2. PICK i, j : i = job.pair[1] /\ j = job.pair[2]
  OBVIOUS
<1>3. record' = [record EXCEPT ![j].live = FALSE]
  BY <1>2, SecondRemoved, Zenon
<1>4. /\ RecordsTyped /\ i \in Records /\ j \in Records /\ i # j
      /\ i \in Listed(job.view) /\ j \in Listed(job.view)
      /\ record[j] # None
  BY <1>1, <1>2, PairTyped
<1>5. IsLive(i) /\ ToSet(record[j].content) \subseteq ToSet(record[i].content)
  BY <1>1, <1>2, <1>4 DEF PairHeld
<1>6. Remembered' = Remembered
  BY <1>3, <1>4, <1>5, Absorbed
<1>7. ASSUME job.gone = {} PROVE KnownTags \subseteq KnownTags'
  <2>1. record[j].tags \subseteq record[i].tags
    BY <1>1, <1>2, <1>4, <1>7 DEF TagsListed
  <2>2. \A s \in Records : s # j => record'[s] = record[s] /\ (IsLive(s)' <=> IsLive(s))
    <3>1. \A s \in Records : s # j => record'[s] = record[s]
      BY <1>3, <1>4, Deletion
    <3> QED BY <3>1 DEF IsLive
  <2>3. ASSUME NEW x \in KnownTags PROVE x \in KnownTags'
    <3>1. PICK q \in Records : IsLive(q) /\ x \in record[q].tags
      BY KnownIn
    <3>2. CASE q = j
      BY <1>4, <1>5, <2>1, <2>2, <3>1, <3>2, KnownNext
    <3>3. CASE q # j
      BY <2>2, <3>1, <3>3, KnownNext
    <3> QED BY <3>2, <3>3
  <2> QED BY <2>3
<1> QED BY <1>6, <1>7

LEMMA DeletionKeeps ==
    ASSUME TypeInv, JobInv, DeleteDuplicate
    PROVE  Remembered' = Remembered
<1>1. PICK r \in job.todo : record' = [record EXCEPT ![r].live = FALSE] /\ record[r] # None
  BY DuplicateDeleted, Zenon
<1>2. Deleting
  BY DEF JobInv, DeleteDuplicate
<1>3. r \in Duplicates(job.view) /\ r \in Listed(job.view) /\ r \in Records /\ RecordsTyped
  BY <1>2 DEF Deleting, Duplicates, Listed, TypeInv
<1>4. PICK s \in Listed(job.view) \ Duplicates(job.view) :
        s # r /\ job.view[s].content = job.view[r].content
  BY <1>3, NewestStays
<1>5. IsLive(s) /\ record[s].content = record[r].content /\ s \in Records
  BY <1>2, <1>3, <1>4 DEF Deleting, Listed
<1> QED BY <1>1, <1>3, <1>4, <1>5, Absorbed

\* The steps of the job that write no record, and the one that re-scores.
LEMMA OthersKeep ==
    ASSUME TypeInv, StartRun \/ ReadEntries \/ NextPhase \/ ChoosePair \/ ReadSecond
                    \/ AppendJob \/ CallFails \/ Crash \/ Rescore
    PROVE  Remembered' = Remembered /\ KnownTags' = KnownTags
<1>1. CASE Rescore
  <2>1. \A s \in Records : SameMemory(s)
    BY <1>1, RescoreKeeps
  <2>2. Remembered' = Remembered
    BY <2>1, ContentSame DEF SameMemory
  <2>3. \A x : x \in KnownTags' <=> x \in KnownTags
    BY <2>1, KnownIn, KnownNext DEF SameMemory
  <2> QED BY <2>2, <2>3
<1>2. CASE ~ Rescore
  <2>1. record' = record
    BY <1>2 DEF StartRun, ReadEntries, NextPhase, ChoosePair, ReadSecond, AppendJob,
                CallFails, Crash
  <2> QED BY <2>1 DEF Remembered, KnownTags, IsLive
<1> QED BY <1>1, <1>2

\* No step of a job loses a piece of content that some live record holds, nor revives one
\* that none does: not a deletion of a duplicate, whose newest copy stays, not one of the
\* five calls of a merge, wherever it fails or the process dies, and not the re-scoring.
\* The user's calls come before or after the job.
THEOREM JobsKeepContent ==
    ASSUME Interleaved = FALSE
    PROVE  Spec => JobKeepsContent
<1>1. TypeInv /\ JobInv /\ [Next]_vars => JobInv'
  BY JobInvStep
<1>2. TypeInv /\ JobInv /\ [Next]_vars => [JobMoves => Remembered' = Remembered]_vars
  <2> SUFFICES ASSUME TypeInv, JobInv, Next, JobMoves PROVE Remembered' = Remembered
    BY DEF vars, JobMoves
  <2>1. ~ (Store \/ \E r \in Records : Delete(r) \/ Retrieve(r) \/ Replace(r))
    BY UserTyped DEF JobMoves
  <2> QED BY <2>1, OthersKeep, DeletionKeeps, UpdateKeeps, DescriptionKeeps, RemovalKeeps
          DEF Next, JobStep
<1> QED BY <1>1, <1>2, TypeInit, TypeStep, JobInvInit, PTL DEF Spec, JobKeepsContent

\* The first merge of a job keeps every tag that some live record has, step by step: the
\* union is on the first record before the second goes.  The user's calls come before or
\* after the job.
THEOREM FirstMergeKeepsTags ==
    ASSUME Interleaved = FALSE
    PROVE  Spec => MergeKeepsTags
<1>1. TypeInv /\ JobInv /\ [Next]_vars => JobInv'
  BY JobInvStep
<1>2. TypeInv /\ JobInv /\ [Next]_vars =>
        [job.phase = 3 /\ job.gone = {} /\ JobMoves => KnownTags \subseteq KnownTags']_vars
  <2> SUFFICES ASSUME TypeInv, JobInv, Next, JobMoves, job.phase = 3, job.gone = {}
               PROVE  KnownTags \subseteq KnownTags'
    BY DEF vars, JobMoves
  <2>1. ~ (Store \/ \E r \in Records : Delete(r) \/ Retrieve(r) \/ Replace(r))
    BY UserTyped DEF JobMoves
  <2>2. ~ DeleteDuplicate
    BY DEF TypeInv, PhaseOf, DeleteDuplicate
  <2> QED BY <2>1, <2>2, OthersKeep, UpdateKeeps, DescriptionKeeps, RemovalKeeps
          DEF Next, JobStep
<1> QED BY <1>1, <1>2, TypeInit, TypeStep, JobInvInit, PTL DEF Spec, MergeKeepsTags

-----------------------------------------------------------------------------
(* The blob cache *)

LEMMA EntrySize ==
    ASSUME NEW x \in Entry
    PROVE  x.size \in Nat /\ x.key \in Keys
<1>1. x.size \in Sizes /\ x.key \in Keys
  BY DEF Entry
<1> QED BY <1>1, CacheAssumption

AddSize == [p \in Nat \X Entry |-> p[1] + p[2].size]

LEMMA SizeIsFolded ==
    ASSUME NEW s \in Seq(Entry)
    PROVE  SizeOf(s) = Folded(Nat, 0, AddSize, s)
<1> DEFINE G(x, y) == x + y.size
           F(f) == [n \in 0 .. Len(s) |-> IF n = 0 THEN 0 ELSE G(f[n - 1], s[n])]
           P(f) == f = F(f)
           N == Len(s)
           step == AddSize
<1>1. SizeOf(s) = (CHOOSE h : P(h))[N] BY DEF SizeOf
<1>2. N \in Nat /\ 0 \in Nat /\ s \in Seq(Entry) /\ \A n \in 1 .. N : s[n] \in Entry OBVIOUS
<1>3. ASSUME NEW x \in Nat, NEW y \in Entry PROVE G(x, y) \in Nat
  BY EntrySize
<1>4. ASSUME NEW x \in Nat, NEW y \in Entry PROVE step[<<x, y>>] = G(x, y)
  BY DEF AddSize
<1>5. IsStep(step, Nat, Entry)
  BY <1>3 DEF AddSize, IsStep
<1> HIDE DEF N, G, step
<1>6. PICK f : Run(f, Nat, 0, step, s)
  BY <1>2, <1>5, RunExists
<1>7. P(f)
  <2>1. f[0] = 0 /\ f = [n \in 0 .. N |-> f[n]] BY <1>6 DEF Run, N
  <2>2. ASSUME NEW n \in 0 .. N, n # 0 PROVE f[n] = G(f[n - 1], s[n])
    <3>1. n \in 1 .. N /\ f[n - 1] \in Nat /\ s[n] \in Entry BY <1>2, <1>6, <2>2 DEF Run, N
    <3> QED BY <1>4, <1>6, <3>1 DEF Run, N
  <2>3. F(f) = [n \in 0 .. N |-> IF n = 0 THEN 0 ELSE G(f[n - 1], s[n])] BY DEF N
  <2> QED BY <2>1, <2>2, <2>3
<1> DEFINE g == CHOOSE h : P(h)
<1>8. P(g)
  <2> HIDE DEF P
  <2> QED BY <1>7, Zenon
<1> HIDE DEF g
<1>9. Steps(g, Nat, 0, step, s)
  BY <1>2, <1>4, <1>8 DEF Steps, N
<1>10. g[N] = Folded(Nat, 0, step, s)
  BY <1>2, <1>5, <1>9, FoldedBy DEF N
<1> QED BY <1>1, <1>10 DEF g, step

LEMMA SizeFacts ==
    /\ SizeOf(<<>>) = 0
    /\ \A s \in Seq(Entry) : SizeOf(s) \in Nat
    /\ \A s \in Seq(Entry), x \in Entry : SizeOf(Append(s, x)) = SizeOf(s) + x.size
<1> DEFINE step == AddSize
           A == Nat
           e == 0
           O(s) == Folded(A, e, step, s)
<1>1. IsStep(step, A, Entry) /\ e \in A
  BY EntrySize DEF IsStep, AddSize
<1>2. \A s \in Seq(Entry) : SizeOf(s) = O(s)
  BY SizeIsFolded
<1>3. 0 \in Nat /\ <<>> \in Seq(Entry) /\ \A s \in Seq(Entry), x \in Entry : Append(s, x) \in Seq(Entry)
  OBVIOUS
<1>4. ASSUME NEW y \in Nat, NEW x \in Entry PROVE step[<<y, x>>] = y + x.size
  BY DEF AddSize
<1> HIDE DEF step, A, e
<1>5. /\ O(<<>>) = e
      /\ \A s \in Seq(Entry) : O(s) \in A
      /\ \A s \in Seq(Entry), x \in Entry : O(Append(s, x)) = step[<<O(s), x>>]
  BY <1>1, FoldedFacts
<1> HIDE DEF O
<1>6. ASSUME NEW s \in Seq(Entry), NEW x \in Entry PROVE SizeOf(Append(s, x)) = SizeOf(s) + x.size
  <2>1. Append(s, x) \in Seq(Entry) /\ O(s) \in Nat /\ O(Append(s, x)) = step[<<O(s), x>>]
    BY <1>3, <1>5 DEF A
  <2> QED BY <1>2, <1>4, <2>1
<1> QED BY <1>2, <1>3, <1>5, <1>6 DEF A, e

LEMMA SizeOfEmpty == SizeOf(<<>>) = 0
  BY SizeFacts

LEMMA SizeTyped ==
    ASSUME NEW s \in Seq(Entry)
    PROVE  SizeOf(s) \in Nat
  BY SizeFacts

LEMMA SizeOfAppend ==
    ASSUME NEW s \in Seq(Entry), NEW x \in Entry
    PROVE  SizeOf(Append(s, x)) = SizeOf(s) + x.size
<1>1. \A r \in Seq(Entry), y \in Entry : SizeOf(Append(r, y)) = SizeOf(r) + y.size
  BY SizeFacts
<1> QED BY <1>1, Zenon

\* What is in S and what is not make up the whole.
LEMMA SizeOfParts ==
    ASSUME NEW S
    PROVE  \A s \in Seq(Entry) : SizeOf(Only(s, S)) + SizeOf(Only(s, Entry \ S)) = SizeOf(s)
<1> DEFINE R == Entry \ S
           G == {s \in Seq(Entry) : SizeOf(Only(s, S)) + SizeOf(Only(s, R)) = SizeOf(s)}
<1>1. <<>> \in G
  <2>1. <<>> \in Seq(Entry)
    OBVIOUS
  <2> QED BY <2>1, OnlyOfEmpty, SizeOfEmpty
<1>2. \A x \in Entry : x \in R <=> x \notin S
  OBVIOUS
<1> HIDE DEF R
<1>3. ASSUME NEW s \in Seq(Entry), NEW x \in Entry, s \in G PROVE Append(s, x) \in G
  <2> DEFINE t == Append(s, x)
             u == Only(s, S)
             v == Only(s, R)
  <2>1. t \in Seq(Entry) /\ u \in Seq(Entry) /\ v \in Seq(Entry) /\ SizeOf(u) + SizeOf(v) = SizeOf(s)
    BY <1>3, OnlyTyped
  <2>2. /\ x \in S => Only(t, S) = Append(u, x)
        /\ x \notin S => Only(t, S) = u
        /\ x \in R => Only(t, R) = Append(v, x)
        /\ x \notin R => Only(t, R) = v
    BY OnlyAppend
  <2> HIDE DEF u, v
  <2>3. /\ SizeOf(t) = SizeOf(s) + x.size
        /\ SizeOf(Append(u, x)) = SizeOf(u) + x.size
        /\ SizeOf(Append(v, x)) = SizeOf(v) + x.size
    BY <2>1, SizeOfAppend
  <2>4. SizeOf(u) \in Nat /\ SizeOf(v) \in Nat /\ SizeOf(s) \in Nat /\ x.size \in Nat
    BY <2>1, SizeTyped, EntrySize
  <2> HIDE DEF t
  <2>5. SizeOf(Only(t, S)) + SizeOf(Only(t, R)) = SizeOf(t)
    <3>1. CASE x \in S
      <4>1. Only(t, S) = Append(u, x) /\ Only(t, R) = v
        BY <1>2, <2>2, <3>1
      <4> QED BY <2>1, <2>3, <2>4, <4>1
    <3>2. CASE x \notin S
      <4>1. Only(t, S) = u /\ Only(t, R) = Append(v, x)
        BY <1>2, <2>2, <3>2
      <4> QED BY <2>1, <2>3, <2>4, <4>1
    <3> QED BY <3>1, <3>2
  <2> QED BY <2>1, <2>5 DEF t
<1> HIDE DEF G
<1>4. Seq(Entry) \subseteq G
  BY <1>1, <1>3, SeqInduct
<1> QED BY <1>4 DEF G, R

LEMMA SizeOfConcat ==
    ASSUME NEW s \in Seq(Entry)
    PROVE  \A t \in Seq(Entry) : SizeOf(s \o t) = SizeOf(s) + SizeOf(t)
<1> DEFINE G == {t \in Seq(Entry) : SizeOf(s \o t) = SizeOf(s) + SizeOf(t)}
<1>1. <<>> \in G
  <2>1. <<>> \in Seq(Entry) /\ s \o <<>> = s /\ SizeOf(s) \in Nat
    BY SizeTyped
  <2> QED BY <2>1, SizeOfEmpty
<1>2. ASSUME NEW t \in Seq(Entry), NEW x \in Entry, t \in G PROVE Append(t, x) \in G
  <2>1. Append(t, x) \in Seq(Entry) /\ s \o t \in Seq(Entry)
    OBVIOUS
  <2>2. s \o Append(t, x) = Append(s \o t, x)
    OBVIOUS
  <2>3. SizeOf(Append(s \o t, x)) = SizeOf(s \o t) + x.size /\ SizeOf(Append(t, x)) = SizeOf(t) + x.size
    BY <2>1, SizeOfAppend
  <2>4. SizeOf(s) \in Nat /\ SizeOf(t) \in Nat /\ x.size \in Nat
    BY SizeTyped, EntrySize
  <2>5. SizeOf(s \o t) = SizeOf(s) + SizeOf(t)
    BY <1>2
  <2>6. SizeOf(s \o Append(t, x)) = SizeOf(s) + SizeOf(Append(t, x))
    BY ONLY <2>2, <2>3, <2>4, <2>5
  <2> QED BY <2>1, <2>6
<1> HIDE DEF G
<1>3. Seq(Entry) \subseteq G
  BY <1>1, <1>2, SeqInduct
<1> QED BY <1>3 DEF G

-----------------------------------------------------------------------------
KeysOf(s) == [i \in DOMAIN s |-> s[i].key]

LEMMA KeysTyped ==
    ASSUME NEW s \in Seq(Entry)
    PROVE  /\ KeysOf(s) \in Seq(Keys) /\ Len(KeysOf(s)) = Len(s)
           /\ \A i \in 1 .. Len(s) : KeysOf(s)[i] = s[i].key
<1>1. \A i \in 1 .. Len(s) : s[i] \in Entry
  OBVIOUS
<1>2. \A i \in 1 .. Len(s) : s[i].key \in Keys
  BY <1>1, EntrySize
<1> QED BY <1>2 DEF KeysOf

LEMMA KeysOfEmpty == KeysOf(<<>>) = <<>>
  BY DEF KeysOf

LEMMA KeysOfAppend ==
    ASSUME NEW s \in Seq(Entry), NEW x \in Entry
    PROVE  KeysOf(Append(s, x)) = Append(KeysOf(s), x.key)
<1> DEFINE t == Append(s, x)
           u == Append(KeysOf(s), x.key)
<1>1. t \in Seq(Entry) /\ Len(t) = Len(s) + 1 /\ x.key \in Keys
  BY EntrySize
<1>2. KeysOf(t) \in Seq(Keys) /\ Len(KeysOf(t)) = Len(s) + 1
  BY <1>1, KeysTyped
<1>3. u \in Seq(Keys) /\ Len(u) = Len(s) + 1
  BY <1>1, KeysTyped
<1>4. ASSUME NEW i \in 1 .. Len(s) + 1 PROVE KeysOf(t)[i] = u[i]
  <2>1. KeysOf(t)[i] = t[i].key
    BY <1>1, KeysTyped
  <2>2. CASE i = Len(s) + 1
    BY <1>1, <2>1, <2>2, KeysTyped
  <2>3. CASE i # Len(s) + 1
    <3>1. i \in 1 .. Len(s)
      BY <2>3
    <3>2. t[i] = s[i] /\ KeysOf(s)[i] = s[i].key
      BY <3>1, KeysTyped
    <3>3. u[i] = KeysOf(s)[i]
      BY <1>1, <3>1, KeysTyped
    <3> QED BY <2>1, <3>2, <3>3
  <2> QED BY <2>2, <2>3
<1> HIDE DEF t, u
<1>5. KeysOf(t) = u
  BY <1>2, <1>3, <1>4, SeqEqual
<1> QED BY <1>5 DEF t, u

\* Where keys do not repeat, the keys of some entries are those keys in the same order.
LEMMA KeysOfSome ==
    ASSUME NEW S
    PROVE  \A s \in Seq(Entry) : IsInjective(KeysOf(s)) => \E K : KeysOf(Only(s, S)) = Only(KeysOf(s), K)
<1> DEFINE P(s) == \E K : KeysOf(Only(s, S)) = Only(KeysOf(s), K)
           G == {s \in Seq(Entry) : IsInjective(KeysOf(s)) => P(s)}
<1>1. <<>> \in G
  <2>1. KeysOf(Only(<<>>, S)) = Only(KeysOf(<<>>), {})
    BY KeysOfEmpty, OnlyOfEmpty
  <2>2. <<>> \in Seq(Entry)
    OBVIOUS
  <2> QED BY <2>1, <2>2
<1>2. ASSUME NEW s \in Seq(Entry), NEW x \in Entry, s \in G PROVE Append(s, x) \in G
  <2> DEFINE t == Append(s, x)
             u == Only(s, S)
             k == x.key
             ks == KeysOf(s)
  <2>1. t \in Seq(Entry) /\ u \in Seq(Entry) /\ k \in Keys /\ ks \in Seq(Keys)
    BY OnlyTyped, EntrySize, KeysTyped
  <2>2. KeysOf(t) = Append(ks, k) /\ KeysOf(Append(u, x)) = Append(KeysOf(u), k)
    BY <2>1, KeysOfAppend
  <2>3. /\ x \in S => Only(t, S) = Append(u, x)
        /\ x \notin S => Only(t, S) = u
    BY OnlyAppend
  <2>4. ASSUME IsInjective(KeysOf(t)) PROVE P(t)
    <3> HIDE DEF t, u, k, ks
    <3>1. IsInjective(ks) /\ k \notin ToSet(ks)
      BY <2>1, <2>2, <2>4, DistinctAppend
    <3>2. PICK K : KeysOf(u) = Only(ks, K)
      BY <1>2, <3>1 DEF u, ks
    <3> DEFINE N == IF x \in S THEN K \cup {k} ELSE K \ {k}
    <3>3. ToSet(ks) \cap N = ToSet(ks) \cap K
      BY <3>1
    <3>4. k \in N <=> x \in S
      OBVIOUS
    <3> HIDE DEF N
    <3>5. Only(ks, N) = KeysOf(u)
      BY <2>1, <3>2, <3>3, OnlySame
    <3>6. /\ k \in N => Only(Append(ks, k), N) = Append(Only(ks, N), k)
          /\ k \notin N => Only(Append(ks, k), N) = Only(ks, N)
      BY <2>1, OnlyAppend
    <3>7. KeysOf(Only(t, S)) = Only(KeysOf(t), N)
      BY <2>2, <2>3, <3>4, <3>5, <3>6
    <3> QED BY <3>7
  <2> QED BY <2>1, <2>4
<1> HIDE DEF G
<1>3. Seq(Entry) \subseteq G
  BY <1>1, <1>2, SeqInduct
<1> QED BY <1>3 DEF G

-----------------------------------------------------------------------------
(* The entries held, in the order r of their use. *)

HeldInOrder(e, r) ==
    /\ e \in Seq(Entry) /\ r \in Seq(Keys)
    /\ IsInjective(r) /\ Ordered(KeysOf(e), r)

LEMMA SomeInOrder ==
    ASSUME NEW e, NEW r, HeldInOrder(e, r), NEW S
    PROVE  HeldInOrder(Only(e, S), r)
<1>1. IsInjective(KeysOf(e))
  BY OrderedFacts DEF HeldInOrder
<1>2. PICK K : KeysOf(Only(e, S)) = Only(KeysOf(e), K)
  BY <1>1, KeysOfSome DEF HeldInOrder
<1>3. Ordered(Only(KeysOf(e), K), r)
  BY OnlyOrdered DEF HeldInOrder
<1>4. Only(e, S) \in Seq(Entry)
  BY OnlyTyped DEF HeldInOrder
<1> QED BY <1>2, <1>3, <1>4 DEF HeldInOrder

LEMMA RestInOrder ==
    ASSUME NEW e, NEW r, HeldInOrder(e, r), NEW n \in Nat, n <= Len(e)
    PROVE  HeldInOrder(SubSeq(e, n + 1, Len(e)), r)
<1> DEFINE u == SubSeq(e, n + 1, Len(e))
           v == SubSeq(KeysOf(e), n + 1, Len(e))
<1>1. e \in Seq(Entry) /\ KeysOf(e) \in Seq(Keys) /\ Len(KeysOf(e)) = Len(e)
      /\ \A i \in 1 .. Len(e) : KeysOf(e)[i] = e[i].key
  BY KeysTyped DEF HeldInOrder
<1>2. u \in Seq(Entry) /\ Len(u) = Len(e) - n
  BY <1>1
<1>3. v \in Seq(Keys) /\ Len(v) = Len(e) - n
  BY <1>1
<1>4. KeysOf(u) \in Seq(Keys) /\ Len(KeysOf(u)) = Len(u) /\ \A i \in 1 .. Len(u) : KeysOf(u)[i] = u[i].key
  BY <1>2, KeysTyped
<1>5. ASSUME NEW i \in 1 .. Len(e) - n PROVE KeysOf(u)[i] = v[i]
  <2>1. n + i \in 1 .. Len(e) /\ u[i] = e[n + i] /\ v[i] = KeysOf(e)[n + i]
    BY <1>1
  <2> QED BY <1>1, <1>2, <1>4, <2>1
<1> HIDE DEF u, v
<1>6. KeysOf(u) = v
  BY <1>2, <1>3, <1>4, <1>5, SeqEqual
<1>7. Ordered(v, r)
  BY <1>1, RestOrdered DEF HeldInOrder, v
<1> QED BY <1>2, <1>6, <1>7 DEF HeldInOrder, u

\* An entry whose key is not held comes to the end as its key is used.
LEMMA NewInOrder ==
    ASSUME NEW e, NEW r, HeldInOrder(e, r), NEW x \in Entry, x.key \notin ToSet(KeysOf(e))
    PROVE  HeldInOrder(Append(e, x), Append(Only(r, Keys \ {x.key}), x.key))
<1>1. x.key \in Keys /\ KeysOf(Append(e, x)) = Append(KeysOf(e), x.key)
  BY EntrySize, KeysOfAppend DEF HeldInOrder
<1>2. Ordered(Append(KeysOf(e), x.key), Append(Only(r, Keys \ {x.key}), x.key))
  BY <1>1, OrderedMoved DEF HeldInOrder
<1>3. /\ Append(Only(r, Keys \ {x.key}), x.key) \in Seq(Keys)
      /\ IsInjective(Append(Only(r, Keys \ {x.key}), x.key))
  BY <1>1, MovedDistinct DEF HeldInOrder
<1> QED BY <1>1, <1>2, <1>3 DEF HeldInOrder

-----------------------------------------------------------------------------
LEMMA WithoutKey ==
    ASSUME NEW e, NEW r, HeldInOrder(e, r), NEW k
    PROVE  k \notin ToSet(KeysOf(Only(e, Entry \ Of(k))))
<1> DEFINE S == Entry \ Of(k)
           u == Only(e, S)
<1>1. u \in Seq(Entry) /\ ToSet(u) = ToSet(e) \cap S
  BY OnlyTyped, OnlyElements DEF HeldInOrder
<1>2. \A x \in S : x.key # k
  BY DEF Of
<1> HIDE DEF S, u
<1>3. ASSUME NEW i \in 1 .. Len(u) PROVE u[i].key # k
  <2>1. u[i] \in ToSet(u)
    BY <1>1 DEF ToSet
  <2> QED BY <1>1, <1>2, <2>1
<1>4. DOMAIN KeysOf(u) = 1 .. Len(u) /\ \A i \in 1 .. Len(u) : KeysOf(u)[i] = u[i].key
  BY <1>1, KeysTyped
<1>5. k \notin ToSet(KeysOf(u))
  BY <1>3, <1>4 DEF ToSet
<1> QED BY <1>5 DEF u, S

\* A key has at most one entry.
LEMMA FoundOne ==
    ASSUME NEW e, NEW r, HeldInOrder(e, r), NEW k, Only(e, Of(k)) # <<>>
    PROVE  /\ Head(Only(e, Of(k))) \in Entry /\ Head(Only(e, Of(k))).key = k
           /\ SizeOf(Only(e, Of(k))) = Head(Only(e, Of(k))).size
<1> DEFINE S == Of(k)
           u == Only(e, S)
<1>1. u \in Seq(Entry) /\ ToSet(u) = ToSet(e) \cap S /\ u # <<>>
  BY OnlyTyped, OnlyElements DEF HeldInOrder
<1>2. HeldInOrder(u, r)
  BY SomeInOrder
<1>3. \A x \in S : x.key = k
  BY DEF Of
<1> HIDE DEF S, u
<1>4. IsInjective(KeysOf(u))
  BY <1>2, OrderedFacts DEF HeldInOrder
<1>5. DOMAIN KeysOf(u) = 1 .. Len(u) /\ \A i \in 1 .. Len(u) : KeysOf(u)[i] = u[i].key
  BY <1>1, KeysTyped
<1>6. ASSUME NEW i \in 1 .. Len(u) PROVE u[i].key = k
  <2>1. u[i] \in ToSet(u)
    BY <1>1 DEF ToSet
  <2> QED BY <1>1, <1>3, <2>1
<1>7. Len(u) = 1
  <2>1. Len(u) \in Nat /\ Len(u) # 0
    BY <1>1, EmptySeq
  <2>2. ASSUME Len(u) # 1 PROVE FALSE
    <3>1. 1 \in 1 .. Len(u) /\ 2 \in 1 .. Len(u)
      BY <2>1, <2>2
    <3>2. KeysOf(u)[1] = KeysOf(u)[2]
      BY <1>5, <1>6, <3>1
    <3> QED BY <1>4, <1>5, <3>1, <3>2 DEF IsInjective
  <2> QED BY <2>2
<1>8. Head(u) = u[1] /\ u[1] \in Entry /\ u[1].key = k
  BY <1>1, <1>6, <1>7
<1>9. SizeOf(u) = u[1].size
  <2> DEFINE z == <<>>
  <2>1. z \in Seq(Entry) /\ Append(z, u[1]) = u
    <3>1. z \in Seq(Entry) /\ Append(z, u[1]) \in Seq(Entry) /\ Len(Append(z, u[1])) = 1
          /\ Append(z, u[1])[1] = u[1]
      BY <1>8
    <3> QED BY <1>1, <1>7, <3>1, SeqEqual
  <2> HIDE DEF z
  <2>2. SizeOf(Append(z, u[1])) = SizeOf(z) + u[1].size
    BY <1>8, <2>1, SizeOfAppend
  <2>3. SizeOf(z) = 0 /\ u[1].size \in Nat
    BY <1>8, SizeOfEmpty, EntrySize DEF z
  <2> QED BY <2>1, <2>2, <2>3
<1> QED BY <1>8, <1>9 DEF u, S

\* The eviction makes room.
LEMMA RoomMade ==
    ASSUME NEW e \in Seq(Entry), NEW size \in Nat, size <= MaxBytes
    PROVE  LET n == Evicted(e, SizeOf(e), size)
           IN  /\ n \in 0 .. Len(e)
               /\ SizeOf(e) - SizeOf(SubSeq(e, 1, n)) = SizeOf(SubSeq(e, n + 1, Len(e)))
               /\ SizeOf(SubSeq(e, n + 1, Len(e))) + size <= MaxBytes
<1> DEFINE Gone(n) == SubSeq(e, 1, n)
           Left(n) == SubSeq(e, n + 1, Len(e))
           Fits(n) == (SizeOf(e) - SizeOf(Gone(n))) + size <= MaxBytes
           Q(n) == /\ n = Len(e) \/ (SizeOf(e) - SizeOf(SubSeq(e, 1, n))) + size <= MaxBytes
                   /\ \A m \in 0 .. n - 1 : (SizeOf(e) - SizeOf(SubSeq(e, 1, m))) + size > MaxBytes
           n == Evicted(e, SizeOf(e), size)
<1>1. ASSUME NEW m \in 0 .. Len(e)
      PROVE  /\ SizeOf(Gone(m)) \in Nat /\ SizeOf(Left(m)) \in Nat
             /\ SizeOf(e) = SizeOf(Gone(m)) + SizeOf(Left(m))
  <2>1. Gone(m) \in Seq(Entry) /\ Left(m) \in Seq(Entry)
    OBVIOUS
  <2>2. Gone(m) \o Left(m) = e
    BY FrontAndBack
  <2> HIDE DEF Gone, Left
  <2>3. SizeOf(Gone(m) \o Left(m)) = SizeOf(Gone(m)) + SizeOf(Left(m))
    BY <2>1, SizeOfConcat
  <2> QED BY <2>1, <2>2, <2>3, SizeTyped
<1>2. \E m \in 0 .. Len(e) : Q(m)
  <2> DEFINE S == {m \in 0 .. Len(e) : m = Len(e) \/ Fits(m)}
  <2>1. Len(e) \in S /\ S \subseteq Nat
    OBVIOUS
  <2>2. PICK m \in S : \A i \in S : m <= i
    <3> HIDE DEF S
    <3> QED BY <2>1, Least
  <2>3. ASSUME NEW i \in 0 .. m - 1 PROVE (SizeOf(e) - SizeOf(SubSeq(e, 1, i))) + size > MaxBytes
    <3>1. i \in 0 .. Len(e) /\ i # Len(e) /\ ~(m <= i)
      BY <2>2
    <3>2. ~Fits(i)
      <4> HIDE DEF Fits
      <4> QED BY <2>2, <3>1
    <3>3. SizeOf(e) \in Nat /\ SizeOf(Gone(i)) \in Nat /\ MaxBytes \in Nat
      BY <1>1, <3>1, SizeTyped, CacheAssumption
    <3> QED BY <3>2, <3>3
  <2> QED BY <2>2, <2>3
<1>3. n = CHOOSE m \in 0 .. Len(e) : Q(m)
  BY DEF Evicted
<1>4. n \in 0 .. Len(e) /\ Q(n)
  <2> HIDE DEF Q, n
  <2> QED BY <1>2, <1>3
<1>5. SizeOf(Left(n)) + size <= MaxBytes
  <2>1. CASE n = Len(e)
    <3>1. Left(n) = <<>>
      <4> HIDE DEF n
      <4> QED BY <2>1
    <3>2. SizeOf(Left(n)) = 0
      BY <3>1, SizeOfEmpty
    <3> QED BY <3>2
  <2>2. CASE Fits(n)
    <3> HIDE DEF n, Gone, Left
    <3> QED BY <1>1, <1>4, <2>2
  <2> QED BY <1>4, <2>1, <2>2
<1>6. SizeOf(e) - SizeOf(Gone(n)) = SizeOf(Left(n))
  <2> HIDE DEF n, Gone, Left
  <2> QED BY <1>1, <1>4
<1> QED BY <1>4, <1>5, <1>6

-----------------------------------------------------------------------------
(* The invariant *)

CacheInv ==
    /\ HeldInOrder(entries, recent)
    /\ bytes = SizeOf(entries) /\ bytes <= MaxBytes

LEMMA CacheInitially == CacheInit => CacheInv
<1> SUFFICES ASSUME CacheInit PROVE CacheInv
  OBVIOUS
<1>1. <<>> \in Seq(Entry) /\ <<>> \in Seq(Keys) /\ IsInjective(<<>>)
  BY DEF IsInjective
<1>2. Ordered(KeysOf(<<>>), <<>>)
  BY KeysOfEmpty, OnlyOfEmpty DEF Ordered
<1> QED BY <1>1, <1>2, SizeOfEmpty, CacheAssumption DEF CacheInit, CacheInv, HeldInOrder

LEMMA GetKeeps ==
    ASSUME CacheInv, NEW k \in Keys, GetBlob(k)
    PROVE  CacheInv'
<1> DEFINE found == Only(entries, Of(k))
           rest == Only(entries, Entry \ Of(k))
<1>0. HeldInOrder(entries, recent) /\ entries \in Seq(Entry) /\ bytes = SizeOf(entries) /\ bytes <= MaxBytes
  BY DEF CacheInv, HeldInOrder
<1>1. HeldInOrder(rest, recent) /\ rest \in Seq(Entry) /\ found \in Seq(Entry) /\ k \notin ToSet(KeysOf(rest))
  BY <1>0, SomeInOrder, WithoutKey, OnlyTyped
<1>2. SizeOf(found) + SizeOf(rest) = bytes /\ SizeOf(found) \in Nat /\ SizeOf(rest) \in Nat
  BY <1>0, <1>1, SizeOfParts, SizeTyped
<1>3. found # <<>> => /\ Head(found) \in Entry /\ Head(found).key = k
                      /\ SizeOf(found) = Head(found).size
  BY <1>0, FoundOne
<1>4. \/ UNCHANGED cacheVars
      \/ found # <<>> /\ entries' = rest /\ bytes' = bytes - Head(found).size /\ recent' = recent
      \/ found # <<>> /\ entries' = Append(rest, Head(found)) /\ bytes' = bytes /\ Used(k)
  BY DEF GetBlob
<1> HIDE DEF found, rest
<1>5. CASE UNCHANGED cacheVars
  BY <1>5 DEF CacheInv, cacheVars
<1>6. CASE found # <<>> /\ entries' = rest /\ bytes' = bytes - Head(found).size /\ recent' = recent
  <2>1. bytes' = SizeOf(rest) /\ bytes' <= MaxBytes
    BY <1>0, <1>2, <1>3, <1>6, CacheAssumption
  <2> QED BY <1>1, <1>6, <2>1 DEF CacheInv
<1>7. CASE found # <<>> /\ entries' = Append(rest, Head(found)) /\ bytes' = bytes /\ Used(k)
  <2>1. HeldInOrder(Append(rest, Head(found)), Append(Only(recent, Keys \ {k}), k))
    BY <1>1, <1>3, <1>7, NewInOrder
  <2>2. SizeOf(Append(rest, Head(found))) = SizeOf(rest) + Head(found).size
    BY <1>1, <1>3, <1>7, SizeOfAppend
  <2>3. bytes = SizeOf(Append(rest, Head(found)))
    BY <1>2, <1>3, <1>7, <2>2
  <2> QED BY <1>0, <1>7, <2>1, <2>3 DEF CacheInv, Used
<1> QED BY <1>4, <1>5, <1>6, <1>7

LEMMA PutKeeps ==
    ASSUME CacheInv, NEW k \in Keys, NEW size \in Sizes, PutBlobInCache(k, size)
    PROVE  CacheInv'
<1> DEFINE rest == Only(entries, Entry \ Of(k))
           live == Only(rest, Live)
           count == (bytes - SizeOf(Only(entries, Of(k)))) - SizeOf(Only(rest, Entry \ Live))
           n == Evicted(live, count, size)
           left == SubSeq(live, n + 1, Len(live))
           new == [key |-> k, size |-> size, age |-> 0]
<1>0. HeldInOrder(entries, recent) /\ entries \in Seq(Entry) /\ bytes = SizeOf(entries)
      /\ size <= MaxBytes /\ size \in Nat /\ MaxBytes \in Nat
  BY CacheAssumption DEF CacheInv, HeldInOrder, PutBlobInCache
<1>1. HeldInOrder(rest, recent) /\ rest \in Seq(Entry) /\ k \notin ToSet(KeysOf(rest))
  BY <1>0, SomeInOrder, WithoutKey, OnlyTyped
<1>2. HeldInOrder(live, recent) /\ live \in Seq(Entry)
  BY <1>1, SomeInOrder, OnlyTyped
<1>3. count = SizeOf(live)
  <2>1. SizeOf(Only(entries, Of(k))) + SizeOf(rest) = SizeOf(entries)
    BY <1>0, SizeOfParts
  <2>2. SizeOf(live) + SizeOf(Only(rest, Entry \ Live)) = SizeOf(rest)
    BY <1>1, SizeOfParts
  <2>3. /\ SizeOf(entries) \in Nat /\ SizeOf(rest) \in Nat /\ SizeOf(live) \in Nat
        /\ SizeOf(Only(entries, Of(k))) \in Nat /\ SizeOf(Only(rest, Entry \ Live)) \in Nat
    BY <1>0, <1>1, <1>2, SizeTyped, OnlyTyped
  <2> QED BY <1>0, <2>1, <2>2, <2>3
<1>4. entries' = Append(left, new) /\ bytes' = (count - SizeOf(SubSeq(live, 1, n))) + size /\ Used(k)
  BY DEF PutBlobInCache
<1>5. new \in Entry /\ new.key = k /\ new.size = size
  BY CacheAssumption DEF Entry
<1>6. k \notin ToSet(KeysOf(live))
  <2>1. ASSUME NEW i \in 1 .. Len(live) PROVE live[i].key # k
    <3>1. live[i] \in ToSet(live)
      <4> HIDE DEF live
      <4>1. DOMAIN live = 1 .. Len(live)
        BY <1>2
      <4> QED BY <4>1 DEF ToSet
    <3>2. live[i] \in Entry \ Of(k)
      <4> HIDE DEF live, rest
      <4>1. ToSet(live) = ToSet(rest) \cap Live
        BY <1>1, OnlyElements DEF live
      <4>2. ToSet(rest) = ToSet(entries) \cap (Entry \ Of(k))
        BY <1>0, OnlyElements DEF rest
      <4> QED BY <3>1, <4>1, <4>2
    <3>3. \A x \in Entry \ Of(k) : x.key # k
      BY DEF Of
    <3> HIDE DEF live
    <3> QED BY <3>2, <3>3
  <2> HIDE DEF live
  <2>2. DOMAIN KeysOf(live) = 1 .. Len(live) /\ \A i \in 1 .. Len(live) : KeysOf(live)[i] = live[i].key
    <3>1. Len(KeysOf(live)) = Len(live) /\ KeysOf(live) \in Seq(Keys)
      BY <1>2, KeysTyped
    <3>2. \A i \in 1 .. Len(live) : KeysOf(live)[i] = live[i].key
      BY <1>2, KeysTyped
    <3> QED BY <3>1, <3>2
  <2> QED BY <2>1, <2>2 DEF ToSet
<1> HIDE DEF live, count, rest
<1>7. /\ n \in 0 .. Len(live)
      /\ count - SizeOf(SubSeq(live, 1, n)) = SizeOf(left)
      /\ SizeOf(left) + size <= MaxBytes
  BY <1>0, <1>2, <1>3, RoomMade
<1> HIDE DEF n
<1>8. HeldInOrder(left, recent) /\ left \in Seq(Entry)
  BY <1>2, <1>7, RestInOrder DEF HeldInOrder
<1>9. k \notin ToSet(KeysOf(left))
  <2>1. DOMAIN KeysOf(left) = 1 .. Len(left) /\ \A i \in 1 .. Len(left) : KeysOf(left)[i] = left[i].key
    <3> HIDE DEF left
    <3>1. Len(KeysOf(left)) = Len(left) /\ KeysOf(left) \in Seq(Keys)
      BY <1>8, KeysTyped
    <3>2. \A i \in 1 .. Len(left) : KeysOf(left)[i] = left[i].key
      BY <1>8, KeysTyped
    <3> QED BY <3>1, <3>2
  <2>2. DOMAIN KeysOf(live) = 1 .. Len(live) /\ \A i \in 1 .. Len(live) : KeysOf(live)[i] = live[i].key
    BY <1>2, KeysTyped
  <2>3. ASSUME NEW i \in 1 .. Len(left) PROVE left[i].key # k
    <3>1. n + i \in 1 .. Len(live) /\ left[i] = live[n + i]
      BY <1>2, <1>7
    <3>2. KeysOf(live)[n + i] \in ToSet(KeysOf(live))
      BY <2>2, <3>1 DEF ToSet
    <3> QED BY <1>6, <2>2, <3>1, <3>2
  <2> HIDE DEF left
  <2> QED BY <2>1, <2>3 DEF ToSet
<1> HIDE DEF left, new
<1>10. HeldInOrder(Append(left, new), Append(Only(recent, Keys \ {k}), k))
  BY <1>5, <1>8, <1>9, NewInOrder
<1>11. SizeOf(Append(left, new)) = SizeOf(left) + size
  BY <1>5, <1>8, SizeOfAppend
<1>12. bytes' = SizeOf(left) + size
  BY <1>4, <1>7
<1> QED BY <1>4, <1>7, <1>10, <1>11, <1>12 DEF CacheInv, Used

LEMMA DropKeeps ==
    ASSUME CacheInv, NEW k \in Keys, DropBlob(k)
    PROVE  CacheInv'
<1> DEFINE found == Only(entries, Of(k))
           rest == Only(entries, Entry \ Of(k))
<1>0. HeldInOrder(entries, recent) /\ entries \in Seq(Entry) /\ bytes = SizeOf(entries) /\ bytes <= MaxBytes
  BY DEF CacheInv, HeldInOrder
<1>1. HeldInOrder(rest, recent) /\ rest \in Seq(Entry) /\ found \in Seq(Entry)
  BY <1>0, SomeInOrder, OnlyTyped
<1>2. SizeOf(found) + SizeOf(rest) = bytes /\ SizeOf(found) \in Nat /\ SizeOf(rest) \in Nat
  BY <1>0, <1>1, SizeOfParts, SizeTyped
<1>3. entries' = rest /\ bytes' = bytes - SizeOf(found) /\ recent' = recent
  BY DEF DropBlob
<1> HIDE DEF found, rest
<1>4. bytes' = SizeOf(rest) /\ bytes' <= MaxBytes
  BY <1>0, <1>2, <1>3, CacheAssumption
<1> QED BY <1>1, <1>3, <1>4 DEF CacheInv

LEMMA ClearKeeps ==
    ASSUME CacheInv, ClearCache
    PROVE  CacheInv'
<1>1. <<>> \in Seq(Entry)
  OBVIOUS
<1>2. Ordered(KeysOf(<<>>), recent)
  <2>1. Only(recent, {}) = <<>>
    <3> DEFINE u == Only(recent, {})
    <3>1. u \in Seq(Keys) /\ ToSet(u) = ToSet(recent) \cap {}
      BY OnlyTyped, OnlyElements DEF CacheInv, HeldInOrder
    <3>2. Len(u) \in Nat /\ DOMAIN u = 1 .. Len(u) /\ ToSet(u) = {}
      BY <3>1
    <3>3. \A i \in DOMAIN u : u[i] \in ToSet(u)
      BY DEF ToSet
    <3> HIDE DEF u
    <3>4. Len(u) = 0
      <4>1. ASSUME Len(u) # 0 PROVE FALSE
        <5>1. 1 \in DOMAIN u
          BY <3>2, <4>1
        <5> QED BY <3>2, <3>3, <5>1
      <4> QED BY <4>1
    <3> QED BY <3>1, <3>4, EmptySeq DEF u
  <2> QED BY <2>1, KeysOfEmpty, ToSetFacts DEF Ordered
<1> QED BY <1>1, <1>2, SizeOfEmpty, CacheAssumption DEF ClearCache, CacheInv, HeldInOrder

\* Entries of the same sizes take as many bytes.
LEMMA SameSizes ==
    ASSUME NEW s \in Seq(Entry), NEW t \in Seq(Entry), Len(s) = Len(t),
           \A i \in 1 .. Len(s) : s[i].size = t[i].size
    PROVE  SizeOf(s) = SizeOf(t)
<1> DEFINE Same(u, v) == Len(u) = Len(v) /\ \A i \in 1 .. Len(u) : u[i].size = v[i].size
           G == {u \in Seq(Entry) : \A v \in Seq(Entry) : Same(u, v) => SizeOf(u) = SizeOf(v)}
<1>1. <<>> \in G
  <2>1. ASSUME NEW v \in Seq(Entry), Same(<<>>, v) PROVE v = <<>>
    BY <2>1, EmptySeq
  <2>2. <<>> \in Seq(Entry)
    OBVIOUS
  <2> HIDE DEF Same
  <2> QED BY <2>1, <2>2
<1>2. ASSUME NEW u \in Seq(Entry), NEW x \in Entry, u \in G PROVE Append(u, x) \in G
  <2> DEFINE p == Append(u, x)
  <2>1. p \in Seq(Entry) /\ Len(p) = Len(u) + 1 /\ p[Len(u) + 1] = x /\ Len(u) \in Nat
        /\ \A i \in 1 .. Len(u) : p[i] = u[i]
    OBVIOUS
  <2>2. ASSUME NEW v \in Seq(Entry), Same(p, v) PROVE SizeOf(p) = SizeOf(v)
    <3> DEFINE w == SubSeq(v, 1, Len(u))
               y == v[Len(u) + 1]
    <3>1. Len(v) = Len(u) + 1 /\ \A i \in 1 .. Len(v) : p[i].size = v[i].size
      BY <2>1, <2>2
    <3>2. w \in Seq(Entry) /\ Len(w) = Len(u) /\ y \in Entry /\ \A i \in 1 .. Len(u) : w[i] = v[i]
      BY <2>1, <3>1
    <3>3. v = Append(w, y)
      BY <2>1, <3>1, <3>2
    <3> HIDE DEF w, y, p
    <3>4. Same(u, w)
      BY <2>1, <3>1, <3>2
    <3>5. x.size = y.size
      BY <2>1, <3>1 DEF y
    <3>6. SizeOf(u) = SizeOf(w)
      <4> HIDE DEF Same
      <4> QED BY <1>2, <3>2, <3>4
    <3>7. SizeOf(p) = SizeOf(u) + x.size /\ SizeOf(v) = SizeOf(w) + y.size
      BY <3>2, <3>3, SizeOfAppend DEF p
    <3> QED BY <3>5, <3>6, <3>7
  <2> HIDE DEF Same, p
  <2> QED BY <2>1, <2>2 DEF p
<1> HIDE DEF G
<1>3. Seq(Entry) \subseteq G
  BY <1>1, <1>2, SeqInduct
<1>4. Same(s, t)
  OBVIOUS
<1> HIDE DEF Same
<1> QED BY <1>3, <1>4 DEF G

LEMMA PassKeeps ==
    ASSUME CacheInv, Pass
    PROVE  CacheInv'
<1> DEFINE Older(x) == IF x \in Live THEN [x EXCEPT !.age = @ + 1] ELSE x
           e == entries'
<1>0. HeldInOrder(entries, recent) /\ entries \in Seq(Entry) /\ bytes = SizeOf(entries) /\ bytes <= MaxBytes
  BY DEF CacheInv, HeldInOrder
<1>1. ASSUME NEW x \in Entry
      PROVE  Older(x) \in Entry /\ Older(x).key = x.key /\ Older(x).size = x.size
  BY CacheAssumption DEF Entry, Live
<1>2. e = [i \in DOMAIN entries |-> Older(entries[i])] /\ bytes' = bytes /\ recent' = recent
  BY DEF Pass
<1> HIDE DEF Older, e
<1>3. \A i \in 1 .. Len(entries) : entries[i] \in Entry
  BY <1>0
<1>4. DOMAIN entries = 1 .. Len(entries) /\ Len(entries) \in Nat
  BY <1>0
<1>5. e \in Seq(Entry) /\ Len(e) = Len(entries)
  BY <1>1, <1>2, <1>3, <1>4
<1>6. \A i \in 1 .. Len(e) : e[i].key = entries[i].key /\ e[i].size = entries[i].size
  BY <1>1, <1>2, <1>3, <1>4, <1>5
<1>7. KeysOf(e) = KeysOf(entries)
  <2>1. KeysOf(e) \in Seq(Keys) /\ KeysOf(entries) \in Seq(Keys) /\ Len(KeysOf(e)) = Len(e)
        /\ Len(KeysOf(entries)) = Len(entries)
    BY <1>0, <1>5, KeysTyped
  <2>2. \A i \in 1 .. Len(e) : KeysOf(e)[i] = KeysOf(entries)[i]
    BY <1>0, <1>5, <1>6, KeysTyped
  <2> QED BY <1>5, <2>1, <2>2, SeqEqual
<1>8. SizeOf(e) = SizeOf(entries)
  BY <1>0, <1>5, <1>6, SameSizes
<1> QED BY <1>0, <1>2, <1>5, <1>7, <1>8 DEF CacheInv, HeldInOrder, e

LEMMA CacheStep == CacheInv /\ [CacheNext]_cacheVars => CacheInv'
<1> SUFFICES ASSUME CacheInv, [CacheNext]_cacheVars PROVE CacheInv'
  OBVIOUS
<1>1. ASSUME NEW k \in Keys, GetBlob(k) PROVE CacheInv'
  BY <1>1, GetKeeps
<1>2. ASSUME NEW k \in Keys, DropBlob(k) PROVE CacheInv'
  BY <1>2, DropKeeps
<1>3. ASSUME NEW k \in Keys, NEW size \in Sizes, PutBlobInCache(k, size) PROVE CacheInv'
  BY <1>3, PutKeeps
<1>4. CASE ClearCache
  BY <1>4, ClearKeeps
<1>5. CASE Pass
  BY <1>5, PassKeeps
<1>6. CASE UNCHANGED cacheVars
  BY <1>6 DEF CacheInv, cacheVars
<1> QED BY <1>1, <1>2, <1>3, <1>4, <1>5, <1>6 DEF CacheNext

LEMMA InvCounts == CacheInv => BytesCounted
<1> SUFFICES ASSUME CacheInv PROVE BytesCounted
  OBVIOUS
<1> DEFINE keys == ToSet(KeysOf(entries))
<1>1. entries \in Seq(Entry) /\ recent \in Seq(Keys) /\ Ordered(KeysOf(entries), recent)
  BY DEF CacheInv, HeldInOrder
<1>2. keys \in SUBSET ToSet(recent)
  BY <1>1, OrderedFacts
<1>3. KeysOf(entries) = Only(recent, keys)
  BY <1>1 DEF Ordered
<1> QED BY <1>2, <1>3 DEF BytesCounted, CacheInv, KeysOf

\* For any keys, sizes, bound and lifetime: whatever is stored, replaced, refused, read, dropped,
\* expired or evicted, the byte count is the size of what the cache holds and within the bound,
\* no key is held twice, and an eviction takes what was used longest ago.
THEOREM BytesAlwaysCounted == CacheSpec => []BytesCounted
<1>1. CacheSpec => []CacheInv
  <2>1. CacheInit => CacheInv
    BY CacheInitially
  <2>2. CacheInv /\ [CacheNext]_cacheVars => CacheInv'
    BY CacheStep
  <2> QED BY <2>1, <2>2, PTL DEF CacheSpec
<1> QED BY <1>1, InvCounts, PTL

-----------------------------------------------------------------------------
(* Embeddings: the cache *)

KeptVector == [text : Texts, vector : Vector]

\* The vectors are those of their texts, and no text is twice.
OwnVectors(held) ==
    /\ held \in Seq(KeptVector) /\ IsInjective(held)
    /\ \A x, y \in ToSet(held) : x.text = y.text => x = y
    /\ \A x \in ToSet(held) : x.vector.of = x.text

VectorCaches == {held \in Seq(KeptVector) : OwnVectors(held) /\ Len(held) <= VectorsKept}

LEMMA CachedFacts ==
    ASSUME NEW held, OwnVectors(held), NEW text
    PROVE  Cached(held, text) = NoVector
           \/ (/\ Cached(held, text) \in Vector /\ Cached(held, text).of = text
               /\ \E x \in ToSet(held) : x.text = text)
<1> DEFINE match == {x \in ToSet(held) : x.text = text}
<1>1. CASE match = {}
  BY <1>1 DEF Cached
<1>2. CASE match # {}
  <2>1. PICK x \in match : Cached(held, text) = x.vector
    BY <1>2 DEF Cached
  <2>2. x \in ToSet(held) /\ x.text = text
    BY <2>1
  <2>3. ToSet(held) \subseteq KeptVector
    BY ToSetFacts DEF OwnVectors
  <2>4. x.vector \in Vector /\ x.vector.of = text
    BY <2>2, <2>3 DEF OwnVectors, KeptVector
  <2> QED BY <2>1, <2>2, <2>4
<1> QED BY <1>1, <1>2

LEMMA PutIn ==
    ASSUME NEW held, OwnVectors(held), NEW x \in KeptVector, x.vector.of = x.text,
           NEW a, a = Append(Except(held, x.text), x)
    PROVE  /\ OwnVectors(a) /\ Len(a) <= Len(held) + 1
           /\ (\E y \in ToSet(held) : y.text = x.text) => Len(a) <= Len(held)
<1> DEFINE S == {y \in ToSet(held) : y.text # x.text}
           e == Only(held, S)
<1>1. a = Append(e, x)
  BY DEF Except
<1>2. held \in Seq(KeptVector)
  BY DEF OwnVectors
<1>3. /\ e \in Seq(KeptVector) /\ ToSet(e) = ToSet(held) \cap S /\ IsInjective(e)
      /\ Len(e) <= Len(held) /\ (~(ToSet(held) \subseteq S) => Len(e) < Len(held))
  <2> HIDE DEF S
  <2>1. IsInjective(held)
    BY DEF OwnVectors
  <2> QED BY <1>2, <2>1, OnlyTyped, OnlyElements, OnlyDistinct, OnlyLength
<1>4. \A y : y \in ToSet(e) => y \in ToSet(held) /\ y.text # x.text
  BY <1>3
<1>5. (\E y \in ToSet(held) : y.text = x.text) => ~(ToSet(held) \subseteq S)
  OBVIOUS
<1> HIDE DEF S, e
<1>6. ToSet(a) = ToSet(e) \cup {x} /\ a \in Seq(KeptVector) /\ Len(a) = Len(e) + 1 /\ Len(e) \in Nat
  BY <1>1, <1>3, ToSetFacts
<1>7. IsInjective(a)
  <2>1. x \notin ToSet(e)
    BY <1>4
  <2> QED BY <1>1, <1>3, <2>1, DistinctAppend
<1>8. \A y, z \in ToSet(a) : y.text = z.text => y = z
  BY <1>4, <1>6 DEF OwnVectors
<1>9. \A y \in ToSet(a) : y.vector.of = y.text
  BY <1>4, <1>6 DEF OwnVectors
<1>10. Len(held) \in Nat
  BY <1>2
<1> QED BY <1>3, <1>5, <1>6, <1>7, <1>8, <1>9, <1>10 DEF OwnVectors

LEMMA TouchedKeeps ==
    ASSUME NEW held \in VectorCaches, NEW text \in Texts
    PROVE  Touched(held, text) \in VectorCaches
<1>1. OwnVectors(held) /\ Len(held) <= VectorsKept /\ Len(held) \in Nat /\ VectorsKept \in Nat
  BY EmbeddingsAssumption DEF VectorCaches
<1>2. CASE Cached(held, text) = NoVector
  BY <1>2 DEF Touched
<1>3. CASE Cached(held, text) # NoVector
  <2> DEFINE x == [text |-> text, vector |-> Cached(held, text)]
             a == Append(Except(held, text), x)
  <2>1. /\ Cached(held, text) \in Vector /\ Cached(held, text).of = text
        /\ \E y \in ToSet(held) : y.text = text
    BY <1>1, <1>3, CachedFacts
  <2>2. x \in KeptVector /\ x.text = text /\ x.vector.of = x.text
    BY <2>1 DEF KeptVector
  <2>3. Touched(held, text) = a
    BY <1>3 DEF Touched
  <2>4. a = Append(Except(held, x.text), x)
    BY <2>2
  <2> HIDE DEF a, x
  <2>5. OwnVectors(a) /\ Len(a) <= Len(held)
    BY <1>1, <2>1, <2>2, <2>4, PutIn
  <2>6. a \in Seq(KeptVector) /\ Len(a) \in Nat
    BY <2>5 DEF OwnVectors
  <2> QED BY <1>1, <2>3, <2>5, <2>6 DEF VectorCaches
<1> QED BY <1>2, <1>3

OwnVector == {x \in KeptVector : x.vector.of = x.text}

LEMMA PutStays ==
    ASSUME NEW held \in VectorCaches, NEW x \in OwnVector
    PROVE  Put(held, x) \in VectorCaches
<1> DEFINE a == Append(Except(held, x.text), x)
           n == Len(a) - VectorsKept
           b == SubSeq(a, n + 1, Len(a))
<1>1. OwnVectors(held) /\ VectorsKept \in Nat
  BY EmbeddingsAssumption DEF VectorCaches
<1>2. OwnVectors(a)
  BY <1>1, PutIn DEF OwnVector
<1>3. Put(held, x) = IF Len(a) > VectorsKept THEN b ELSE a
  BY DEF Put
<1> HIDE DEF a
<1>4. a \in Seq(KeptVector) /\ Len(a) \in Nat /\ DOMAIN a = 1 .. Len(a)
  BY <1>2 DEF OwnVectors
<1>5. CASE Len(a) > VectorsKept
  <2>1. n \in Nat /\ n + 1 \in 1 .. Len(a) + 1
    BY <1>1, <1>4, <1>5
  <2>2. b \in Seq(KeptVector) /\ Len(b) = VectorsKept /\ \A i \in 1 .. VectorsKept : b[i] = a[i + n]
    BY <1>1, <1>4, <2>1
  <2>3. DOMAIN b = 1 .. VectorsKept /\ \A i \in 1 .. VectorsKept : i + n \in 1 .. Len(a)
    BY <1>1, <1>4, <2>1, <2>2
  <2> HIDE DEF b
  <2>4. ToSet(b) \subseteq ToSet(a)
    BY <1>4, <2>2, <2>3 DEF ToSet
  <2>5. IsInjective(b)
    <3>1. ASSUME NEW i \in 1 .. VectorsKept, NEW j \in 1 .. VectorsKept, b[i] = b[j] PROVE i = j
      <4>1. i + n = j + n
        BY <1>2, <1>4, <2>2, <2>3, <3>1 DEF OwnVectors, IsInjective
      <4> QED BY <2>1, <4>1
    <3> QED BY <2>3, <3>1 DEF IsInjective
  <2>6. OwnVectors(b)
    BY <1>2, <2>2, <2>4, <2>5 DEF OwnVectors
  <2> QED BY <1>1, <1>3, <1>5, <2>2, <2>6 DEF VectorCaches
<1>6. CASE ~(Len(a) > VectorsKept)
  BY <1>1, <1>2, <1>3, <1>4, <1>6 DEF VectorCaches
<1> QED BY <1>5, <1>6

TouchStep == [p \in VectorCaches \X Texts |-> Touched(p[1], p[2])]

PutStep == [p \in VectorCaches \X OwnVector |-> Put(p[1], p[2])]

LEMMA TouchedAllKeeps ==
    ASSUME NEW held \in VectorCaches, NEW s \in Seq(Texts)
    PROVE  TouchedAll(held, s) \in VectorCaches
<1> DEFINE G(x, y) == Touched(x, y)
           F(f) == [n \in 0 .. Len(s) |-> IF n = 0 THEN held ELSE G(f[n - 1], s[n])]
           P(f) == f = F(f)
           A == VectorCaches
           N == Len(s)
           way == TouchStep
<1>1. TouchedAll(held, s) = (CHOOSE h : P(h))[N] BY DEF TouchedAll
<1>2. N \in Nat /\ held \in A /\ s \in Seq(Texts) /\ \A n \in 1 .. N : s[n] \in Texts OBVIOUS
<1>3. ASSUME NEW x \in A, NEW y \in Texts PROVE G(x, y) \in A
  BY TouchedKeeps
<1>4. ASSUME NEW x \in A, NEW y \in Texts PROVE way[<<x, y>>] = G(x, y)
  BY DEF TouchStep
<1>5. IsStep(way, A, Texts)
  BY <1>3 DEF TouchStep, IsStep
<1> HIDE DEF A, N, G, way
<1>6. PICK f : Run(f, A, held, way, s)
  BY <1>2, <1>5, RunExists
<1>7. P(f)
  <2>1. f[0] = held /\ f = [n \in 0 .. N |-> f[n]] BY <1>6 DEF Run, N
  <2>2. ASSUME NEW n \in 0 .. N, n # 0 PROVE f[n] = G(f[n - 1], s[n])
    <3>1. n \in 1 .. N /\ f[n - 1] \in A /\ s[n] \in Texts BY <1>2, <1>6, <2>2 DEF Run, N
    <3> QED BY <1>4, <1>6, <3>1 DEF Run, N
  <2>3. F(f) = [n \in 0 .. N |-> IF n = 0 THEN held ELSE G(f[n - 1], s[n])] BY DEF N
  <2> QED BY <2>1, <2>2, <2>3
<1> DEFINE g == CHOOSE h : P(h)
<1>8. P(g)
  <2> HIDE DEF P
  <2> QED BY <1>7, Zenon
<1> HIDE DEF g
<1>9. Steps(g, A, held, way, s)
  <2>1. g = [n \in 0 .. N |-> IF n = 0 THEN held ELSE G(g[n - 1], s[n])]
    BY <1>8 DEF N
  <2> HIDE DEF P, F
  <2>2. g[0] = held /\ \A n \in 1 .. N : g[n] = G(g[n - 1], s[n])
    BY <1>2, <2>1
  <2> QED BY <1>2, <1>4, <2>2 DEF Steps, N
<1>10. g[N] = Folded(A, held, way, s)
  BY <1>2, <1>5, <1>9, FoldedBy DEF N
<1>11. Folded(A, held, way, s) \in A
  BY <1>2, <1>5, FoldedFacts
<1> QED BY <1>1, <1>10, <1>11 DEF g, A

LEMMA PutAllKeeps ==
    ASSUME NEW held \in VectorCaches, NEW s \in Seq(OwnVector)
    PROVE  PutAll(held, s) \in VectorCaches
<1> DEFINE G(x, y) == Put(x, y)
           F(f) == [n \in 0 .. Len(s) |-> IF n = 0 THEN held ELSE G(f[n - 1], s[n])]
           P(f) == f = F(f)
           A == VectorCaches
           N == Len(s)
           way == PutStep
<1>1. PutAll(held, s) = (CHOOSE h : P(h))[N] BY DEF PutAll
<1>2. N \in Nat /\ held \in A /\ s \in Seq(OwnVector) /\ \A n \in 1 .. N : s[n] \in OwnVector OBVIOUS
<1>3. ASSUME NEW x \in A, NEW y \in OwnVector PROVE G(x, y) \in A
  BY PutStays
<1>4. ASSUME NEW x \in A, NEW y \in OwnVector PROVE way[<<x, y>>] = G(x, y)
  BY DEF PutStep
<1>5. IsStep(way, A, OwnVector)
  BY <1>3 DEF PutStep, IsStep
<1> HIDE DEF A, N, G, way
<1>6. PICK f : Run(f, A, held, way, s)
  BY <1>2, <1>5, RunExists
<1>7. P(f)
  <2>1. f[0] = held /\ f = [n \in 0 .. N |-> f[n]] BY <1>6 DEF Run, N
  <2>2. ASSUME NEW n \in 0 .. N, n # 0 PROVE f[n] = G(f[n - 1], s[n])
    <3>1. n \in 1 .. N /\ f[n - 1] \in A /\ s[n] \in OwnVector BY <1>2, <1>6, <2>2 DEF Run, N
    <3> QED BY <1>4, <1>6, <3>1 DEF Run, N
  <2>3. F(f) = [n \in 0 .. N |-> IF n = 0 THEN held ELSE G(f[n - 1], s[n])] BY DEF N
  <2> QED BY <2>1, <2>2, <2>3
<1> DEFINE g == CHOOSE h : P(h)
<1>8. P(g)
  <2> HIDE DEF P
  <2> QED BY <1>7, Zenon
<1> HIDE DEF g
<1>9. Steps(g, A, held, way, s)
  <2>1. g = [n \in 0 .. N |-> IF n = 0 THEN held ELSE G(g[n - 1], s[n])]
    BY <1>8 DEF N
  <2> HIDE DEF P, F
  <2>2. g[0] = held /\ \A n \in 1 .. N : g[n] = G(g[n - 1], s[n])
    BY <1>2, <2>1
  <2> QED BY <1>2, <1>4, <2>2 DEF Steps, N
<1>10. g[N] = Folded(A, held, way, s)
  BY <1>2, <1>5, <1>9, FoldedBy DEF N
<1>11. Folded(A, held, way, s) \in A
  BY <1>2, <1>5, FoldedFacts
<1> QED BY <1>1, <1>10, <1>11 DEF g, A

LEMMA TextsCounted ==
    ASSUME NEW held, OwnVectors(held)
    PROVE  Cardinality({held[i].text : i \in DOMAIN held}) = Len(held)
<1> DEFINE D == 1 .. Len(held)
           R == {held[i].text : i \in D}
           f == [i \in D |-> held[i].text]
<1>1. DOMAIN held = D /\ Len(held) \in Nat
  BY DEF OwnVectors
<1>2. \A i, j \in D : held[i].text = held[j].text => i = j
  <2>1. \A i \in D : held[i] \in ToSet(held)
    BY <1>1 DEF ToSet
  <2> QED BY <1>1, <2>1 DEF OwnVectors, IsInjective
<1>3. f \in [D -> R] /\ (\A i, j \in D : f[i] = f[j] => i = j) /\ \A y \in R : \E i \in D : f[i] = y
  BY <1>2
<1> HIDE DEF f, R, D
<1>4. f \in Bijection(D, R) /\ ExistsBijection(D, R)
  BY <1>3 DEF Bijection, Injection, Surjection, IsInjective, ExistsBijection
<1>5. IsFiniteSet(D) /\ Cardinality(D) = Len(held)
  BY <1>1, CountOfAll DEF D
<1>6. Cardinality(R) = Cardinality(D)
  BY <1>4, <1>5, FS_Bijection
<1> QED BY <1>1, <1>5, <1>6 DEF R, D

-----------------------------------------------------------------------------
(* Embeddings: the backends *)

\* The vectors of these texts, in their order.
VectorsOf(vectors, texts) ==
    /\ vectors \in Seq(Vector) /\ Len(vectors) = Len(texts)
    /\ \A k \in 1 .. Len(texts) : vectors[k].of = texts[k]

\* Numbers without repetition are sorted to the places they are.
LEMMA SortedByIndex ==
    ASSUME NEW n \in Nat, NEW order \in [1 .. n -> 1 .. n], IsInjective(order),
           NEW T, HasScores(T), NEW s \in Seq(T), Len(s) = n,
           \A i \in 1 .. n : s[i].score = -order[i], NEW i \in 1 .. n
    PROVE  Pos(s, i) = order[i]
<1> DEFINE B == Before(s, i)
           D == 1 .. order[i] - 1
           f == [j \in B |-> order[j]]
<1>1. order[i] \in 1 .. n /\ \A j \in 1 .. n : order[j] \in 1 .. n
  OBVIOUS
<1>2. \A j, k \in 1 .. n : order[j] = order[k] => j = k
  BY DEF IsInjective
<1>3. \A j : j \in B <=> j \in 1 .. n /\ order[j] < order[i]
  <2>1. \A j : j \in B <=> j \in 1 .. n /\ Better(s, j, i)
    BY DEF Before
  <2>2. \A j \in 1 .. n : Better(s, j, i) <=> order[j] < order[i] \/ (order[j] = order[i] /\ j < i)
    <3> SUFFICES ASSUME NEW j \in 1 .. n
                 PROVE  Better(s, j, i) <=> order[j] < order[i] \/ (order[j] = order[i] /\ j < i)
      OBVIOUS
    <3>1. s[j].score = -order[j] /\ order[j] \in Int
      <4>1. order[j] \in Int
        BY <1>1
      <4>2. s[j].score = -order[j]
        BY Zenon
      <4> QED BY <4>1, <4>2
    <3>2. s[i].score = -order[i] /\ order[i] \in Int
      <4>1. order[i] \in Int
        BY <1>1
      <4>2. s[i].score = -order[i]
        BY Zenon
      <4> QED BY <4>1, <4>2
    <3>3. s[j].score > s[i].score <=> order[j] < order[i]
      BY <3>1, <3>2
    <3>4. s[j].score = s[i].score <=> order[j] = order[i]
      BY <3>1, <3>2
    <3> QED BY <3>3, <3>4 DEF Better
  <2>3. \A j \in 1 .. n : ~(order[j] = order[i] /\ j < i)
    BY <1>2
  <2> QED BY <2>1, <2>2, <2>3
<1> HIDE DEF B
<1>4. f \in [B -> D]
  BY <1>1, <1>3
<1>5. \A j, k \in B : f[j] = f[k] => j = k
  BY <1>2, <1>3
<1>6. \A y \in D : \E j \in B : f[j] = y
  <2>1. \A y \in 1 .. n : \E j \in 1 .. n : order[j] = y
    <3>1. order \in Injection(1 .. n, 1 .. n)
      BY <1>2 DEF Injection
    <3>2. IsFiniteSet(1 .. n)
      BY CountOfAll
    <3>3. order \in Surjection(1 .. n, 1 .. n)
      BY <3>1, <3>2, FS_Injection
    <3> QED BY <3>3 DEF Surjection
  <2>2. ASSUME NEW y \in D PROVE \E j \in B : f[j] = y
    <3>1. y \in 1 .. n /\ y < order[i]
      BY <1>1
    <3>2. PICK j \in 1 .. n : order[j] = y
      BY <2>1, <3>1
    <3> QED BY <1>3, <3>1, <3>2
  <2> QED BY <2>2
<1> HIDE DEF f, D
<1>7. f \in Bijection(B, D) /\ ExistsBijection(B, D)
  <2>1. f \in Injection(B, D)
    BY <1>4, <1>5 DEF Injection, IsInjective
  <2>2. f \in Surjection(B, D)
    BY <1>4, <1>6 DEF Surjection
  <2> QED BY <2>1, <2>2 DEF Bijection, ExistsBijection
<1>8. IsFiniteSet(B) /\ Cardinality(B) \in Nat
  <2>1. B \subseteq 1 .. n
    BY <1>3
  <2> QED BY <2>1, CountOfSome
<1>9. Cardinality(D) = order[i] - 1
  <2>1. order[i] - 1 \in Nat
    BY <1>1
  <2> QED BY <2>1, CountOfAll DEF D
<1>10. Cardinality(B) = Cardinality(D)
  BY <1>7, <1>8, FS_Bijection
<1> QED BY <1>1, <1>9, <1>10 DEF Pos, B

\* A reply that lists these vectors, each with its number, in some order.
Listing(reply, vector) ==
    \E order \in [1 .. Len(vector) -> 1 .. Len(vector)] :
        /\ IsInjective(order)
        /\ reply = [i \in 1 .. Len(vector) |-> [index |-> order[i], vector |-> vector[order[i]]]]

LEMMA InOrderSorts ==
    ASSUME NEW vector \in Seq(Vector), NEW reply, Listing(reply, vector)
    PROVE  InOrder(reply) = vector
<1> DEFINE n == Len(vector)
<1>0. PICK order \in [1 .. n -> 1 .. n] :
          IsInjective(order) /\ reply = [i \in 1 .. n |-> [index |-> order[i], vector |-> vector[order[i]]]]
  BY DEF Listing
<1>n. n \in Nat /\ Len(vector) = n
  OBVIOUS
<1> HIDE DEF n
<1> DEFINE s == [i \in DOMAIN reply |-> [vector |-> reply[i].vector, score |-> -reply[i].index]]
           T == [vector : Vector, score : Int]
           u == ByScore(s)
           o == [i \in DOMAIN u |-> u[i].vector]
<1>1. \A i \in 1 .. n : order[i] \in 1 .. n /\ -order[i] \in Int /\ vector[order[i]] \in Vector
  BY <1>n
<1>2. s = [i \in 1 .. n |-> [vector |-> vector[order[i]], score |-> -order[i]]]
  BY <1>0
<1>3. \A i \in 1 .. n : [vector |-> vector[order[i]], score |-> -order[i]] \in T
  BY <1>1
<1>4. HasScores(T)
  BY DEF HasScores
<1>5. InOrder(reply) = o
  BY DEF InOrder
<1> HIDE DEF s, T
<1>6. s \in Seq(T) /\ Len(s) = n
  BY <1>n, <1>2, <1>3
<1>7. \A i \in 1 .. n : s[i].score = -order[i] /\ s[i].vector = vector[order[i]]
  BY <1>2
<1>8. \A i \in 1 .. n : Pos(s, i) = order[i]
  BY <1>n, <1>0, <1>4, <1>6, <1>7, SortedByIndex
<1>9. u \in Seq(T) /\ InPlaces(u, s)
  BY <1>4, <1>6, ByScoreFacts, Sorted
<1> HIDE DEF u
<1>10. DOMAIN u = 1 .. n /\ Len(u) = n
  BY <1>6, <1>9 DEF InPlaces
<1>11. ASSUME NEW k \in 1 .. n PROVE u[k].vector = vector[k]
  <2>1. PICK i \in 1 .. n : Pos(s, i) = k
    BY <1>4, <1>6, PosOnto
  <2>2. u[k] = s[i]
    BY <1>6, <1>9, <2>1 DEF InPlaces
  <2> QED BY <1>7, <1>8, <2>1, <2>2
<1>12. o = [k \in 1 .. n |-> vector[k]]
  BY <1>10, <1>11
<1>13. vector = [k \in 1 .. n |-> vector[k]]
  BY <1>n
<1> QED BY <1>5, <1>12, <1>13

LEMMA BackendsFaithful ==
    ASSUME NEW backend \in Backend, NEW texts \in Seq(Texts), NEW vectors \in VectorsBy(backend, texts)
    PROVE  VectorsOf(vectors, texts)
<1> DEFINE v == [i \in DOMAIN texts |-> [of |-> texts[i], by |-> backend]]
           n == Len(texts)
<1>1. n \in Nat /\ DOMAIN texts = 1 .. n /\ \A i \in 1 .. n : texts[i] \in Texts
  OBVIOUS
<1>2. \A i \in 1 .. n : [of |-> texts[i], by |-> backend] \in Vector
  BY <1>1 DEF Vector
<1>3. v \in Seq(Vector) /\ Len(v) = n /\ \A i \in 1 .. n : v[i].of = texts[i]
  BY <1>1, <1>2
<1>4. vectors = v
  <2>1. CASE backend # "api"
    BY <2>1 DEF VectorsBy
  <2>2. CASE backend = "api"
    <3>1. PICK order \in {f \in [DOMAIN texts -> DOMAIN texts] : IsInjective(f)} :
              vectors = InOrder([i \in DOMAIN texts |-> [index |-> order[i], vector |-> v[order[i]]]])
      BY <2>2 DEF VectorsBy
    <3> DEFINE reply == [i \in 1 .. n |-> [index |-> order[i], vector |-> v[order[i]]]]
    <3> HIDE DEF v, n
    <3>2. order \in [1 .. n -> 1 .. n] /\ IsInjective(order)
      BY <1>1, <3>1
    <3>3. vectors = InOrder(reply)
      BY <1>1, <3>1
    <3>4. v \in Seq(Vector) /\ Len(v) = n
      BY <1>3
    <3>5. Listing(reply, v)
      BY <3>2, <3>4 DEF Listing
    <3> HIDE DEF reply
    <3>6. InOrder(reply) = v
      BY <3>4, <3>5, InOrderSorts
    <3> QED BY <3>3, <3>6
  <2> QED BY <2>1, <2>2
<1> QED BY <1>3, <1>4 DEF VectorsOf

-----------------------------------------------------------------------------
(* Embeddings: the calls *)

Request == [pc : {"returned", "embed"}, texts : Seq(Texts), found : Seq(Vector \cup {NoVector}), at : Nat]

\* Each text has its vector, or the call waits for it.
RequestWell(r) ==
    /\ r \in Request /\ Len(r.found) = Len(r.texts) /\ r.at < Len(chain)
    /\ \A i \in 1 .. Len(r.texts) :
          IF r.found[i] = NoVector THEN r.pc = "embed" ELSE r.found[i].of = r.texts[i]

EmbeddingsInv ==
    /\ chain \in Seq(Backend) /\ chain # <<>>
    /\ kept \in VectorCaches
    /\ request \in [Embedders -> Request]
    /\ \A c \in Embedders : RequestWell(request[c])

LEMMA NoRequestWell ==
    ASSUME chain \in Seq(Backend), chain # <<>>
    PROVE  RequestWell(NoRequest)
<1>1. Len(chain) \in Nat /\ Len(chain) > 0
  OBVIOUS
<1>2. <<>> \in Seq(Texts) /\ <<>> \in Seq(Vector \cup {NoVector}) /\ Len(<<>>) = 0
  OBVIOUS
<1> QED BY <1>1, <1>2 DEF RequestWell, NoRequest, Request

LEMMA EmbeddingsInvInit == EmbeddingsInit => EmbeddingsInv
<1> SUFFICES ASSUME EmbeddingsInit PROVE EmbeddingsInv
  OBVIOUS
<1>1. chain \in Seq(Backend) /\ chain # <<>>
  <2>1. PICK provider \in {"auto", "sentence-transformers", "api", "hashing"}, installed \in BOOLEAN, key \in BOOLEAN :
            chain = Chain(provider, installed, key)
    BY DEF EmbeddingsInit
  <2> DEFINE local == IF provider \in {"auto", "sentence-transformers"} /\ installed
                      THEN <<"sentence-transformers">> ELSE <<>>
             remote == IF provider \in {"auto", "api"} /\ key THEN <<"api">> ELSE <<>>
  <2>2. local \in Seq(Backend) /\ remote \in Seq(Backend) /\ <<"hashing">> \in Seq(Backend)
    <3>1. <<>> \in Seq(Backend) /\ \A b \in Backend : <<b>> \in Seq(Backend)
      OBVIOUS
    <3>2. {"sentence-transformers", "api", "hashing"} = Backend
      BY DEF Backend
    <3> QED BY <3>1, <3>2
  <2>3. chain = local \o remote \/ chain = <<"hashing">> \/ chain = local \o remote \o <<"hashing">>
    BY <2>1 DEF Chain
  <2> HIDE DEF local, remote
  <2>4. local \o remote \in Seq(Backend) /\ local \o remote \o <<"hashing">> \in Seq(Backend)
    BY <2>2
  <2> QED BY <2>2, <2>3, <2>4 DEF EmbeddingsInit
<1>2. kept \in VectorCaches
  <2>1. <<>> \in Seq(KeptVector) /\ Len(<<>>) = 0 /\ ToSet(<<>>) = {} /\ DOMAIN <<>> = {}
    BY ToSetFacts
  <2> QED BY <2>1, EmbeddingsAssumption DEF EmbeddingsInit, VectorCaches, OwnVectors, IsInjective
<1>3. RequestWell(NoRequest)
  BY <1>1, NoRequestWell
<1>4. NoRequest \in Request
  BY <1>3 DEF RequestWell
<1> QED BY <1>1, <1>2, <1>3, <1>4 DEF EmbeddingsInit, EmbeddingsInv

\* A call that goes on as it should.
LEMMA TurnWell ==
    ASSUME EmbeddingsInv, NEW c \in Embedders, NEW r, RequestWell(r), Turn(c, r),
           kept' \in VectorCaches, chain' = chain
    PROVE  EmbeddingsInv'
<1>1. r \in Request
  BY DEF RequestWell
<1>2. request' = [request EXCEPT ![c] = r]
  BY DEF Turn
<1>3. request' \in [Embedders -> Request]
  BY <1>1, <1>2 DEF EmbeddingsInv
<1>4. \A d \in Embedders : request'[d] = IF d = c THEN r ELSE request[d]
  BY <1>2 DEF EmbeddingsInv
<1>5. \A q : RequestWell(q)' <=> RequestWell(q)
  BY DEF RequestWell
<1>6. ASSUME NEW d \in Embedders PROVE RequestWell(request[d])'
  <2>1. RequestWell(request'[d])
    BY <1>4 DEF EmbeddingsInv
  <2> QED BY <2>1 DEF RequestWell
<1> QED BY <1>3, <1>6 DEF EmbeddingsInv

LEMMA AskWell ==
    ASSUME EmbeddingsInv, NEW c \in Embedders, NEW texts \in Seq(Texts), Ask(c, texts)
    PROVE  EmbeddingsInv'
<1> DEFINE found == [i \in DOMAIN texts |-> Cached(kept, texts[i])]
           pc == IF NoVector \in ToSet(found) THEN "embed" ELSE "returned"
           r == [pc |-> pc, texts |-> texts, found |-> found, at |-> 0]
<1>1. kept' = TouchedAll(kept, texts) /\ Turn(c, r) /\ chain' = chain
  BY DEF Ask
<1>2. kept' \in VectorCaches
  BY <1>1, TouchedAllKeeps DEF EmbeddingsInv
<1>3. DOMAIN texts = 1 .. Len(texts) /\ Len(texts) \in Nat
  OBVIOUS
<1>4. \A i \in 1 .. Len(texts) :
          \/ Cached(kept, texts[i]) = NoVector
          \/ (Cached(kept, texts[i]) \in Vector /\ Cached(kept, texts[i]).of = texts[i])
  BY CachedFacts DEF EmbeddingsInv, VectorCaches
<1>5. found \in Seq(Vector \cup {NoVector}) /\ Len(found) = Len(texts)
  BY <1>3, <1>4
<1>6. \A i \in 1 .. Len(texts) : found[i] = Cached(kept, texts[i]) /\ found[i] \in ToSet(found)
  BY <1>3 DEF ToSet
<1> HIDE DEF found
<1>7. \A i \in 1 .. Len(texts) : IF found[i] = NoVector THEN pc = "embed" ELSE found[i].of = texts[i]
  BY <1>4, <1>6
<1>8. pc \in {"returned", "embed"} /\ 0 < Len(chain)
  BY DEF EmbeddingsInv
<1> HIDE DEF pc
<1>9. r \in Request
  BY <1>5, <1>8 DEF Request
<1>10. RequestWell(r)
  BY <1>5, <1>7, <1>8, <1>9 DEF RequestWell
<1> QED BY <1>1, <1>2, <1>10, TurnWell

LEMMA AnswerWell ==
    ASSUME EmbeddingsInv, NEW c \in Embedders, BackendAnswers(c)
    PROVE  EmbeddingsInv'
<1> DEFINE r == request[c]
           n == Len(r.texts)
           places == [i \in DOMAIN r.texts |-> i]
           U == {i \in DOMAIN r.texts : r.found[i] = NoVector}
           missing == Unfound(r)
           texts == [k \in DOMAIN missing |-> r.texts[missing[k]]]
<1>1. RequestWell(r) /\ r \in Request
  BY DEF EmbeddingsInv
<1>2. /\ n \in Nat /\ DOMAIN r.texts = 1 .. n /\ r.texts \in Seq(Texts)
      /\ r.found \in Seq(Vector \cup {NoVector}) /\ Len(r.found) = n
      /\ \A i \in 1 .. n : r.texts[i] \in Texts
  BY <1>1 DEF RequestWell, Request
<1>3. places \in Seq(1 .. n) /\ ToSet(places) = 1 .. n
  <2>1. places = [i \in 1 .. n |-> i]
    BY <1>2
  <2>2. places \in Seq(1 .. n) /\ DOMAIN places = 1 .. n
    BY <1>2, <2>1
  <2> QED BY <2>1, <2>2 DEF ToSet
<1>4. U \subseteq 1 .. n /\ \A i \in 1 .. n : i \in U <=> r.found[i] = NoVector
  BY <1>2
<1>5. missing = Only(places, U)
  BY DEF Unfound
<1> HIDE DEF places, U, missing
<1>6. missing \in Seq(1 .. n) /\ ToSet(missing) = U
  <2>1. missing \in Seq(1 .. n)
    BY <1>3, <1>5, OnlyTyped
  <2>2. ToSet(missing) = ToSet(places) \cap U
    BY <1>3, <1>5, OnlyElements
  <2> QED BY <1>3, <1>4, <2>1, <2>2
<1>7. DOMAIN missing = 1 .. Len(missing) /\ Len(missing) \in Nat /\ \A k \in 1 .. Len(missing) : missing[k] \in 1 .. n
  BY <1>6
<1>8. texts \in Seq(Texts) /\ Len(texts) = Len(missing) /\ \A k \in 1 .. Len(missing) : texts[k] = r.texts[missing[k]]
  BY <1>2, <1>7
<1>9. PICK vectors \in VectorsBy(chain[r.at + 1], texts) :
        /\ kept' = PutAll(kept, [k \in DOMAIN missing |-> [text |-> texts[k], vector |-> vectors[k]]])
        /\ Turn(c, [r EXCEPT !.pc = "returned", !.at = 0,
                       !.found = [i \in DOMAIN r.found |->
                           IF r.found[i] # NoVector THEN r.found[i]
                           ELSE vectors[CHOOSE k \in DOMAIN missing : missing[k] = i]]])
  BY DEF BackendAnswers, missing
<1> DEFINE news == [k \in DOMAIN missing |-> [text |-> texts[k], vector |-> vectors[k]]]
           at(i) == CHOOSE k \in DOMAIN missing : missing[k] = i
           found == [i \in DOMAIN r.found |-> IF r.found[i] # NoVector THEN r.found[i] ELSE vectors[at(i)]]
           q == [r EXCEPT !.pc = "returned", !.at = 0, !.found = found]
<1> HIDE DEF texts
<1>10. VectorsOf(vectors, texts)
  <2>1. chain[r.at + 1] \in Backend
    <3>1. r.at + 1 \in 1 .. Len(chain)
      BY <1>1 DEF RequestWell, Request, EmbeddingsInv
    <3> QED BY <3>1 DEF EmbeddingsInv
  <2> QED BY <1>8, <2>1, BackendsFaithful
<1>11. \A k \in 1 .. Len(missing) : vectors[k] \in Vector /\ vectors[k].of = texts[k] /\ texts[k] \in Texts
  BY <1>8, <1>10 DEF VectorsOf
<1>12. news \in Seq(OwnVector)
  <2>1. \A k \in 1 .. Len(missing) : [text |-> texts[k], vector |-> vectors[k]] \in OwnVector
    BY <1>11 DEF OwnVector, KeptVector
  <2> QED BY <1>7, <2>1
<1>13. kept' \in VectorCaches
  BY <1>9, <1>12, PutAllKeeps DEF EmbeddingsInv
<1>14. ASSUME NEW i \in 1 .. n, r.found[i] = NoVector
       PROVE  vectors[at(i)] \in Vector /\ vectors[at(i)].of = r.texts[i]
  <2>1. i \in ToSet(missing)
    BY <1>4, <1>6, <1>14
  <2>2. \E k \in DOMAIN missing : missing[k] = i
    BY <1>7, <2>1 DEF ToSet
  <2>3. at(i) \in DOMAIN missing /\ missing[at(i)] = i
    BY <2>2
  <2> HIDE DEF at
  <2> QED BY <1>7, <1>8, <1>11, <2>3
<1> HIDE DEF at
<1>15. /\ found \in Seq(Vector \cup {NoVector}) /\ Len(found) = n
       /\ \A i \in 1 .. n : found[i] \in Vector /\ found[i].of = r.texts[i]
  <2>1. DOMAIN r.found = 1 .. n /\ \A i \in 1 .. n : r.found[i] \in Vector \cup {NoVector}
    BY <1>2
  <2>2. \A i \in 1 .. n : r.found[i] # NoVector => r.found[i] \in Vector /\ r.found[i].of = r.texts[i]
    BY <1>1, <2>1 DEF RequestWell
  <2>3. found = [i \in 1 .. n |-> IF r.found[i] # NoVector THEN r.found[i] ELSE vectors[at(i)]]
    BY <2>1
  <2>4. \A i \in 1 .. n : found[i] \in Vector /\ found[i].of = r.texts[i]
    BY <1>14, <2>2, <2>3
  <2> HIDE DEF found
  <2>5. found = [i \in 1 .. n |-> found[i]]
    BY <2>3
  <2>6. \A i \in 1 .. n : found[i] \in Vector \cup {NoVector}
    BY <2>4
  <2> HIDE DEF n
  <2>7. n \in Nat
    BY <1>2
  <2>8. found \in Seq(Vector \cup {NoVector}) /\ Len(found) = n
    BY <2>5, <2>6, <2>7
  <2> QED BY <2>4, <2>8
<1>16. Turn(c, q) /\ chain' = chain
  BY <1>9 DEF at, BackendAnswers
<1> HIDE DEF found
<1>17. /\ q \in Request /\ q.found = found /\ q.texts = r.texts /\ q.at = 0
  BY <1>1, <1>15 DEF Request
<1> HIDE DEF q
<1>18. RequestWell(q)
  <2>1. 0 < Len(chain)
    BY DEF EmbeddingsInv
  <2>2. \A i \in 1 .. n : found[i] # NoVector
    BY <1>15, NoVectorAssumption
  <2> QED BY <1>15, <1>17, <2>1, <2>2 DEF RequestWell
<1> QED BY <1>13, <1>16, <1>18, TurnWell

LEMMA EmbeddingsInvStep == EmbeddingsInv /\ [EmbeddingsNext]_embeddingsVars => EmbeddingsInv'
<1> SUFFICES ASSUME EmbeddingsInv, [EmbeddingsNext]_embeddingsVars PROVE EmbeddingsInv'
  OBVIOUS
<1>1. ASSUME NEW c \in Embedders, NEW text \in Texts, GenerateEmbedding(c, text) PROVE EmbeddingsInv'
  <2>1. <<>> \in Seq(Texts) /\ <<text>> \in Seq(Texts)
    OBVIOUS
  <2> QED BY <1>1, <2>1, AskWell DEF GenerateEmbedding
<1>2. ASSUME NEW c \in Embedders, NEW texts \in Batches, GenerateBatch(c, texts) PROVE EmbeddingsInv'
  <2>1. texts \in Seq(Texts)
    BY EmbeddingsAssumption
  <2> QED BY <1>2, <2>1, AskWell DEF GenerateBatch
<1>3. ASSUME NEW c \in Embedders, BackendFails(c) PROVE EmbeddingsInv'
  <2> DEFINE r == request[c]
             q == [r EXCEPT !.at = @ + 1]
  <2>1. kept' = kept /\ chain' = chain /\ Turn(c, IF r.at + 1 < Len(chain) THEN q ELSE NoRequest)
    BY <1>3 DEF BackendFails
  <2>2. RequestWell(NoRequest)
    BY NoRequestWell DEF EmbeddingsInv
  <2>3. RequestWell(r) /\ r \in Request
    BY DEF EmbeddingsInv
  <2>4. /\ q.texts = r.texts /\ q.found = r.found /\ q.pc = r.pc /\ q.at = r.at + 1 /\ q \in Request
    BY <2>3 DEF Request
  <2> HIDE DEF q, r
  <2>5. r.at + 1 < Len(chain) => RequestWell(q)
    BY <2>3, <2>4 DEF RequestWell
  <2>6. kept' \in VectorCaches
    BY <2>1 DEF EmbeddingsInv
  <2>7. CASE r.at + 1 < Len(chain)
    BY <2>1, <2>5, <2>6, <2>7, TurnWell
  <2>8. CASE ~(r.at + 1 < Len(chain))
    BY <2>1, <2>2, <2>6, <2>8, TurnWell
  <2> QED BY <2>7, <2>8
<1>4. ASSUME NEW c \in Embedders, BackendRefuses(c) PROVE EmbeddingsInv'
  <2>1. kept' = kept /\ chain' = chain /\ Turn(c, NoRequest)
    BY <1>4 DEF BackendRefuses
  <2>2. RequestWell(NoRequest) /\ kept' \in VectorCaches
    BY <2>1, NoRequestWell DEF EmbeddingsInv
  <2> QED BY <2>1, <2>2, TurnWell
<1>5. CASE UNCHANGED embeddingsVars
  BY <1>5 DEF embeddingsVars, EmbeddingsInv, RequestWell
<1> QED BY <1>1, <1>2, <1>3, <1>4, <1>5, AnswerWell DEF EmbeddingsNext

\* EmbeddingService, for any texts, batches, callers and size of the cache, whichever
\* backends fail and in whatever order a reply lists its vectors: each text gets its own
\* vector, and the cache holds every text once, with its vector and within the bound.
THEOREM TextsGetTheirVectors == EmbeddingsSpec => []VectorsOfTheirTexts
<1>1. EmbeddingsInv => VectorsOfTheirTexts
  <2> SUFFICES ASSUME EmbeddingsInv PROVE VectorsOfTheirTexts
    OBVIOUS
  <2>1. OwnVectors(kept) /\ Len(kept) <= VectorsKept
    BY DEF EmbeddingsInv, VectorCaches
  <2>2. \A i \in DOMAIN kept : kept[i].vector.of = kept[i].text
    <3>1. \A i \in DOMAIN kept : kept[i] \in ToSet(kept)
      BY DEF ToSet
    <3> QED BY <2>1, <3>1 DEF OwnVectors
  <2>3. Cardinality({kept[i].text : i \in DOMAIN kept}) = Len(kept)
    BY <2>1, TextsCounted
  <2>4. ASSUME NEW c \in Embedders
        PROVE  /\ Len(request[c].found) = Len(request[c].texts)
               /\ \A i \in DOMAIN request[c].texts : IF request[c].found[i] = NoVector THEN Asked(c)
                                                     ELSE request[c].found[i].of = request[c].texts[i]
    <3>1. RequestWell(request[c])
      BY DEF EmbeddingsInv
    <3>2. DOMAIN request[c].texts = 1 .. Len(request[c].texts)
      BY <3>1 DEF RequestWell, Request
    <3> QED BY <3>1, <3>2 DEF RequestWell, Asked
  <2> QED BY <2>1, <2>2, <2>3, <2>4 DEF VectorsOfTheirTexts
<1> QED BY <1>1, EmbeddingsInvInit, EmbeddingsInvStep, PTL DEF EmbeddingsSpec
=================================================================================
