-------------------------- MODULE MemoryServiceProofs --------------------------
(***************************************************************************)
(* Proofs about MemoryService, for every set of processes, coroutines,     *)
(* records and contents, every choice of yielding awaits and of faults.    *)
(*                                                                         *)
(* The invariant is inductive because of what each coroutine's local       *)
(* variables promise about the shared store: the index it may write back   *)
(* lists only blobs that are there and open, the id it stores under is its *)
(* own, and the blob it is replacing another with has the same key.  A     *)
(* blob only ever changes into one sealed alike, so these promises survive *)
(* whatever the other coroutines do in between.                            *)
(*                                                                         *)
(* The second half is about one program on the local store, where nothing  *)
(* yields: the only operation under way works on the index as it is        *)
(* stored (Hand), and between its save and the code that follows it the    *)
(* search index lags in one known row (Behind).  From that follow the      *)
(* audit log, the cache and the search index, and the vault.               *)
(***************************************************************************)
EXTENDS MemoryService, TLAPS

RecordOps == {"store", "retrieve", "delete", "update_metadata", "update_content"}

\* The local variables an operation has at each of its awaits.
TaskShape(t) ==
    /\ t \in Task
    /\ t.op \in RecordOps => t.id \in Ids
    /\ t.op = "store" => t.blob \in Blob
    /\ t.op = "update_content" /\ t.pc # "load"
        => t.blob \in Blob /\ t.snapshot[t.id] \in Entry
    /\ t.pc \in {"save", "saved"} => t.op \in RecordOps /\ t.snapshot[t.id] \in Entry
    /\ t.pc \in {"fetch", "fetched"} => t.id \in t.todo
    /\ t.pc = "fetched" => t.blob \in Blob
    /\ t.op = "retrieve" => t.todo \subseteq {t.id}
    /\ t.todo # {} => t.pc \in {"scan", "fetch", "fetched"}
    /\ \A i \in t.todo : t.snapshot[i] \in Entry

\* What they promise about the stored blobs.
TaskSealed(t) ==
    /\ \A i \in Ids : t.snapshot[i] # None => Opens(blobs[i], t.snapshot[i])
    /\ t.op = "store" /\ t.pc = "put" => blobs[t.id] = None
    /\ t.op = "store" /\ t.pc \in {"put_done", "embed", "load"} => Opens(blobs[t.id], t.blob)
    /\ t.op = "update_content" /\ t.pc \in {"put", "put_done", "embed"}
        => Opens(t.blob, t.snapshot[t.id])
    /\ t.pc = "fetched" => Opens(blobs[t.id], t.blob)

\* No two stores in progress have the same id.
Own(c, t) ==
    t.op = "store" => \A d \in Clients \ {c} : task[d].op = "store" => task[d].id # t.id

IndexOpens == \A i \in Ids : index[i] # None => Opens(blobs[i], index[i])

CacheOpens ==
    \A p \in Processes, i \in Ids : cache[p][i] # None => Opens(blobs[i], cache[p][i])

Inv ==
    /\ TypeOK
    /\ \A c \in Clients : TaskShape(task[c]) /\ TaskSealed(task[c]) /\ Own(c, task[c])
    /\ IndexOpens
    /\ CacheOpens

-----------------------------------------------------------------------------
(* Lemmas. *)

LEMMA IdleShape == TaskShape(Idle) /\ TaskSealed(Idle) /\ (\A c : Own(c, Idle))
BY DEF Idle, Begun, TaskShape, TaskSealed, Own, Task, Ops, Pcs, NoIndex, RecordOps

\* A step of c that leaves the blobs alone keeps every coroutine's promises if
\* c's own new local variables keep theirs.
LEMMA TasksKeep ==
    ASSUME Inv, NEW c \in Clients, NEW t, Continue(c, t), blobs' = blobs,
           TaskShape(t), TaskSealed(t), Own(c, t)
    PROVE  /\ task' \in [Clients -> Task]
           /\ loop' \in [Processes -> Clients \cup {None}]
           /\ (\A d \in Clients : TaskShape(task[d]) /\ TaskSealed(task[d]) /\ Own(d, task[d]))'
<1> USE DEF Inv, TypeOK
<1>1. task' = [task EXCEPT ![c] = t] /\ t \in Task
  BY DEF Continue, TaskShape
<1>2. task' \in [Clients -> Task]
  BY <1>1
<1>3. loop' \in [Processes -> Clients \cup {None}]
  BY ProcessOfAssumption DEF Continue
<1>4. ASSUME NEW d \in Clients
      PROVE  (TaskShape(task[d]) /\ TaskSealed(task[d]) /\ Own(d, task[d]))'
  <2>1. TaskShape(task[d])'
    BY <1>1 DEF TaskShape
  <2>2. TaskSealed(task[d])'
    <3>1. CASE d = c
      BY <1>1, <3>1 DEF TaskSealed, Opens
    <3>2. CASE d # c
      <4>1. task'[d] = task[d] /\ TaskSealed(task[d])
        BY <1>1, <3>2
      <4> QED BY <4>1 DEF TaskSealed, Opens
    <3> QED BY <3>1, <3>2
  <2>3. Own(d, task[d])'
    BY <1>1 DEF Own
  <2> QED BY <2>1, <2>2, <2>3
<1> QED BY <1>2, <1>3, <1>4

\* A step that only moves c on, the shared state left alone.
LEMMA PrivateStep ==
    ASSUME Inv, NEW c \in Clients, NEW t, Continue(c, t), UNCHANGED shared,
           TaskShape(t), TaskSealed(t), Own(c, t)
    PROVE  Inv'
<1>1. UNCHANGED <<active, blobs, index, cache, searchIndex, journal>>
  BY DEF shared
<1>2. TypeOK' /\ (\A d \in Clients : TaskShape(task[d]) /\ TaskSealed(task[d]) /\ Own(d, task[d]))'
  BY <1>1, TasksKeep DEF TypeOK, Inv
<1>3. IndexOpens' /\ CacheOpens'
  BY <1>1 DEF Inv, IndexOpens, CacheOpens, Opens
<1> QED BY <1>2, <1>3 DEF Inv

\* An operation ends: its local variables promise nothing any more.
LEMMA ReturnStep ==
    ASSUME Inv, NEW c \in Clients, Return(c), UNCHANGED shared
    PROVE  Inv'
BY PrivateStep, IdleShape DEF Return

\* What the invariant says of one coroutine, unfolded once.
LEMMA TaskFacts ==
    ASSUME Inv, NEW c \in Clients
    PROVE  /\ task[c] \in Task
           /\ task[c].id \in Ids \cup {None}
           /\ task[c].blob \in Blob \cup {None}
           /\ task[c].snapshot \in [Ids -> Entry \cup {None}]
           /\ task[c].todo \in SUBSET Ids
           /\ TaskShape(task[c]) /\ TaskSealed(task[c]) /\ Own(c, task[c])
BY DEF Inv, TypeOK, Task

LEMMA SharedFacts ==
    ASSUME Inv
    PROVE  /\ active \in [Categories -> 1 .. MaxKeyVersion]
           /\ blobs \in [Ids -> Blob \cup {None}]
           /\ index \in [Ids -> Entry \cup {None}]
           /\ cache \in [Processes -> [Ids -> Blob \cup {None}]]
           /\ IndexOpens /\ CacheOpens
BY DEF Inv, TypeOK

LEMMA NotNone == None \notin Entry /\ None \notin Blob /\ None \notin Ids
BY NoneAssumption

LEMMA InitInv == Init => Inv
<1> SUFFICES ASSUME Init PROVE Inv
  OBVIOUS
<1>1. TypeOK
  BY IdleShape, MaxKeyVersionAssumption DEF Init, TypeOK, NoIndex, TaskShape
<1>2. IndexOpens /\ CacheOpens
  BY DEF Init, IndexOpens, CacheOpens, NoIndex
<1>3. \A c \in Clients : TaskShape(task[c]) /\ TaskSealed(task[c]) /\ Own(c, task[c])
  BY IdleShape DEF Init
<1> QED BY <1>1, <1>2, <1>3 DEF Inv

-----------------------------------------------------------------------------
(* A task record with several fields changed, written out: the SMT backend     *)
(* takes an EXCEPT with one component at a time.                               *)

Locals(op, pc, id, blob, snapshot, todo) ==
    [op |-> op, pc |-> pc, id |-> id, blob |-> blob, snapshot |-> snapshot, todo |-> todo]

LEMMA PcSnapshot ==
    ASSUME NEW u \in Task, NEW p, NEW s
    PROVE  [u EXCEPT !.pc = p, !.snapshot = s]
             = Locals(u.op, p, u.id, u.blob, s, u.todo)
<1> DEFINE w1 == [u EXCEPT !.pc = p]
<1>1. w1 = Locals(u.op, p, u.id, u.blob, u.snapshot, u.todo)
  BY DEF Task, Locals
<1> HIDE DEF w1
<1>2. [w1 EXCEPT !.snapshot = s] = Locals(u.op, p, u.id, u.blob, s, u.todo)
  BY <1>1 DEF Locals
<1> QED BY <1>2 DEF w1

LEMMA PcId ==
    ASSUME NEW u \in Task, NEW p, NEW i
    PROVE  [u EXCEPT !.pc = p, !.id = i]
             = Locals(u.op, p, i, u.blob, u.snapshot, u.todo)
<1> DEFINE w1 == [u EXCEPT !.pc = p]
<1>1. w1 = Locals(u.op, p, u.id, u.blob, u.snapshot, u.todo)
  BY DEF Task, Locals
<1> HIDE DEF w1
<1>2. [w1 EXCEPT !.id = i] = Locals(u.op, p, i, u.blob, u.snapshot, u.todo)
  BY <1>1 DEF Locals
<1> QED BY <1>2 DEF w1

LEMMA PcBlob ==
    ASSUME NEW u \in Task, NEW p, NEW b
    PROVE  [u EXCEPT !.pc = p, !.blob = b]
             = Locals(u.op, p, u.id, b, u.snapshot, u.todo)
<1> DEFINE w1 == [u EXCEPT !.pc = p]
<1>1. w1 = Locals(u.op, p, u.id, u.blob, u.snapshot, u.todo)
  BY DEF Task, Locals
<1> HIDE DEF w1
<1>2. [w1 EXCEPT !.blob = b] = Locals(u.op, p, u.id, b, u.snapshot, u.todo)
  BY <1>1 DEF Locals
<1> QED BY <1>2 DEF w1

LEMMA PcSnapshotTodo ==
    ASSUME NEW u \in Task, NEW p, NEW s, NEW d
    PROVE  [u EXCEPT !.pc = p, !.snapshot = s, !.todo = d]
             = Locals(u.op, p, u.id, u.blob, s, d)
<1> DEFINE w1 == [u EXCEPT !.pc = p]
<1>1. w1 = Locals(u.op, p, u.id, u.blob, u.snapshot, u.todo)
  BY DEF Task, Locals
<1> HIDE DEF w1
<1> DEFINE w2 == [w1 EXCEPT !.snapshot = s]
<1>2. w2 = Locals(u.op, p, u.id, u.blob, s, u.todo)
  BY <1>1 DEF Locals
<1> HIDE DEF w2
<1>3. [w2 EXCEPT !.todo = d] = Locals(u.op, p, u.id, u.blob, s, d)
  BY <1>2 DEF Locals
<1> QED BY <1>3 DEF w1, w2

LEMMA PcSnapshotBlob ==
    ASSUME NEW u \in Task, NEW p, NEW s, NEW b
    PROVE  [u EXCEPT !.pc = p, !.snapshot = s, !.blob = b]
             = Locals(u.op, p, u.id, b, s, u.todo)
<1> DEFINE w1 == [u EXCEPT !.pc = p]
<1>1. w1 = Locals(u.op, p, u.id, u.blob, u.snapshot, u.todo)
  BY DEF Task, Locals
<1> HIDE DEF w1
<1> DEFINE w2 == [w1 EXCEPT !.snapshot = s]
<1>2. w2 = Locals(u.op, p, u.id, u.blob, s, u.todo)
  BY <1>1 DEF Locals
<1> HIDE DEF w2
<1>3. [w2 EXCEPT !.blob = b] = Locals(u.op, p, u.id, b, s, u.todo)
  BY <1>2 DEF Locals
<1> QED BY <1>3 DEF w1, w2

LEMMA PcTodoId ==
    ASSUME NEW u \in Task, NEW p, NEW d, NEW i
    PROVE  [u EXCEPT !.pc = p, !.todo = d, !.id = i]
             = Locals(u.op, p, i, u.blob, u.snapshot, d)
<1> DEFINE w1 == [u EXCEPT !.pc = p]
<1>1. w1 = Locals(u.op, p, u.id, u.blob, u.snapshot, u.todo)
  BY DEF Task, Locals
<1> HIDE DEF w1
<1> DEFINE w2 == [w1 EXCEPT !.todo = d]
<1>2. w2 = Locals(u.op, p, u.id, u.blob, u.snapshot, d)
  BY <1>1 DEF Locals
<1> HIDE DEF w2
<1>3. [w2 EXCEPT !.id = i] = Locals(u.op, p, i, u.blob, u.snapshot, d)
  BY <1>2 DEF Locals
<1> QED BY <1>3 DEF w1, w2

LEMMA PcTodoBlobId ==
    ASSUME NEW u \in Task, NEW p, NEW d, NEW b, NEW i
    PROVE  [u EXCEPT !.pc = p, !.todo = d, !.blob = b, !.id = i]
             = Locals(u.op, p, i, b, u.snapshot, d)
<1> DEFINE w1 == [u EXCEPT !.pc = p]
<1>1. w1 = Locals(u.op, p, u.id, u.blob, u.snapshot, u.todo)
  BY DEF Task, Locals
<1> HIDE DEF w1
<1> DEFINE w2 == [w1 EXCEPT !.todo = d]
<1>2. w2 = Locals(u.op, p, u.id, u.blob, u.snapshot, d)
  BY <1>1 DEF Locals
<1> HIDE DEF w2
<1> DEFINE w3 == [w2 EXCEPT !.blob = b]
<1>3. w3 = Locals(u.op, p, u.id, b, u.snapshot, d)
  BY <1>2 DEF Locals
<1> HIDE DEF w3
<1>4. [w3 EXCEPT !.id = i] = Locals(u.op, p, i, b, u.snapshot, d)
  BY <1>3 DEF Locals
<1> QED BY <1>4 DEF w1, w2, w3

LEMMA PcOnly ==
    ASSUME NEW u \in Task, NEW p
    PROVE  [u EXCEPT !.pc = p]
             = Locals(u.op, p, u.id, u.blob, u.snapshot, u.todo)
BY DEF Task, Locals

-----------------------------------------------------------------------------
(* The steps that change c's local variables only. *)

LEMMA StartStoreInv ==
    ASSUME Inv, NEW c \in Clients, StartStore(c)
    PROVE  Inv'
<1>0. PICK i \in Ids, k \in Categories, x \in Contents : /\ IsFresh(i)
                /\ Continue(c, Begun("store", "put", i,
                       [category |-> k, key_version |-> active[k], content |-> x]))
  BY DEF StartStore
<1> DEFINE b == [category |-> k, key_version |-> active[k], content |-> x]
<1> DEFINE t == Begun("store", "put", i, b)
<1>1. b \in Blob /\ IsFresh(i)
  BY <1>0, TaskFacts, SharedFacts, NotNone DEF StartStore, At, IsLive, TaskShape, TaskSealed, RecordOps, Blob
<1>2. Continue(c, t) /\ UNCHANGED shared
  BY <1>0, <1>1 DEF StartStore
<1> HIDE DEF b
<1>3. TaskShape(t)
  BY <1>1, TaskFacts, SharedFacts, NotNone DEF Locals, Begun, NoIndex, TaskShape, Task, Ops, Pcs, RecordOps
<1>4. TaskSealed(t)
  BY <1>1, TaskFacts, SharedFacts, NotNone DEF Locals, Begun, NoIndex, TaskSealed, IndexOpens, Opens, IsFresh
<1>5. Own(c, t)
  BY <1>1, TaskFacts DEF Locals, Begun, Own, IsFresh
<1> HIDE DEF t
<1> QED BY <1>2, <1>3, <1>4, <1>5, PrivateStep

LEMMA StartOnRecordInv ==
    ASSUME Inv, NEW c \in Clients, StartOnRecord(c)
    PROVE  Inv'
<1>0. PICK op \in {"retrieve", "delete", "update_metadata", "update_content"}, i \in Ids : Continue(c, Begun(op, "load", i, None))
  BY DEF StartOnRecord
<1> DEFINE t == Begun(op, "load", i, None)
<1>1. op \in RecordOps \ {"store"}
  BY <1>0, TaskFacts, SharedFacts, NotNone DEF StartOnRecord, At, IsLive, TaskShape, TaskSealed, RecordOps
<1>2. Continue(c, t) /\ UNCHANGED shared
  BY <1>0, <1>1 DEF StartOnRecord
<1>3. TaskShape(t)
  BY <1>1, TaskFacts, SharedFacts, NotNone DEF Locals, Begun, NoIndex, TaskShape, Task, Ops, Pcs, RecordOps
<1>4. TaskSealed(t)
  BY <1>1, TaskFacts, SharedFacts, NotNone DEF Locals, Begun, NoIndex, TaskSealed, IndexOpens, Opens
<1>5. Own(c, t)
  BY <1>1, TaskFacts DEF Locals, Begun, Own
<1> HIDE DEF t
<1> QED BY <1>2, <1>3, <1>4, <1>5, PrivateStep

LEMMA StartSearchInv ==
    ASSUME Inv, NEW c \in Clients, StartSearch(c)
    PROVE  Inv'
<1> DEFINE first == IF searchIndex[ProcessOf[c]] = None THEN "rebuild" ELSE "embed"
<1> DEFINE t == Begun("search", first, None, None)
<1>1. first \in {"rebuild", "embed"}
  BY TaskFacts, SharedFacts, NotNone DEF StartSearch, At, IsLive, TaskShape, TaskSealed, RecordOps
<1>2. Continue(c, t) /\ UNCHANGED shared
  BY <1>1 DEF StartSearch
<1> HIDE DEF first
<1>3. TaskShape(t)
  BY <1>1, TaskFacts, SharedFacts, NotNone DEF Locals, Begun, NoIndex, TaskShape, Task, Ops, Pcs, RecordOps
<1>4. TaskSealed(t)
  BY <1>1, TaskFacts, SharedFacts, NotNone DEF Locals, Begun, NoIndex, TaskSealed, IndexOpens, Opens
<1>5. Own(c, t)
  BY <1>1, TaskFacts DEF Locals, Begun, Own
<1> HIDE DEF t
<1> QED BY <1>2, <1>3, <1>4, <1>5, PrivateStep

LEMMA StartSuggestInv ==
    ASSUME Inv, NEW c \in Clients, StartSuggest(c)
    PROVE  Inv'
<1> DEFINE t == Begun("suggest", "load", None, None)
<1>1. TRUE
  BY TaskFacts, SharedFacts, NotNone DEF StartSuggest, At, IsLive, TaskShape, TaskSealed, RecordOps
<1>2. Continue(c, t) /\ UNCHANGED shared
  BY <1>1 DEF StartSuggest
<1>3. TaskShape(t)
  BY <1>1, TaskFacts, SharedFacts, NotNone DEF Locals, Begun, NoIndex, TaskShape, Task, Ops, Pcs, RecordOps
<1>4. TaskSealed(t)
  BY <1>1, TaskFacts, SharedFacts, NotNone DEF Locals, Begun, NoIndex, TaskSealed, IndexOpens, Opens
<1>5. Own(c, t)
  BY <1>1, TaskFacts DEF Locals, Begun, Own
<1> HIDE DEF t
<1> QED BY <1>2, <1>3, <1>4, <1>5, PrivateStep

LEMMA EmbeddedBeforeLoadInv ==
    ASSUME Inv, NEW c \in Clients, EmbeddedBeforeLoad(c)
    PROVE  Inv'
<1> DEFINE t == Locals(task[c].op, "load", task[c].id, task[c].blob, task[c].snapshot, {})
<1>1. /\ task[c].op \in {"store", "search"} /\ task[c].pc = "embed" /\ task[c].todo = {}
      /\ task[c].op = "store" => task[c].id \in Ids /\ task[c].blob \in Blob
  BY TaskFacts, SharedFacts, NotNone DEF EmbeddedBeforeLoad, At, IsLive, TaskShape, TaskSealed, RecordOps
<1>2. task[c] \in Task
  BY TaskFacts
<1>3. Goto(c, "load")
           = Locals(task[c].op, "load", task[c].id, task[c].blob, task[c].snapshot, task[c].todo)
  BY <1>2, PcOnly DEF Goto
<1>4. Continue(c, t) /\ UNCHANGED shared
  BY <1>1, <1>3 DEF EmbeddedBeforeLoad
<1>5. TaskShape(t)
  BY <1>1, TaskFacts, SharedFacts, NotNone DEF Locals, Begun, NoIndex, TaskShape, Task, Ops, Pcs, RecordOps
<1>6. TaskSealed(t)
  BY <1>1, TaskFacts, SharedFacts, NotNone DEF Locals, Begun, NoIndex, TaskSealed, IndexOpens, Opens
<1>7. Own(c, t)
  BY <1>1, TaskFacts DEF Locals, Begun, Own
<1> HIDE DEF t
<1> QED BY <1>4, <1>5, <1>6, <1>7, PrivateStep

LEMMA EmbeddedContentInv ==
    ASSUME Inv, NEW c \in Clients, EmbeddedContent(c)
    PROVE  Inv'
<1> DEFINE i == task[c].id
           b == task[c].blob
           s == task[c].snapshot
           r == [s EXCEPT ![i].content_hash = b.content]
<1> DEFINE t == Locals("update_content", "save", i, b, r, {})
<1>1. /\ \A j \in Ids : s[j] # None => Opens(blobs[j], s[j])
      /\ i \in Ids /\ b \in Blob /\ s[i] \in Entry
      /\ task[c].op = "update_content" /\ task[c].pc = "embed" /\ task[c].todo = {}
  BY TaskFacts, SharedFacts, NotNone DEF EmbeddedContent, At, IsLive, TaskShape, TaskSealed, RecordOps
<1>2. /\ r \in [Ids -> Entry \cup {None}] /\ r[i] \in Entry
      /\ r[i].category = s[i].category /\ r[i].key_version = s[i].key_version
      /\ \A j \in Ids \ {i} : r[j] = s[j]
  BY <1>1, TaskFacts DEF Entry, Blob
<1>3. task[c] \in Task
  BY TaskFacts
<1>4. [task[c] EXCEPT !.pc = "save", !.snapshot = r]
           = Locals(task[c].op, "save", task[c].id, task[c].blob, r, task[c].todo)
  BY <1>3, PcSnapshot, Zenon
<1>5. Continue(c, t) /\ UNCHANGED shared
  BY <1>1, <1>4 DEF EmbeddedContent
<1> HIDE DEF i, b, s, r
<1>6. TaskShape(t)
  BY <1>1, <1>2, TaskFacts, SharedFacts, NotNone DEF Locals, Begun, NoIndex, TaskShape, Task, Ops, Pcs, RecordOps
<1>7. TaskSealed(t)
  BY <1>1, <1>2, TaskFacts, SharedFacts, NotNone DEF Locals, Begun, NoIndex, TaskSealed, IndexOpens, Opens
<1>8. Own(c, t)
  BY <1>1, TaskFacts DEF Locals, Begun, Own
<1> HIDE DEF t
<1> QED BY <1>5, <1>6, <1>7, <1>8, PrivateStep

LEMMA LoadForStoreInv ==
    ASSUME Inv, NEW c \in Clients, LoadForStore(c)
    PROVE  Inv'
<1>0. PICK importance \in Importances : Continue(c, [task[c] EXCEPT
            !.pc = "save",
            !.snapshot = [index EXCEPT ![task[c].id] =
                [category |-> task[c].blob.category,
                 key_version |-> task[c].blob.key_version,
                 content_hash |-> task[c].blob.content,
                 importance |-> importance,
                 deleted |-> FALSE]]])
  BY DEF LoadForStore
<1> DEFINE i == task[c].id
           b == task[c].blob
           e == [category |-> b.category, key_version |-> b.key_version,
                 content_hash |-> b.content, importance |-> importance, deleted |-> FALSE]
           s == [index EXCEPT ![i] = e]
<1> DEFINE t == Locals("store", "save", i, b, s, {})
<1>1. /\ i = task[c].id /\ i \in Ids /\ b \in Blob /\ Opens(blobs[i], b)
      /\ task[c].op = "store" /\ task[c].pc = "load" /\ task[c].todo = {}
  BY <1>0, TaskFacts, SharedFacts, NotNone DEF LoadForStore, At, IsLive, TaskShape, TaskSealed, RecordOps
<1>2. /\ e \in Entry /\ e.category = b.category /\ e.key_version = b.key_version
  BY <1>1 DEF Entry, Blob
<1>3. /\ s \in [Ids -> Entry \cup {None}] /\ s[i] = e
      /\ \A j \in Ids \ {i} : s[j] = index[j]
  BY <1>1, <1>2, SharedFacts
<1>4. task[c] \in Task
  BY TaskFacts
<1>5. [task[c] EXCEPT !.pc = "save", !.snapshot = s]
           = Locals(task[c].op, "save", task[c].id, task[c].blob, s, task[c].todo)
  BY <1>4, PcSnapshot, Zenon
<1>6. Continue(c, t) /\ UNCHANGED shared
  BY <1>0, <1>1, <1>5 DEF LoadForStore
<1> HIDE DEF i, b, e, s
<1>7. TaskShape(t)
  BY <1>1, <1>2, <1>3, TaskFacts, SharedFacts, NotNone DEF Locals, Begun, NoIndex, TaskShape, Task, Ops, Pcs, RecordOps
<1>8. TaskSealed(t)
  BY <1>1, <1>2, <1>3, TaskFacts, SharedFacts, NotNone DEF Locals, Begun, NoIndex, TaskSealed, IndexOpens, Opens
<1>9. Own(c, t)
  BY <1>1, TaskFacts DEF Locals, Begun, Own
<1> HIDE DEF t
<1> QED BY <1>6, <1>7, <1>8, <1>9, PrivateStep

LEMMA LoadForDeleteInv ==
    ASSUME Inv, NEW c \in Clients, LoadForDelete(c)
    PROVE  Inv'
<1> DEFINE i == task[c].id
           s == [index EXCEPT ![i].deleted = TRUE]
<1> DEFINE t == Locals("delete", "save", i, task[c].blob, s, {})
<1>1. /\ i \in Ids /\ index[i] \in Entry
      /\ task[c].op = "delete" /\ task[c].pc = "load" /\ task[c].todo = {}
  BY TaskFacts, SharedFacts, NotNone DEF LoadForDelete, At, IsLive, TaskShape, TaskSealed, RecordOps
<1>2. /\ s \in [Ids -> Entry \cup {None}] /\ s[i] \in Entry
      /\ s[i].category = index[i].category /\ s[i].key_version = index[i].key_version
      /\ \A j \in Ids \ {i} : s[j] = index[j]
  BY <1>1, SharedFacts DEF Entry
<1>3. task[c] \in Task
  BY TaskFacts
<1>4. [task[c] EXCEPT !.pc = "save", !.snapshot = s]
           = Locals(task[c].op, "save", task[c].id, task[c].blob, s, task[c].todo)
  BY <1>3, PcSnapshot, Zenon
<1>5. Continue(c, t) /\ UNCHANGED shared
  BY <1>1, <1>4 DEF LoadForDelete
<1> HIDE DEF i, s
<1>6. TaskShape(t)
  BY <1>1, <1>2, TaskFacts, SharedFacts, NotNone DEF Locals, Begun, NoIndex, TaskShape, Task, Ops, Pcs, RecordOps
<1>7. TaskSealed(t)
  BY <1>1, <1>2, TaskFacts, SharedFacts, NotNone DEF Locals, Begun, NoIndex, TaskSealed, IndexOpens, Opens
<1>8. Own(c, t)
  BY <1>1, TaskFacts DEF Locals, Begun, Own
<1> HIDE DEF t
<1> QED BY <1>5, <1>6, <1>7, <1>8, PrivateStep

LEMMA LoadForMetadataInv ==
    ASSUME Inv, NEW c \in Clients, LoadForMetadata(c)
    PROVE  Inv'
<1>0. PICK importance \in Importances : Continue(c, [task[c] EXCEPT
            !.pc = "save",
            !.snapshot = [index EXCEPT ![task[c].id].importance = importance]])
  BY DEF LoadForMetadata
<1> DEFINE i == task[c].id
           s == [index EXCEPT ![i].importance = importance]
<1> DEFINE t == Locals("update_metadata", "save", i, task[c].blob, s, {})
<1>1. /\ i \in Ids /\ index[i] \in Entry
      /\ task[c].op = "update_metadata" /\ task[c].pc = "load" /\ task[c].todo = {}
  BY <1>0, TaskFacts, SharedFacts, NotNone DEF LoadForMetadata, At, IsLive, TaskShape, TaskSealed, RecordOps
<1>2. /\ s \in [Ids -> Entry \cup {None}] /\ s[i] \in Entry
      /\ s[i].category = index[i].category /\ s[i].key_version = index[i].key_version
      /\ \A j \in Ids \ {i} : s[j] = index[j]
  BY <1>1, SharedFacts DEF Entry
<1>3. task[c] \in Task
  BY TaskFacts
<1>4. [task[c] EXCEPT !.pc = "save", !.snapshot = s]
           = Locals(task[c].op, "save", task[c].id, task[c].blob, s, task[c].todo)
  BY <1>3, PcSnapshot, Zenon
<1>5. Continue(c, t) /\ UNCHANGED shared
  BY <1>0, <1>1, <1>4 DEF LoadForMetadata
<1> HIDE DEF i, s
<1>6. TaskShape(t)
  BY <1>1, <1>2, TaskFacts, SharedFacts, NotNone DEF Locals, Begun, NoIndex, TaskShape, Task, Ops, Pcs, RecordOps
<1>7. TaskSealed(t)
  BY <1>1, <1>2, TaskFacts, SharedFacts, NotNone DEF Locals, Begun, NoIndex, TaskSealed, IndexOpens, Opens
<1>8. Own(c, t)
  BY <1>1, TaskFacts DEF Locals, Begun, Own
<1> HIDE DEF t
<1> QED BY <1>5, <1>6, <1>7, <1>8, PrivateStep

LEMMA LoadForContentInv ==
    ASSUME Inv, NEW c \in Clients, LoadForContent(c)
    PROVE  Inv'
<1>0. PICK x \in Contents : Continue(c, [task[c] EXCEPT
                !.pc = "put",
                !.snapshot = index,
                !.blob = [category |-> index[task[c].id].category,
                          key_version |-> index[task[c].id].key_version,
                          content |-> x]])
  BY DEF LoadForContent
<1> DEFINE i == task[c].id
           b == [category |-> index[i].category, key_version |-> index[i].key_version, content |-> x]
<1> DEFINE t == Locals("update_content", "put", i, b, index, {})
<1>1. /\ i \in Ids /\ index[i] \in Entry
      /\ task[c].op = "update_content" /\ task[c].pc = "load" /\ task[c].todo = {}
  BY <1>0, TaskFacts, SharedFacts, NotNone DEF LoadForContent, At, IsLive, TaskShape, TaskSealed, RecordOps
<1>2. b \in Blob /\ b.category = index[i].category /\ b.key_version = index[i].key_version
  BY <1>1 DEF Entry, Blob
<1>3. task[c] \in Task
  BY TaskFacts
<1>4. [task[c] EXCEPT !.pc = "put", !.snapshot = index, !.blob = b]
           = Locals(task[c].op, "put", task[c].id, b, index, task[c].todo)
  BY <1>3, PcSnapshotBlob, Zenon
<1>5. Continue(c, t) /\ UNCHANGED shared
  BY <1>0, <1>1, <1>4 DEF LoadForContent
<1> HIDE DEF i, b
<1>6. TaskShape(t)
  BY <1>1, <1>2, TaskFacts, SharedFacts, NotNone DEF Locals, Begun, NoIndex, TaskShape, Task, Ops, Pcs, RecordOps
<1>7. TaskSealed(t)
  BY <1>1, <1>2, TaskFacts, SharedFacts, NotNone DEF Locals, Begun, NoIndex, TaskSealed, IndexOpens, Opens
<1>8. Own(c, t)
  BY <1>1, TaskFacts DEF Locals, Begun, Own
<1> HIDE DEF t
<1> QED BY <1>5, <1>6, <1>7, <1>8, PrivateStep

LEMMA LoadForRetrieveInv ==
    ASSUME Inv, NEW c \in Clients, LoadForRetrieve(c)
    PROVE  Inv'
<1> DEFINE i == task[c].id
<1> DEFINE t == Locals("retrieve", "scan", i, task[c].blob, index, {i})
<1>1. /\ i \in Ids /\ index[i] \in Entry
      /\ task[c].op = "retrieve" /\ task[c].pc = "load"
  BY TaskFacts, SharedFacts, NotNone DEF LoadForRetrieve, At, IsLive, TaskShape, TaskSealed, RecordOps
<1>2. task[c] \in Task
  BY TaskFacts
<1>3. \A e : [task[c] EXCEPT !.pc = "scan", !.snapshot = index, !.todo = e]
           = Locals(task[c].op, "scan", task[c].id, task[c].blob, index, e)
  BY <1>2, PcSnapshotTodo, Zenon
<1>4. Continue(c, t) /\ UNCHANGED shared
  BY <1>1, <1>3 DEF LoadForRetrieve
<1> HIDE DEF i
<1>5. TaskShape(t)
  BY <1>1, TaskFacts, SharedFacts, NotNone DEF Locals, Begun, NoIndex, TaskShape, Task, Ops, Pcs, RecordOps
<1>6. TaskSealed(t)
  BY <1>1, TaskFacts, SharedFacts, NotNone DEF Locals, Begun, NoIndex, TaskSealed, IndexOpens, Opens
<1>7. Own(c, t)
  BY <1>1, TaskFacts DEF Locals, Begun, Own
<1> HIDE DEF t
<1> QED BY <1>4, <1>5, <1>6, <1>7, PrivateStep

LEMMA LoadForScanInv ==
    ASSUME Inv, NEW c \in Clients, LoadForScan(c)
    PROVE  Inv'
<1>0. PICK scope \in {Categories} \cup {{k} : k \in Categories} : Continue(c, [task[c] EXCEPT
            !.pc = "scan",
            !.snapshot = index,
            !.todo = {i \in Ids : IsLive(index[i]) /\ index[i].category \in scope}])
  BY DEF LoadForScan
<1> DEFINE d == {i \in Ids : IsLive(index[i]) /\ index[i].category \in scope}
<1> DEFINE t == Locals(task[c].op, "scan", task[c].id, task[c].blob, index, d)
<1>1. /\ task[c].op \in {"search", "suggest"} /\ task[c].pc = "load"
      /\ d \in SUBSET Ids /\ \A i \in d : index[i] \in Entry
  BY <1>0, TaskFacts, SharedFacts, NotNone DEF LoadForScan, At, IsLive, TaskShape, TaskSealed, RecordOps
<1>2. task[c] \in Task
  BY TaskFacts
<1>3. \A e : [task[c] EXCEPT !.pc = "scan", !.snapshot = index, !.todo = e]
           = Locals(task[c].op, "scan", task[c].id, task[c].blob, index, e)
  BY <1>2, PcSnapshotTodo, Zenon
<1>4. Continue(c, t) /\ UNCHANGED shared
  BY <1>0, <1>1, <1>3 DEF LoadForScan
<1> HIDE DEF d
<1>5. TaskShape(t)
  BY <1>1, TaskFacts, SharedFacts, NotNone DEF Locals, Begun, NoIndex, TaskShape, Task, Ops, Pcs, RecordOps
<1>6. TaskSealed(t)
  BY <1>1, TaskFacts, SharedFacts, NotNone DEF Locals, Begun, NoIndex, TaskSealed, IndexOpens, Opens
<1>7. Own(c, t)
  BY <1>1, TaskFacts DEF Locals, Begun, Own
<1> HIDE DEF t
<1> QED BY <1>4, <1>5, <1>6, <1>7, PrivateStep

LEMMA RebuildInv ==
    ASSUME Inv, NEW c \in Clients, Rebuild(c)
    PROVE  Inv'
<1> DEFINE t == Locals("search", "rebuilt", task[c].id, task[c].blob, index, {})
<1>1. task[c].op = "search" /\ task[c].pc = "rebuild" /\ task[c].todo = {}
  BY TaskFacts, SharedFacts, NotNone DEF Rebuild, At, IsLive, TaskShape, TaskSealed, RecordOps
<1>2. task[c] \in Task
  BY TaskFacts
<1>3. [task[c] EXCEPT !.pc = "rebuilt", !.snapshot = index]
           = Locals(task[c].op, "rebuilt", task[c].id, task[c].blob, index, task[c].todo)
  BY <1>2, PcSnapshot, Zenon
<1>4. Continue(c, t) /\ UNCHANGED shared
  BY <1>1, <1>3 DEF Rebuild
<1>5. TaskShape(t)
  BY <1>1, TaskFacts, SharedFacts, NotNone DEF Locals, Begun, NoIndex, TaskShape, Task, Ops, Pcs, RecordOps
<1>6. TaskSealed(t)
  BY <1>1, TaskFacts, SharedFacts, NotNone DEF Locals, Begun, NoIndex, TaskSealed, IndexOpens, Opens
<1>7. Own(c, t)
  BY <1>1, TaskFacts DEF Locals, Begun, Own
<1> HIDE DEF t
<1> QED BY <1>4, <1>5, <1>6, <1>7, PrivateStep

LEMMA CacheMissInv ==
    ASSUME Inv, NEW c \in Clients, CacheMiss(c)
    PROVE  Inv'
<1>0. PICK i \in task[c].todo : Continue(c, [task[c] EXCEPT !.pc = "fetch", !.id = i])
  BY DEF CacheMiss
<1> DEFINE t == Locals(task[c].op, "fetch", i, task[c].blob, task[c].snapshot, task[c].todo)
<1>1. /\ task[c].op \in {"retrieve", "search", "suggest"} /\ task[c].pc = "scan"
      /\ i \in Ids /\ task[c].op = "retrieve" => i = task[c].id
  BY <1>0, TaskFacts, SharedFacts, NotNone DEF CacheMiss, At, IsLive, TaskShape, TaskSealed, RecordOps
<1>2. task[c] \in Task
  BY TaskFacts
<1>3. [task[c] EXCEPT !.pc = "fetch", !.id = i]
           = Locals(task[c].op, "fetch", i, task[c].blob, task[c].snapshot, task[c].todo)
  BY <1>2, PcId, Zenon
<1>4. Continue(c, t) /\ UNCHANGED shared
  BY <1>0, <1>1, <1>3 DEF CacheMiss
<1>5. TaskShape(t)
  BY <1>1, TaskFacts, SharedFacts, NotNone DEF Locals, Begun, NoIndex, TaskShape, Task, Ops, Pcs, RecordOps
<1>6. TaskSealed(t)
  BY <1>1, TaskFacts, SharedFacts, NotNone DEF Locals, Begun, NoIndex, TaskSealed, IndexOpens, Opens
<1>7. Own(c, t)
  BY <1>1, TaskFacts DEF Locals, Begun, Own
<1> HIDE DEF t
<1> QED BY <1>4, <1>5, <1>6, <1>7, PrivateStep

LEMMA FetchBlobInv ==
    ASSUME Inv, NEW c \in Clients, FetchBlob(c)
    PROVE  Inv'
<1> DEFINE i == task[c].id
<1> DEFINE t == Locals(task[c].op, "fetched", i, blobs[i], task[c].snapshot, task[c].todo)
<1>1. /\ task[c].op \in {"retrieve", "search", "suggest"} /\ task[c].pc = "fetch"
      /\ i \in Ids /\ i \in task[c].todo /\ blobs[i] \in Blob
  BY TaskFacts, SharedFacts, NotNone DEF FetchBlob, At, IsLive, TaskShape, TaskSealed, RecordOps
<1>2. task[c] \in Task
  BY TaskFacts
<1>3. [task[c] EXCEPT !.pc = "fetched", !.blob = blobs[i]]
           = Locals(task[c].op, "fetched", task[c].id, blobs[i], task[c].snapshot, task[c].todo)
  BY <1>2, PcBlob, Zenon
<1>4. Continue(c, t) /\ UNCHANGED shared
  BY <1>1, <1>3 DEF FetchBlob
<1> HIDE DEF i
<1>5. TaskShape(t)
  BY <1>1, TaskFacts, SharedFacts, NotNone DEF Locals, Begun, NoIndex, TaskShape, Task, Ops, Pcs, RecordOps
<1>6. TaskSealed(t)
  BY <1>1, TaskFacts, SharedFacts, NotNone DEF Locals, Begun, NoIndex, TaskSealed, IndexOpens, Opens
<1>7. Own(c, t)
  BY <1>1, TaskFacts DEF Locals, Begun, Own
<1> HIDE DEF t
<1> QED BY <1>4, <1>5, <1>6, <1>7, PrivateStep

-----------------------------------------------------------------------------
(* The steps that change the cache, the search index, the audit trail or the   *)
(* index object.                                                               *)

\* As PrivateStep, for a step that changes some shared state but no blob.
LEMMA SharedStep ==
    ASSUME Inv, NEW c \in Clients, NEW t, Continue(c, t),
           TaskShape(t), TaskSealed(t), Own(c, t),
           UNCHANGED <<active, blobs>>,
           index' \in [Ids -> Entry \cup {None}],
           cache' \in [Processes -> [Ids -> Blob \cup {None}]],
           searchIndex' \in [Processes -> [Ids -> SearchRow \cup {None}] \cup {None}],
           journal' \subseteq {"store", "delete"} \X Ids,
           IndexOpens', CacheOpens'
    PROVE  Inv'
<1>1. /\ task' \in [Clients -> Task]
      /\ loop' \in [Processes -> Clients \cup {None}]
      /\ (\A d \in Clients : TaskShape(task[d]) /\ TaskSealed(task[d]) /\ Own(d, task[d]))'
  BY TasksKeep
<1>2. TypeOK'
  BY <1>1 DEF Inv, TypeOK
<1> QED BY <1>1, <1>2 DEF Inv

\* What decrypting record i leaves in c's local variables.
LEMMA DecryptKeeps ==
    ASSUME Inv, NEW c \in Clients, NEW i \in task[c].todo, NEW blob, Decrypt(c, i, blob)
    PROVE  \E t : Continue(c, t) /\ TaskShape(t) /\ TaskSealed(t) /\ Own(c, t)
<1>0. task[c] \in Task
  BY TaskFacts
<1>1. /\ task[c] \in Task /\ i \in Ids /\ task[c].snapshot[i] \in Entry
      /\ task[c].todo \in SUBSET Ids
      /\ task[c].snapshot \in [Ids -> Entry \cup {None}]
      /\ \A j \in task[c].todo : task[c].snapshot[j] \in Entry
      /\ \A j \in Ids : task[c].snapshot[j] # None => Opens(blobs[j], task[c].snapshot[j])
      /\ task[c].op = "retrieve" => task[c].todo = {task[c].id} /\ i = task[c].id
  BY TaskFacts DEF TaskShape, TaskSealed
<1>2. CASE Return(c)
  BY <1>2, IdleShape DEF Return
<1>3. CASE task[c].op = "retrieve" /\ Continue(c, Decrypted(c, i, "save"))
  <2> DEFINE t == Locals("retrieve", "save", task[c].id, None, task[c].snapshot, {})
  <2>1. \A p, d, b, e : [task[c] EXCEPT !.pc = p, !.todo = d, !.blob = b, !.id = e]
          = Locals(task[c].op, p, e, b, task[c].snapshot, d)
    BY <1>0, PcTodoBlobId, Zenon
  <2>2. Decrypted(c, i, "save") = t
    <3> DEFINE d == task[c].todo \ {i}
               e == IF task[c].op = "retrieve" THEN task[c].id ELSE None
    <3>1. Decrypted(c, i, "save")
            = [task[c] EXCEPT !.pc = "save", !.todo = d, !.blob = None, !.id = e]
      BY DEF Decrypted
    <3> HIDE DEF d, e
    <3>2. Decrypted(c, i, "save") = Locals(task[c].op, "save", e, None, task[c].snapshot, d)
      BY <2>1, <3>1, Zenon
    <3> QED BY <1>1, <1>3, <3>2 DEF d, e
  <2>3. TaskShape(t)
    BY <1>1, <1>3, NotNone DEF Locals, TaskShape, Task, Ops, Pcs, RecordOps
  <2>4. TaskSealed(t) /\ Own(c, t)
    BY <1>1 DEF Locals, TaskSealed, Own
  <2> QED BY <1>3, <2>2, <2>3, <2>4
<1>4. CASE task[c].op \in {"search", "suggest"} /\ Continue(c, Decrypted(c, i, "scan"))
  <2> DEFINE t == Locals(task[c].op, "scan", None, None, task[c].snapshot, task[c].todo \ {i})
  <2>1. \A p, d, b, e : [task[c] EXCEPT !.pc = p, !.todo = d, !.blob = b, !.id = e]
          = Locals(task[c].op, p, e, b, task[c].snapshot, d)
    BY <1>0, PcTodoBlobId, Zenon
  <2>2. Decrypted(c, i, "scan") = t
    <3> DEFINE d == task[c].todo \ {i}
               e == IF task[c].op = "retrieve" THEN task[c].id ELSE None
    <3>1. Decrypted(c, i, "scan")
            = [task[c] EXCEPT !.pc = "scan", !.todo = d, !.blob = None, !.id = e]
      BY DEF Decrypted
    <3> HIDE DEF d, e
    <3>2. Decrypted(c, i, "scan") = Locals(task[c].op, "scan", e, None, task[c].snapshot, d)
      BY <2>1, <3>1, Zenon
    <3> QED BY <1>1, <1>4, <3>2 DEF d, e
  <2>3. TaskShape(t)
    BY <1>1, <1>4, NotNone DEF Locals, TaskShape, Task, Ops, Pcs, RecordOps
  <2>4. TaskSealed(t) /\ Own(c, t)
    BY <1>1, <1>4 DEF Locals, TaskSealed, Own
  <2> QED BY <1>4, <2>2, <2>3, <2>4
<1> QED BY <1>2, <1>3, <1>4 DEF Decrypt

\* The cache of a process takes a blob sealed like the stored one, or ignores it.
LEMMA CachePutKeeps ==
    ASSUME Inv, NEW p \in Processes, NEW i \in Ids, NEW blob \in Blob,
           Opens(blobs[i], blob), CachePut(p, i, blob), UNCHANGED blobs
    PROVE  cache' \in [Processes -> [Ids -> Blob \cup {None}]] /\ CacheOpens'
BY SharedFacts DEF CachePut, CacheOpens, Opens

LEMMA CacheBlobInv ==
    ASSUME Inv, NEW c \in Clients, CacheBlob(c)
    PROVE  Inv'
<1> DEFINE t == Locals(task[c].op, "embed", task[c].id, task[c].blob, task[c].snapshot, {})
<1>1. /\ task[c].op \in {"store", "update_content"} /\ task[c].pc = "put_done" /\ task[c].todo = {}
      /\ task[c].id \in Ids /\ task[c].blob \in Blob
      /\ task[c].op = "update_content" => task[c].snapshot[task[c].id] \in Entry
      /\ Opens(blobs[task[c].id], task[c].blob)
  BY TaskFacts, NotNone DEF CacheBlob, At, TaskShape, TaskSealed, RecordOps, Opens
<1>2. Goto(c, "embed") = t
  BY <1>1, TaskFacts, PcOnly DEF Goto
<1>3. Continue(c, t) /\ UNCHANGED <<active, blobs, index, searchIndex, journal>>
  BY <1>2 DEF CacheBlob
<1>4. TaskShape(t) /\ TaskSealed(t) /\ Own(c, t)
  BY <1>1, TaskFacts DEF Locals, TaskShape, TaskSealed, Own, Task, Ops, Pcs, RecordOps
<1>5. cache' \in [Processes -> [Ids -> Blob \cup {None}]] /\ CacheOpens'
  BY <1>1, <1>3, CachePutKeeps, ProcessOfAssumption DEF CacheBlob
<1>6. IndexOpens' /\ index' \in [Ids -> Entry \cup {None}]
  BY <1>3, SharedFacts DEF IndexOpens, Opens
<1>7. /\ searchIndex' \in [Processes -> [Ids -> SearchRow \cup {None}] \cup {None}]
      /\ journal' \subseteq {"store", "delete"} \X Ids
  BY <1>3 DEF Inv, TypeOK
<1> HIDE DEF t
<1> QED BY <1>3, <1>4, <1>5, <1>6, <1>7, SharedStep

LEMMA FetchedInv ==
    ASSUME Inv, NEW c \in Clients, Fetched(c)
    PROVE  Inv'
<1>1. /\ task[c].id \in task[c].todo /\ task[c].id \in Ids /\ task[c].blob \in Blob
      /\ Opens(blobs[task[c].id], task[c].blob)
  BY TaskFacts DEF Fetched, At, TaskShape, TaskSealed
<1>2. PICK t : Continue(c, t) /\ TaskShape(t) /\ TaskSealed(t) /\ Own(c, t)
  BY <1>1, DecryptKeeps DEF Fetched
<1>3. UNCHANGED <<active, blobs, index, searchIndex, journal>>
  BY DEF Fetched
<1>4. cache' \in [Processes -> [Ids -> Blob \cup {None}]] /\ CacheOpens'
  BY <1>1, <1>3, CachePutKeeps, ProcessOfAssumption DEF Fetched
<1>5. IndexOpens' /\ index' \in [Ids -> Entry \cup {None}]
  BY <1>3, SharedFacts DEF IndexOpens, Opens
<1>6. /\ searchIndex' \in [Processes -> [Ids -> SearchRow \cup {None}] \cup {None}]
      /\ journal' \subseteq {"store", "delete"} \X Ids
  BY <1>3 DEF Inv, TypeOK
<1> QED BY <1>2, <1>3, <1>4, <1>5, <1>6, SharedStep

LEMMA CacheHitInv ==
    ASSUME Inv, NEW c \in Clients, CacheHit(c)
    PROVE  Inv'
<1>1. PICK i \in task[c].todo : Decrypt(c, i, cache[ProcessOf[c]][i])
  BY DEF CacheHit
<1>2. PICK t : Continue(c, t) /\ TaskShape(t) /\ TaskSealed(t) /\ Own(c, t)
  BY <1>1, DecryptKeeps
<1> QED BY <1>2, PrivateStep DEF CacheHit

LEMMA RebuiltInv ==
    ASSUME Inv, NEW c \in Clients, Rebuilt(c)
    PROVE  Inv'
<1> DEFINE t == Locals("search", "embed", task[c].id, task[c].blob, NoIndex, {})
<1>1. task[c].op = "search" /\ task[c].pc = "rebuilt" /\ task[c].todo = {}
  BY TaskFacts DEF Rebuilt, At, TaskShape
<1>2. task[c] \in Task
  BY TaskFacts
<1>3. [task[c] EXCEPT !.pc = "embed", !.snapshot = NoIndex]
        = Locals(task[c].op, "embed", task[c].id, task[c].blob, NoIndex, task[c].todo)
  BY <1>2, PcSnapshot, Zenon
<1>4. Continue(c, t) /\ UNCHANGED <<active, blobs, index, cache, journal>>
  BY <1>1, <1>3 DEF Rebuilt
<1>5. TaskShape(t) /\ TaskSealed(t) /\ Own(c, t)
  BY <1>1, TaskFacts DEF Locals, TaskShape, TaskSealed, Own, Task, Ops, Pcs, RecordOps, NoIndex
<1>6. SearchRows(task[c].snapshot) \in [Ids -> SearchRow \cup {None}]
  <2> SUFFICES ASSUME NEW i \in Ids, IsLive(task[c].snapshot[i])
               PROVE  [importance |-> task[c].snapshot[i].importance,
                       embedding |-> task[c].snapshot[i].content_hash] \in SearchRow
    BY DEF SearchRows
  <2>1. task[c].snapshot[i] \in Entry
    BY TaskFacts DEF IsLive
  <2> QED BY <2>1 DEF Entry, SearchRow
<1>7. searchIndex' \in [Processes -> [Ids -> SearchRow \cup {None}] \cup {None}]
  BY <1>6 DEF Rebuilt, Inv, TypeOK
<1>8. /\ IndexOpens' /\ index' \in [Ids -> Entry \cup {None}]
      /\ CacheOpens' /\ cache' \in [Processes -> [Ids -> Blob \cup {None}]]
      /\ journal' \subseteq {"store", "delete"} \X Ids
  BY <1>4 DEF Inv, TypeOK, IndexOpens, CacheOpens, Opens
<1> HIDE DEF t
<1> QED BY <1>4, <1>5, <1>7, <1>8, SharedStep

LEMMA ScanDoneInv ==
    ASSUME Inv, NEW c \in Clients, ScanDone(c)
    PROVE  Inv'
BY ReturnStep DEF ScanDone

LEMMA LoadNotFoundInv ==
    ASSUME Inv, NEW c \in Clients, LoadNotFound(c)
    PROVE  Inv'
BY ReturnStep DEF LoadNotFound

LEMMA ReplyLostInv ==
    ASSUME Inv, NEW c \in Clients, ReplyLost(c)
    PROVE  Inv'
BY ReturnStep DEF ReplyLost

LEMMA CallFailsInv ==
    ASSUME Inv, NEW c \in Clients, CallFails(c)
    PROVE  Inv'
<1>1. CASE Return(c)
  BY <1>1, ReturnStep DEF CallFails
<1>2. CASE ~Return(c)
  <2> DEFINE i == task[c].id
             t == Locals("suggest", "scan", None, task[c].blob, task[c].snapshot, task[c].todo \ {i})
  <2>1. /\ task[c].op = "suggest" /\ task[c].todo \in SUBSET Ids
        /\ UNCHANGED shared
        /\ Continue(c, [task[c] EXCEPT !.pc = "scan", !.todo = task[c].todo \ {i}, !.id = None])
    BY <1>2, TaskFacts DEF CallFails
  <2>2. task[c] \in Task
    BY TaskFacts
  <2>3. \A d : [task[c] EXCEPT !.pc = "scan", !.todo = d, !.id = None]
          = Locals(task[c].op, "scan", None, task[c].blob, task[c].snapshot, d)
    BY <2>2, PcTodoId, Zenon
  <2>4. Continue(c, t)
    BY <2>1, <2>3
  <2>5. TaskShape(t)
    BY <2>1, TaskFacts DEF Locals, TaskShape, Task, Ops, Pcs, RecordOps
  <2>6. TaskSealed(t) /\ Own(c, t)
    BY <2>1, TaskFacts DEF Locals, TaskSealed, Own
  <2> HIDE DEF t
  <2> QED BY <2>1, <2>4, <2>5, <2>6, PrivateStep
<1> QED BY <1>1, <1>2

\* Whatever index an operation writes back lists only blobs that open.
LEMMA SaveInv ==
    ASSUME Inv, NEW c \in Clients, Save(c)
    PROVE  Inv'
<1> DEFINE t == Locals(task[c].op, "saved", task[c].id, task[c].blob, task[c].snapshot, {})
<1>1. task[c].pc = "save" /\ task[c].op \in RecordOps /\ task[c].todo = {}
  BY TaskFacts DEF Save, TaskShape
<1>2. Goto(c, "saved") = t
  BY <1>1, TaskFacts, PcOnly DEF Goto
<1>3. /\ Continue(c, t) /\ index' = task[c].snapshot
      /\ UNCHANGED <<active, blobs, cache, searchIndex, journal>>
  BY <1>2 DEF Save
<1>4. TaskShape(t) /\ TaskSealed(t) /\ Own(c, t)
  BY <1>1, TaskFacts DEF Locals, TaskShape, TaskSealed, Own, Task, Ops, Pcs, RecordOps
<1>5. IndexOpens' /\ index' \in [Ids -> Entry \cup {None}]
  BY <1>3, TaskFacts DEF IndexOpens, TaskSealed, Opens
<1>6. /\ CacheOpens' /\ cache' \in [Processes -> [Ids -> Blob \cup {None}]]
      /\ searchIndex' \in [Processes -> [Ids -> SearchRow \cup {None}] \cup {None}]
      /\ journal' \subseteq {"store", "delete"} \X Ids
  BY <1>3 DEF Inv, TypeOK, CacheOpens, Opens
<1> HIDE DEF t
<1> QED BY <1>3, <1>4, <1>5, <1>6, SharedStep

\* The code after a save touches the search index, the audit trail and c only.
LEMMA SavedStep ==
    ASSUME Inv, NEW c \in Clients, NEW t, Continue(c, t),
           TaskShape(t), TaskSealed(t), Own(c, t),
           NEW row \in SearchRow \cup {None}, task[c].id \in Ids, Reindex(c, row),
           UNCHANGED <<active, blobs, index, cache>>,
           journal' \subseteq {"store", "delete"} \X Ids
    PROVE  Inv'
<1>1. searchIndex' \in [Processes -> [Ids -> SearchRow \cup {None}] \cup {None}]
  BY ProcessOfAssumption, NoneAssumption DEF Reindex, Inv, TypeOK
<1>2. /\ IndexOpens' /\ index' \in [Ids -> Entry \cup {None}]
      /\ CacheOpens' /\ cache' \in [Processes -> [Ids -> Blob \cup {None}]]
  BY DEF Inv, TypeOK, IndexOpens, CacheOpens, Opens
<1> QED BY <1>1, <1>2, SharedStep

LEMMA SavedFacts ==
    ASSUME Inv, NEW c \in Clients, task[c].pc = "saved"
    PROVE  /\ task[c].id \in Ids /\ task[c].snapshot[task[c].id] \in Entry
           /\ SavedEntry(c).importance \in Importances
           /\ task[c].op \in {"store", "update_content"} => task[c].blob.content \in Contents
           /\ OldRow(c) \in SearchRow \cup {None}
           /\ journal \subseteq {"store", "delete"} \X Ids
<1>1. /\ task[c].id \in Ids /\ task[c].snapshot[task[c].id] \in Entry
      /\ task[c].op \in {"store", "update_content"} => task[c].blob \in Blob
  BY TaskFacts DEF TaskShape, RecordOps
<1>2. OldRow(c) \in SearchRow \cup {None}
  BY <1>1, ProcessOfAssumption DEF OldRow, Inv, TypeOK
<1> QED BY <1>1, <1>2 DEF SavedEntry, Entry, Blob, Inv, TypeOK

LEMMA StoreSavedInv ==
    ASSUME Inv, NEW c \in Clients, StoreSaved(c)
    PROVE  Inv'
<1> DEFINE row == [importance |-> SavedEntry(c).importance, embedding |-> task[c].blob.content]
<1>1. task[c].pc = "saved" /\ task[c].op = "store"
  BY DEF StoreSaved, At
<1>2. row \in SearchRow
  BY <1>1, SavedFacts DEF SearchRow
<1>3. /\ Continue(c, Idle) /\ Reindex(c, row) /\ UNCHANGED <<active, blobs, index, cache>>
      /\ journal' \subseteq {"store", "delete"} \X Ids
  BY <1>1, SavedFacts DEF StoreSaved, Journal, Return
<1> HIDE DEF row
<1> QED BY <1>1, <1>2, <1>3, SavedFacts, SavedStep, IdleShape

LEMMA DeleteSavedInv ==
    ASSUME Inv, NEW c \in Clients, DeleteSaved(c)
    PROVE  Inv'
<1>1. task[c].pc = "saved"
  BY DEF DeleteSaved, At
<1>2. /\ Continue(c, Idle) /\ Reindex(c, None) /\ UNCHANGED <<active, blobs, index, cache>>
      /\ journal' \subseteq {"store", "delete"} \X Ids
  BY <1>1, SavedFacts DEF DeleteSaved, Journal, Return
<1> QED BY <1>1, <1>2, SavedFacts, SavedStep, IdleShape

LEMMA MetadataSavedInv ==
    ASSUME Inv, NEW c \in Clients, MetadataSaved(c)
    PROVE  Inv'
<1> DEFINE row == IF OldRow(c) = None THEN None
                  ELSE [OldRow(c) EXCEPT !.importance = SavedEntry(c).importance]
<1>1. task[c].pc = "saved"
  BY DEF MetadataSaved, At
<1>2. row \in SearchRow \cup {None}
  BY <1>1, SavedFacts DEF SearchRow
<1>3. /\ Continue(c, Idle) /\ Reindex(c, row) /\ UNCHANGED <<active, blobs, index, cache>>
      /\ journal' \subseteq {"store", "delete"} \X Ids
  BY <1>1, SavedFacts DEF MetadataSaved, Return
<1> HIDE DEF row
<1> QED BY <1>1, <1>2, <1>3, SavedFacts, SavedStep, IdleShape

LEMMA ContentSavedInv ==
    ASSUME Inv, NEW c \in Clients, ContentSaved(c)
    PROVE  Inv'
<1> DEFINE row == IF OldRow(c) = None THEN None
                  ELSE [OldRow(c) EXCEPT !.embedding = task[c].blob.content]
           t == Begun("retrieve", "load", task[c].id, None)
<1>1. task[c].pc = "saved" /\ task[c].op = "update_content"
  BY DEF ContentSaved, At
<1>2. row \in SearchRow \cup {None}
  BY <1>1, SavedFacts DEF SearchRow
<1>3. /\ Continue(c, t) /\ Reindex(c, row) /\ UNCHANGED <<active, blobs, index, cache>>
      /\ journal' \subseteq {"store", "delete"} \X Ids
  BY <1>1, SavedFacts DEF ContentSaved
<1>4. TaskShape(t) /\ TaskSealed(t) /\ Own(c, t)
  BY <1>1, SavedFacts DEF Begun, NoIndex, TaskShape, TaskSealed, Own, Task, Ops, Pcs, RecordOps
<1> HIDE DEF row, t
<1> QED BY <1>1, <1>2, <1>3, <1>4, SavedFacts, SavedStep

-----------------------------------------------------------------------------
(* The step that changes a blob, and the environment's.                        *)

\* A put() of store() creates the blob under an id nothing refers to yet; a put()
\* of update_content() replaces a blob by one sealed alike.
LEMMA PutSealsAlike ==
    ASSUME Inv, NEW c \in Clients, PutBlob(c)
    PROVE  /\ task[c].id \in Ids /\ task[c].blob \in Blob
           /\ blobs' = [blobs EXCEPT ![task[c].id] = task[c].blob]
           /\ task[c].op = "store" => blobs[task[c].id] = None
           /\ blobs[task[c].id] # None => Opens(task[c].blob, blobs[task[c].id])
<1>1. /\ task[c].id \in Ids /\ task[c].blob \in Blob
      /\ task[c].op \in {"store", "update_content"} /\ task[c].pc = "put"
      /\ blobs' = [blobs EXCEPT ![task[c].id] = task[c].blob]
  BY TaskFacts DEF PutBlob, At, TaskShape, RecordOps
<1>2. CASE task[c].op = "store"
  BY <1>1, <1>2, TaskFacts DEF TaskSealed
<1>3. CASE task[c].op = "update_content"
  <2>1. task[c].snapshot[task[c].id] # None
    BY <1>1, <1>3, TaskFacts, NotNone DEF TaskShape
  <2>2. Opens(blobs[task[c].id], task[c].snapshot[task[c].id])
    BY <1>1, <2>1, TaskFacts DEF TaskSealed
  <2>3. Opens(task[c].blob, task[c].snapshot[task[c].id])
    BY <1>1, <1>3, TaskFacts DEF TaskSealed
  <2> QED BY <1>1, <1>3, <2>2, <2>3 DEF Opens
<1> QED BY <1>1, <1>2, <1>3

LEMMA PutBlobInv ==
    ASSUME Inv, NEW c \in Clients, PutBlob(c)
    PROVE  Inv'
<1> DEFINE r == task[c].id
           t == Locals(task[c].op, "put_done", r, task[c].blob, task[c].snapshot, {})
<1>1. /\ r \in Ids /\ task[c].blob \in Blob
      /\ task[c].op \in {"store", "update_content"} /\ task[c].pc = "put" /\ task[c].todo = {}
      /\ task[c].op = "store" => blobs[r] = None
      /\ blobs' = [blobs EXCEPT ![r] = task[c].blob] /\ blobs \in [Ids -> Blob \cup {None}]
      /\ UNCHANGED <<active, index, cache, searchIndex, journal>>
  BY PutSealsAlike, TaskFacts, SharedFacts DEF PutBlob, At, TaskShape
<1>2. Goto(c, "put_done") = t
  BY <1>1, TaskFacts, PcOnly DEF Goto
<1>3. task' = [task EXCEPT ![c] = t] /\ Continue(c, t)
  BY <1>2 DEF PutBlob, Continue
<1>4. ASSUME NEW i \in Ids, NEW e, Opens(blobs[i], e) PROVE Opens(blobs'[i], e)
  BY <1>1, <1>4, PutSealsAlike, NotNone DEF Opens
<1>5. ASSUME NEW i \in Ids, blobs'[i] = None PROVE blobs[i] = None
  BY <1>1, <1>5, NotNone
<1>6. TaskShape(t) /\ Own(c, t)
  BY <1>1, TaskFacts DEF Locals, TaskShape, Own, Task, Ops, Pcs, RecordOps
<1>7. TaskSealed(task[c])'
  <2>1. Opens(task[c].blob, task[c].blob) /\ blobs'[r] = task[c].blob
    BY <1>1, NotNone DEF Opens
  <2>2. \A i \in Ids : task[c].snapshot[i] # None => Opens(blobs'[i], task[c].snapshot[i])
    BY <1>4, TaskFacts DEF TaskSealed
  <2>3. task[c].op = "update_content" => Opens(task[c].blob, task[c].snapshot[r])
    BY <1>1, TaskFacts DEF TaskSealed
  <2>4. task'[c] = t
    BY <1>3 DEF Inv, TypeOK
  <2> QED BY <1>1, <2>1, <2>2, <2>3, <2>4 DEF Locals, TaskSealed, Opens
<1>8. ASSUME NEW d \in Clients, d # c PROVE TaskSealed(task[d])'
  <2>1. task'[d] = task[d] /\ TaskSealed(task[d]) /\ TaskShape(task[d]) /\ task[d] \in Task
    BY <1>3, <1>8, TaskFacts
  <2>2. \A i \in Ids : task[d].snapshot[i] # None => Opens(blobs'[i], task[d].snapshot[i])
    BY <1>4, <2>1 DEF TaskSealed
  <2>3. ASSUME task[d].op = "store", task[d].pc = "put" PROVE blobs'[task[d].id] = None
    <3>1. task[d].id \in Ids /\ blobs[task[d].id] = None
      BY <2>1, <2>3 DEF TaskSealed, TaskShape, RecordOps
    <3>2. task[d].id # r
      <4>1. CASE task[c].op = "store"
        BY <1>8, <2>3, <4>1, TaskFacts DEF Own
      <4>2. CASE task[c].op = "update_content"
        BY <1>1, <3>1, <4>2, TaskFacts, NotNone DEF TaskShape, TaskSealed, Opens
      <4> QED BY <1>1, <4>1, <4>2
    <3> QED BY <1>1, <3>1, <3>2
  <2>4. ASSUME task[d].op = "store", task[d].pc \in {"put_done", "embed", "load"}
        PROVE  Opens(blobs'[task[d].id], task[d].blob)
    BY <1>4, <2>1, <2>4 DEF TaskSealed, TaskShape, RecordOps
  <2>5. ASSUME task[d].pc = "fetched" PROVE Opens(blobs'[task[d].id], task[d].blob)
    BY <1>4, <2>1, <2>5, TaskFacts DEF TaskSealed, TaskShape
  <2>6. task[d].op = "update_content" /\ task[d].pc \in {"put", "put_done", "embed"}
          => Opens(task[d].blob, task[d].snapshot[task[d].id])
    BY <2>1 DEF TaskSealed
  <2> QED BY <2>1, <2>2, <2>3, <2>4, <2>5, <2>6 DEF TaskSealed, Opens
<1> HIDE DEF t
<1>9. TypeOK'
  <2>1. task' \in [Clients -> Task]
    BY <1>3, <1>6 DEF TaskShape, Inv, TypeOK
  <2>2. loop' \in [Processes -> Clients \cup {None}]
    BY <1>3, ProcessOfAssumption DEF Continue, Inv, TypeOK
  <2> QED BY <1>1, <2>1, <2>2 DEF Inv, TypeOK
<1>10. (\A d \in Clients : TaskShape(task[d]) /\ TaskSealed(task[d]) /\ Own(d, task[d]))'
  <2> SUFFICES ASSUME NEW d \in Clients
               PROVE  (TaskShape(task[d]) /\ TaskSealed(task[d]) /\ Own(d, task[d]))'
    OBVIOUS
  <2>1. task \in [Clients -> Task]
    BY DEF Inv, TypeOK
  <2>2. TaskShape(task[d])'
    BY <1>3, <1>6, <2>1, TaskFacts DEF TaskShape
  <2>3. TaskSealed(task[d])'
    <3>1. CASE d = c
      BY <1>7, <3>1
    <3> QED BY <1>8, <3>1
  <2>4. Own(d, task[d])'
    <3>1. t.op = task[c].op /\ t.id = task[c].id
      BY DEF t, Locals
    <3> QED BY <1>3, <2>1, <3>1, TaskFacts DEF Own
  <2> QED BY <2>2, <2>3, <2>4
<1>11. IndexOpens' /\ CacheOpens'
  BY <1>1, <1>4, SharedFacts DEF IndexOpens, CacheOpens, Opens
<1> QED BY <1>9, <1>10, <1>11 DEF Inv

LEMMA RotateKeyInv ==
    ASSUME Inv, NEW k \in Categories, RotateKey(k)
    PROVE  Inv'
<1>1. active' \in [Categories -> 1 .. MaxKeyVersion]
  BY SharedFacts, MaxKeyVersionAssumption DEF RotateKey
<1>2. UNCHANGED <<blobs, index, cache, searchIndex, journal, task, loop>>
  BY DEF RotateKey
<1> QED BY <1>1, <1>2
    DEF Inv, TypeOK, IndexOpens, CacheOpens, Opens, TaskShape, TaskSealed, Own

LEMMA EvictInv ==
    ASSUME Inv, NEW p \in Processes, NEW i \in Ids, Evict(p, i)
    PROVE  Inv'
<1>1. cache' \in [Processes -> [Ids -> Blob \cup {None}]]
  BY SharedFacts DEF Evict
<1>2. UNCHANGED <<active, blobs, index, searchIndex, journal, task, loop>>
  BY DEF Evict
<1>3. CacheOpens'
  BY <1>2, SharedFacts DEF Evict, CacheOpens, Opens
<1> QED BY <1>1, <1>2, <1>3
    DEF Inv, TypeOK, IndexOpens, Opens, TaskShape, TaskSealed, Own

LEMMA CrashInv ==
    ASSUME Inv, NEW p \in Processes, Crash(p)
    PROVE  Inv'
<1>1. /\ task' = [c \in Clients |-> IF ProcessOf[c] = p THEN Idle ELSE task[c]]
      /\ cache' = [cache EXCEPT ![p] = NoIndex]
      /\ UNCHANGED <<active, blobs, index, journal>>
  BY DEF Crash
<1>2. CacheOpens' /\ IndexOpens'
  BY <1>1, SharedFacts DEF CacheOpens, IndexOpens, Opens, NoIndex
<1>3. TypeOK'
  BY <1>1, IdleShape DEF Crash, Inv, TypeOK, NoIndex, TaskShape
<1>4. ASSUME NEW c \in Clients
      PROVE  (TaskShape(task[c]) /\ TaskSealed(task[c]) /\ Own(c, task[c]))'
  <2>1. task'[c] \in {Idle, task[c]} /\ \A d \in Clients : task'[d] \in {Idle, task[d]}
    BY <1>1
  <2>2. Idle.op = "none"
    BY DEF Idle, Begun
  <2>3. TaskShape(task[c])' /\ TaskSealed(task[c])'
    BY <1>1, <2>1, TaskFacts, IdleShape DEF TaskShape, TaskSealed, Opens
  <2>4. Own(c, task[c])'
    BY <2>1, <2>2, TaskFacts DEF Own
  <2> QED BY <2>3, <2>4
<1> QED BY <1>2, <1>3, <1>4 DEF Inv

-----------------------------------------------------------------------------
(* The theorems. *)

LEMMA NextInv == Inv /\ [Next]_vars => Inv'
<1> SUFFICES ASSUME Inv, [Next]_vars PROVE Inv'
  OBVIOUS
<1>1. ASSUME NEW c \in Clients, Step(c) PROVE Inv'
  BY <1>1, StartStoreInv, StartOnRecordInv, StartSearchInv, StartSuggestInv,
     PutBlobInv, CacheBlobInv, EmbeddedBeforeLoadInv, EmbeddedContentInv,
     LoadForStoreInv, LoadForDeleteInv, LoadForMetadataInv, LoadForContentInv,
     LoadForRetrieveInv, LoadNotFoundInv, LoadForScanInv, RebuildInv, RebuiltInv,
     CacheHitInv, CacheMissInv, FetchBlobInv, FetchedInv, ScanDoneInv,
     SaveInv, StoreSavedInv, DeleteSavedInv, MetadataSavedInv, ContentSavedInv,
     CallFailsInv, ReplyLostInv
     DEF Step
<1>2. CASE UNCHANGED vars
  <2>1. UNCHANGED <<active, blobs, index, cache, searchIndex, journal, task, loop>>
    BY <1>2 DEF vars
  <2> QED BY <2>1
      DEF Inv, TypeOK, IndexOpens, CacheOpens, Opens, TaskShape, TaskSealed, Own
<1> QED BY <1>1, <1>2, RotateKeyInv, EvictInv, CrashInv DEF Next

\* Every reachable state satisfies the inductive invariant: types, the local state
\* of each suspended operation, the ownership of fresh ids, and what opens what.
THEOREM Invariance == Spec => []Inv
<1>1. Init => Inv
  BY InitInv
<1>2. Inv /\ [Next]_vars => Inv'
  BY NextInv
<1> QED BY <1>1, <1>2, PTL DEF Spec

\* Every variable of the service keeps its type; in particular no coroutine ever
\* edits an index entry that is not there.
THEOREM TypeCorrect == Spec => []TypeOK
<1>1. Inv => TypeOK
  BY DEF Inv
<1> QED BY <1>1, Invariance, PTL

\* Whatever the number of processes and coroutines, wherever they are suspended,
\* crash or lose an answer, and however often keys are rotated: every entry of
\* the index, and of every copy an operation may still write back, has a stored
\* blob sealed with the category and key version the entry names.
THEOREM IndexedBlobsAlwaysOpen == Spec => []IndexedBlobsOpen
<1>1. Inv => IndexedBlobsOpen
  BY TaskFacts, SharedFacts DEF IndexedBlobsOpen, IndexOpens, TaskSealed
<1> QED BY <1>1, Invariance, PTL

\* No reader ever holds, in its hands or in its process's cache, a blob that the
\* key named by its copy of the index does not open.
THEOREM ReadersAlwaysUnseal == Spec => []ReadersCanUnseal
<1>1. Inv => ReadersCanUnseal
  <2> SUFFICES ASSUME Inv, NEW c \in Clients, NEW i \in task[c].todo
               PROVE  /\ cache[ProcessOf[c]][i] # None
                          => Opens(cache[ProcessOf[c]][i], task[c].snapshot[i])
                      /\ task[c].pc = "fetched" /\ task[c].id = i
                          => Opens(task[c].blob, task[c].snapshot[i])
    BY DEF ReadersCanUnseal
  <2>1. i \in Ids /\ Opens(blobs[i], task[c].snapshot[i])
    BY TaskFacts, NotNone DEF TaskShape, TaskSealed
  <2>2. cache[ProcessOf[c]][i] # None => Opens(blobs[i], cache[ProcessOf[c]][i])
    BY <2>1, SharedFacts, ProcessOfAssumption DEF CacheOpens
  <2>3. task[c].pc = "fetched" /\ task[c].id = i
          => task[c].blob # None /\ Opens(blobs[i], task[c].blob)
    BY TaskFacts, NotNone DEF TaskShape, TaskSealed
  <2> QED BY <2>1, <2>2, <2>3 DEF Opens
<1> QED BY <1>1, Invariance, PTL
-----------------------------------------------------------------------------
\* One program on the local store: what the properties under Unbroken are about.
OneProcess == \A p, q \in Processes : p = q

\* The stored entry of its record, as an operation will save it.
Written(t) ==
    LET entry == t.snapshot[t.id]
    IN  /\ t.op # "delete" => IsLive(entry)
        /\ t.op = "delete" => ~IsLive(entry)
        /\ t.op \in {"store", "update_content"} => entry.content_hash = t.blob.content

\* How the copy that an operation is about to save differs from the index.
Differs(t, entries) ==
    LET old == entries[t.id]
        new == t.snapshot[t.id]
    IN  /\ \A i \in Ids \ {t.id} : t.snapshot[i] = entries[i]
        /\ t.op = "store" => old = None
        /\ t.op = "delete" => old # None /\ new.content_hash = old.content_hash
        /\ t.op = "update_metadata" => IsLive(old) /\ new.content_hash = old.content_hash
        /\ t.op = "update_content" => IsLive(old) /\ new.importance = old.importance
        /\ t.op = "retrieve" => new = old

\* What the local variables of an operation promise when nobody else has moved since
\* it read the index.
Hand(t, stored, entries) ==
    /\ t.op = "store" /\ t.pc \in {"put", "put_done", "embed", "load"} => entries[t.id] = None
    /\ t.op \in {"store", "update_content"} /\ t.pc \in {"put_done", "embed", "save"}
        => stored[t.id] = t.blob
    /\ t.op = "store" /\ t.pc = "load" => stored[t.id] = t.blob
    /\ t.op = "update_content" /\ t.pc \in {"put", "put_done", "embed"}
        => t.snapshot = entries /\ IsLive(entries[t.id])
    /\ t.op \in {"retrieve", "search", "suggest"} /\ t.pc \in {"rebuilt", "scan", "fetch", "fetched"}
        => t.snapshot = entries
    /\ t.op = "retrieve" /\ t.pc \in {"scan", "fetch", "fetched"}
        => \A i \in t.todo : IsLive(t.snapshot[i])
    /\ t.pc = "fetched" => stored[t.id] = t.blob
    /\ t.pc \in {"save", "saved"} => Written(t)
    /\ t.pc = "save" => Differs(t, entries)
    /\ t.pc = "saved" => t.snapshot = entries

\* Between a save and the code that follows it, the search index `rows' has the row that
\* the record had before.
Behind(t, rows) ==
    /\ t.pc = "saved"
    /\ \A i \in Ids \ {t.id} : rows[i] = SearchRows(t.snapshot)[i]
    /\ t.op \in {"retrieve", "update_metadata"} =>
        rows[t.id] # None /\ rows[t.id].embedding = t.snapshot[t.id].content_hash
    /\ t.op = "update_content" =>
        rows[t.id] # None /\ rows[t.id].importance = t.snapshot[t.id].importance

LoopHeld == \A c \in Clients : task[c].pc # "idle" => loop[ProcessOf[c]] = c

JournalKept ==
    /\ \A i \in Ids : <<"store", i>> \in journal => index[i] # None
    /\ \A i \in Ids : <<"delete", i>> \in journal => index[i] # None /\ ~IsLive(index[i])

CacheKept ==
    \A p \in Processes, i \in Ids :
        \/ cache[p][i] \in {None, blobs[i]}
        \/ blobs[i].content \in Oversize
        \/ \E c \in Clients : task[c].pc = "put_done" /\ task[c].id = i

SearchKept ==
    \A p \in Processes :
        \/ searchIndex[p] \in {None, SearchRows(index)}
        \/ \E c \in Clients : Behind(task[c], searchIndex[p])

Solo ==
    yields = {} =>
        /\ LoopHeld
        /\ \A c \in Clients : Hand(task[c], blobs, index)
        /\ JournalKept /\ CacheKept /\ SearchKept

-----------------------------------------------------------------------------
(* Lemmas about the one operation under way. *)

LEMMA OthersIdle ==
    ASSUME Inv, Solo, OneProcess, yields = {}, NEW c \in Clients, Holds(c)
    PROVE  \A d \in Clients \ {c} : task[d].pc = "idle"
<1> SUFFICES ASSUME NEW d \in Clients \ {c}, task[d].pc # "idle"
             PROVE  FALSE
  OBVIOUS
<1>1. loop[ProcessOf[d]] = d /\ ProcessOf[d] = ProcessOf[c]
  BY ProcessOfAssumption DEF Solo, LoopHeld, OneProcess
<1> QED BY <1>1, NoneAssumption DEF Holds

LEMMA IdleHand ==
    ASSUME NEW t, t.pc = "idle"
    PROVE  \A stored, entries : Hand(t, stored, entries)
BY DEF Hand

\* A step of the one operation, whatever it writes.
LEMMA SoloStep ==
    ASSUME Inv, Solo, OneProcess, yields = {}, UNCHANGED yields,
           NEW c \in Clients, Holds(c), NEW t, Continue(c, t), Hand(t, blobs', index'),
           JournalKept', CacheKept', SearchKept'
    PROVE  Solo'
<1>1. /\ task' = [task EXCEPT ![c] = t] /\ task \in [Clients -> Task]
      /\ loop' = [loop EXCEPT ![ProcessOf[c]] = IF ReleasesLoopAt(t.pc) THEN None ELSE c]
      /\ loop \in [Processes -> Clients \cup {None}] /\ ProcessOf[c] \in Processes
  BY ProcessOfAssumption DEF Continue, Inv, TypeOK
<1>2. task'[c] = t /\ \A d \in Clients \ {c} : task'[d] = task[d] /\ task'[d].pc = "idle"
  BY <1>1, OthersIdle
<1>3. t.pc # "idle" => ~ReleasesLoopAt(t.pc)
  BY DEF ReleasesLoopAt
<1>4. LoopHeld'
  <2> SUFFICES ASSUME NEW d \in Clients, task'[d].pc # "idle"
               PROVE  loop'[ProcessOf[d]] = d
    BY DEF LoopHeld
  <2>1. d = c
    BY <1>2
  <2>2. loop'[ProcessOf[c]] = c
    BY <1>1, <1>2, <1>3, <2>1
  <2> QED BY <2>1, <2>2
<1>5. ASSUME NEW d \in Clients
      PROVE  Hand(task'[d], blobs', index')
  <2>1. CASE d = c
    BY <1>2, <2>1
  <2>2. CASE d # c
    BY <1>2, <2>2, IdleHand
  <2> QED BY <2>1, <2>2
<1> QED BY <1>4, <1>5 DEF Solo

\* What Solo says of the one operation, and of what is cached unless it is about to
\* bring that up to date.
LEMMA SoloFacts ==
    ASSUME Inv, Solo, OneProcess, yields = {}, NEW c \in Clients, Holds(c)
    PROVE  /\ Hand(task[c], blobs, index) /\ JournalKept /\ CacheKept /\ SearchKept
           /\ task[c].pc # "put_done" =>
                \A p \in Processes, i \in Ids :
                    cache[p][i] \in {None, blobs[i]} \/ blobs[i].content \in Oversize
           /\ task[c].pc # "saved" =>
                \A p \in Processes : searchIndex[p] \in {None, SearchRows(index)}
<1>1. Hand(task[c], blobs, index) /\ JournalKept /\ CacheKept /\ SearchKept
  BY DEF Solo
<1>2. \A d \in Clients \ {c} : task[d].pc = "idle"
  BY OthersIdle
<1>3. ASSUME task[c].pc # "put_done", NEW p \in Processes, NEW i \in Ids
      PROVE  cache[p][i] \in {None, blobs[i]} \/ blobs[i].content \in Oversize
  BY <1>1, <1>2, <1>3 DEF CacheKept
<1>4. ASSUME task[c].pc # "saved", NEW p \in Processes
      PROVE  searchIndex[p] \in {None, SearchRows(index)}
  BY <1>1, <1>2, <1>4 DEF SearchKept, Behind
<1> QED BY <1>1, <1>3, <1>4

\* A step that moves the operation on and nothing else.
LEMMA SoloPrivate ==
    ASSUME Inv, Solo, OneProcess, yields = {}, UNCHANGED yields,
           NEW c \in Clients, Holds(c), task[c].pc \notin {"put_done", "saved"},
           NEW t, Continue(c, t), UNCHANGED shared, Hand(t, blobs, index)
    PROVE  Solo'
<1>1. UNCHANGED <<blobs, index, cache, searchIndex, journal>>
  BY DEF shared
<1>2. JournalKept'
  BY <1>1, SoloFacts DEF JournalKept
<1>3. CacheKept'
  BY <1>1, SoloFacts DEF CacheKept
<1>4. SearchKept'
  BY <1>1, SoloFacts DEF SearchKept, SearchRows
<1>5. Hand(t, blobs', index')
  BY <1>1
<1> QED BY <1>2, <1>3, <1>4, <1>5, SoloStep

LEMMA SoloReturn ==
    ASSUME Inv, Solo, OneProcess, yields = {}, UNCHANGED yields,
           NEW c \in Clients, Holds(c), task[c].pc \notin {"put_done", "saved"},
           Return(c), UNCHANGED shared
    PROVE  Solo'
<1>1. Idle.pc = "idle" /\ Continue(c, Idle)
  BY DEF Idle, Begun, Return
<1> QED BY <1>1, IdleHand, SoloPrivate

-----------------------------------------------------------------------------
(* The steps that move it on. *)

LEMMA StartsSolo ==
    ASSUME Inv, Solo, OneProcess, yields = {}, UNCHANGED yields, NEW c \in Clients,
           StartStore(c) \/ StartOnRecord(c) \/ StartSearch(c) \/ StartSuggest(c)
    PROVE  Solo'
<1>1. Holds(c) /\ task[c].pc = "idle" /\ UNCHANGED shared
  BY DEF StartStore, StartOnRecord, StartSearch, StartSuggest, At
<1>2. CASE StartStore(c)
  <2>1. PICK i, b : i \in Ids /\ IsFresh(i) /\ Continue(c, Begun("store", "put", i, b))
    BY <1>2 DEF StartStore
  <2>2. index[i] = None
    BY <2>1, SharedFacts DEF IsFresh, IndexOpens, Opens
  <2>3. PICK t : t = Begun("store", "put", i, b)
    OBVIOUS
  <2>4. Hand(t, blobs, index)
    BY <2>2, <2>3 DEF Hand, Begun
  <2> QED BY <1>1, <2>1, <2>3, <2>4, SoloPrivate
<1>3. CASE StartOnRecord(c) \/ StartSearch(c) \/ StartSuggest(c)
  <2>1. PICK op, pc, i :
           /\ op \in {"retrieve", "delete", "update_metadata", "update_content", "search", "suggest"}
           /\ pc \in {"load", "rebuild", "embed"}
           /\ op = "update_content" => pc = "load"
           /\ Continue(c, Begun(op, pc, i, None))
    <3>1. CASE StartOnRecord(c)
      BY <3>1 DEF StartOnRecord
    <3>2. CASE StartSuggest(c)
      BY <3>2 DEF StartSuggest
    <3>3. CASE StartSearch(c)
      BY <3>3 DEF StartSearch
    <3> QED BY <1>3, <3>1, <3>2, <3>3
  <2>2. PICK t : t = Begun(op, pc, i, None)
    OBVIOUS
  <2>3. t.op = op /\ t.pc = pc
    BY <2>2 DEF Begun
  <2>4. Hand(t, blobs, index)
    BY <2>1, <2>3 DEF Hand
  <2> QED BY <1>1, <2>1, <2>2, <2>4, SoloPrivate
<1> QED BY <1>2, <1>3

LEMMA EmbeddedBeforeLoadSolo ==
    ASSUME Inv, Solo, OneProcess, yields = {}, UNCHANGED yields, NEW c \in Clients,
           EmbeddedBeforeLoad(c)
    PROVE  Solo'
<1>1. /\ Holds(c) /\ task[c].op \in {"store", "search"} /\ task[c].pc = "embed"
      /\ UNCHANGED shared /\ Continue(c, Goto(c, "load"))
  BY DEF EmbeddedBeforeLoad, At
<1>2. PICK t : t = Goto(c, "load")
  OBVIOUS
<1>3. t = Locals(task[c].op, "load", task[c].id, task[c].blob, task[c].snapshot, task[c].todo)
  BY <1>2, TaskFacts, PcOnly DEF Goto
<1>4. Hand(t, blobs, index)
  BY <1>1, <1>3, SoloFacts DEF Hand, Locals
<1> QED BY <1>1, <1>2, <1>4, SoloPrivate

LEMMA EmbeddedContentSolo ==
    ASSUME Inv, Solo, OneProcess, yields = {}, UNCHANGED yields, NEW c \in Clients,
           EmbeddedContent(c)
    PROVE  Solo'
<1> DEFINE i == task[c].id
           b == task[c].blob
           s == task[c].snapshot
           r == [s EXCEPT ![i].content_hash = b.content]
<1>1. /\ Holds(c) /\ task[c].op = "update_content" /\ task[c].pc = "embed"
      /\ UNCHANGED shared /\ Continue(c, [task[c] EXCEPT !.pc = "save", !.snapshot = r])
  BY DEF EmbeddedContent, At
<1>2. i \in Ids /\ b \in Blob /\ s \in [Ids -> Entry \cup {None}] /\ s[i] \in Entry
  BY <1>1, TaskFacts DEF TaskShape, RecordOps
<1>3. s = index /\ IsLive(index[i]) /\ blobs[i] = b
  BY <1>1, SoloFacts DEF Hand
<1>4. /\ r[i] = [s[i] EXCEPT !.content_hash = b.content]
      /\ \A j \in Ids \ {i} : r[j] = s[j]
  BY <1>2
<1>5. /\ r[i] \in Entry /\ r[i].content_hash = b.content /\ r[i].importance = s[i].importance
      /\ r[i].deleted = s[i].deleted
  BY <1>2, <1>4 DEF Entry, Blob
<1>6. IsLive(r[i])
  BY <1>3, <1>5, NotNone DEF IsLive
<1>7. PICK t : t = [task[c] EXCEPT !.pc = "save", !.snapshot = r]
  OBVIOUS
<1>8. t = Locals("update_content", "save", i, b, r, task[c].todo)
  BY <1>1, <1>7, TaskFacts, PcSnapshot
<1> HIDE DEF i, b, s, r
<1>9. Hand(t, blobs, index)
  BY <1>3, <1>4, <1>5, <1>6, <1>8 DEF Hand, Written, Differs, Locals
<1> QED BY <1>1, <1>7, <1>9, SoloPrivate DEF r, i, b, s

\* The four steps that read the index and build the copy to write back.
LEMMA LoadForStoreSolo ==
    ASSUME Inv, Solo, OneProcess, yields = {}, UNCHANGED yields, NEW c \in Clients,
           LoadForStore(c)
    PROVE  Solo'
<1>1. PICK importance \in Importances : Continue(c, [task[c] EXCEPT
            !.pc = "save",
            !.snapshot = [index EXCEPT ![task[c].id] =
                [category |-> task[c].blob.category,
                 key_version |-> task[c].blob.key_version,
                 content_hash |-> task[c].blob.content,
                 importance |-> importance,
                 deleted |-> FALSE]]])
  BY DEF LoadForStore
<1> DEFINE i == task[c].id
           b == task[c].blob
           e == [category |-> b.category, key_version |-> b.key_version,
                 content_hash |-> b.content, importance |-> importance, deleted |-> FALSE]
           s == [index EXCEPT ![i] = e]
<1>2. /\ Holds(c) /\ task[c].op = "store" /\ task[c].pc = "load" /\ UNCHANGED shared
      /\ i \in Ids /\ b \in Blob
  BY TaskFacts DEF LoadForStore, At, TaskShape, RecordOps
<1>3. index[i] = None /\ blobs[i] = b
  BY <1>2, SoloFacts DEF Hand
<1>4. e \in Entry /\ e.content_hash = b.content /\ IsLive(e)
  <2>1. e \in Entry /\ e.content_hash = b.content /\ e.deleted = FALSE
    BY <1>2 DEF Entry, Blob
  <2>2. e # None
    BY <2>1, NotNone
  <2> HIDE DEF e
  <2> QED BY <2>1, <2>2 DEF IsLive
<1>5. s[i] = e /\ \A j \in Ids \ {i} : s[j] = index[j]
  BY <1>2, SharedFacts
<1>6. PICK t : t = [task[c] EXCEPT !.pc = "save", !.snapshot = s]
  OBVIOUS
<1>7. t = Locals("store", "save", i, b, s, task[c].todo)
  BY <1>2, <1>6, TaskFacts, PcSnapshot
<1>8. Continue(c, t)
  BY <1>1, <1>6
<1> HIDE DEF i, b, e, s
<1>9. Hand(t, blobs, index)
  BY <1>3, <1>4, <1>5, <1>7 DEF Hand, Written, Differs, Locals
<1> QED BY <1>2, <1>8, <1>9, SoloPrivate

LEMMA LoadForDeleteSolo ==
    ASSUME Inv, Solo, OneProcess, yields = {}, UNCHANGED yields, NEW c \in Clients,
           LoadForDelete(c)
    PROVE  Solo'
<1> DEFINE i == task[c].id
           s == [index EXCEPT ![i].deleted = TRUE]
<1>1. /\ Holds(c) /\ task[c].op = "delete" /\ task[c].pc = "load" /\ UNCHANGED shared
      /\ Continue(c, [task[c] EXCEPT !.pc = "save", !.snapshot = s])
      /\ i \in Ids /\ index[i] \in Entry
  BY TaskFacts, SharedFacts DEF LoadForDelete, At, TaskShape, RecordOps
<1>2. s[i] = [index[i] EXCEPT !.deleted = TRUE] /\ \A j \in Ids \ {i} : s[j] = index[j]
  BY <1>1, SharedFacts
<1>3. s[i].deleted = TRUE /\ s[i].content_hash = index[i].content_hash
  BY <1>1, <1>2 DEF Entry
<1>4. ~IsLive(s[i])
  BY <1>3 DEF IsLive
<1>5. PICK t : t = [task[c] EXCEPT !.pc = "save", !.snapshot = s]
  OBVIOUS
<1>6. t = Locals("delete", "save", i, task[c].blob, s, task[c].todo)
  BY <1>1, <1>5, TaskFacts, PcSnapshot
<1>7. Continue(c, t)
  BY <1>1, <1>5
<1> HIDE DEF i, s
<1>8. Hand(t, blobs, index)
  BY <1>1, <1>2, <1>3, <1>4, <1>6, NotNone DEF Hand, Written, Differs, Locals
<1> QED BY <1>1, <1>7, <1>8, SoloPrivate

LEMMA LoadForMetadataSolo ==
    ASSUME Inv, Solo, OneProcess, yields = {}, UNCHANGED yields, NEW c \in Clients,
           LoadForMetadata(c)
    PROVE  Solo'
<1>1. PICK importance \in Importances : Continue(c, [task[c] EXCEPT
            !.pc = "save",
            !.snapshot = [index EXCEPT ![task[c].id].importance = importance]])
  BY DEF LoadForMetadata
<1> DEFINE i == task[c].id
           s == [index EXCEPT ![i].importance = importance]
<1>2. /\ Holds(c) /\ task[c].op = "update_metadata" /\ task[c].pc = "load" /\ UNCHANGED shared
      /\ i \in Ids /\ index[i] \in Entry /\ IsLive(index[i])
  BY TaskFacts, SharedFacts DEF LoadForMetadata, At, TaskShape, RecordOps, IsLive
<1>3. s[i] = [index[i] EXCEPT !.importance = importance]
      /\ \A j \in Ids \ {i} : s[j] = index[j]
  BY <1>2, SharedFacts
<1>4. /\ s[i] \in Entry /\ s[i].content_hash = index[i].content_hash
      /\ s[i].deleted = index[i].deleted
  BY <1>2, <1>3 DEF Entry
<1>5. IsLive(s[i])
  BY <1>2, <1>4, NotNone DEF IsLive
<1>6. PICK t : t = [task[c] EXCEPT !.pc = "save", !.snapshot = s]
  OBVIOUS
<1>7. t = Locals("update_metadata", "save", i, task[c].blob, s, task[c].todo)
  BY <1>2, <1>6, TaskFacts, PcSnapshot
<1>8. Continue(c, t)
  BY <1>1, <1>6
<1> HIDE DEF i, s
<1>9. Hand(t, blobs, index)
  BY <1>2, <1>3, <1>4, <1>5, <1>7 DEF Hand, Written, Differs, Locals
<1> QED BY <1>2, <1>8, <1>9, SoloPrivate

LEMMA LoadForContentSolo ==
    ASSUME Inv, Solo, OneProcess, yields = {}, UNCHANGED yields, NEW c \in Clients,
           LoadForContent(c)
    PROVE  Solo'
<1>1. PICK b : Continue(c, [task[c] EXCEPT !.pc = "put", !.snapshot = index, !.blob = b])
  BY DEF LoadForContent
<1>2. /\ Holds(c) /\ task[c].op = "update_content" /\ task[c].pc = "load" /\ UNCHANGED shared
      /\ IsLive(index[task[c].id])
  BY DEF LoadForContent, At
<1>3. PICK t : t = [task[c] EXCEPT !.pc = "put", !.snapshot = index, !.blob = b]
  OBVIOUS
<1>4. t = Locals("update_content", "put", task[c].id, b, index, task[c].todo)
  <2>1. task[c] \in Task
    BY TaskFacts
  <2>2. t = Locals(task[c].op, "put", task[c].id, b, index, task[c].todo)
    BY <1>3, <2>1, PcSnapshotBlob, Zenon
  <2> QED BY <1>2, <2>2
<1>5. Hand(t, blobs, index)
  BY <1>2, <1>4 DEF Hand, Locals
<1> QED BY <1>1, <1>2, <1>3, <1>5, SoloPrivate

LEMMA LoadForReadersSolo ==
    ASSUME Inv, Solo, OneProcess, yields = {}, UNCHANGED yields, NEW c \in Clients,
           LoadForRetrieve(c) \/ LoadForScan(c) \/ Rebuild(c)
    PROVE  Solo'
<1>1. /\ Holds(c) /\ task[c].op \in {"retrieve", "search", "suggest"} /\ UNCHANGED shared
      /\ task[c].pc \in {"load", "rebuild"}
  BY DEF LoadForRetrieve, LoadForScan, Rebuild, At
<1>2. ASSUME NEW d, \A i \in d : IsLive(index[i]),
             Continue(c, [task[c] EXCEPT !.pc = "scan", !.snapshot = index, !.todo = d])
      PROVE  Solo'
  <2>1. PICK t : t = [task[c] EXCEPT !.pc = "scan", !.snapshot = index, !.todo = d]
    OBVIOUS
  <2>2. task[c] \in Task
    BY TaskFacts
  <2>3. t = Locals(task[c].op, "scan", task[c].id, task[c].blob, index, d)
    <3>1. \A e : [task[c] EXCEPT !.pc = "scan", !.snapshot = index, !.todo = e]
                   = Locals(task[c].op, "scan", task[c].id, task[c].blob, index, e)
      BY <2>2, PcSnapshotTodo, Zenon
    <3> QED BY <2>1, <3>1, Zenon
  <2>4. Hand(t, blobs, index)
    BY <1>1, <1>2, <2>3 DEF Hand, Locals
  <2>5. Continue(c, t) /\ task[c].pc \notin {"put_done", "saved"}
    BY <1>1, <1>2, <2>1
  <2> QED BY <1>1, <2>4, <2>5, SoloPrivate
<1>3. CASE LoadForRetrieve(c)
  <2> DEFINE d == {task[c].id}
  <2>1. (\A i \in d : IsLive(index[i]))
        /\ Continue(c, [task[c] EXCEPT !.pc = "scan", !.snapshot = index, !.todo = d])
    BY <1>3 DEF LoadForRetrieve
  <2> HIDE DEF d
  <2> QED BY <1>2, <2>1
<1>4. CASE LoadForScan(c)
  <2>1. PICK scope : Continue(c, [task[c] EXCEPT !.pc = "scan", !.snapshot = index,
          !.todo = {i \in Ids : IsLive(index[i]) /\ index[i].category \in scope}])
    BY <1>4 DEF LoadForScan
  <2> DEFINE d == {i \in Ids : IsLive(index[i]) /\ index[i].category \in scope}
  <2>2. (\A i \in d : IsLive(index[i]))
        /\ Continue(c, [task[c] EXCEPT !.pc = "scan", !.snapshot = index, !.todo = d])
    BY <2>1
  <2> HIDE DEF d
  <2> QED BY <1>2, <2>2
<1>5. CASE Rebuild(c)
  <2>1. PICK t : t = [task[c] EXCEPT !.pc = "rebuilt", !.snapshot = index]
    OBVIOUS
  <2>2. t = Locals("search", "rebuilt", task[c].id, task[c].blob, index, task[c].todo)
    BY <1>5, <2>1, TaskFacts, PcSnapshot DEF Rebuild, At
  <2>3. Hand(t, blobs, index)
    BY <1>1, <2>2 DEF Hand, Locals
  <2>4. Continue(c, t) /\ task[c].pc \notin {"put_done", "saved"}
    BY <1>1, <1>5, <2>1 DEF Rebuild
  <2> QED BY <1>1, <2>3, <2>4, SoloPrivate
<1> QED BY <1>3, <1>4, <1>5

LEMMA EndsSolo ==
    ASSUME Inv, Solo, OneProcess, yields = {}, UNCHANGED yields, NEW c \in Clients,
           LoadNotFound(c) \/ ScanDone(c)
    PROVE  Solo'
BY SoloReturn DEF LoadNotFound, ScanDone, At

-----------------------------------------------------------------------------
(* Readers. *)

\* What decrypting record i leaves in c's local variables: the copy of the index a
\* retrieve() is about to write back is still the stored one.
LEMMA DecryptSolo ==
    ASSUME Inv, Solo, yields = {}, NEW c \in Clients, NEW i \in task[c].todo, NEW blob,
           task[c].pc \in {"scan", "fetched"}, task[c].snapshot = index,
           task[c].op = "retrieve" => \A j \in task[c].todo : IsLive(task[c].snapshot[j]),
           Decrypt(c, i, blob)
    PROVE  \E t : Continue(c, t) /\ Hand(t, blobs, index)
<1>1. /\ \A p, d, b, e : [task[c] EXCEPT !.pc = p, !.todo = d, !.blob = b, !.id = e]
           = Locals(task[c].op, p, e, b, task[c].snapshot, d)
  BY TaskFacts, PcTodoBlobId, Zenon
<1>2. CASE Return(c)
  <2>1. Idle.pc = "idle" /\ Continue(c, Idle)
    BY <1>2 DEF Idle, Begun, Return
  <2> QED BY <2>1, IdleHand
<1>3. CASE task[c].op = "retrieve" /\ Continue(c, Decrypted(c, i, "save"))
  <2>1. PICK t : t = Decrypted(c, i, "save")
    OBVIOUS
  <2>2. i = task[c].id
    BY <1>3, TaskFacts DEF TaskShape
  <2>3. IsLive(index[i])
    BY <1>3
  <2>4. t = Locals(task[c].op, "save", task[c].id, None, task[c].snapshot, task[c].todo \ {i})
    <3> DEFINE e == IF task[c].op = "retrieve" THEN task[c].id ELSE None
               d == task[c].todo \ {i}
    <3>1. t = [task[c] EXCEPT !.pc = "save", !.todo = d, !.blob = None, !.id = e]
      BY <2>1 DEF Decrypted
    <3>2. e = task[c].id
      BY <1>3
    <3> HIDE DEF d, e
    <3>3. t = Locals(task[c].op, "save", e, None, task[c].snapshot, d)
      BY <1>1, <3>1, Zenon
    <3> QED BY <3>2, <3>3 DEF d
  <2>5. Hand(t, blobs, index)
    BY <1>3, <2>2, <2>3, <2>4 DEF Hand, Written, Differs, Locals
  <2> QED BY <1>3, <2>1, <2>5
<1>4. CASE task[c].op \in {"search", "suggest"} /\ Continue(c, Decrypted(c, i, "scan"))
  <2>1. PICK t : t = Decrypted(c, i, "scan")
    OBVIOUS
  <2> DEFINE e == IF task[c].op = "retrieve" THEN task[c].id ELSE None
             d == task[c].todo \ {i}
  <2>2. t = [task[c] EXCEPT !.pc = "scan", !.todo = d, !.blob = None, !.id = e]
    BY <2>1 DEF Decrypted
  <2> HIDE DEF d, e
  <2>3. t = Locals(task[c].op, "scan", e, None, task[c].snapshot, d)
    BY <1>1, <2>2, Zenon
  <2>4. Hand(t, blobs, index)
    BY <1>4, <2>3 DEF Hand, Locals
  <2> QED BY <1>4, <2>1, <2>4
<1> QED BY <1>2, <1>3, <1>4 DEF Decrypt

LEMMA CacheHitSolo ==
    ASSUME Inv, Solo, OneProcess, yields = {}, UNCHANGED yields, NEW c \in Clients,
           CacheHit(c)
    PROVE  Solo'
<1>1. /\ Holds(c) /\ task[c].op \in {"retrieve", "search", "suggest"} /\ task[c].pc = "scan"
      /\ UNCHANGED shared
  BY DEF CacheHit, At
<1>2. PICK i \in task[c].todo : Decrypt(c, i, cache[ProcessOf[c]][i])
  BY DEF CacheHit
<1>3. task[c].snapshot = index
      /\ (task[c].op = "retrieve" => \A j \in task[c].todo : IsLive(task[c].snapshot[j]))
  BY <1>1, SoloFacts DEF Hand
<1>4. PICK t : Continue(c, t) /\ Hand(t, blobs, index)
  BY <1>1, <1>2, <1>3, DecryptSolo
<1> QED BY <1>1, <1>4, SoloPrivate

LEMMA CacheMissSolo ==
    ASSUME Inv, Solo, OneProcess, yields = {}, UNCHANGED yields, NEW c \in Clients,
           CacheMiss(c)
    PROVE  Solo'
<1>1. /\ Holds(c) /\ task[c].op \in {"retrieve", "search", "suggest"} /\ task[c].pc = "scan"
      /\ UNCHANGED shared
  BY DEF CacheMiss, At
<1>2. PICK i : Continue(c, [task[c] EXCEPT !.pc = "fetch", !.id = i])
  BY DEF CacheMiss
<1>3. PICK t : t = [task[c] EXCEPT !.pc = "fetch", !.id = i]
  OBVIOUS
<1>4. t = Locals(task[c].op, "fetch", i, task[c].blob, task[c].snapshot, task[c].todo)
  BY <1>3, TaskFacts, PcId
<1>5. Hand(t, blobs, index)
  BY <1>1, <1>4, SoloFacts DEF Hand, Locals
<1> QED BY <1>1, <1>2, <1>3, <1>5, SoloPrivate

LEMMA FetchBlobSolo ==
    ASSUME Inv, Solo, OneProcess, yields = {}, UNCHANGED yields, NEW c \in Clients,
           FetchBlob(c)
    PROVE  Solo'
<1>1. /\ Holds(c) /\ task[c].op \in {"retrieve", "search", "suggest"} /\ task[c].pc = "fetch"
      /\ UNCHANGED shared
      /\ Continue(c, [task[c] EXCEPT !.pc = "fetched", !.blob = blobs[task[c].id]])
  BY DEF FetchBlob, At
<1>2. PICK t : t = [task[c] EXCEPT !.pc = "fetched", !.blob = blobs[task[c].id]]
  OBVIOUS
<1>3. t = Locals(task[c].op, "fetched", task[c].id, blobs[task[c].id], task[c].snapshot, task[c].todo)
  BY <1>2, TaskFacts, PcBlob
<1>4. Hand(t, blobs, index)
  BY <1>1, <1>3, SoloFacts DEF Hand, Locals
<1> QED BY <1>1, <1>2, <1>4, SoloPrivate

\* The call fails before it took effect: suggest() skips the record, every other
\* operation ends.
LEMMA CallFailsSolo ==
    ASSUME Inv, Solo, OneProcess, yields = {}, UNCHANGED yields, NEW c \in Clients,
           CallFails(c)
    PROVE  Solo'
<1>1. /\ Holds(c) /\ UNCHANGED shared
      /\ task[c].pc \in {"put", "load", "rebuild", "fetch", "save", "embed"}
  BY DEF CallFails
<1>2. CASE Return(c)
  BY <1>1, <1>2, SoloReturn
<1>3. CASE /\ task[c].op = "suggest" /\ task[c].pc = "fetch"
           /\ Continue(c, [task[c] EXCEPT !.pc = "scan", !.todo = @ \ {task[c].id}, !.id = None])
  <2> DEFINE d == task[c].todo \ {task[c].id}
  <2>1. PICK t : t = [task[c] EXCEPT !.pc = "scan", !.todo = d, !.id = None]
    OBVIOUS
  <2>2. Continue(c, t)
    BY <1>3, <2>1
  <2> HIDE DEF d
  <2>3. t = Locals(task[c].op, "scan", None, task[c].blob, task[c].snapshot, d)
    <3>1. task[c] \in Task
      BY TaskFacts
    <3> QED BY <2>1, <3>1, PcTodoId, Zenon
  <2>4. Hand(t, blobs, index)
    BY <1>3, <2>3, SoloFacts, <1>1 DEF Hand, Locals
  <2> QED BY <1>1, <2>2, <2>4, SoloPrivate
<1> QED BY <1>2, <1>3 DEF CallFails


-----------------------------------------------------------------------------
(* The steps that write the shared state. *)

LEMMA PutBlobSolo ==
    ASSUME Inv, Solo, OneProcess, yields = {}, UNCHANGED yields, NEW c \in Clients,
           PutBlob(c)
    PROVE  Solo'
<1> DEFINE r == task[c].id
           b == task[c].blob
<1>1. /\ Holds(c) /\ task[c].op \in {"store", "update_content"} /\ task[c].pc = "put"
      /\ Continue(c, Goto(c, "put_done"))
      /\ UNCHANGED <<active, index, cache, searchIndex, journal>>
  BY DEF PutBlob, At
<1>2. /\ r \in Ids /\ blobs' = [blobs EXCEPT ![r] = b]
      /\ blobs' [r] = b /\ \A i \in Ids \ {r} : blobs'[i] = blobs[i]
  BY PutSealsAlike, SharedFacts
<1>3. PICK t : t = Goto(c, "put_done")
  OBVIOUS
<1>4. t = Locals(task[c].op, "put_done", r, b, task[c].snapshot, task[c].todo)
  BY <1>3, TaskFacts, PcOnly DEF Goto
<1>5. Continue(c, t)
  BY <1>1, <1>3
<1> HIDE DEF r, b
<1>6. Hand(t, blobs', index')
  BY <1>1, <1>2, <1>4, SoloFacts DEF Hand, Locals, r
<1>7. JournalKept'
  BY <1>1, SoloFacts DEF JournalKept
<1>8. SearchKept'
  BY <1>1, SoloFacts DEF SearchKept, SearchRows
<1>9. CacheKept'
  <2>1. task'[c] = t
    BY <1>5 DEF Continue, Inv, TypeOK
  <2>2. task'[c].pc = "put_done" /\ task'[c].id = r
    BY <1>4, <2>1 DEF Locals
  <2> QED BY <1>1, <1>2, <2>2, SoloFacts DEF CacheKept
<1> QED BY <1>1, <1>5, <1>6, <1>7, <1>8, <1>9, SoloStep

LEMMA CacheBlobSolo ==
    ASSUME Inv, Solo, OneProcess, yields = {}, UNCHANGED yields, NEW c \in Clients,
           CacheBlob(c)
    PROVE  Solo'
<1> DEFINE i == task[c].id
           b == task[c].blob
<1>1. /\ Holds(c) /\ task[c].op \in {"store", "update_content"} /\ task[c].pc = "put_done"
      /\ Continue(c, Goto(c, "embed")) /\ CachePut(ProcessOf[c], i, b)
      /\ UNCHANGED <<active, blobs, index, searchIndex, journal>>
  BY DEF CacheBlob, At
<1>2. i \in Ids /\ blobs[i] = b /\ ProcessOf[c] \in Processes
  BY <1>1, SoloFacts, TaskFacts, ProcessOfAssumption DEF Hand, TaskShape, RecordOps
<1>3. PICK t : t = Goto(c, "embed")
  OBVIOUS
<1>4. t = Locals(task[c].op, "embed", i, b, task[c].snapshot, task[c].todo)
  BY <1>3, TaskFacts, PcOnly DEF Goto
<1>5. Continue(c, t)
  BY <1>1, <1>3
<1> HIDE DEF i, b
<1>6. Hand(t, blobs', index')
  BY <1>1, <1>2, <1>4, SoloFacts DEF Hand, Locals, i
<1>7. JournalKept'
  BY <1>1, SoloFacts DEF JournalKept
<1>8. SearchKept'
  BY <1>1, SoloFacts DEF SearchKept, SearchRows
<1>9. CacheKept'
  <2> SUFFICES ASSUME NEW p \in Processes, NEW j \in Ids
               PROVE  cache'[p][j] \in {None, blobs[j]} \/ blobs[j].content \in Oversize
    BY <1>1 DEF CacheKept
  <2>1. p = ProcessOf[c]
    BY <1>2 DEF OneProcess
  <2>2. CASE j = i
    BY <1>1, <1>2, <2>1, <2>2, SharedFacts DEF CachePut
  <2>3. CASE j # i
    <3>1. cache'[p][j] = cache[p][j]
      BY <1>1, <1>2, <2>1, <2>3, SharedFacts DEF CachePut
    <3>2. ~(\E d \in Clients : task[d].pc = "put_done" /\ task[d].id = j)
      BY <1>1, <2>3, OthersIdle DEF i
    <3>3. CacheKept
      BY <1>1, SoloFacts
    <3> QED BY <3>1, <3>2, <3>3 DEF CacheKept
  <2> QED BY <2>2, <2>3
<1> QED BY <1>1, <1>5, <1>6, <1>7, <1>8, <1>9, SoloStep

LEMMA RebuiltSolo ==
    ASSUME Inv, Solo, OneProcess, yields = {}, UNCHANGED yields, NEW c \in Clients,
           Rebuilt(c)
    PROVE  Solo'
<1>1. /\ Holds(c) /\ task[c].op = "search" /\ task[c].pc = "rebuilt"
      /\ searchIndex' = [searchIndex EXCEPT ![ProcessOf[c]] = SearchRows(task[c].snapshot)]
      /\ Continue(c, [task[c] EXCEPT !.pc = "embed", !.snapshot = NoIndex])
      /\ UNCHANGED <<active, blobs, index, cache, journal>>
  BY DEF Rebuilt, At
<1>2. task[c].snapshot = index
  BY <1>1, SoloFacts DEF Hand
<1>3. PICK t : t = [task[c] EXCEPT !.pc = "embed", !.snapshot = NoIndex]
  OBVIOUS
<1>4. t = Locals("search", "embed", task[c].id, task[c].blob, NoIndex, task[c].todo)
  BY <1>1, <1>3, TaskFacts, PcSnapshot
<1>5. Hand(t, blobs', index')
  BY <1>4 DEF Hand, Locals
<1>6. JournalKept'
  BY <1>1, SoloFacts DEF JournalKept
<1>7. CacheKept'
  BY <1>1, SoloFacts DEF CacheKept
<1>8. SearchKept'
  <2> SUFFICES ASSUME NEW p \in Processes
               PROVE  searchIndex'[p] = SearchRows(index)'
    BY DEF SearchKept
  <2>1. p = ProcessOf[c] /\ searchIndex' [p] = SearchRows(index)
    BY <1>1, <1>2, ProcessOfAssumption DEF OneProcess, Inv, TypeOK
  <2> QED BY <1>1, <2>1 DEF SearchRows
<1>9. Continue(c, t)
  BY <1>1, <1>3
<1> QED BY <1>1, <1>5, <1>6, <1>7, <1>8, <1>9, SoloStep

LEMMA FetchedSolo ==
    ASSUME Inv, Solo, OneProcess, yields = {}, UNCHANGED yields, NEW c \in Clients,
           Fetched(c)
    PROVE  Solo'
<1> DEFINE i == task[c].id
           b == task[c].blob
<1>1. /\ Holds(c) /\ task[c].op \in {"retrieve", "search", "suggest"} /\ task[c].pc = "fetched"
      /\ CachePut(ProcessOf[c], i, b) /\ Decrypt(c, i, b)
      /\ UNCHANGED <<active, blobs, index, searchIndex, journal>>
  BY DEF Fetched, At
<1>2. i \in task[c].todo /\ i \in Ids /\ ProcessOf[c] \in Processes
  BY <1>1, TaskFacts, ProcessOfAssumption DEF TaskShape
<1>3. /\ blobs[i] = b /\ task[c].snapshot = index
      /\ (task[c].op = "retrieve" => \A j \in task[c].todo : IsLive(task[c].snapshot[j]))
  BY <1>1, SoloFacts DEF Hand
<1>4. PICK t : Continue(c, t) /\ Hand(t, blobs, index)
  BY <1>1, <1>2, <1>3, DecryptSolo
<1> HIDE DEF i, b
<1>5. Hand(t, blobs', index')
  BY <1>1, <1>4
<1>6. JournalKept'
  BY <1>1, SoloFacts DEF JournalKept
<1>7. SearchKept'
  BY <1>1, SoloFacts DEF SearchKept, SearchRows
<1>8. CacheKept'
  <2> SUFFICES ASSUME NEW p \in Processes, NEW j \in Ids
               PROVE  cache'[p][j] \in {None, blobs[j]} \/ blobs[j].content \in Oversize
    BY <1>1 DEF CacheKept
  <2>1. cache[p][j] \in {None, blobs[j]} \/ blobs[j].content \in Oversize
    BY <1>1, SoloFacts
  <2>2. cache'[p][j] \in {cache[p][j], blobs[j]}
    BY <1>1, <1>2, <1>3, SharedFacts DEF CachePut
  <2> QED BY <2>1, <2>2
<1> QED BY <1>1, <1>4, <1>5, <1>6, <1>7, <1>8, SoloStep

\* What the rows of two indexes that agree on a record are, and what a live record's is.
LEMMA RowFacts ==
    ASSUME NEW entries \in [Ids -> Entry \cup {None}], NEW i \in Ids
    PROVE  /\ \A other : other[i] = entries[i] => SearchRows(other)[i] = SearchRows(entries)[i]
           /\ IsLive(entries[i]) =>
                /\ SearchRows(entries)[i] = [importance |-> entries[i].importance,
                                             embedding |-> entries[i].content_hash]
                /\ SearchRows(entries)[i] # None
           /\ ~IsLive(entries[i]) => SearchRows(entries)[i] = None
<1>1. /\ IsLive(entries[i]) =>
           SearchRows(entries)[i] = [importance |-> entries[i].importance,
                                     embedding |-> entries[i].content_hash]
      /\ ~IsLive(entries[i]) => SearchRows(entries)[i] = None
  BY DEF SearchRows
<1>2. ASSUME NEW other, other[i] = entries[i]
      PROVE  SearchRows(other)[i] = SearchRows(entries)[i]
  BY <1>2 DEF SearchRows
<1>3. ASSUME IsLive(entries[i]) PROVE SearchRows(entries)[i] # None
  <2>1. entries[i] \in Entry
    BY <1>3 DEF IsLive
  <2>2. [importance |-> entries[i].importance, embedding |-> entries[i].content_hash] \in SearchRow
    BY <2>1 DEF Entry, SearchRow
  <2> QED BY <1>1, <1>3, <2>2, NoneAssumption
<1> QED BY <1>1, <1>2, <1>3

LEMMA SaveSolo ==
    ASSUME Inv, Solo, OneProcess, yields = {}, UNCHANGED yields, NEW c \in Clients,
           Save(c)
    PROVE  Solo'
<1> DEFINE i == task[c].id
           s == task[c].snapshot
<1>1. /\ Holds(c) /\ task[c].pc = "save" /\ index' = s /\ Continue(c, Goto(c, "saved"))
      /\ UNCHANGED <<active, blobs, cache, searchIndex, journal>>
  BY DEF Save
<1>2. /\ task[c].op \in RecordOps /\ i \in Ids /\ s[i] \in Entry
      /\ s \in [Ids -> Entry \cup {None}] /\ index \in [Ids -> Entry \cup {None}]
  BY <1>1, TaskFacts, SharedFacts DEF TaskShape
<1>3. Written(task[c]) /\ Differs(task[c], index)
  BY <1>1, SoloFacts DEF Hand
<1>4. PICK t : t = Goto(c, "saved")
  OBVIOUS
<1>5. t = Locals(task[c].op, "saved", i, task[c].blob, s, task[c].todo)
  BY <1>4, TaskFacts, PcOnly DEF Goto
<1>6. Continue(c, t)
  BY <1>1, <1>4
<1>7. Hand(t, blobs', index')
  <2>1. Written(t)
    BY <1>3, <1>5 DEF Written, Locals
  <2>2. t.pc = "saved" /\ t.snapshot = index' /\ t.op = task[c].op /\ t.id = i /\ t.blob = task[c].blob
    BY <1>1, <1>5 DEF Locals
  <2> QED BY <2>1, <2>2 DEF Hand
<1>8. \A j \in Ids : j # i => index'[j] = index[j]
  BY <1>1, <1>3 DEF Differs
<1>9. JournalKept'
  <2>1. JournalKept
    BY <1>1, SoloFacts
  <2>2. ASSUME NEW j \in Ids, <<"store", j>> \in journal PROVE index'[j] # None
    BY <1>1, <1>2, <1>8, <2>1, <2>2, NotNone DEF JournalKept
  <2>3. ASSUME NEW j \in Ids, <<"delete", j>> \in journal
        PROVE  index'[j] # None /\ ~IsLive(index'[j])
    <3>1. index[j] # None /\ ~IsLive(index[j])
      BY <2>1, <2>3 DEF JournalKept
    <3>2. CASE j # i
      BY <1>8, <3>1, <3>2
    <3>3. CASE j = i
      <4>1. task[c].op \in {"delete", "retrieve"}
        BY <1>2, <1>3, <3>1, <3>3 DEF Differs, RecordOps
      <4> QED BY <1>1, <1>2, <1>3, <3>1, <3>3, <4>1, NotNone DEF Written, Differs
    <3> QED BY <3>2, <3>3
  <2> QED BY <1>1, <2>2, <2>3 DEF JournalKept
<1>10. CacheKept'
  BY <1>1, SoloFacts DEF CacheKept
<1>11. SearchKept'
  <2> SUFFICES ASSUME NEW p \in Processes, searchIndex[p] # None
               PROVE  Behind(t, searchIndex[p])
    <3>1. task'[c] = t
      BY <1>6 DEF Continue, Inv, TypeOK
    <3> QED BY <1>1, <3>1 DEF SearchKept
  <2> DEFINE rows == searchIndex[p]
  <2>1. rows = SearchRows(index)
    BY <1>1, SoloFacts
  <2>2. ASSUME NEW j \in Ids \ {i} PROVE rows[j] = SearchRows(s)[j]
    <3>1. s[j] = index[j]
      BY <1>1, <1>8
    <3> HIDE DEF s, rows
    <3>2. SearchRows(s)[j] = SearchRows(index)[j]
      BY <3>1 DEF SearchRows
    <3> QED BY <2>1, <3>2
  <2>3. ASSUME task[c].op \in {"retrieve", "update_metadata"}
        PROVE  rows[i] # None /\ rows[i].embedding = s[i].content_hash
    <3>1. IsLive(index[i]) /\ s[i].content_hash = index[i].content_hash
      BY <1>3, <2>3 DEF Written, Differs
    <3>2. /\ rows[i] # None
          /\ rows[i] = [importance |-> index[i].importance, embedding |-> index[i].content_hash]
      BY <1>2, <2>1, <3>1, RowFacts
    <3> QED BY <3>1, <3>2
  <2>4. ASSUME task[c].op = "update_content"
        PROVE  rows[i] # None /\ rows[i].importance = s[i].importance
    <3>1. IsLive(index[i]) /\ s[i].importance = index[i].importance
      BY <1>3, <2>4 DEF Differs
    <3>2. /\ rows[i] # None
          /\ rows[i] = [importance |-> index[i].importance, embedding |-> index[i].content_hash]
      BY <1>2, <2>1, <3>1, RowFacts
    <3> QED BY <3>1, <3>2
  <2> HIDE DEF rows, i, s
  <2> QED BY <1>5, <2>2, <2>3, <2>4 DEF Behind, Locals, rows
<1> QED BY <1>1, <1>6, <1>7, <1>9, <1>10, <1>11, SoloStep

-----------------------------------------------------------------------------
(* What follows a save brings the search index and the audit log up to it. *)

\* A step that gives the saved record the row a rebuild would give it.
LEMMA ReindexSolo ==
    ASSUME Inv, Solo, OneProcess, yields = {}, NEW c \in Clients, Holds(c),
           task[c].pc = "saved", UNCHANGED index, NEW row, Reindex(c, row),
           searchIndex[ProcessOf[c]] # None => row = SearchRows(index)[task[c].id]
    PROVE  SearchKept'
<1> DEFINE q == ProcessOf[c]
           i == task[c].id
<1>1. /\ task[c].snapshot = index /\ i \in Ids /\ q \in Processes
      /\ searchIndex \in [Processes -> [Ids -> SearchRow \cup {None}] \cup {None}]
  BY SoloFacts, TaskFacts, ProcessOfAssumption DEF Hand, TaskShape, Inv, TypeOK, RecordOps
<1>2. CASE searchIndex[q] = None
  <2>1. searchIndex' [q] = None
    BY <1>1, <1>2 DEF Reindex
  <2> QED BY <1>1, <2>1 DEF SearchKept, OneProcess
<1>3. CASE searchIndex[q] # None
  <2> DEFINE rows == searchIndex[q]
  <2>1. rows \in [Ids -> SearchRow \cup {None}]
    BY <1>1, <1>3
  <2>2. searchIndex' [q] = [rows EXCEPT ![i] = row]
    BY <1>1, <1>3 DEF Reindex
  <2>3. \A j \in Ids \ {i} : rows[j] = SearchRows(index)[j]
    <3>1. rows = SearchRows(index) \/ \E d \in Clients : Behind(task[d], rows)
      BY <1>1, <1>3, SoloFacts DEF SearchKept
    <3>2. ASSUME NEW d \in Clients, Behind(task[d], rows)
          PROVE  d = c
      BY <3>2, OthersIdle DEF Behind
    <3>3. CASE Behind(task[c], rows)
      BY <1>1, <3>3 DEF Behind
    <3> QED BY <3>1, <3>2, <3>3
  <2>4. SearchRows(index) = [j \in Ids |-> SearchRows(index)[j]]
    BY DEF SearchRows
  <2> HIDE DEF rows
  <2>5. [rows EXCEPT ![i] = row] = SearchRows(index)
    <3>1. [rows EXCEPT ![i] = row] = [j \in Ids |-> IF j = i THEN row ELSE rows[j]]
      BY <2>1
    <3>2. \A j \in Ids : (IF j = i THEN row ELSE rows[j]) = SearchRows(index)[j]
      BY <1>3, <2>3
    <3> HIDE DEF i
    <3>3. [j \in Ids |-> IF j = i THEN row ELSE rows[j]] = [j \in Ids |-> SearchRows(index)[j]]
      BY <3>2
    <3> QED BY <2>4, <3>1, <3>3
  <2>6. SearchRows(index)' = SearchRows(index)
    BY DEF SearchRows
  <2> QED BY <1>1, <2>2, <2>5, <2>6 DEF SearchKept, OneProcess
<1> QED BY <1>2, <1>3

\* What is known between a save and the code that follows it.
LEMMA SavedSolo ==
    ASSUME Inv, Solo, OneProcess, yields = {}, NEW c \in Clients, Holds(c),
           task[c].pc = "saved"
    PROVE  /\ task[c].op \in RecordOps /\ task[c].id \in Ids
           /\ index \in [Ids -> Entry \cup {None}] /\ index[task[c].id] \in Entry
           /\ task[c].snapshot = index /\ Written(task[c])
           /\ SavedEntry(c) = index[task[c].id]
           /\ searchIndex[ProcessOf[c]] # None =>
                /\ OldRow(c) = searchIndex[ProcessOf[c]][task[c].id]
                /\ OldRow(c) \in SearchRow \cup {None}
                /\ \/ OldRow(c) = SearchRows(index)[task[c].id]
                   \/ Behind(task[c], searchIndex[ProcessOf[c]])
<1>1. /\ task[c].op \in RecordOps /\ task[c].id \in Ids
      /\ index \in [Ids -> Entry \cup {None}] /\ index[task[c].id] \in Entry
      /\ task[c].snapshot = index /\ Written(task[c])
      /\ ProcessOf[c] \in Processes
      /\ searchIndex \in [Processes -> [Ids -> SearchRow \cup {None}] \cup {None}]
  BY SoloFacts, TaskFacts, SharedFacts, ProcessOfAssumption DEF Hand, TaskShape, Inv, TypeOK
<1>2. SavedEntry(c) = index[task[c].id]
  BY <1>1 DEF SavedEntry
<1>3. ASSUME searchIndex[ProcessOf[c]] # None
      PROVE  /\ OldRow(c) = searchIndex[ProcessOf[c]][task[c].id]
             /\ OldRow(c) \in SearchRow \cup {None}
             /\ \/ OldRow(c) = SearchRows(index)[task[c].id]
                \/ Behind(task[c], searchIndex[ProcessOf[c]])
  <2>1. OldRow(c) = searchIndex[ProcessOf[c]][task[c].id]
    BY <1>3 DEF OldRow
  <2>2. OldRow(c) \in SearchRow \cup {None}
    BY <1>1, <1>3, <2>1
  <2>3. \/ searchIndex[ProcessOf[c]] = SearchRows(index)
        \/ \E d \in Clients : Behind(task[d], searchIndex[ProcessOf[c]])
    BY <1>1, <1>3, SoloFacts DEF SearchKept
  <2>4. ASSUME NEW d \in Clients, Behind(task[d], searchIndex[ProcessOf[c]])
        PROVE  d = c
    BY <2>4, OthersIdle DEF Behind
  <2> QED BY <2>1, <2>2, <2>3, <2>4
<1> QED BY <1>1, <1>2, <1>3

\* The step an operation takes once its save has returned.
LEMMA AfterSaveSolo ==
    ASSUME Inv, Solo, OneProcess, yields = {}, UNCHANGED yields, NEW c \in Clients,
           Holds(c), task[c].pc = "saved", UNCHANGED <<active, blobs, index, cache>>,
           NEW t, Continue(c, t), t.pc \in {"idle", "load"}, t.op # "store",
           SearchKept', JournalKept'
    PROVE  Solo'
<1>1. CacheKept'
  BY SoloFacts DEF CacheKept
<1>2. Hand(t, blobs', index')
  BY DEF Hand
<1> QED BY <1>1, <1>2, SoloStep

LEMMA StoreSavedSolo ==
    ASSUME Inv, Solo, OneProcess, yields = {}, UNCHANGED yields, NEW c \in Clients,
           StoreSaved(c)
    PROVE  Solo'
<1> DEFINE row == [importance |-> SavedEntry(c).importance, embedding |-> task[c].blob.content]
<1>1. /\ Holds(c) /\ task[c].op = "store" /\ task[c].pc = "saved" /\ Reindex(c, row)
      /\ journal' = journal \cup {<<"store", task[c].id>>} /\ Return(c)
      /\ UNCHANGED <<active, blobs, index, cache>>
  BY DEF StoreSaved, At, Journal
<1>2. IsLive(index[task[c].id]) /\ row = SearchRows(index)[task[c].id]
  BY <1>1, SavedSolo, RowFacts DEF Written
<1> HIDE DEF row
<1>3. SearchKept'
  BY <1>1, <1>2, ReindexSolo
<1>4. JournalKept'
  BY <1>1, SavedSolo, SoloFacts, NotNone DEF JournalKept
<1>5. Idle.pc = "idle" /\ Idle.op = "none" /\ Continue(c, Idle)
  BY <1>1 DEF Idle, Begun, Return
<1> QED BY <1>1, <1>3, <1>4, <1>5, AfterSaveSolo

LEMMA DeleteSavedSolo ==
    ASSUME Inv, Solo, OneProcess, yields = {}, UNCHANGED yields, NEW c \in Clients,
           DeleteSaved(c)
    PROVE  Solo'
<1>1. /\ Holds(c) /\ task[c].op = "delete" /\ task[c].pc = "saved" /\ Reindex(c, None)
      /\ journal' = journal \cup {<<"delete", task[c].id>>} /\ Return(c)
      /\ UNCHANGED <<active, blobs, index, cache>>
  BY DEF DeleteSaved, At, Journal
<1>2. ~IsLive(index[task[c].id]) /\ None = SearchRows(index)[task[c].id]
  BY <1>1, SavedSolo, RowFacts DEF Written
<1>3. SearchKept'
  BY <1>1, <1>2, ReindexSolo
<1>4. JournalKept'
  BY <1>1, <1>2, SavedSolo, SoloFacts, NotNone DEF JournalKept
<1>5. Idle.pc = "idle" /\ Idle.op = "none" /\ Continue(c, Idle)
  BY <1>1 DEF Idle, Begun, Return
<1> QED BY <1>1, <1>3, <1>4, <1>5, AfterSaveSolo

LEMMA MetadataSavedSolo ==
    ASSUME Inv, Solo, OneProcess, yields = {}, UNCHANGED yields, NEW c \in Clients,
           MetadataSaved(c)
    PROVE  Solo'
<1> DEFINE i == task[c].id
           row == IF OldRow(c) = None THEN None
                  ELSE [OldRow(c) EXCEPT !.importance = SavedEntry(c).importance]
<1>1. /\ Holds(c) /\ task[c].op \in {"retrieve", "update_metadata"} /\ task[c].pc = "saved"
      /\ Reindex(c, row) /\ Return(c) /\ UNCHANGED <<active, blobs, index, cache, journal>>
  BY DEF MetadataSaved, At
<1>2. /\ IsLive(index[i]) /\ i \in Ids /\ SavedEntry(c) = index[i]
      /\ index \in [Ids -> Entry \cup {None}]
  BY <1>1, SavedSolo DEF Written
<1>3. ASSUME searchIndex[ProcessOf[c]] # None PROVE row = SearchRows(index)[i]
  <2>1. /\ SearchRows(index)[i] # None
        /\ SearchRows(index)[i] = [importance |-> index[i].importance,
                                   embedding |-> index[i].content_hash]
    BY <1>2, RowFacts
  <2>2. OldRow(c) \in SearchRow /\ OldRow(c).embedding = index[i].content_hash
    <3>1. CASE OldRow(c) = SearchRows(index)[i]
      BY <1>1, <1>3, <2>1, <3>1, SavedSolo
    <3>2. CASE Behind(task[c], searchIndex[ProcessOf[c]])
      BY <1>1, <1>3, <3>2, SavedSolo DEF Behind
    <3> QED BY <1>1, <1>3, <3>1, <3>2, SavedSolo
  <2>3. OldRow(c) # None
    BY <2>2, NoneAssumption
  <2> QED BY <1>2, <2>1, <2>2, <2>3 DEF SearchRow
<1> HIDE DEF row
<1>4. SearchKept'
  BY <1>1, <1>3, ReindexSolo
<1>5. JournalKept'
  BY <1>1, SoloFacts DEF JournalKept
<1>6. Idle.pc = "idle" /\ Idle.op = "none" /\ Continue(c, Idle)
  BY <1>1 DEF Idle, Begun, Return
<1> QED BY <1>1, <1>4, <1>5, <1>6, AfterSaveSolo

LEMMA ContentSavedSolo ==
    ASSUME Inv, Solo, OneProcess, yields = {}, UNCHANGED yields, NEW c \in Clients,
           ContentSaved(c)
    PROVE  Solo'
<1> DEFINE i == task[c].id
           row == IF OldRow(c) = None THEN None
                  ELSE [OldRow(c) EXCEPT !.embedding = task[c].blob.content]
<1>1. /\ Holds(c) /\ task[c].op = "update_content" /\ task[c].pc = "saved"
      /\ Reindex(c, row) /\ Continue(c, Begun("retrieve", "load", i, None))
      /\ UNCHANGED <<active, blobs, index, cache, journal>>
  BY DEF ContentSaved, At
<1>2. /\ IsLive(index[i]) /\ i \in Ids /\ index[i].content_hash = task[c].blob.content
      /\ index \in [Ids -> Entry \cup {None}]
  BY <1>1, SavedSolo DEF Written
<1>3. ASSUME searchIndex[ProcessOf[c]] # None PROVE row = SearchRows(index)[i]
  <2>1. /\ SearchRows(index)[i] # None
        /\ SearchRows(index)[i] = [importance |-> index[i].importance,
                                   embedding |-> index[i].content_hash]
    BY <1>2, RowFacts
  <2>2. OldRow(c) \in SearchRow /\ OldRow(c).importance = index[i].importance
    <3>1. CASE OldRow(c) = SearchRows(index)[i]
      BY <1>1, <1>3, <2>1, <3>1, SavedSolo
    <3>2. CASE Behind(task[c], searchIndex[ProcessOf[c]])
      BY <1>1, <1>3, <3>2, SavedSolo DEF Behind
    <3> QED BY <1>1, <1>3, <3>1, <3>2, SavedSolo
  <2>3. OldRow(c) # None
    BY <2>2, NoneAssumption
  <2> QED BY <1>2, <2>1, <2>2, <2>3 DEF SearchRow
<1> HIDE DEF row
<1>4. SearchKept'
  BY <1>1, <1>3, ReindexSolo
<1>5. JournalKept'
  BY <1>1, SoloFacts DEF JournalKept
<1>6. PICK t : t = Begun("retrieve", "load", i, None)
  OBVIOUS
<1>7. t.pc = "load" /\ t.op = "retrieve"
  BY <1>6 DEF Begun
<1>8. Continue(c, t)
  BY <1>1, <1>6
<1> QED BY <1>1, <1>4, <1>5, <1>7, <1>8, AfterSaveSolo

-----------------------------------------------------------------------------
(* The environment. *)

LEMMA RotateKeySolo ==
    ASSUME Solo, yields = {}, UNCHANGED yields, NEW k \in Categories, RotateKey(k)
    PROVE  Solo'
<1>1. UNCHANGED <<blobs, index, cache, searchIndex, journal, task, loop>>
  BY DEF RotateKey
<1> QED BY <1>1 DEF Solo, LoopHeld, JournalKept, CacheKept, SearchKept, SearchRows

LEMMA EvictSolo ==
    ASSUME Inv, Solo, yields = {}, UNCHANGED yields, NEW p \in Processes, NEW i \in Ids,
           Evict(p, i)
    PROVE  Solo'
<1>1. /\ UNCHANGED <<active, blobs, index, searchIndex, journal, task, loop>>
      /\ \A q \in Processes, j \in Ids : cache'[q][j] \in {None, cache[q][j]}
  BY SharedFacts DEF Evict
<1>2. CacheKept'
  <2>1. CacheKept
    BY DEF Solo
  <2> QED BY <1>1, <2>1 DEF CacheKept
<1> QED BY <1>1, <1>2 DEF Solo, LoopHeld, JournalKept, SearchKept, SearchRows

\* All that is left of a process that died is what it had stored.
LEMMA CrashSolo ==
    ASSUME Inv, Solo, OneProcess, yields = {}, UNCHANGED yields, NEW p \in Processes,
           Crash(p)
    PROVE  Solo'
<1>1. /\ \A c \in Clients : task'[c] = Idle
      /\ \A q \in Processes : q = p
      /\ cache'[p] = NoIndex /\ searchIndex'[p] = None
      /\ UNCHANGED <<active, blobs, index, journal>>
  BY ProcessOfAssumption DEF Crash, OneProcess, Inv, TypeOK
<1>2. Idle.pc = "idle"
  BY DEF Idle, Begun
<1>3. LoopHeld'
  BY <1>1, <1>2 DEF LoopHeld
<1>4. ASSUME NEW c \in Clients PROVE Hand(task'[c], blobs', index')
  BY <1>1, <1>2, IdleHand
<1>5. JournalKept'
  BY <1>1 DEF Solo, JournalKept
<1>6. CacheKept'
  BY <1>1 DEF CacheKept, NoIndex
<1>7. SearchKept'
  BY <1>1 DEF SearchKept
<1> QED BY <1>3, <1>4, <1>5, <1>6, <1>7 DEF Solo

LEMMA SoloInit == Init => Solo
<1> SUFFICES ASSUME Init PROVE Solo
  OBVIOUS
<1>1. Idle.pc = "idle" /\ \A c \in Clients : task[c] = Idle
  BY DEF Init, Idle, Begun
<1>2. LoopHeld /\ JournalKept /\ CacheKept /\ SearchKept
  BY <1>1 DEF Init, LoopHeld, JournalKept, CacheKept, SearchKept, NoIndex
<1> QED BY <1>1, <1>2, IdleHand DEF Solo

LEMMA SoloNext ==
    ASSUME OneProcess
    PROVE  Inv /\ Solo /\ [Next]_vars => Solo'
<1> SUFFICES ASSUME Inv, Solo, [Next]_vars, yields' = {} PROVE Solo'
  BY DEF Solo
<1>1. yields = {} /\ UNCHANGED yields
  BY DEF Next, vars
<1>2. ASSUME NEW c \in Clients, Step(c) PROVE Solo'
  BY <1>1, <1>2, StartsSolo, PutBlobSolo, CacheBlobSolo, EmbeddedBeforeLoadSolo,
     EmbeddedContentSolo, LoadForStoreSolo, LoadForDeleteSolo, LoadForMetadataSolo,
     LoadForContentSolo, LoadForReadersSolo, EndsSolo, RebuiltSolo, CacheHitSolo,
     CacheMissSolo, FetchBlobSolo, FetchedSolo, SaveSolo, StoreSavedSolo,
     DeleteSavedSolo, MetadataSavedSolo, ContentSavedSolo, CallFailsSolo
     DEF Step, ReplyLost
<1>3. CASE UNCHANGED vars
  <2>1. UNCHANGED <<blobs, index, cache, searchIndex, journal, task, loop>>
    BY <1>3 DEF vars
  <2>2. LoopHeld' /\ JournalKept' /\ CacheKept' /\ SearchKept'
    BY <1>1, <2>1 DEF Solo, LoopHeld, JournalKept, CacheKept, SearchKept, SearchRows
  <2>3. \A c \in Clients : Hand(task[c], blobs, index)'
    BY <1>1, <2>1 DEF Solo
  <2> QED BY <2>2, <2>3 DEF Solo
<1> QED BY <1>1, <1>2, <1>3, RotateKeySolo, EvictSolo, CrashSolo DEF Next

\* For one program on the local store, where nothing yields: the operation under way
\* works on the index as it is stored, and what is cached and journaled follows it.
THEOREM SoloInvariance ==
    ASSUME OneProcess
    PROVE  Spec => []Solo
<1>1. Init => Solo
  BY SoloInit
<1>2. Inv /\ Solo /\ [Next]_vars => Solo'
  BY SoloNext
<1> QED BY <1>1, <1>2, Invariance, PTL DEF Spec

\* What the audit log records as done stays done, whatever operations, failed calls
\* and crashes follow: no save drops the entry of a store() or revives a deleted
\* record.
THEOREM OutcomesStayJournaled ==
    ASSUME OneProcess
    PROVE  Spec => []JournaledOutcomesHold
<1>1. Inv /\ Solo => JournaledOutcomesHold
  <2> SUFFICES ASSUME Inv, Solo, yields = {}
               PROVE  /\ \A i \in Ids : <<"store", i>> \in journal => index[i] # None
                      /\ DeletedStayDeleted
    BY DEF JournaledOutcomesHold, Unbroken
  <2>1. JournalKept
    BY DEF Solo
  <2>2. ASSUME NEW i \in Ids, <<"delete", i>> \in journal
        PROVE  index[i] # None /\ index[i].deleted
    BY <2>1, <2>2 DEF JournalKept, IsLive
  <2> QED BY <2>1, <2>2 DEF JournalKept, DeletedStayDeleted
<1> QED BY <1>1, SoloInvariance, Invariance, PTL

\* A cached blob is the stored one, save while an operation is between its put() and
\* its cache.put(), or when the new blob does not fit in the cache.
THEOREM CacheStaysCoherent ==
    ASSUME OneProcess
    PROVE  Spec => []CacheCoherent
<1>1. Solo => CacheCoherent
  BY DEF Solo, CacheKept, CacheCoherent, Unbroken
<1> QED BY <1>1, SoloInvariance, PTL

\* Between operations the search index kept up to date record by record is the one
\* a rebuild from the stored index would give.
THEOREM SearchIndexStaysCurrent ==
    ASSUME OneProcess
    PROVE  Spec => []SearchIndexCurrent
<1>1. Inv /\ Solo => SearchIndexCurrent
  <2>1. ASSUME Inv, NEW c \in Clients, NEW rows, Behind(task[c], rows)
        PROVE  task[c].op # "none"
    BY <2>1, TaskFacts DEF Behind, TaskShape, RecordOps
  <2> QED BY <2>1 DEF Solo, SearchKept, SearchIndexCurrent, Unbroken
<1> QED BY <1>1, SoloInvariance, Invariance, PTL

-----------------------------------------------------------------------------
(* The vault: what a step does to one record, as the abstract specification      *)
(* sees it.                                                                      *)

StatusOf(entry) ==
    IF entry = None THEN "absent" ELSE IF entry.deleted THEN "deleted" ELSE "live"

ContentOf(entry) == IF entry = None THEN None ELSE entry.content_hash

ReadableOf(entry, blob) == entry # None /\ blob # None /\ blob.content = entry.content_hash

VaultStatus == [i \in Ids |-> StatusOf(index[i])]
VaultContent == [i \in Ids |-> ContentOf(index[i])]
VaultReadable == [i \in Ids |-> ReadableOf(index[i], blobs[i])]

LEMMA StatusFacts ==
    ASSUME NEW e \in Entry \cup {None}
    PROVE  /\ IsLive(e) <=> StatusOf(e) = "live"
           /\ e # None /\ ~IsLive(e) <=> StatusOf(e) = "deleted"
           /\ e = None <=> StatusOf(e) = "absent"
           /\ e # None => ContentOf(e) = e.content_hash /\ e.content_hash \in Contents
BY DEF StatusOf, ContentOf, IsLive, Entry

\* A step that changes at most record i, seen through the mapping.
LEMMA VaultAt ==
    ASSUME NEW i \in Ids,
           \A j \in Ids \ {i} : index'[j] = index[j] /\ blobs'[j] = blobs[j]
    PROVE  /\ VaultStatus' = [VaultStatus EXCEPT ![i] = StatusOf(index'[i])]
           /\ VaultContent' = [VaultContent EXCEPT ![i] = ContentOf(index'[i])]
           /\ VaultReadable' = [VaultReadable EXCEPT ![i] = ReadableOf(index'[i], blobs'[i])]
<1>1. VaultStatus' = [VaultStatus EXCEPT ![i] = StatusOf(index'[i])]
  BY DEF VaultStatus
<1>2. VaultContent' = [VaultContent EXCEPT ![i] = ContentOf(index'[i])]
  BY DEF VaultContent
<1>3. VaultReadable' = [VaultReadable EXCEPT ![i] = ReadableOf(index'[i], blobs'[i])]
  BY DEF VaultReadable
<1> QED BY <1>1, <1>2, <1>3

\* The vault's actions, in these terms.
LEMMA VaultActions ==
    ASSUME NEW i \in Ids, NEW x \in Contents
    PROVE  /\ /\ VaultStatus[i] = "absent" /\ VaultStatus' = [VaultStatus EXCEPT ![i] = "live"]
              /\ VaultContent' = [VaultContent EXCEPT ![i] = x]
              /\ VaultReadable' = [VaultReadable EXCEPT ![i] = TRUE]
              => Vault!Next
           /\ /\ VaultStatus[i] = "live" /\ VaultStatus' = VaultStatus
              /\ VaultContent' = [VaultContent EXCEPT ![i] = x]
              /\ VaultReadable' = [VaultReadable EXCEPT ![i] = TRUE]
              => Vault!Next
           /\ /\ VaultStatus[i] = "live" /\ VaultStatus' = VaultStatus
              /\ VaultContent' = VaultContent
              /\ VaultReadable' = [VaultReadable EXCEPT ![i] = FALSE]
              => Vault!Next
           /\ /\ VaultStatus[i] = "live" /\ VaultStatus' = [VaultStatus EXCEPT ![i] = "deleted"]
              /\ VaultContent' = VaultContent /\ VaultReadable' = VaultReadable
              => Vault!Next
<1>1. ASSUME VaultStatus[i] = "absent", VaultStatus' = [VaultStatus EXCEPT ![i] = "live"],
             VaultContent' = [VaultContent EXCEPT ![i] = x],
             VaultReadable' = [VaultReadable EXCEPT ![i] = TRUE]
      PROVE  Vault!Store(i, x)
  BY <1>1 DEF Vault!Store, VaultStatus, VaultContent, VaultReadable, StatusOf, ContentOf, ReadableOf
<1>2. ASSUME VaultStatus[i] = "live", VaultStatus' = VaultStatus,
             VaultContent' = [VaultContent EXCEPT ![i] = x],
             VaultReadable' = [VaultReadable EXCEPT ![i] = TRUE]
      PROVE  Vault!Replace(i, x)
  BY <1>2 DEF Vault!Replace, VaultStatus, VaultContent, VaultReadable, StatusOf, ContentOf, ReadableOf
<1>3. ASSUME VaultStatus[i] = "live", VaultStatus' = VaultStatus, VaultContent' = VaultContent,
             VaultReadable' = [VaultReadable EXCEPT ![i] = FALSE]
      PROVE  Vault!Spoil(i)
  BY <1>3 DEF Vault!Spoil, VaultStatus, VaultContent, VaultReadable, StatusOf, ContentOf, ReadableOf
<1>4. ASSUME VaultStatus[i] = "live", VaultStatus' = [VaultStatus EXCEPT ![i] = "deleted"],
             VaultContent' = VaultContent, VaultReadable' = VaultReadable
      PROVE  Vault!Delete(i)
  BY <1>4 DEF Vault!Delete, VaultStatus, VaultContent, VaultReadable, StatusOf, ContentOf, ReadableOf
<1> QED BY <1>1, <1>2, <1>3, <1>4 DEF Vault!Next

LEMMA VaultStutters ==
    ASSUME UNCHANGED <<VaultStatus, VaultContent, VaultReadable>>
    PROVE  UNCHANGED Vault!vars
BY DEF Vault!vars, VaultStatus, VaultContent, VaultReadable, StatusOf, ContentOf, ReadableOf

LEMMA VaultInit == Init => Vault!Init
<1> SUFFICES ASSUME Init PROVE Vault!Init
  OBVIOUS
<1>1. \A i \in Ids : index[i] = None
  BY DEF Init, NoIndex
<1> QED BY <1>1 DEF Vault!Init

LEMMA PutBlobToVault ==
    ASSUME Inv, Solo, yields = {}, NEW c \in Clients, PutBlob(c)
    PROVE  Vault!Next \/ UNCHANGED Vault!vars
<1> DEFINE i == task[c].id
           b == task[c].blob
<1>1. /\ i \in Ids /\ blobs' [i] = b /\ b \in Blob /\ b # None
      /\ task[c].op \in {"store", "update_content"} /\ task[c].pc = "put"
      /\ index' = index /\ index \in [Ids -> Entry \cup {None}]
      /\ \A j \in Ids \ {i} : index'[j] = index[j] /\ blobs'[j] = blobs[j]
  BY PutSealsAlike, SharedFacts, NotNone DEF PutBlob, At
<1>2. Hand(task[c], blobs, index)
  BY DEF Solo
<1> HIDE DEF i, b
<1>3. /\ VaultStatus' = VaultStatus /\ VaultContent' = VaultContent
      /\ VaultReadable' = [VaultReadable EXCEPT ![i] = ReadableOf(index[i], b)]
  BY <1>1, VaultAt DEF VaultStatus, VaultContent
<1>4. CASE task[c].op = "store"
  <2>1. index[i] = None
    BY <1>1, <1>2, <1>4 DEF Hand, i
  <2>2. ReadableOf(index[i], b) = ReadableOf(index[i], blobs[i])
    BY <2>1 DEF ReadableOf
  <2>3. VaultReadable' = VaultReadable
    BY <1>1, <1>3, <2>2 DEF VaultReadable
  <2> QED BY <1>3, <2>3, VaultStutters
<1>5. CASE task[c].op = "update_content"
  <2>1. IsLive(index[i]) /\ index[i] # None
    BY <1>1, <1>2, <1>5 DEF Hand, i, IsLive
  <2>2. /\ VaultStatus[i] = "live" /\ VaultContent[i] = index[i].content_hash
        /\ index[i].content_hash \in Contents
    BY <1>1, <2>1, StatusFacts DEF VaultStatus, VaultContent
  <2>3. VaultContent = [VaultContent EXCEPT ![i] = index[i].content_hash]
    BY <2>2 DEF VaultContent
  <2>4. CASE b.content = index[i].content_hash
    <3>1. ReadableOf(index[i], b) = TRUE
      BY <1>1, <2>1, <2>4 DEF ReadableOf
    <3> QED BY <1>1, <1>3, <2>2, <2>3, <3>1, VaultActions
  <2>5. CASE b.content # index[i].content_hash
    <3>1. ReadableOf(index[i], b) = FALSE
      BY <2>5 DEF ReadableOf
    <3> QED BY <1>1, <1>3, <2>2, <3>1, VaultActions
  <2> QED BY <2>4, <2>5
<1> QED BY <1>1, <1>4, <1>5

LEMMA SaveToVault ==
    ASSUME Inv, Solo, yields = {}, NEW c \in Clients, Save(c)
    PROVE  Vault!Next \/ UNCHANGED Vault!vars
<1> DEFINE i == task[c].id
           s == task[c].snapshot
<1>1. /\ task[c].pc = "save" /\ index' = s /\ UNCHANGED blobs
      /\ task[c].op \in RecordOps /\ i \in Ids /\ s[i] \in Entry
      /\ index \in [Ids -> Entry \cup {None}]
  BY TaskFacts, SharedFacts DEF Save, TaskShape
<1>2. Hand(task[c], blobs, index)
  BY DEF Solo
<1>3. Written(task[c]) /\ Differs(task[c], index)
  BY <1>1, <1>2 DEF Hand
<1>4. \A j \in Ids \ {i} : index'[j] = index[j] /\ blobs'[j] = blobs[j]
  BY <1>1, <1>3 DEF Differs
<1>5. /\ VaultStatus[i] = StatusOf(index[i]) /\ VaultContent[i] = ContentOf(index[i])
      /\ VaultReadable[i] = ReadableOf(index[i], blobs[i])
      /\ s[i] # None /\ ContentOf(s[i]) = s[i].content_hash /\ s[i].content_hash \in Contents
  BY <1>1, StatusFacts, NotNone DEF VaultStatus, VaultContent, VaultReadable
<1>6. /\ VaultStatus' = [VaultStatus EXCEPT ![i] = StatusOf(s[i])]
      /\ VaultContent' = [VaultContent EXCEPT ![i] = s[i].content_hash]
      /\ VaultReadable' = [VaultReadable EXCEPT ![i] = ReadableOf(s[i], blobs[i])]
  BY <1>1, <1>4, <1>5, VaultAt
<1>7. ASSUME StatusOf(s[i]) = StatusOf(index[i])
      PROVE  VaultStatus' = VaultStatus
  BY <1>1, <1>5, <1>6, <1>7 DEF VaultStatus
<1>8. ASSUME index[i] # None, s[i].content_hash = index[i].content_hash
      PROVE  VaultContent' = VaultContent /\ VaultReadable' = VaultReadable
  <2>1. ContentOf(index[i]) = s[i].content_hash
    BY <1>8 DEF ContentOf
  <2>2. ReadableOf(s[i], blobs[i]) = ReadableOf(index[i], blobs[i])
    BY <1>5, <1>8 DEF ReadableOf
  <2>3. VaultContent' = VaultContent
    BY <1>5, <1>6, <2>1 DEF VaultContent
  <2>4. VaultReadable' = VaultReadable
    BY <1>6, <2>2 DEF VaultReadable
  <2> QED BY <2>3, <2>4
<1>9. task[c].op # "delete" => StatusOf(s[i]) = "live"
  BY <1>1, <1>3, StatusFacts DEF Written
<1>10. task[c].op \in {"store", "update_content"} => ReadableOf(s[i], blobs[i]) = TRUE
  <2> SUFFICES ASSUME task[c].op \in {"store", "update_content"}
               PROVE  ReadableOf(s[i], blobs[i]) = TRUE
    OBVIOUS
  <2>1. blobs[i] = task[c].blob /\ s[i].content_hash = task[c].blob.content
    BY <1>1, <1>2, <1>3 DEF Hand, Written
  <2>2. blobs[i] # None
    BY <1>1, <2>1, TaskFacts, NotNone DEF TaskShape
  <2> QED BY <1>5, <2>1, <2>2 DEF ReadableOf
<1>11. CASE task[c].op = "store"
  <2>1. VaultStatus[i] = "absent"
    BY <1>1, <1>3, <1>5, <1>11, StatusFacts DEF Differs
  <2> QED BY <1>1, <1>5, <1>6, <1>9, <1>10, <1>11, <2>1, VaultActions
<1>12. CASE task[c].op = "update_content"
  <2>1. VaultStatus[i] = "live" /\ StatusOf(s[i]) = StatusOf(index[i])
    BY <1>1, <1>3, <1>5, <1>9, <1>12, StatusFacts DEF Differs
  <2> QED BY <1>1, <1>5, <1>6, <1>7, <1>10, <1>12, <2>1, VaultActions
<1>13. CASE task[c].op = "delete"
  <2>1. /\ index[i] # None /\ s[i].content_hash = index[i].content_hash
        /\ StatusOf(s[i]) = "deleted"
    BY <1>1, <1>3, <1>5, <1>13, StatusFacts DEF Differs, Written
  <2>2. CASE IsLive(index[i])
    <3>1. VaultStatus[i] = "live"
      BY <1>1, <1>5, <2>2, StatusFacts
    <3> QED BY <1>1, <1>5, <1>6, <1>8, <2>1, <3>1, VaultActions
  <2>3. CASE ~IsLive(index[i])
    <3>1. StatusOf(s[i]) = StatusOf(index[i])
      BY <1>1, <2>1, <2>3, StatusFacts
    <3> QED BY <1>7, <1>8, <2>1, <3>1, VaultStutters
  <2> QED BY <2>2, <2>3
<1>14. CASE task[c].op \in {"retrieve", "update_metadata"}
  <2>1. /\ index[i] # None /\ s[i].content_hash = index[i].content_hash
        /\ StatusOf(s[i]) = StatusOf(index[i])
    <3>1. CASE task[c].op = "retrieve"
      BY <1>3, <1>5, <3>1 DEF Differs
    <3>2. CASE task[c].op = "update_metadata"
      BY <1>1, <1>3, <1>9, <3>2, StatusFacts DEF Differs, IsLive
    <3> QED BY <1>14, <3>1, <3>2
  <2> QED BY <1>7, <1>8, <2>1, VaultStutters
<1> QED BY <1>1, <1>11, <1>12, <1>13, <1>14 DEF RecordOps

LEMMA VaultStep ==
    ASSUME Inv, Solo, [Next]_vars
    PROVE  [Unbroken(Vault!Next)]_(Vault!vars)
<1> SUFFICES ASSUME yields = {}
             PROVE  Vault!Next \/ UNCHANGED Vault!vars
  BY DEF Unbroken
<1>1. ASSUME UNCHANGED <<blobs, index>>
      PROVE  UNCHANGED Vault!vars
  BY <1>1, VaultStutters DEF VaultStatus, VaultContent, VaultReadable
<1>2. ASSUME NEW c \in Clients, Step(c), ~PutBlob(c), ~Save(c)
      PROVE  UNCHANGED <<blobs, index>>
  BY <1>2 DEF Step, shared, StartStore, StartOnRecord, StartSearch, StartSuggest, CacheBlob,
     EmbeddedBeforeLoad, EmbeddedContent, LoadForStore, LoadForDelete, LoadForMetadata,
     LoadForContent, LoadForRetrieve, LoadNotFound, LoadForScan, Rebuild, Rebuilt, CacheHit,
     CacheMiss, FetchBlob, Fetched, ScanDone, StoreSaved, DeleteSaved, MetadataSaved,
     ContentSaved, CallFails, ReplyLost
<1>3. ASSUME NEW c \in Clients, Step(c)
      PROVE  Vault!Next \/ UNCHANGED Vault!vars
  BY <1>1, <1>2, <1>3, PutBlobToVault, SaveToVault
<1>4. ASSUME NEW k \in Categories, RotateKey(k) PROVE UNCHANGED <<blobs, index>>
  BY <1>4 DEF RotateKey
<1>5. ASSUME NEW p \in Processes, NEW i \in Ids, Evict(p, i) PROVE UNCHANGED <<blobs, index>>
  BY <1>5 DEF Evict
<1>6. ASSUME NEW p \in Processes, Crash(p) PROVE UNCHANGED <<blobs, index>>
  BY <1>6 DEF Crash
<1>7. CASE UNCHANGED vars
  BY <1>1, <1>7 DEF vars
<1> QED BY <1>1, <1>3, <1>4, <1>5, <1>6, <1>7 DEF Next

\* One program on the local store implements the vault: a record appears once and
\* whole, its content is replaced or it is soft-deleted, a deleted one never comes
\* back, and the one irregular step is the blob of a replacement written before its
\* entry.
THEOREM ServiceImplementsVault ==
    ASSUME OneProcess
    PROVE  Spec => VaultSpec
<1>1. Inv /\ Solo /\ [Next]_vars => [Unbroken(Vault!Next)]_(Vault!vars)
  BY VaultStep
<1> QED BY <1>1, VaultInit, Invariance, SoloInvariance, PTL DEF Spec, VaultSpec
=============================================================================
