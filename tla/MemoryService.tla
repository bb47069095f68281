----------------------------- MODULE MemoryService -----------------------------
(***************************************************************************)
(* The encrypted memory service (src/mysti/memory/service.py) over a       *)
(* shared object store.  Every record has a sealed blob; one encrypted     *)
(* index object lists all records.  Every operation reads the whole index, *)
(* changes its own copy and writes the whole index back, with awaits in    *)
(* between and no lock; even retrieve() writes, to count the access.       *)
(*                                                                         *)
(* A client is one coroutine inside an operation.  Each storage call is    *)
(* one step (its effect on the store), the code that runs when the call    *)
(* returns is the next one.  A coroutine gives up the event loop of its    *)
(* process only at the awaits named in yields: S3 calls run in a thread    *)
(* and always yield, the local file system never does, and an embedding    *)
(* backend yields whichever store is used.                                 *)
(*                                                                         *)
(* Abstractions: a content hash is the content; key material is a version  *)
(* number per category; an entry keeps the fields the steps read back      *)
(* (timestamps, size, source, access_count are left out), `importance'     *)
(* standing for importance and tags; an embedding is the content it was    *)
(* computed from.  The audit trail is kept for the two operations that     *)
(* add or remove a record.  The list order of index entries is not kept.   *)
(* Calls that only read the index (entries, get_entry, stats,              *)
(* list_categories, count) change nothing and are left out.                *)
(***************************************************************************)
EXTENDS Naturals, FiniteSets

CONSTANTS
    Processes,      \* programs sharing the store: the API server, a CLI
    Clients,        \* coroutines
    ProcessOf,      \* [Clients -> Processes]
    Ids,            \* the supply of uuid4 record ids
    Categories,
    Contents,
    Oversize,       \* contents whose blob exceeds the cache's byte bound
    Importances,
    MaxKeyVersion,  \* bound on category key rotations
    Backends,       \* the values of yields: {} local, with "storage" S3
    Faults,         \* subset of {"error", "lost_reply", "crash"}
    None

Entry == [category : Categories, key_version : 1 .. MaxKeyVersion,
          content_hash : Contents, importance : Importances, deleted : BOOLEAN]

Blob == [category : Categories, key_version : 1 .. MaxKeyVersion,
         content : Contents]

SearchRow == [importance : Importances, embedding : Contents]

Ops == {"none", "store", "retrieve", "search", "suggest", "delete",
        "update_metadata", "update_content"}

\* Where a coroutine is suspended: before the effect of a storage or embedding
\* call ("put" .. "embed"), or with the call done and its caller not resumed.
Pcs == {"idle", "put", "load", "rebuild", "fetch", "save", "embed",
        "put_done", "rebuilt", "scan", "fetched", "saved"}

ASSUME ProcessOfAssumption == ProcessOf \in [Clients -> Processes]
ASSUME MaxKeyVersionAssumption == MaxKeyVersion \in Nat \ {0}
ASSUME NoneAssumption ==
    None \notin Entry \cup Blob \cup SearchRow \cup Ids \cup Clients
                \cup [Ids -> SearchRow \cup {None}]

VARIABLES
    active,         \* active[k]: version new records of category k are sealed with
    blobs,          \* blobs[i]: the object at record_path(i), or None
    index,          \* index[i]: the entry of i in the index object, or None
    cache,          \* cache[p][i]: blob in the RAM cache of process p
    searchIndex,    \* searchIndex[p]: in-RAM search index, None until first used
    journal,        \* the audit entries written: <<operation, id>>
    task,           \* task[c]: what coroutine c is doing
    loop,           \* loop[p]: the coroutine that has not yielded yet, or None
    yields          \* the awaits that yield, a subset of {"storage", "embed"}

shared == <<active, blobs, index, cache, searchIndex, journal>>

vars == <<active, blobs, index, cache, searchIndex, journal, task, loop, yields>>

NoIndex == [i \in Ids |-> None]

\* What an operation has in its local variables: the record it is about, the
\* blob it sealed or fetched, its copy of the index, the ids left to decrypt.
Task == [op : Ops, pc : Pcs, id : Ids \cup {None}, blob : Blob \cup {None},
         snapshot : [Ids -> Entry \cup {None}], todo : SUBSET Ids]

Begun(op, pc, i, blob) ==
    [op |-> op, pc |-> pc, id |-> i, blob |-> blob, snapshot |-> NoIndex, todo |-> {}]

Idle == Begun("none", "idle", None, None)

TypeOK ==
    /\ active \in [Categories -> 1 .. MaxKeyVersion]
    /\ blobs \in [Ids -> Blob \cup {None}]
    /\ index \in [Ids -> Entry \cup {None}]
    /\ cache \in [Processes -> [Ids -> Blob \cup {None}]]
    /\ searchIndex \in [Processes -> [Ids -> SearchRow \cup {None}] \cup {None}]
    /\ journal \subseteq {"store", "delete"} \X Ids
    /\ task \in [Clients -> Task]
    /\ loop \in [Processes -> Clients \cup {None}]

Init ==
    /\ active = [k \in Categories |-> 1]
    /\ blobs = NoIndex
    /\ index = NoIndex
    /\ cache = [p \in Processes |-> NoIndex]
    /\ searchIndex = [p \in Processes |-> None]
    /\ journal = {}
    /\ task = [c \in Clients |-> Idle]
    /\ loop = [p \in Processes |-> None]
    /\ yields \in Backends

-----------------------------------------------------------------------------
\* The event loop of c's process runs c up to its next yielding await.

Holds(c) == loop[ProcessOf[c]] \in {None, c}

ReleasesLoopAt(pc) ==
    \/ pc = "idle"
    \/ pc = "embed" /\ "embed" \in yields
    \/ pc # "embed" /\ "storage" \in yields

Continue(c, t) ==
    /\ task' = [task EXCEPT ![c] = t]
    /\ loop' = [loop EXCEPT ![ProcessOf[c]] = IF ReleasesLoopAt(t.pc) THEN None ELSE c]

Return(c) == Continue(c, Idle)

At(c, ops, pc) == task[c].op \in ops /\ task[c].pc = pc /\ Holds(c)

Goto(c, pc) == [task[c] EXCEPT !.pc = pc]

IsLive(entry) == entry # None /\ ~entry.deleted

\* unseal(): the key (category, version) and the AAD (id, category) must be
\* the ones the blob was sealed with.
Opens(blob, entry) ==
    /\ blob # None
    /\ blob.category = entry.category
    /\ blob.key_version = entry.key_version

\* BlobCache.put: a blob larger than the whole cache is not taken, and what
\* the cache held for that key stays.
CachePut(p, i, blob) ==
    cache' = [cache EXCEPT ![p][i] = IF blob.content \in Oversize THEN @ ELSE blob]

\* _rebuild_search_index: the live entries of an index.
SearchRows(entries) ==
    [i \in Ids |-> IF IsLive(entries[i])
                   THEN [importance |-> entries[i].importance,
                         embedding |-> entries[i].content_hash]
                   ELSE None]

Journal(operation, i) == journal' = journal \cup {<<operation, i>>}
-----------------------------------------------------------------------------
(* An operation begins. *)

\* uuid4(): no record and no store in progress has the id.
IsFresh(i) ==
    /\ blobs[i] = None
    /\ \A d \in Clients : task[d].op = "store" => task[d].id # i

StartStore(c) ==
    /\ At(c, {"none"}, "idle")
    /\ \E i \in Ids, k \in Categories, x \in Contents :
        /\ IsFresh(i)
        /\ Continue(c, Begun("store", "put", i,
                [category |-> k, key_version |-> active[k], content |-> x]))
    /\ UNCHANGED shared

StartOnRecord(c) ==
    /\ At(c, {"none"}, "idle")
    /\ \E op \in {"retrieve", "delete", "update_metadata", "update_content"}, i \in Ids :
        Continue(c, Begun(op, "load", i, None))
    /\ UNCHANGED shared

\* _ensure_search_index: what it finds decides if it rebuilds; the result is
\* assigned when the rebuild returns (Rebuilt), whoever assigned in between.
StartSearch(c) ==
    /\ At(c, {"none"}, "idle")
    /\ LET first == IF searchIndex[ProcessOf[c]] = None THEN "rebuild" ELSE "embed"
       IN  Continue(c, Begun("search", first, None, None))
    /\ UNCHANGED shared

StartSuggest(c) ==
    /\ At(c, {"none"}, "idle")
    /\ Continue(c, Begun("suggest", "load", None, None))
    /\ UNCHANGED shared

-----------------------------------------------------------------------------
(* Writing the blob, and the embedding computed after it. *)

PutBlob(c) ==
    /\ At(c, {"store", "update_content"}, "put")
    /\ blobs' = [blobs EXCEPT ![task[c].id] = task[c].blob]
    /\ Continue(c, Goto(c, "put_done"))
    /\ UNCHANGED <<active, index, cache, searchIndex, journal>>

\* Mutation: only store() puts its blob in the cache.
CacheBlob_StoreOnly(c) ==
    /\ At(c, {"store", "update_content"}, "put_done")
    /\ IF task[c].op = "store" THEN CachePut(ProcessOf[c], task[c].id, task[c].blob)
                               ELSE UNCHANGED cache
    /\ Continue(c, Goto(c, "embed"))
    /\ UNCHANGED <<active, blobs, index, searchIndex, journal>>

CacheBlob(c) ==
    /\ At(c, {"store", "update_content"}, "put_done")
    /\ CachePut(ProcessOf[c], task[c].id, task[c].blob)
    /\ Continue(c, Goto(c, "embed"))
    /\ UNCHANGED <<active, blobs, index, searchIndex, journal>>

\* The vector has come back.  store() and search() go on to read the index;
\* update_content() completes its entry in the copy it read at the start.
EmbeddedBeforeLoad(c) ==
    /\ At(c, {"store", "search"}, "embed")
    /\ Continue(c, Goto(c, "load"))
    /\ UNCHANGED shared

EmbeddedContent(c) ==
    LET completed == [task[c].snapshot EXCEPT ![task[c].id].content_hash = task[c].blob.content]
    IN  /\ At(c, {"update_content"}, "embed")
        /\ Continue(c, [task[c] EXCEPT !.pc = "save", !.snapshot = completed])
        /\ UNCHANGED shared

-----------------------------------------------------------------------------
(* Reading the index, and what each operation does with its copy. *)

\* Mutation: the entry takes the key version active when it is written.
LoadForStore_ActiveVersion(c) ==
    /\ At(c, {"store"}, "load")
    /\ \E importance \in Importances :
        Continue(c, [task[c] EXCEPT
            !.pc = "save",
            !.snapshot = [index EXCEPT ![task[c].id] =
                [category |-> task[c].blob.category,
                 key_version |-> active[task[c].blob.category],
                 content_hash |-> task[c].blob.content,
                 importance |-> importance,
                 deleted |-> FALSE]]])
    /\ UNCHANGED shared

LoadForStore(c) ==
    /\ At(c, {"store"}, "load")
    /\ \E importance \in Importances :
        Continue(c, [task[c] EXCEPT
            !.pc = "save",
            !.snapshot = [index EXCEPT ![task[c].id] =
                [category |-> task[c].blob.category,
                 key_version |-> task[c].blob.key_version,
                 content_hash |-> task[c].blob.content,
                 importance |-> importance,
                 deleted |-> FALSE]]])
    /\ UNCHANGED shared

\* Mutation: the deletion is journaled before the index is saved.
LoadForDelete_JournalFirst(c) ==
    /\ At(c, {"delete"}, "load")
    /\ index[task[c].id] # None
    /\ Continue(c, [task[c] EXCEPT
            !.pc = "save",
            !.snapshot = [index EXCEPT ![task[c].id].deleted = TRUE]])
    /\ Journal("delete", task[c].id)
    /\ UNCHANGED <<active, blobs, index, cache, searchIndex>>

\* Alone among the operations, delete() does not look at deleted_at.
LoadForDelete(c) ==
    /\ At(c, {"delete"}, "load")
    /\ index[task[c].id] # None
    /\ Continue(c, [task[c] EXCEPT
            !.pc = "save",
            !.snapshot = [index EXCEPT ![task[c].id].deleted = TRUE]])
    /\ UNCHANGED shared

LoadForMetadata(c) ==
    /\ At(c, {"update_metadata"}, "load")
    /\ IsLive(index[task[c].id])
    /\ \E importance \in Importances :
        Continue(c, [task[c] EXCEPT
            !.pc = "save",
            !.snapshot = [index EXCEPT ![task[c].id].importance = importance]])
    /\ UNCHANGED shared

\* Mutation: sealed with the active version, the entry keeping its own.
LoadForContent_ActiveVersion(c) ==
    /\ At(c, {"update_content"}, "load")
    /\ LET entry == index[task[c].id] IN
        /\ IsLive(entry)
        /\ \E x \in Contents :
            Continue(c, [task[c] EXCEPT
                !.pc = "put",
                !.snapshot = index,
                !.blob = [category |-> entry.category,
                          key_version |-> active[entry.category],
                          content |-> x]])
    /\ UNCHANGED shared

\* Mutation: no look at deleted_at.
LoadForContent_EvenDeleted(c) ==
    /\ At(c, {"update_content"}, "load")
    /\ LET entry == index[task[c].id] IN
        /\ entry # None
        /\ \E x \in Contents :
            Continue(c, [task[c] EXCEPT
                !.pc = "put",
                !.snapshot = index,
                !.blob = [category |-> entry.category,
                          key_version |-> entry.key_version,
                          content |-> x]])
    /\ UNCHANGED shared

\* The new blob is sealed with the key version the entry has.
LoadForContent(c) ==
    /\ At(c, {"update_content"}, "load")
    /\ LET entry == index[task[c].id] IN
        /\ IsLive(entry)
        /\ \E x \in Contents :
            Continue(c, [task[c] EXCEPT
                !.pc = "put",
                !.snapshot = index,
                !.blob = [category |-> entry.category,
                          key_version |-> entry.key_version,
                          content |-> x]])
    /\ UNCHANGED shared

LoadForRetrieve(c) ==
    /\ At(c, {"retrieve"}, "load")
    /\ IsLive(index[task[c].id])
    /\ Continue(c, [task[c] EXCEPT !.pc = "scan", !.snapshot = index, !.todo = {task[c].id}])
    /\ UNCHANGED shared

\* RecordNotFoundError: no such entry, or a deleted one.
LoadNotFound(c) ==
    /\ \/ At(c, {"delete"}, "load") /\ index[task[c].id] = None
       \/ /\ At(c, {"retrieve", "update_metadata", "update_content"}, "load")
          /\ ~IsLive(index[task[c].id])
    /\ Return(c)
    /\ UNCHANGED shared

\* search() and suggest() decrypt every live record in scope: one category or
\* all of them.
LoadForScan(c) ==
    /\ At(c, {"search", "suggest"}, "load")
    /\ \E scope \in {Categories} \cup {{k} : k \in Categories} :
        Continue(c, [task[c] EXCEPT
            !.pc = "scan",
            !.snapshot = index,
            !.todo = {i \in Ids : IsLive(index[i]) /\ index[i].category \in scope}])
    /\ UNCHANGED shared

Rebuild(c) ==
    /\ At(c, {"search"}, "rebuild")
    /\ Continue(c, [task[c] EXCEPT !.pc = "rebuilt", !.snapshot = index])
    /\ UNCHANGED shared

Rebuilt(c) ==
    /\ At(c, {"search"}, "rebuilt")
    /\ searchIndex' = [searchIndex EXCEPT ![ProcessOf[c]] = SearchRows(task[c].snapshot)]
    /\ Continue(c, [task[c] EXCEPT !.pc = "embed", !.snapshot = NoIndex])
    /\ UNCHANGED <<active, blobs, index, cache, journal>>

-----------------------------------------------------------------------------
(* _decrypt_entry: from the cache, or from storage and into the cache. *)

\* Record i decrypted: c goes on at pc.  Only retrieve() still needs the id.
Decrypted(c, i, pc) ==
    [task[c] EXCEPT !.pc = pc, !.todo = task[c].todo \ {i}, !.blob = None,
                    !.id = IF task[c].op = "retrieve" THEN task[c].id ELSE None]

\* retrieve() verifies the content hash and then saves the index, to count the
\* access; search() fails and suggest() skips when a blob does not open.
Decrypt(c, i, blob) ==
    LET opens == Opens(blob, task[c].snapshot[i])
        verified == opens /\ blob.content = task[c].snapshot[i].content_hash
    IN  \/ task[c].op = "retrieve" /\ verified /\ Continue(c, Decrypted(c, i, "save"))
        \/ task[c].op = "search" /\ opens /\ Continue(c, Decrypted(c, i, "scan"))
        \/ task[c].op = "suggest" /\ Continue(c, Decrypted(c, i, "scan"))
        \/ task[c].op = "retrieve" /\ ~verified /\ Return(c)
        \/ task[c].op = "search" /\ ~opens /\ Return(c)

CacheHit(c) ==
    /\ At(c, {"retrieve", "search", "suggest"}, "scan")
    /\ \E i \in task[c].todo :
        /\ cache[ProcessOf[c]][i] # None
        /\ Decrypt(c, i, cache[ProcessOf[c]][i])
    /\ UNCHANGED shared

CacheMiss(c) ==
    /\ At(c, {"retrieve", "search", "suggest"}, "scan")
    /\ \E i \in task[c].todo :
        /\ cache[ProcessOf[c]][i] = None
        /\ Continue(c, [task[c] EXCEPT !.pc = "fetch", !.id = i])
    /\ UNCHANGED shared

FetchBlob(c) ==
    /\ At(c, {"retrieve", "search", "suggest"}, "fetch")
    /\ blobs[task[c].id] # None
    /\ Continue(c, [task[c] EXCEPT !.pc = "fetched", !.blob = blobs[task[c].id]])
    /\ UNCHANGED shared

Fetched(c) ==
    /\ At(c, {"retrieve", "search", "suggest"}, "fetched")
    /\ CachePut(ProcessOf[c], task[c].id, task[c].blob)
    /\ Decrypt(c, task[c].id, task[c].blob)
    /\ UNCHANGED <<active, blobs, index, searchIndex, journal>>

ScanDone(c) ==
    /\ At(c, {"search", "suggest"}, "scan")
    /\ task[c].todo = {}
    /\ Return(c)
    /\ UNCHANGED shared

-----------------------------------------------------------------------------
(* Writing the index back whole, and what follows once that has returned. *)

Save(c) ==
    /\ task[c].pc = "save" /\ Holds(c)
    /\ index' = task[c].snapshot
    /\ Continue(c, Goto(c, "saved"))
    /\ UNCHANGED <<active, blobs, cache, searchIndex, journal>>

\* Change one row of the search index of c's process, if it has one yet.
Reindex(c, row) ==
    searchIndex' = [searchIndex EXCEPT ![ProcessOf[c]] =
        IF @ = None THEN None ELSE [@ EXCEPT ![task[c].id] = row]]

\* The row the search index of c's process has for the record, or None.
OldRow(c) ==
    IF searchIndex[ProcessOf[c]] = None THEN None ELSE searchIndex[ProcessOf[c]][task[c].id]

SavedEntry(c) == task[c].snapshot[task[c].id]

StoreSaved(c) ==
    /\ At(c, {"store"}, "saved")
    /\ Reindex(c, [importance |-> SavedEntry(c).importance, embedding |-> task[c].blob.content])
    /\ Journal("store", task[c].id)
    /\ Return(c)
    /\ UNCHANGED <<active, blobs, index, cache>>

\* Mutation: the search index keeps the row of the deleted record.
DeleteSaved_KeepRow(c) ==
    /\ At(c, {"delete"}, "saved")
    /\ Journal("delete", task[c].id)
    /\ Return(c)
    /\ UNCHANGED <<active, blobs, index, cache, searchIndex>>

DeleteSaved(c) ==
    /\ At(c, {"delete"}, "saved")
    /\ Reindex(c, None)
    /\ Journal("delete", task[c].id)
    /\ Return(c)
    /\ UNCHANGED <<active, blobs, index, cache>>

MetadataSaved(c) ==
    /\ At(c, {"retrieve", "update_metadata"}, "saved")
    /\ Reindex(c, IF OldRow(c) = None THEN None
                  ELSE [OldRow(c) EXCEPT !.importance = SavedEntry(c).importance])
    /\ Return(c)
    /\ UNCHANGED <<active, blobs, index, cache, journal>>

\* update_content() ends in a retrieve() of the record.
ContentSaved(c) ==
    /\ At(c, {"update_content"}, "saved")
    /\ Reindex(c, IF OldRow(c) = None THEN None
                  ELSE [OldRow(c) EXCEPT !.embedding = task[c].blob.content])
    /\ Continue(c, Begun("retrieve", "load", task[c].id, None))
    /\ UNCHANGED <<active, blobs, index, cache, journal>>

-----------------------------------------------------------------------------
(* The environment. *)

\* rotate_category_key, as the service sees it.
RotateKey(k) ==
    /\ active[k] < MaxKeyVersion
    /\ active' = [active EXCEPT ![k] = @ + 1]
    /\ UNCHANGED <<blobs, index, cache, searchIndex, journal, task, loop>>

\* TTL expiry or LRU eviction.
Evict(p, i) ==
    /\ cache[p][i] # None
    /\ cache' = [cache EXCEPT ![p][i] = None]
    /\ UNCHANGED <<active, blobs, index, searchIndex, journal, task, loop>>

\* The call c waits for raises and had no effect: the operation ends there,
\* except that suggest() skips a record it cannot read.
CallFails(c) ==
    /\ "error" \in Faults
    /\ Holds(c)
    /\ \/ task[c].pc \in {"put", "load", "rebuild", "fetch", "save"}
       \/ task[c].pc = "embed" /\ "embed" \in yields
    /\ IF task[c].op = "suggest" /\ task[c].pc = "fetch"
       THEN Continue(c, [task[c] EXCEPT !.pc = "scan", !.todo = @ \ {task[c].id}, !.id = None])
       ELSE Return(c)
    /\ UNCHANGED shared

\* The write to S3 took effect and its answer was lost: the operation ends there.
ReplyLost(c) ==
    /\ "lost_reply" \in Faults /\ "storage" \in yields
    /\ Holds(c)
    /\ task[c].pc \in {"put_done", "saved"}
    /\ Return(c)
    /\ UNCHANGED shared

\* Process p dies with its coroutines, its cache and its search index.
Crash(p) ==
    /\ "crash" \in Faults
    /\ task' = [c \in Clients |-> IF ProcessOf[c] = p THEN Idle ELSE task[c]]
    /\ loop' = [loop EXCEPT ![p] = None]
    /\ cache' = [cache EXCEPT ![p] = NoIndex]
    /\ searchIndex' = [searchIndex EXCEPT ![p] = None]
    /\ UNCHANGED <<active, blobs, index, journal>>

Step(c) ==
    \/ StartStore(c) \/ StartOnRecord(c) \/ StartSearch(c) \/ StartSuggest(c)
    \/ PutBlob(c) \/ CacheBlob(c) \/ EmbeddedBeforeLoad(c) \/ EmbeddedContent(c)
    \/ LoadForStore(c) \/ LoadForDelete(c) \/ LoadForMetadata(c) \/ LoadForContent(c)
    \/ LoadForRetrieve(c) \/ LoadNotFound(c) \/ LoadForScan(c)
    \/ Rebuild(c) \/ Rebuilt(c)
    \/ CacheHit(c) \/ CacheMiss(c) \/ FetchBlob(c) \/ Fetched(c) \/ ScanDone(c)
    \/ Save(c) \/ StoreSaved(c) \/ DeleteSaved(c) \/ MetadataSaved(c) \/ ContentSaved(c)
    \/ CallFails(c) \/ ReplyLost(c)

Next ==
    /\ \/ \E c \in Clients : Step(c)
       \/ \E k \in Categories : RotateKey(k)
       \/ \E p \in Processes, i \in Ids : Evict(p, i)
       \/ \E p \in Processes : Crash(p)
    /\ UNCHANGED yields

Spec == Init /\ [][Next]_vars
-----------------------------------------------------------------------------
(* Properties. *)

\* Whatever the interleaving, the faults and the key rotations: every entry of
\* the index, and of every copy of it an operation still holds and may write
\* back, has a stored blob sealed with the category and key version the entry
\* names.  The code's order (blob first, entry second) and update_content's
\* resealing under the entry's own version are what this rests on.
IndexedBlobsOpen ==
    \A i \in Ids :
        /\ index[i] # None => Opens(blobs[i], index[i])
        /\ \A c \in Clients :
            task[c].snapshot[i] # None => Opens(blobs[i], task[c].snapshot[i])

\* A reader is never about to unseal, with the key of the entry in its copy of
\* the index, a cached or fetched blob sealed under another key: search() would
\* abort on the first such record, and every other record with it.
ReadersCanUnseal ==
    \A c \in Clients : \A i \in task[c].todo :
        LET cached == cache[ProcessOf[c]][i]
        IN  /\ cached # None => Opens(cached, task[c].snapshot[i])
            /\ task[c].pc = "fetched" /\ task[c].id = i
                => Opens(task[c].blob, task[c].snapshot[i])

\* The properties that need operations to follow each other unbroken.
Unbroken(P) == yields = {} => P

\* No record whose deletion the audit log records as done is live.
DeletedStayDeleted ==
    \A i \in Ids : <<"delete", i>> \in journal => index[i] # None /\ index[i].deleted

\* What the audit log records as done stays done: no later operation, failed or not,
\* drops the entry of a store() or makes a deleted record live.  (Local store.)
JournaledOutcomesHold ==
    Unbroken(/\ \A i \in Ids : <<"store", i>> \in journal => index[i] # None
             /\ DeletedStayDeleted)

\* A cached blob is the stored one, save while update_content() is between its
\* put() and its cache.put(): retrieve() verifies cached blobs against a fresh
\* index, so a stale one makes a sound record unreadable.  A blob too large for
\* the cache is the exception: BlobCache.put() returns before it drops the old
\* one.  (Local store.)
CacheCoherent ==
    Unbroken(\A p \in Processes, i \in Ids :
        \/ cache[p][i] \in {None, blobs[i]}
        \/ blobs[i].content \in Oversize
        \/ \E c \in Clients : task[c].pc = "put_done" /\ task[c].id = i)

\* Between operations the incrementally maintained search index is the one a
\* rebuild from the stored index would give.  (Local store.)
SearchIndexCurrent ==
    Unbroken(\A p \in Processes :
        \/ searchIndex[p] \in {None, SearchRows(index)}
        \/ \E c \in Clients : task[c].op # "none")

-----------------------------------------------------------------------------
(* One operation at a time implements the vault. *)

Vault == INSTANCE MemoryVault WITH
    status <- [i \in Ids |-> IF index[i] = None THEN "absent"
                             ELSE IF index[i].deleted THEN "deleted" ELSE "live"],
    content <- [i \in Ids |-> IF index[i] = None THEN None ELSE index[i].content_hash],
    readable <- [i \in Ids |-> index[i] # None /\ blobs[i] # None
                               /\ blobs[i].content = index[i].content_hash]

VaultSpec == Vault!Init /\ [][Unbroken(Vault!Next)]_(Vault!vars)
=============================================================================
