# A TLA+ model of Mysti

Mysti (`src/src/mysti`) is a private assistant that keeps its memories, conversations,
research and keys encrypted in object storage. This directory holds TLA+ models of its
stateful parts, the TLC configurations that check them on small instances, and proofs,
checked by TLAPS, of what must hold for instances of every size. Source paths below are
relative to `src/src/mysti/`.

Two facts shape the whole program, and the models with it:

- **Nothing in storage is updated in place.** An index, a session list, a manifest or a
  day of research is one object. Each operation reads it whole, changes its own copy and
  writes the copy back, with awaits in between and no lock.
- **Where a coroutine yields depends on the backend.** The calls of the local file system
  (`storage/local.py`) do not wait, so an operation on it runs without interruption until
  it awaits an embedding or a model. S3 calls (`storage/s3.py`) run in a thread, and any
  other coroutine may run meanwhile. Several programs (API server, CLI) may use one store.

So almost every property below is of one of two kinds: what survives *any* interleaving
because of the order in which an operation writes its objects, and what is promised only
as long as operations do not interleave, which must then survive errors and crashes
between any two calls. The parts that keep nothing in storage (the tools, the caches, the
engine) add a third: what must hold of state that one coroutine checked before an await and
uses after it.

## Inventory

### Modelled parts

| Part (code) | State | Operations | What is hard | What makes it correct |
|---|---|---|---|---|
| Memory service (`memory/service.py`) | a sealed blob per record, the encrypted index object; per program a blob cache and a search index | store, retrieve, search, suggest, delete, update_metadata, update_content | read-modify-write of the index; blob and entry written separately; cached copies; lost S3 answers; crashes; key rotation in between | every entry has a blob its key opens; what was logged as done stays done; cache and search index agree with the store |
| Keys (`security/keys.py`, `keystore.py`) | master key in the OS keystore; the manifest of versioned category keys | ensure_initialized, create_category, rotate_category_key, get_category_key | first run cut short; rotation while callers hold keys; concurrent writes of the manifest | what was sealed can be opened; a started program can read the manifest |
| Conversations (`memory/conversations.py`, message route of `api/app.py`, chat of `cli/repl.py`) | session list with counts, message ids per session, a blob per message | start_session, add_message, get_messages, build_context, the exchange with the model | six storage calls per message; the model answers in between | no id without a blob; messages and sessions are not lost; the model is asked about the prompt just stored |
| Summaries (`memory/summarization.py`, `mysti memory summarize`) | one summary per session | summarize: full, forced, incremental | messages and earlier summary read at different times, saved a model call later, by a program of its own | a summary covers the first messages of its session, each once |
| Categories (`memory/categories.py`) | one configuration object; a key ring per category | create_category, delete_category | two objects written one after the other; a failed read taken for an empty one | what is configured has a key; what was created stays configured |
| Audit log (`security/audit.py`) | an append-only file; number and digest of its end, in memory, under a lock | log, start, verify | threads; a line that an error, a crash or a loss of power leaves half written; a second program | the log verifies up to the first error; what was logged stays |
| Consolidation (`memory/consolidation.py`) | the job and its lists, read once per phase; the history | run: deduplicate, merge, re-score, record | five service calls per merge, each may fail or be the last before a crash | no step loses or revives content; duplicates are gone before merging; tags survive |
| Embeddings (`memory/embeddings.py`) | a chain of backends; a cache of vectors, least recently used first | embed, embed_batch | backends fail one after the other; replies list vectors in any order; coroutines share the cache across the await | each text gets its own vector, in place and in the cache |
| Blob cache (`memory/cache.py`) | entries in order of use, the bytes they hold | get, put, delete, clear | the count is kept beside the entries through replacement, refusal, expiry and eviction | the count is what is held, and within the bound |
| Research (`research/connectors.py`, `collector.py`, `store.py`, `briefing.py`) | per source a lock, the time of the last request and a cached answer; the day's items; today's briefing | fetch, collect, store_items, generate_briefing, get_briefing | shared rate limits; sources that fail; midnight; failing reads | requests spaced; a failure is not remembered as an answer; nothing stored is erased by an outage; every cycle ends |
| Source configuration and jobs (`research/sources.py`, `core/context.py`, jobs of `research/scheduler.py`) | the stored configuration, the copy, the subsystem built from it | load, save, ensure_research, the jobs | concurrent first uses; failing reads, keys and writes; a load that races a save | a job runs with a complete subsystem, and on settings that were stored |
| Deep research and relevance (`research/deep.py`, `relevance.py`) | a session's findings and terms; the profile of feedback | research, record_feedback | several levels, duplicates across connectors, feedback during a session | no query twice; every story once, by its best report, best first, and none left out for a lesser one |
| Tools (`tools/`, `security/permissions.py`, `sandbox.py`) | grants with their expiry, the emergency flag, the audit log; running commands and background jobs; a page cache | execute, run_sequence, run_parallel, grant, revoke, emergency_revoke_all | grants expire or are revoked between the steps of a composition; tools fail in every way; commands time out | nothing starts without its permissions; every execution leaves an entry; commands end |
| Trust mode (`security/permissions.py`) | the level in memory and in a file | set_mode, confirmation, start | a write that fails after memory has changed; restarts | a risky level only after it was confirmed |
| Tool executor (`engine/tool_registry.py`, `tool_executor.py`) | registry, history, executions in progress | register, execute | a tool is replaced while an execution waits for its permission | what runs is what was checked |
| Chat engine (`engine/production.py`, `cache.py`, `core.py`, `state.py`, `core/llm.py`) | history per session; LRU cache with a lifetime; calls in progress | chat, cache get/set/invalidate/clear, retries | chats interleave in one session; failing LLM; full cache | one reply per question; the prompt has its question; nothing served past its lifetime; chats end |
| Knowledge graph (`integration/knowledge_graph.py`, `engine/entity_extractor.py`, `graph_query.py`) | nodes and edges in memory and in two files | both extractors, the context for a prompt, find_path | two files written one after the other, crashes between the writes; a file that cannot be read counts as empty; ids counted from what was loaded | edges have their ends, names are unique; contexts and paths are complete |
| Retrieval (`engine/rag.py`, `memory_ranker.py`, `memory_injector.py`) | one pipeline run | search, rank, inject, ask | duplicates, ties and the token budget | the best memories that fit, and all of the caller's messages |
| Suggestions and routing (`engine/proactive.py`, `model_router.py`) | one request; the cost log | get_suggestions, route, record | searches that fail one by one | the best suggestions; a model that can do the task |

The memory service calls the key manager, the envelope, the storage, the blob cache, the
embeddings and the audit log. Categories, conversations, summaries, research and consolidation use the
same keys, storage and log; consolidation works through the memory service; the API, the
CLI and the engine sit on top. The gateway asks the permission manager, runs a tool and writes
the audit log; the composer works through the gateway. Each component's model contains the behaviour of those it
calls as far as it depends on it: a key version that may be rotated, an object that is
replaced whole, a call that fails, or an await during which others run.

### Parts not modelled

| Part | Why |
|---|---|
| What single tools do (`tools/filesystem.py`, `git.py`, `http.py` ...) | I/O on files, repositories and hosts; `Tools` keeps of it whether a tool succeeds, refuses or fails |
| `research/scheduler.py`: `start()` | cannot complete, and nothing calls it (see *Observations*); its jobs and its error wrapper are modelled |
| Source formats, the terms of a title, the numbers of scores and similarities, summaries' text, prompts, injection patterns | content without shared state; the models take scores, terms and similarity as constants or leave them open |
| `integration/projects.py`, goals and learning, `improve/`, `notifications/`, `backup/`, `export/`, `voice/` | dictionaries saved whole by synchronous calls, single-call file formats, external programs |
| CLI, API routes other than the chat, `frontend/` | pass arguments to one service call and format the answer |
| Operations that only read (`history()`, `tail()`, `list_*`, `stats()`) | nothing can go wrong in them that the state they read does not show |

## Modules

| Module | Content |
|---|---|
| `MemoryVault` | what the memory service promises: a record is absent, live or deleted, never comes back, and its content reads back unless an update was cut short (`Spoil`) |
| `MemoryService` | the service, one step per storage call and one for the code that runs when it returns; instantiates `MemoryVault` with a refinement mapping (`VaultSpec`) |
| `MemoryServiceProofs` | proofs about `MemoryService` |
| `KeyManager` | the manifest, first run, creation, rotation, and callers that seal with the key they were given |
| `Categories` | extends `KeyManager` with the category manager, whose calls make the key manager's; `CategoriesSpec` composes the two |
| `CategoriesProofs` | proofs about `Categories` and the key manager under it |
| `Conversations` | session list, indexes, messages and the exchange built on them |
| `Summaries` | extends `Conversations` with runs of the summarize command; `SummariesSpec` composes the two |
| `SummariesProofs` | proofs about `Summaries` and the conversations under it |
| `AuditLog` | the hash chain, the lock it is extended under, and what is left of a line cut short |
| `Consolidation` | the job, one service call a step |
| `BlobCache` | the RAM cache of sealed blobs with its byte count |
| `Embeddings` | the chain of backends and the cache of vectors |
| `ConsolidationProofs` | proofs about `Consolidation`, `BlobCache` and `Embeddings` |
| `Research` | connectors, collection, item store, briefing |
| `ResearchSources` | the configuration of the sources and the jobs that build the subsystem from it |
| `DeepResearch` | research sessions and the feedback they are scored with |
| `ResearchProofs` | proofs about `Research`, `ResearchSources` and `DeepResearch` |
| `PermissionPolicy` | what permission manager and gateway promise together |
| `Permissions` | the permission manager |
| `Tools` | extends `Permissions` with gateway, compositions, terminal, background jobs and page cache; instantiates `PermissionPolicy` (`PolicySpec`) |
| `ToolAudit` | extends `Tools` with the executions that leave no audit entry |
| `TrustMode` | the trust level and its file |
| `ToolExecutor` | the engine's registry and executor |
| `SecurityProofs` | proofs about `Tools`, `TrustMode`, `ToolExecutor` and `AuditLog` |
| `Engine` | response cache, sessions, prompt window, LLM retries |
| `KnowledgeGraph`, `GraphSearch` | the graph with its files and what fills it; the context and the paths taken from it |
| `RagPipeline`, `Suggestions` | retrieval for a prompt; suggestions and the choice of a model |
| `EngineProofs` | proofs about the six modules of the engine |
| `Lists`, `Ranking` | a list comprehension; sorting by score, cutting a list, and what the best of a list are |
| `ListProofs` | lemmas about lists and about what is done so many times, for the other proofs |
| `MC*` | values of the constants for TLC, symmetry and bounds |

Correspondence conventions. A client, thread or task is a coroutine or thread inside one
operation; `task[c].pc` is the await it is suspended at and the other fields are the local
variables the rest of the operation reads. An action is the code from one await to the
next. In `MemoryService` a storage call is two steps, its effect and the return to the
caller, so that a lost answer, a crash or another coroutine can come between them. In
`KeyManager`, `Categories`, `Conversations` and `Summaries` the effect and the code after it are one step, and a
write whose answer is lost is an action of its own. In `Tools` code that does not await may take
several steps, during which the loop is `Busy` and nobody else moves. A definition named `X_Something` with
the comment *Mutation* is not part of the specification: it is a faulty variant of `X`
against which the properties have been tested. Observers (`agreed`, `approved`, `once`, `recent`,
`answered`, `requests`, `returned`, `unread`, `misread`, `unlogged` ...) are variables no guard reads; they
remember what a property
needs of the past.

Parts that share no state (the gateway, the trust mode, the executor and the audit log; the four of
the engine; cycles, configuration and sessions of the research; consolidation, blob cache, embeddings
and categories) are checked in one run whose `MC` module has a variable `part`: each behaviour is one of one of them.

Python's loops over a list are recursive functions over its places, its comprehensions
`Only`, its sorts `ByScore`, so that the proofs can speak of them. Where the code stops when a
queue is empty (`find_path`), the function takes as many rounds as there can be entities, and a
round after the end changes nothing.

Abstractions that all modules share: a hash stands for what is hashed and is injective; key
material is a fresh value or a version number (where TLC counts states it takes fresh values in a
fixed order, or with symmetry); a text is a model value; timestamps are an
order or an age.

## Runs

All runs are safety checks without fairness unless said otherwise. Symmetry is used only
where no temporal property with fairness is checked.

| Run | Instance | What it shows |
|---|---|---|
| `Memory` | two clients, two records, two importances, three contents (one too large for the cache), two key versions; errors, lost answers, crashes. Two initial states: the S3 store (yields at every storage and embedding call) and the local one (no yields) | `IndexedBlobsOpen`, `ReadersCanUnseal`: in every interleaving, each entry of the index and of every copy that may be written back has a blob sealed under its category and version. On the local store also `JournaledOutcomesHold` (what the log has as stored is indexed, what it has as deleted is deleted), `CacheCoherent`, `SearchIndexCurrent`, and the refinement `VaultSpec` |
| `MemoryLostDelete` (violation) | two clients on S3 | `DeletedStayDeleted`: a concurrent write-back undoes a delete that was logged |
| `KeysUnversionedReader` (violation) | `KeyManager` alone, two names, no faults | `ActiveKeyOpens`: after a rotation, callers that ask for "the" key of a category no longer open what they sealed before |
| `Summaries` | two clients and two summarizers, two of the four busy at a time; two sessions, four messages, two of them longer than the budget; local and S3 store; errors, lost answers, crashes | `ListedMessagesStored` on both stores; `AcknowledgedListed` (what a client was told is stored stays listed, with its session), `ContextEndsWithPrompt` and `SummaryCoversPrefix`, which need unbroken operations or indexes that only grow, on the local one |
| `AuditTwoPrograms` (violation) | two programs, three entries, no faults | `ChainVerifies`: an untouched log fails `verify()` |
| `MemoryParts` | three records of up to three pieces, one tag, one job at a time; errors and crashes at every call; the user's calls between jobs. A cache of three bytes, keys of three sizes, one too large. Every chain of backends, two coroutines, a cache of two vectors, batches that repeat a text, hold a blank one or exceed the cache. The reserved and two custom categories, one call at a time, five keys, errors and crashes | `JobKeepsContent` (no step of a job loses or revives content), `MergeKeepsTags`; `BytesCounted`; `VectorsOfTheirTexts`; `SealedObjectsOpen`, `StartedCanRead` of the keys; `ConfiguredHasKey`, `CreatedStaysConfigured` of the categories made of them |
| `Research` (fair) | two tasks, two sources (one rate-limited, the other puts its answer together from many requests; both cached); two callers that load, save and run jobs with three settings; sessions of three levels over two connectors, one piece of feedback | `CacheHoldsAnswers`, `RequestsSpaced`, `OutageErasesNothing`, `GetNeverReplaces`, `CyclesEnd`; `RunsConfigured`; `ReportsSound` |
| `ResearchDismissed` (violation) | the instance of `Research` | `DismissedNotSurfaced`: a story the user has dismissed is in the next report, with score 0 |
| `ResearchLostItems` (violation) | one task, one source whose news change | `DayKeepsItems`: the second collection of a day replaces the first one's items |
| `Engine` (fair) | two calls in one session, three messages (one longer than the prompt), a cache of two, lifetime of two ticks, one retry, six messages per history. Five names of two spellings, three entities and relationships to a context. Up to four hits of six memories, in every order. Four lists of offers and every set of words | `OpenQuestionsInProgress`, `PromptHasQuestion`, `CachedRepliesSound`, `ChatsEnd`; `GraphClosed`, `ContextSound`; `BestMemoriesInjected`; `SelectionsBest` |
| `Tools` (fair) | two callers, one background job, compositions of two steps, three permissions of at most one tick or for ever, five kinds of request. Six trust levels. Two executions, three definitions, two of one name. Two threads of one program, four log entries; write errors, crashes, power loss | the refinement `PolicySpec`, `CommandsEnd`; `LevelsAgreed`; `RunsWhatWasChecked`; `VerifiesUpToErrors`, `ReturnedIsLogged` |
| `ToolsUnaudited` (violation) | one caller, two terminal commands, one with a timeout that is no number | `EveryActionAudited`: an execution that ends in an exception the gateway does not catch leaves no entry |

The type invariant of each module (`TypeOK`, `ToolsTypeOK` ...) is stated beside its variables;
in the modules with proofs, the types (with sequences and numbers of any size) are a theorem or
a conjunct of the inductive invariant.

`Memory` has a `CONSTRAINT`, `SmallInstance`: behaviours on S3 are followed while at most one
record is stored, its importance unchanged, with contents the cache takes; behaviours on the local
store, which interleave less, have all of the data but no key rotation. Both keep
what the properties need: S3 the interleavings and the rotation, the local store the variety of
data. All properties of the run are proved without it.

`Summaries` has one too: over S3 one session is followed and no summary is made, since only
`ListedMessagesStored` speaks of S3, and three messages; summaries are made when there is one
session. All its properties are proved without it.

`Tools` has `Bounded`: two calls of one request each or one composition are under way, and a
background job runs beside an idle gateway. Compositions and parallel calls check the permissions
by the same step as single calls, and a job has no permission to lose. `PolicySpec`
is proved without it.

### Why the bounds are enough

- *Two actors.* Every race in this code is between a copy one operation holds and a write
  of another; a third adds writers, not a new kind of race. Of two threads that log, one
  waits for the lock while the other computes, writes, returns or fails; four entries are enough
  for a line cut short, the one glued to it, a restart and one after that. For any number of
  threads and entries, see *Proofs*.
- *One or two records, categories, names.* Objects are replaced whole, so a record is
  affected by another only through the common index: two records show an operation on one
  dropping or reviving the other. For any number, see *Proofs*.
- *`yields` and the properties of the local store.* `yields` never changes. The four properties
  listed for the local store are stated under `Unbroken`, that no await yields; with yields they
  are false, which `MemoryLostDelete` shows for the delete. So are those of the conversations
  (`OnLocal`), and those of the keys when two calls interleave: what these properties show is that
  errors, crashes and restarts do no harm between any two calls, not that races do none. The
  hazards of PROJECT.json say which interleavings are left.
- *Three records in the consolidation.* The smallest number with a chain of merges and with
  a duplicate that has another copy left.
- *Two key versions* have an old and a new; five keys allow the master key, a category key for
  each of two names, and rotations or a second attempt after a crash. For any number, see
  *Proofs*.
- *A budget smaller than one message* reaches the rule that the newest message is taken
  whatever its length; equal lengths would hide it.
- *A cache of two for three messages* evicts, refreshes and expires entries; two ticks have
  an entry that is neither new nor expired.
- *Grants of one tick, and without end* expire, or do not, between any two steps of a call.
- *One source of each kind*: one that answers or fails as a whole, one that collects its answer and
  passes over what fails.
- *Both sources report one story*, so that it is known from an earlier date, from the same day, or
  from the other source; changing news have a run of their own.
- *Sessions of three levels* are the longest the code has; two connectors whose stories share a term
  reach the same query in two ways.
- *Six memories* have a chain of similar texts, one that is irrelevant, one that is too long for the
  budget and equal scores.
- *The graph* has relationships in both directions, a path over three entities, one relationship
  given twice, and names that differ in case only.
- *A cache of two vectors* is smaller than a batch, so that a text may leave the cache while its
  batch is still under way.
- Named bounds: `MaxKeyVersion`, `MaxEntries`, `MaxRecords`, `MaxPieces`, `MaxJobs`,
  `MaxMessages`, and the sizes of `Ids`, `Keys` and `Messages`, which are supplies of fresh
  values.

### Fairness

Only `Research`, `Engine` and `Tools` state it, for the properties that something ends.

- `Research!Fairness`: weak fairness of each task's next step (the event loop runs what is
  ready; a request ends by answer or by the 30 s timeout of the HTTP client), strong fairness
  of entering the rate limiter (`asyncio.Lock` serves its waiters in order, so one that waits
  is not passed over for ever), weak fairness of time. Starting a cycle, failures and
  midnight have none.
- `Engine!FairSpec`: weak fairness of the next step of a call in progress (HTTP timeout of
  60 s, a bounded number of attempts). Whether an attempt succeeds is left open.
- `Tools!ToolsFairness`: weak fairness of what the loop is in the middle of, strong fairness of the
  timeout of a command and of a background job, and of the end of a terminal call that waits for no
  process: timers that are due run, however busy the loop is in between. That a command ends by
  itself is not assumed, and calls, grants and revocations have no fairness.

## Proofs

TLAPS checks these for all values of the constants.

**`MemoryServiceProofs`.** `TypeCorrect`, `IndexedBlobsAlwaysOpen` and `ReadersAlwaysUnseal`
for any numbers of processes, coroutines, records, categories, contents and rotations, with
or without yields, errors, lost answers and crashes. `IndexedBlobsOpen` is not inductive: an
operation that saves its copy of the index must be known to hold entries whose blobs still
open, and one that has put a blob must be known to be the only one that will add that
record's entry. The inductive invariant `Inv` (theorem `Invariance`) adds to `TypeOK`:

- `TaskShape`: what the local variables are at each suspension point;
- `TaskSealed`: the blob in hand and the copies of index entries are sealed as the entries say;
- `Own`: no two stores in progress have the same fresh id;
- `IndexOpens`, `CacheOpens`: the stored and the cached blobs open with the entry's key.

The proof has a lemma for each action. The argument in words: `store` puts the blob before
it adds the entry, ids are fresh, `update_content` reseals under the category and version
that the entry has and can never change, and nothing deletes blobs; so whichever copy is
written last, it lists only what can be opened. The assumptions are those of `MemoryService`:
the map from clients to processes is a function, versions start at 1, and `None` is no value
of the data.

The other four properties of the run are about one program on the local store, and are
proved under the hypothesis `OneProcess`, for any number of its coroutines, records and
contents, with errors and crashes between any two calls. The hypothesis says what the properties do: of two
programs on one directory each interleaves with the other, whatever yields inside of either.
`Solo` (theorem `SoloInvariance`) is added to `Inv`. It says that who is not idle has the event
loop (`LoopHeld`), that the operation under way works on the index as
it is stored, or has just stored its copy (`Hand`), and that the journal, the cache and
the search index follow the stored objects up to the one row that operation is about to change
(`Behind`, `JournalKept`, `CacheKept`, `SearchKept`). `OutcomesStayJournaled`, `CacheStaysCoherent` and
`SearchIndexStaysCurrent` are its consequences, and `ServiceImplementsVault` is the refinement: the
save of the index is the step of the vault, everything else a stutter, and the one `Spoil` is the blob of
`update_content`, which is replaced before its entry is.

**`SecurityProofs`, the audit log.** `AlwaysVerifiesUpToErrors`: up to the first line that bears the
mark of an error, the log of one program is readable, numbered and chained, in every reachable state, for
any number of threads and entries. A mark is a line that an error, a crash or a loss of power has cut
short, or a line that is in the file although its `log()` has raised, until a start of the program has
read it (`unread`): the next `log()` is glued to the first kind and repeats the number of the
second, and `verify()` raises or returns False from there on. The theorem says that nothing else breaks the chain, no
schedule of the threads and no restart. The hypothesis `OneProgram` is necessary (run `AuditTwoPrograms`). The
invariant `ChainInv` says that only the holder of the lock has a computed line, that the line follows
the end the program knows (`Follows`), and that this is the end of the file, but for the line the holder has just
written, as long as no line bears a mark (`KnowsEnd`). `ReturnedAlwaysLogged` needs no such hypothesis: programs
that break each other's chain, and lines that are glued together, still lose no line that was returned
for. Its invariant `LogInv` says that each line is computed with a digest of its own, and that a digest
is in the file at most once.

**`CategoriesProofs`.** `SealedAlwaysOpen`, `StartedAlwaysReads`, `ConfiguredAlwaysHasKey` and
`CreatedAlwaysConfigured`, for any names, keys, rotations, errors and crashes, under the hypothesis
`OneCaller`: one program, whose calls follow each other. It is necessary: nothing in the code keeps
two writers of the manifest from dropping each other's versions. The invariant is what the absence
of other writers gives. The manifest a call is about to save extends every version list of the
one that is stored (`Suits`), a master key is made only while there is none, so that no
manifest is under another (`OneMaster`), and the names a category call has read are all there are and have
their keys, but for those there were when a read failed (`Agrees`, `Complete`). A creation has the key of
its own name only after the key
manager's save, which is why `create_category` may end anywhere. Assumed: `Absent` is neither a key, nor
a manifest, nor a configuration.

**`SummariesProofs`.** For any number of clients, summarizers, sessions and messages:
`ListedAlwaysStored`, on either store and with all faults, and `SummariesAlwaysCoverPrefix`, on
the local store. The first is the argument of the memory service again: the blob first, the id
second. For the second, `Inv` says that a client that is not idle or waiting for the model has
the event loop (`LoopHeld`), so that the copy of an index it is about to write is the index and
one more id (`Current`): indexes only grow. Then what a summarizer has read at any time is a
prefix of the index (`Read`), and of two prefixes the longer extends the shorter
(`ExtendedIsLonger`), which is what `_merge_incremental` computes. Assumed: `None` is no message,
session, client or number.

Two more on the local store, from `LocalInv`, which says of the locals of an operation (`Sound`) that
a copy of the session list about to be written back knows every session of the stored one, hence
`AcknowledgedStaysListed`; and that the ids `build_context` selects from end with the prompt the
chat has just stored, of which the newest is taken whatever its length, hence `ContextKeepsPrompt`. How many
messages are taken is the least number that fills the budget; that there is one follows
from the well-foundedness of the numbers (`WFMin`), as wherever a proof here needs a least or a
greatest number.

**`SecurityProofs`, the tools.** Three theorems for any callers, requests, permissions, levels and lifetimes.
`ToolsImplementPolicy`: every step of the gateway, the composer and the permission manager is a step
of `PermissionPolicy` or a stutter. The invariant has the permissions in force as those that pass
the check (`Passes`), which is not the dictionary (an expired grant stays in it until a check meets
it), and a call that has passed its check as one whose tool starts before anybody else moves.
`LevelsAlwaysAgreed` and `AlwaysRunsWhatWasChecked` follow from what
a set_mode under way has written, and from the definition an execution looked up being the one it
holds. Assumed: lifetimes are natural numbers.

**`ResearchProofs`.** Six theorems for any tasks, sources, answers, intervals and lifetimes.
`RequestsAlwaysSpaced`: who sleeps in a rate limiter holds its lock and has just as long to sleep as
the interval has left (`Sleeps`). `CacheAlwaysHoldsAnswers`: what is cached was an answer, or for the sources
in `Collecting` a part of one. Two rest on what a task may
have in hand: a save has items (`OutagesEraseNothing`), and a call that goes to the sources for a
briefing found none when it was called (`GetNeverReplacesBriefing`). `AlwaysRunsConfigured`: every
configuration held, read, saved or built has been in storage or is the defaults. Assumed: `None` is
neither a task nor an object.

`ReportsAlwaysSound` is about deep research, for any connectors, answers, depths and limits. Its
invariant `DeepInv` says that a query in hand is the topic or a known term, which is none of the terms of the
next level; that of the queries of this level only those whose turn is over were sent, each
to every connector, which bounds the number of requests by what the level still has (`Past`, `Sent`);
and that a report has of the items, sorted, the first of each story, of these the first `MaxFindings`
(`Told`): what is left out comes after a full report, and is no more relevant. Assumed (`DeepAssumption`):
there is a connector, the topic is no term of a title, scores are
integers and the limit is a natural number.

**`EngineProofs`.** The first theorems are for any calls, sessions, messages, graphs and limits, with failing
models, failing writes and restarts. `QuestionsAreAnsweredOnce` and `PromptKeepsQuestion` rest on
`ChatInv`: in a session as many questions are open as chats are in progress in it, what a chat took of the
history stays as it was, because histories only grow, and there is room for the replies still to
come (`MaxMessages` is a bound of the model; a chat starts only within it). `RepliesServedInTime` rests on
`CacheInv`: the messages of
the cache, in order, end the order in which messages were last stored or served, none is there
twice, and no entry is younger than the reply it holds. `GraphFilesClosed` rests on `GraphInv`: edges in
memory have their nodes in memory and those of the file in the file, the nodes of the file are
in memory, and while the edges are being written the two are the same, always but for nodes of a file
that no start has been able to read since (`unread`). Assumed: what an
extraction yields is a list of names and a list of pairs of names, and the limits are numbers
(`GraphAssumption`).

Three more say what is computed, for every input.

- `ContextsAlwaysSound`, in every reachable graph. The relationships of a context are all that touch
  one of the entities, each once, because the loop skips what it has (`Gathered`, `Joined`), and its
  lists are cut at the limits. For the search for a path, `Wave` is the loop invariant of a breadth-first
  search: the queue has paths of one length L before those that are longer by one, each of them leads
  from the start along relationships and no shorter one ends where it ends; all that is nearer than
  L is seen; and a node that is seen ends a path in the queue or has been taken from it, and then
  its neighbours are seen. A round takes one path, no two paths end in the same node, so that after
  `MaxId` rounds the queue is empty or the path is found (`Progress`): `FindPath` yields a shortest path
  when there is one, and none when there is none.
- `PromptsHaveBestMemories`. `RagInv` follows the three steps of the pipeline: of the hits that are
  left when those like an earlier one are dropped, the best are ranked, best first (`RankedWell`), the longest
  beginning of these that fits the budget is injected (`FitsWell`), and the conversation is passed on
  otherwise unchanged (`PassedOn`). Assumed: likeness of texts is symmetric (`HitsAssumption`), limits are
  numbers (`RankAssumption`), and a system message is the first of its conversation (`ConversationsAssumption`).
- `SuggestionsAndRoutesBest`. What is offered are the best of all suggestions (`SuggestionsInv`), and the
  model chosen is right for the task whatever has been spent. Assumed: scores and limits are numbers
  (`FoundAssumption`, `OfferAssumption`).

**`ConsolidationProofs`.** `ConsolidationTypeCorrect` holds whatever the user does. `JobsKeepContent` and
`FirstMergeKeepsTags`, the two action properties of the run, are proved for any number of records,
pieces and tags, with errors and crashes at every call, under the hypothesis that the user's calls
do not come between the job's; it is necessary, because the job deletes and merges from lists and contents
it has read. `JobInv` says what of them still agrees with the records. While duplicates go
(`Deleting`), listed contents are those of the records and the newest record of every
content is alive (`NewestStays`), so that what is deleted is held by another. While pairs are merged (`PairHeld`,
`TagsListed`), every listed record that was not merged away is alive, the contents read are those of
the pair, once the first record is written it holds what the second one does, and until a
first merge is over the listed tags are those of the records, but for the pair's union. TLC has checked `JobInv`
on the instance of the run. Assumed: `None` is no record.

`BytesAlwaysCounted`, for any keys, sizes and limits: the entries of the blob cache are in the order in
which their keys were last stored or read, no key is there twice, and the count of bytes is the sum of
their sizes and within the limit (`CacheInv`). Evicting from the front therefore stops in time.
`TextsGetTheirVectors`, for
any callers, batches, vectors and chains of backends that fail in any way: a request has as many places
as texts, each place is empty or has the vector of its own text, and a call that has returned has no empty
place (`EmbeddingsInv`). A backend may answer in any order: sorting the answer by index restores
the order of the texts. Assumed: sizes and limits are numbers, batches are lists of texts, and `NoVector` is no vector
(`CacheAssumption`, `EmbeddingsAssumption`, `NoVectorAssumption`).

**`ListProofs`.** Only lemmas, on which the theorems about computed values rest. Induction over data is done
without the theorems of the library that take an operator as a parameter: of the places (or the numbers of
steps) where a property fails there would be a least one, because the numbers are well-founded
(`WFMin`), and one less is a contradiction. In this way the module says what the recursive functions of `Lists`
and `Ranking` return for every list: `Only` keeps just the elements of a set, in their order;
the places that `Pos` gives the elements of a sorted list are a permutation of the list's, so that sorting loses and
adds nothing, is stable and puts the best first; cutting a sorted list leaves the best; and a step that
is taken n times, as a loop takes it, keeps what a single one keeps (`TimesFacts`).

**Only model-checked.** `CyclesEnd`, `ChatsEnd` and `CommandsEnd` are liveness properties under fairness, which need
ENABLED; the provers here have no support for it. Every other property of a passing run is the conclusion of
a theorem.

## Findings

Six runs end in a counterexample to something the repository says; PROJECT.json quotes it.

1. `MemoryLostDelete`: over S3, an operation that had read the index before a delete writes
   the record back as live. It is found by search again, although the audit log has the delete.
2. `KeysUnversionedReader`: several components open objects with the active key of a category
   instead of the version in the object's header; the first rotation makes the memory index
   itself unreadable.
3. `AuditTwoPrograms`: each program chains from what it read when it started. An API server
   and a CLI command that log to the same file break the chain without any tampering.
4. `ResearchLostItems`: `store_items` seals a day and `_load_date` opens it with the function
   for unversioned blobs. The failure is swallowed, and each collection replaces the day.
5. `ResearchDismissed`: a report keeps the stories the user has dismissed, with score 0, though
   `research/relevance.py:117` says that they are never surfaced again.
6. `ToolsUnaudited`: `ToolGateway.execute` catches three kinds of exceptions; an execution whose tool raises
   another leaves no audit entry, though `docs/05-Phase-4-Tools.md:7` says that every action is audited.

### Observations without a run

- `create_category` cannot be repeated after it was cut short, nor a deleted category be created
  again: its key is in the manifest, and `KeyManager.create_category` refuses the name
  (`security/keys.py:182`).
- `_load_config` of the categories takes any failure of the storage for an absent object
  (`memory/categories.py:81`); a creation that follows saves a configuration without the other
  custom categories. `CreatedStaysConfigured` exempts those that were there when such a read failed.
- Two changes of the key manifest that interleave drop each other's versions. Over S3 two updates of one
  record may cache their blobs in the other order than they stored them, a lost answer leaves the
  old one in the cache, and a rebuild of the search index may be overtaken by an operation; sessions and
  messages are lost as records are.
- Of two summarizers of one session the slower may write the shorter summary last.
- `list_permissions` removes expired entries from the dictionary it iterates over, and raises
  RuntimeError when there is one (`security/permissions.py:61`); the entry is gone by then. The
  emergency flag is not stored: a restart ends it. The gateway's trust level is given to its
  constructor and has nothing to do with the mode that `ModeManager` keeps.
- `set_mode` changes the level before it writes the file. When the write of a *lowered* level fails,
  the next start is at the higher one again (which the user had confirmed: `LevelsAgreed`).
- A terminal command that times out is given up, not killed. Background jobs are started without the gateway.
- A graph file that cannot be read at the start counts as empty, and the next save writes that over it
  (`integration/_persistence.py:12`); relationships are then left without their entities, which
  `GraphClosed` exempts. A line of the audit log that an error has cut short keeps the log from verifying and the
  program from starting (`json.loads` raises).
- A later step of a composition gets the output of the one before as a parameter `input`, which tools that
  pass their parameters on as keywords refuse with a TypeError (`tools/browser.py:81` makes a failure of it).
- The router sends simple tasks about code to a model without the code capability, whatever its
  docstring says (hence the wording of `SelectionsBest`).
- The ranker takes equal short previews for duplicates and keeps the one the search had first, which
  may score lower, or have been dropped itself, than the one it removes.
- `ensure_research` sets its flag before it awaits the configuration: a job that starts meanwhile
  fails an assertion, and when the load fails no job runs before the next start. A load that races a
  save leaves the older configuration as the copy. A key or an object that does not open is kept as
  the defaults; the next save from that copy loses the user's sources.
- Feedback of the deep research is kept in memory only without a `profile_path`, and a
  profile that does not parse is replaced by the next feedback. Nothing in the repository records feedback.
- The RSS connector caches an empty list when all its feeds fail, Hacker News a part of its stories
  (`PartOfAnswer`; hence the wording of `CacheHoldsAnswers`). An AttributeError in a connector's parser
  leaves `fetch()`, whose docstring says that it never raises.
- The embedding chain stops at a backend that raises `MystiError` instead of asking the next one, and
  hashing is in the chain only when nothing else is. Vectors of different backends meet in one index
  after a fall-through. A batch embeds blank texts, which a single call does not.
- With the user's calls between a job's calls, consolidation may revive content that was deleted after
  the job listed it. Nothing in the repository promises otherwise.
- `/clear` of the REPL only prints (`cli/repl.py:86`; `docs/01-Phase-0-Foundation.md:605`
  describes a command that clears).
- `build_context` drops older messages; `docs/01-Phase-0-Foundation.md:780` speaks of summaries.
- `deduplicate` says it keeps the first and keeps the newest (`memory/consolidation.py:56`, `:63`).
- `settings.consolidation_threshold` is not read. A failed job is stored before its end time
  is set. The second merge into one record loses tags of the first (hence the wording of
  `MergeKeepsTags`).
- `BlobCache.put` does not take a blob larger than the whole cache, and leaves the old blob of the
  record where it was (`memory/cache.py:33`): after such an update `retrieve` fails its hash check
  and search previews show the old text, hence the exception in `CacheCoherent`. With the default limits
  (256 MB) no record is that large.
- `ResearchScheduler.start` passes job objects to the audit log, whose `json.dumps` raises
  TypeError before the scheduler starts; nothing in the repository calls it.
- `ProductionEngine.chat` lists suggestions and RAG among its steps and runs neither. The text
  of an LLM error is cached as a reply for the whole lifetime of an entry, and the cache key
  knows neither the session nor its history. With `max_size` 0 the first `set` raises.

## Plan

1. Liveness: every safety property of a run is proved; of `CyclesEnd`, `ChatsEnd` and `CommandsEnd` a proof could
   reach the steps (each one makes a measure smaller), not that they are taken.
2. Projects, goals and learning, which are objects of the kind of the graph's files, if they come to
   be written by more than one call.
3. The reading of stored research sessions and of conversations while they are written, over S3.
