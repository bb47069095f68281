-------------------------------- MODULE Research --------------------------------
(***************************************************************************)
(* The research subsystem (src/mysti/research/): source connectors with a  *)
(* rate limit and a cache, the collection cycle and its item store, and    *)
(* the daily briefing.  The tasks of one program share the connectors;     *)
(* a task fetches the sources one after the other and then writes one      *)
(* object.  Each await is a step boundary.                                 *)
(*                                                                         *)
(* An item is a story as one source reports it; two items are the same     *)
(* story when their fingerprints agree.  A fetch is modelled as one        *)
(* request; RSS and Hacker News repeat it for each feed or story, and what *)
(* those of their requests that fail would have brought is left out of an  *)
(* answer that is otherwise like any other.  Time is kept relative: how    *)
(* long ago the last request was and how old the cached answer is.  Of the *)
(* objects in storage only the current date's are kept, and of the earlier *)
(* ones the stories that can be read back.                                 *)
(***************************************************************************)
EXTENDS Naturals, Sequences, FiniteSets, FiniteSetsExt

CONSTANTS
    Tasks,          \* coroutines of the program
    Stories,        \* fingerprints
    Content,        \* Content[s]: the answers source s may give, by order of use
    Collecting,     \* the sources that put their answer together from several requests
    MinInterval,    \* MinInterval[s]: SourceConnector._min_interval, in ticks
    Ttl,            \* Ttl[s]: SourceConnector._cache_ttl, in ticks
    Score,          \* Score[s][f]: the relevance of story f reported by s
    MinScore,       \* DailyBriefing._min_score
    MaxHighlights,  \* 20 in the code
    None

Sources == DOMAIN Content

ASSUME ContentAssumption == Content \in Seq(SUBSET SUBSET Stories) /\ Content # <<>>
ASSUME CollectingAssumption == Collecting \subseteq Sources
ASSUME TimesAssumption == MinInterval \in [Sources -> Nat] /\ Ttl \in [Sources -> Nat]
ASSUME ScoreAssumption == Score \in [Sources -> [Stories -> Nat]] /\ MinScore \in Nat

Item == [source : Sources, story : Stories]

\* What storage holds: envelope.seal() and envelope.encrypt() give different layouts.
Blob == [layout : {"sealed", "encrypted"}, items : SUBSET Item]

ASSUME NoneAssumption == None \notin Tasks /\ None \notin Blob

VARIABLES
    since,      \* since[s]: ticks since s's last request, MinInterval when more
    lock,       \* lock[s]: the task in s's rate limiter, or None
    cache,      \* cache[s]: what s last answered and its age, or None
    day,        \* the items object of the current date, or None
    briefing,   \* the briefing of the current date, or None
    known,      \* the stories that can be read back from earlier dates
    task        \* task[t]: what coroutine t is doing

vars == <<since, lock, cache, day, briefing, known, task>>

store == <<day, briefing, known>>
connector == <<since, lock, cache>>

NoBatch == [s \in Sources |-> {}]

Idle == [op |-> "none", pc |-> "idle", source |-> 1, wait |-> 0,
         batch |-> NoBatch, late |-> FALSE, items |-> {}, mayReplace |-> FALSE]

TypeOK ==
    /\ \A s \in Sources : since[s] \in 0 .. MinInterval[s]
    /\ lock \in [Sources -> Tasks \cup {None}]
    /\ cache \in [Sources -> [items : SUBSET Stories, age : Nat] \cup {None}]
    /\ \A s \in Sources : cache[s] # None => cache[s].age <= Ttl[s]
    /\ {day, briefing} \subseteq Blob \cup {None}
    /\ known \subseteq Stories
    /\ task \in [Tasks -> [op : {"none", "collect", "brief"},
                           pc : {"idle", "limit", "sleep", "http",
                                 "load", "save", "read", "write"},
                           source : Sources, wait : Nat,
                           batch : [Sources -> SUBSET Stories],
                           late : BOOLEAN, items : SUBSET Item,
                           mayReplace : BOOLEAN]]

Init ==
    /\ since = MinInterval
    /\ lock = [s \in Sources |-> None]
    /\ cache = [s \in Sources |-> None]
    /\ day = None
    /\ briefing = None
    /\ known = {}
    /\ task = [t \in Tasks |-> Idle]

-----------------------------------------------------------------------------
At(t, pc) == task[t].pc = pc

Become(t, r) == task' = [task EXCEPT ![t] = r]

Source(t) == task[t].source

\* The items of a batch, each story from the first source that has it.
Unique(batch) ==
    {i \in Item : /\ i.story \in batch[i.source]
                  /\ \A s \in 1 .. i.source - 1 : i.story \notin batch[s]}

\* DailyBriefing: filtered by score and cut, best first.
Highlights(items) ==
    LET relevant == {i \in items : Score[i.source][i.story] >= MinScore}
        Best(h) == \A i \in h, j \in relevant \ h :
                       Score[i.source][i.story] >= Score[j.source][j.story]
    IN  {h \in SUBSET relevant :
            /\ Best(h)
            /\ Cardinality(h) = Min({Cardinality(relevant), MaxHighlights})}

\* The sources after s in turn, as long as the cache answers for them; then the
\* next request, or what the batch is for.  There is no await in between.
FetchFrom(t, r, s) ==
    LET missing == {x \in Sources : x > s /\ cache[x] = None}
        batch == [x \in Sources |->
                     IF x > s /\ \A m \in missing : x < m
                     THEN cache[x].items ELSE r.batch[x]]
    IN  \/ \E next \in missing :
             /\ \A s2 \in missing : next <= s2
             /\ Become(t, [r EXCEPT !.batch = batch, !.source = next, !.pc = "limit"])
        \/ /\ missing = {}
           /\ r.op = "collect"
           /\ Become(t, [r EXCEPT !.batch = batch, !.source = 1, !.pc = "load",
                                  !.late = FALSE])
        \/ /\ missing = {}
           /\ r.op # "collect"
           /\ \E h \in Highlights(Unique(batch)) :
                Become(t, [r EXCEPT !.batch = NoBatch, !.source = 1, !.pc = "write",
                                    !.items = h])

\* The turn of t's source ends with these stories.
Fetched(t, stories) ==
    FetchFrom(t, [task[t] EXCEPT !.batch[Source(t)] = stories], Source(t))

-----------------------------------------------------------------------------
(* SourceConnector.fetch; an expired answer is dropped when it expires. *)

\* Mutation: without the lock.
EnterLimiter_Unlocked(t) ==
    /\ At(t, "limit")
    /\ lock' = [lock EXCEPT ![Source(t)] = t]
    /\ Become(t, [task[t] EXCEPT !.pc = "sleep", !.wait = MinInterval[Source(t)] - since[Source(t)]])
    /\ UNCHANGED <<since, cache, store>>

\* _rate_limit: with the lock, work out how long to sleep.  (With the lock free and
\* nothing to wait for the code does not yield; here it may.)
EnterLimiter(t) ==
    /\ At(t, "limit")
    /\ lock[Source(t)] = None
    /\ lock' = [lock EXCEPT ![Source(t)] = t]
    /\ Become(t, [task[t] EXCEPT !.pc = "sleep", !.wait = MinInterval[Source(t)] - since[Source(t)]])
    /\ UNCHANGED <<since, cache, store>>

\* Mutation: the lock is never released.
SendRequest_KeepLock(t) ==
    /\ At(t, "sleep")
    /\ task[t].wait = 0
    /\ since' = [since EXCEPT ![Source(t)] = 0]
    /\ Become(t, [task[t] EXCEPT !.pc = "http"])
    /\ UNCHANGED <<lock, cache, store>>

\* The sleep over: note the time, leave the lock, send the request.
SendRequest(t) ==
    /\ At(t, "sleep")
    /\ task[t].wait = 0
    /\ since' = [since EXCEPT ![Source(t)] = 0]
    /\ lock' = [lock EXCEPT ![Source(t)] = None]
    /\ Become(t, [task[t] EXCEPT !.pc = "http"])
    /\ UNCHANGED <<cache, store>>

Answer(t) ==
    /\ At(t, "http")
    /\ \E stories \in Content[Source(t)] :
        /\ cache' = [cache EXCEPT ![Source(t)] = [items |-> stories, age |-> 0]]
        /\ Fetched(t, stories)
    /\ UNCHANGED <<since, lock, store>>

\* RSSConnector._fetch and HackerNewsConnector.fetch_top catch the failure of a single
\* request: what the others brought, which may be nothing, is cached like an answer.
PartOfAnswer(t) ==
    /\ At(t, "http")
    /\ Source(t) \in Collecting
    /\ \E whole \in Content[Source(t)] : \E stories \in SUBSET whole :
        /\ cache' = [cache EXCEPT ![Source(t)] = [items |-> stories, age |-> 0]]
        /\ Fetched(t, stories)
    /\ UNCHANGED <<since, lock, store>>

\* Mutation: the empty list is cached like an answer.
NoAnswer_Cached(t) ==
    /\ At(t, "http")
    /\ cache' = [cache EXCEPT ![Source(t)] = [items |-> {}, age |-> 0]]
    /\ Fetched(t, {})
    /\ UNCHANGED <<since, lock, store>>

\* A network or parsing error, or the client's timeout, that leaves _fetch: no items,
\* nothing cached.
NoAnswer(t) ==
    /\ At(t, "http")
    /\ Fetched(t, {})
    /\ UNCHANGED <<connector, store>>

-----------------------------------------------------------------------------
(* ResearchCollector.collect and ResearchItemStore.store_items *)

StartCollect(t) ==
    /\ At(t, "idle")
    /\ FetchFrom(t, [Idle EXCEPT !.op = "collect"], 0)
    /\ UNCHANGED <<connector, store>>

\* envelope.decrypt() of an object: only what envelope.encrypt() made.
Decrypts(blob) == blob # None /\ blob.layout = "encrypted"

\* _load_date: an object that is missing or does not decrypt has no items.
Readable(blob) == IF Decrypts(blob) THEN blob.items ELSE {}

StoriesOf(items) == {i.story : i \in items}

\* Mutation: saves even when there is nothing new.
MergeBatch_AlwaysSave(t) ==
    /\ At(t, "load")
    /\ LET existing == Readable(day)
           new == {i \in Unique(task[t].batch) :
                      i.story \notin known \cup StoriesOf(existing)}
       IN  Become(t, [task[t] EXCEPT !.pc = "save", !.batch = NoBatch,
                                     !.items = existing \cup new])
    /\ UNCHANGED <<connector, store>>

\* The day's items and the known fingerprints are read, and the batch merged in.
MergeBatch(t) ==
    /\ At(t, "load")
    /\ LET existing == Readable(day)
           new == {i \in Unique(task[t].batch) :
                      i.story \notin known \cup StoriesOf(existing)}
       IN  IF new = {}
           THEN Become(t, Idle)
           ELSE Become(t, [task[t] EXCEPT !.pc = "save", !.batch = NoBatch,
                                          !.items = existing \cup new])
    /\ UNCHANGED <<connector, store>>

SaveDate(t) ==
    /\ At(t, "save")
    /\ LET blob == [layout |-> "sealed", items |-> task[t].items]
       IN  IF task[t].late
           THEN known' = known \cup StoriesOf(Readable(blob)) /\ UNCHANGED day
           ELSE day' = blob /\ UNCHANGED known
    /\ Become(t, Idle)
    /\ UNCHANGED <<connector, briefing>>

-----------------------------------------------------------------------------
(* DailyBriefing *)

StartGenerate(t) ==
    /\ At(t, "idle")
    /\ FetchFrom(t, [Idle EXCEPT !.op = "brief", !.mayReplace = TRUE], 0)
    /\ UNCHANGED <<connector, store>>

\* For today's date or an earlier one.
StartGet(t) ==
    /\ At(t, "idle")
    /\ \E late \in BOOLEAN :
        Become(t, [Idle EXCEPT !.op = "brief", !.pc = "read", !.late = late,
                               !.mayReplace = (briefing = None)])
    /\ UNCHANGED <<connector, store>>

\* Stored, or missing for a date that is over: the call returns or raises.
ReadBriefing(t) ==
    /\ At(t, "read")
    /\ Decrypts(briefing) \/ task[t].late
    /\ Become(t, Idle)
    /\ UNCHANGED <<connector, store>>

\* Mutation: any failure of the read leads to a new briefing.
MissBriefing_AnyError(t) ==
    /\ At(t, "read")
    /\ ~task[t].late
    /\ FetchFrom(t, task[t], 0)
    /\ UNCHANGED <<connector, store>>

\* Only RecordNotFoundError leads to a new briefing.
MissBriefing(t) ==
    /\ At(t, "read")
    /\ briefing = None
    /\ ~task[t].late
    /\ FetchFrom(t, task[t], 0)
    /\ UNCHANGED <<connector, store>>

SaveBriefing(t) ==
    /\ At(t, "write")
    /\ briefing' = IF task[t].late THEN briefing
                   ELSE [layout |-> "encrypted", items |-> task[t].items]
    /\ Become(t, Idle)
    /\ UNCHANGED <<connector, day, known>>

\* A storage or key error reaches the caller (the scheduler's wrapper logs it).
StorageFails(t) ==
    /\ \E pc \in {"load", "save", "read", "write"} : At(t, pc)
    /\ Become(t, Idle)
    /\ UNCHANGED <<connector, store>>

-----------------------------------------------------------------------------
Tick ==
    /\ since' = [s \in Sources |-> Min({since[s] + 1, MinInterval[s]})]
    /\ cache' = [s \in Sources |->
                    IF cache[s] = None \/ cache[s].age = Ttl[s] THEN None
                    ELSE [cache[s] EXCEPT !.age = cache[s].age + 1]]
    /\ task' = [t \in Tasks |-> [task[t] EXCEPT !.wait = IF task[t].wait = 0 THEN 0
                                                         ELSE task[t].wait - 1]]
    /\ UNCHANGED <<lock, store>>

\* The date changes: a call that has taken the date keeps the one it took.
Midnight ==
    /\ day' = None
    /\ briefing' = None
    /\ known' = known \cup StoriesOf(Readable(day))
    /\ task' = [t \in Tasks |->
                  IF task[t].op = "brief" \/ At(t, "load") \/ At(t, "save")
                  THEN [task[t] EXCEPT !.late = TRUE] ELSE task[t]]
    /\ UNCHANGED connector

Proceed(t) ==
    \/ SendRequest(t)
    \/ Answer(t)
    \/ PartOfAnswer(t)
    \/ NoAnswer(t)
    \/ MergeBatch(t)
    \/ SaveDate(t)
    \/ ReadBriefing(t)
    \/ MissBriefing(t)
    \/ SaveBriefing(t)
    \/ StorageFails(t)

Next ==
    \/ \E t \in Tasks : \/ StartCollect(t)
                        \/ StartGenerate(t)
                        \/ StartGet(t)
                        \/ EnterLimiter(t)
                        \/ Proceed(t)
    \/ Tick
    \/ Midnight

Spec == Init /\ [][Next]_vars

\* The event loop runs what is ready, a request ends by answer or by the client's
\* timeout, time passes, and asyncio.Lock serves its waiters in turn.
Fairness ==
    /\ \A t \in Tasks : WF_vars(Proceed(t)) /\ SF_vars(EnterLimiter(t))
    /\ WF_vars(Tick)

FairSpec == Spec /\ Fairness

-----------------------------------------------------------------------------
(* Properties *)

Sends(t) == At(t, "sleep") /\ task'[t].pc = "http"

\* Whatever the number of tasks, two requests to one source are at least
\* MinInterval apart (the lock of _rate_limit is held while it sleeps).
RequestsSpaced ==
    [][\A t \in Tasks : Sends(t) => since[Source(t)] = MinInterval[Source(t)]]_vars

\* A connector that asks once serves from its cache what the source answered: a request
\* that failed is tried again by the next fetch, not remembered for the hour.  A connector
\* that puts its answer together may serve part of one for the hour, but nothing else.
CacheHoldsAnswers ==
    \A s \in Sources : cache[s] # None =>
        \E whole \in Content[s] :
            /\ cache[s].items \subseteq whole
            /\ s \notin Collecting => cache[s].items = whole

\* A collection cycle in which every source fails leaves the stored day alone
\* (a new date starts without an object).
OutageErasesNothing ==
    [][day # None => day' = None \/ day'.items # {}]_vars

Replaces(t) ==
    At(t, "write") /\ task'[t].pc = "idle" /\ briefing # None /\ briefing' # briefing

\* get_briefing() never replaces the briefing that was stored when it was called,
\* not even when storage fails to return it.
GetNeverReplaces ==
    [][\A t \in Tasks : Replaces(t) => task[t].mayReplace]_vars

\* Every cycle and every briefing ends, whatever the sources do: a failed request
\* leaves no lock behind it.
CyclesEnd == \A t \in Tasks : ~At(t, "idle") ~> At(t, "idle")

\* ResearchItemStore.store_items keeps the items stored earlier the same day.
DayKeepsItems ==
    [][day # None /\ day' # None =>
            StoriesOf(day.items) \subseteq StoriesOf(day'.items)]_vars
=============================================================================
