------------------------------ MODULE ResearchProofs ------------------------------
(***************************************************************************)
(* Proofs about Research, ResearchSources and DeepResearch, for any tasks, *)
(* sources, answers, times and scores.                                     *)
(*                                                                         *)
(* Deep research: what was asked for is the topic or a term that is known  *)
(* and not yet among those of the next level, and of the queries of this   *)
(* level only those whose turn is over were sent; that bounds the requests *)
(* and keeps them distinct.  A report is made in one step: the items       *)
(* sorted, the first of each story, the first MaxFindings of those.        *)
(***************************************************************************)
EXTENDS Research, ResearchSources, DeepResearch, ListProofs

-----------------------------------------------------------------------------
(* The tasks of a program: types *)

TaskState == [op : {"none", "collect", "brief"},
              pc : {"idle", "limit", "sleep", "http", "load", "save", "read", "write"},
              source : Sources, wait : Nat,
              batch : [Sources -> SUBSET Stories],
              late : BOOLEAN, items : SUBSET Item,
              mayReplace : BOOLEAN]

\* The cache entry of one source.
Entry == [items : SUBSET Stories, age : Nat]

ConnectorOK ==
    /\ since \in [Sources -> Nat]
    /\ \A s \in Sources : since[s] <= MinInterval[s]
    /\ lock \in [Sources -> Tasks \cup {None}]
    /\ cache \in [Sources -> Entry \cup {None}]

StoreOK ==
    /\ day \in Blob \cup {None}
    /\ briefing \in Blob \cup {None}
    /\ known \subseteq Stories

\* Who sleeps in a rate limiter has its lock, and will wake when the interval is over.
Sleeps ==
    \A t \in Tasks : At(t, "sleep") =>
        /\ lock[Source(t)] = t
        /\ task[t].wait = MinInterval[Source(t)] - since[Source(t)]

\* Only what has something new is saved, and only what may replace the briefing asks the
\* sources for one.
MayFetch(q) == q.op = "collect" \/ q.mayReplace = TRUE

Fits(q) ==
    /\ q.pc = "save" => q.items # {}
    /\ q.pc \in {"limit", "sleep", "http", "write"} => MayFetch(q)
    /\ q.pc = "write" => q.op # "collect"
    /\ q.pc = "read" => q.op = "brief"

TasksFit == \A t \in Tasks : Fits(task[t])

\* A reader that found a briefing of today when it was called still has one to find.
Reads ==
    \A t \in Tasks : At(t, "read") =>
        task[t].mayReplace = TRUE \/ task[t].late = TRUE \/ briefing # None

DayHasItems == day # None => day.items # {}

ResearchInv ==
    /\ ConnectorOK /\ StoreOK /\ task \in [Tasks -> TaskState]
    /\ Sleeps /\ CacheHoldsAnswers
    /\ TasksFit /\ Reads /\ DayHasItems

\* Sources are numbered from 1, and what they may answer are sets of stories.
LEMMA SourcesFacts ==
  /\ 1 \in Sources /\ Sources \subseteq Nat
  /\ \A s \in Sources : Content[s] \subseteq SUBSET Stories
<1>1. Content \in Seq(SUBSET SUBSET Stories) /\ Content # <<>>
  BY ContentAssumption
<1>2. Sources = 1 .. Len(Content) /\ Len(Content) \in Nat
  BY <1>1 DEF Sources
<1>3. Len(Content) # 0
  BY <1>1
<1>4. QED
  BY <1>1, <1>2, <1>3

LEMMA MinOfTwo ==
  ASSUME NEW m \in Nat, NEW n \in Nat
  PROVE  Min({m, n}) = IF m <= n THEN m ELSE n
  BY DEF Min

LEMMA IdleOK == Idle \in TaskState /\ Idle.pc = "idle"
  BY SourcesFacts DEF Idle, TaskState, NoBatch

LEMMA ResearchInvInit == Init => ResearchInv
<1> SUFFICES ASSUME Init
             PROVE  ResearchInv
  OBVIOUS
<1>1. ConnectorOK
  BY TimesAssumption DEF Init, ConnectorOK
<1>2. StoreOK
  BY DEF Init, StoreOK
<1>3. task \in [Tasks -> TaskState] /\ \A t \in Tasks : task[t].pc = "idle"
  BY IdleOK DEF Init
<1>4. Sleeps /\ CacheHoldsAnswers
  BY <1>3 DEF Init, Sleeps, At, CacheHoldsAnswers
<1>5. TasksFit /\ Reads /\ DayHasItems
  BY <1>3 DEF Init, TasksFit, Fits, Reads, At, DayHasItems
<1>6. QED
  BY <1>1, <1>2, <1>3, <1>4, <1>5 DEF ResearchInv

-----------------------------------------------------------------------------
(* The steps of one task *)

\* A task that does not go to sleep, whatever else it does, leaves the others asleep.
LEMMA BecomeKeeps ==
  ASSUME ResearchInv, NEW t \in Tasks, NEW r \in TaskState, Become(t, r), r.pc # "sleep",
         Fits(r), UNCHANGED <<since, lock>>
  PROVE  task' \in [Tasks -> TaskState] /\ Sleeps' /\ TasksFit'
<1>1. task' \in [Tasks -> TaskState]
  BY DEF Become, ResearchInv
<1>2. task'[t] = r /\ \A u \in Tasks \ {t} : task'[u] = task[u]
  BY DEF Become, ResearchInv
<1>3. Sleeps'
  BY <1>2 DEF ResearchInv, Sleeps, At, Source
<1>4. TasksFit'
  BY <1>2 DEF ResearchInv, TasksFit
<1>5. QED
  BY <1>1, <1>3, <1>4

\* Where a round over the sources leads: to the next request, or to what the batch is for.
LEMMA FetchLeads ==
  ASSUME ResearchInv, NEW t \in Tasks, NEW r \in TaskState, NEW s \in Nat, FetchFrom(t, r, s),
         MayFetch(r)
  PROVE  \E q \in TaskState : Become(t, q) /\ Fits(q) /\ q.pc \in {"limit", "load", "write"}
<1> DEFINE missing == {x \in Sources : x > s /\ cache[x] = None}
           batch == [x \in Sources |->
                        IF x > s /\ \A m \in missing : x < m
                        THEN cache[x].items ELSE r.batch[x]]
<1>1. batch \in [Sources -> SUBSET Stories]
  <2> SUFFICES ASSUME NEW x \in Sources, x > s, \A m \in missing : x < m
               PROVE  cache[x].items \in SUBSET Stories
    BY DEF TaskState
  <2>1. x \in Nat /\ ~(x < x)
    BY SourcesFacts
  <2>2. cache[x] # None
    BY <2>1
  <2>3. QED
    BY <2>2 DEF ResearchInv, ConnectorOK, Entry
<1>2. \/ \E next \in missing : Become(t, [r EXCEPT !.batch = batch, !.source = next, !.pc = "limit"])
      \/ Become(t, [r EXCEPT !.batch = batch, !.source = 1, !.pc = "load", !.late = FALSE])
      \/ /\ r.op # "collect"
         /\ \E h \in Highlights(Unique(batch)) :
              Become(t, [r EXCEPT !.batch = NoBatch, !.source = 1, !.pc = "write", !.items = h])
  BY DEF FetchFrom
<1> HIDE DEF batch
<1>3. ASSUME NEW next \in missing
      PROVE  /\ [r EXCEPT !.batch = batch, !.source = next, !.pc = "limit"] \in TaskState
             /\ [r EXCEPT !.batch = batch, !.source = next, !.pc = "limit"].pc = "limit"
             /\ Fits([r EXCEPT !.batch = batch, !.source = next, !.pc = "limit"])
  BY <1>1, <1>3 DEF TaskState, Fits, MayFetch
<1>4. /\ [r EXCEPT !.batch = batch, !.source = 1, !.pc = "load", !.late = FALSE] \in TaskState
      /\ [r EXCEPT !.batch = batch, !.source = 1, !.pc = "load", !.late = FALSE].pc = "load"
      /\ Fits([r EXCEPT !.batch = batch, !.source = 1, !.pc = "load", !.late = FALSE])
  BY <1>1, SourcesFacts DEF TaskState, Fits
<1>5. ASSUME r.op # "collect", NEW h \in Highlights(Unique(batch))
      PROVE  /\ [r EXCEPT !.batch = NoBatch, !.source = 1, !.pc = "write", !.items = h] \in TaskState
             /\ [r EXCEPT !.batch = NoBatch, !.source = 1, !.pc = "write", !.items = h].pc = "write"
             /\ Fits([r EXCEPT !.batch = NoBatch, !.source = 1, !.pc = "write", !.items = h])
  <2>1. h \subseteq Item
    BY DEF Highlights, Unique
  <2>2. NoBatch \in [Sources -> SUBSET Stories]
    BY DEF NoBatch
  <2>3. QED
    BY <1>5, <2>1, <2>2, SourcesFacts DEF TaskState, Fits, MayFetch
<1>6. QED
  BY <1>2, <1>3, <1>4, <1>5

LEMMA FetchKeeps ==
  ASSUME ResearchInv, NEW t \in Tasks, NEW r \in TaskState, NEW s \in Nat, FetchFrom(t, r, s),
         MayFetch(r), UNCHANGED <<since, lock>>
  PROVE  /\ task' \in [Tasks -> TaskState] /\ Sleeps' /\ TasksFit'
         /\ task'[t].pc \in {"limit", "load", "write"}
         /\ \A u \in Tasks \ {t} : task'[u] = task[u]
<1>1. PICK q \in TaskState : Become(t, q) /\ Fits(q) /\ q.pc \in {"limit", "load", "write"}
  BY FetchLeads
<1>2. task' \in [Tasks -> TaskState] /\ Sleeps' /\ TasksFit'
  BY <1>1, BecomeKeeps
<1>3. QED
  BY <1>1, <1>2 DEF Become, ResearchInv

\* What goes on beside a request leaves its task where it is.
SendsInTime == \A t \in Tasks : Sends(t) => since[Source(t)] = MinInterval[Source(t)]

LEMMA OthersDoNotSend ==
  ASSUME NEW t \in Tasks, \A u \in Tasks \ {t} : task'[u] = task[u],
         At(t, "sleep") => task'[t].pc # "http"
  PROVE  SendsInTime
  BY DEF SendsInTime, Sends, At

LEMMA EnterLimiterKeeps ==
  ASSUME ResearchInv, NEW t \in Tasks, EnterLimiter(t)
  PROVE  ResearchInv' /\ SendsInTime
<1> DEFINE r == [task[t] EXCEPT !.pc = "sleep", !.wait = MinInterval[Source(t)] - since[Source(t)]]
<1>1. /\ task[t] \in TaskState /\ Source(t) \in Sources
      /\ since \in [Sources -> Nat] /\ since[Source(t)] <= MinInterval[Source(t)]
      /\ lock \in [Sources -> Tasks \cup {None}]
  BY DEF ResearchInv, ConnectorOK, TaskState, Source
<1>2. MinInterval[Source(t)] - since[Source(t)] \in Nat
  BY <1>1, TimesAssumption
<1>3. /\ r \in TaskState /\ r.pc = "sleep" /\ r.source = Source(t)
      /\ r.wait = MinInterval[Source(t)] - since[Source(t)]
  BY <1>1, <1>2 DEF TaskState, Source
<1>4. /\ At(t, "limit") /\ lock[Source(t)] = None
      /\ lock' = [lock EXCEPT ![Source(t)] = t]
      /\ task' = [task EXCEPT ![t] = r]
      /\ UNCHANGED <<since, cache, day, briefing, known>>
  BY DEF EnterLimiter, Become, store
<1> HIDE DEF r
<1>5. task' \in [Tasks -> TaskState]
  BY <1>3, <1>4 DEF ResearchInv
<1>6. ConnectorOK' /\ StoreOK' /\ CacheHoldsAnswers'
  BY <1>1, <1>4 DEF ResearchInv, ConnectorOK, StoreOK, CacheHoldsAnswers
<1>7. Sleeps'
  <2> SUFFICES ASSUME NEW u \in Tasks, At(u, "sleep")'
               PROVE  /\ lock'[Source(u)'] = u
                      /\ task'[u].wait = MinInterval[Source(u)'] - since'[Source(u)']
    BY DEF Sleeps
  <2>1. CASE u = t
    BY <1>1, <1>3, <1>4, <2>1 DEF ResearchInv, Source
  <2>2. CASE u # t
    <3>1. task'[u] = task[u] /\ At(u, "sleep")
      BY <1>4, <2>2 DEF ResearchInv, At
    <3>2. lock[Source(u)] = u /\ task[u].wait = MinInterval[Source(u)] - since[Source(u)]
      BY <3>1 DEF ResearchInv, Sleeps
    <3>3. Source(u) # Source(t)
      BY <1>4, <3>2, NoneAssumption
    <3>4. QED
      BY <1>1, <1>4, <3>1, <3>2, <3>3 DEF Source
  <2>3. QED
    BY <2>1, <2>2
<1>8. SendsInTime
  <2>1. \A u \in Tasks \ {t} : task'[u] = task[u]
    BY <1>4 DEF ResearchInv
  <2>2. ~At(t, "sleep")
    BY <1>4 DEF At
  <2>3. QED
    BY <2>1, <2>2, OthersDoNotSend
<1>9. TasksFit' /\ Reads' /\ DayHasItems'
  <2>1. Fits(r)
    BY <1>1, <1>4 DEF r, At, ResearchInv, TasksFit, Fits, MayFetch, TaskState
  <2>2. QED
    BY <1>3, <1>4, <2>1 DEF ResearchInv, TasksFit, Reads, At, DayHasItems
<1>10. QED
  BY <1>5, <1>6, <1>7, <1>8, <1>9 DEF ResearchInv

LEMMA SendRequestKeeps ==
  ASSUME ResearchInv, NEW t \in Tasks, SendRequest(t)
  PROVE  ResearchInv' /\ SendsInTime
<1> DEFINE r == [task[t] EXCEPT !.pc = "http"]
<1>1. /\ task[t] \in TaskState /\ Source(t) \in Sources
      /\ since \in [Sources -> Nat] /\ since[Source(t)] <= MinInterval[Source(t)]
      /\ lock \in [Sources -> Tasks \cup {None}]
  BY DEF ResearchInv, ConnectorOK, TaskState, Source
<1>2. r \in TaskState /\ r.pc = "http"
  BY <1>1 DEF TaskState
<1>3. /\ At(t, "sleep") /\ task[t].wait = 0
      /\ since' = [since EXCEPT ![Source(t)] = 0]
      /\ lock' = [lock EXCEPT ![Source(t)] = None]
      /\ task' = [task EXCEPT ![t] = r]
      /\ UNCHANGED <<cache, day, briefing, known>>
  BY DEF SendRequest, Become, store
<1> HIDE DEF r
<1>4. task' \in [Tasks -> TaskState]
  BY <1>2, <1>3 DEF ResearchInv
<1>5. ConnectorOK'
  <2>1. since' \in [Sources -> Nat]
    BY <1>1, <1>3
  <2>2. \A s \in Sources : since'[s] <= MinInterval[s]
    <3> TAKE s \in Sources
    <3>1. MinInterval[s] \in Nat /\ since[s] <= MinInterval[s]
      BY TimesAssumption DEF ResearchInv, ConnectorOK
    <3>2. since'[s] = IF s = Source(t) THEN 0 ELSE since[s]
      BY <1>1, <1>3
    <3>3. QED
      BY <3>1, <3>2
  <2>3. QED
    BY <1>1, <1>3, <2>1, <2>2 DEF ResearchInv, ConnectorOK
<1>6. StoreOK' /\ CacheHoldsAnswers'
  BY <1>3 DEF ResearchInv, StoreOK, CacheHoldsAnswers
<1>7. /\ lock[Source(t)] = t
      /\ task[t].wait = MinInterval[Source(t)] - since[Source(t)]
  BY <1>3 DEF ResearchInv, Sleeps
<1>8. Sleeps'
  <2> SUFFICES ASSUME NEW u \in Tasks, At(u, "sleep")'
               PROVE  /\ lock'[Source(u)'] = u
                      /\ task'[u].wait = MinInterval[Source(u)'] - since'[Source(u)']
    BY DEF Sleeps
  <2>1. u # t
    BY <1>2, <1>3 DEF ResearchInv, At
  <2>2. task'[u] = task[u] /\ At(u, "sleep")
    BY <1>3, <2>1 DEF ResearchInv, At
  <2>3. lock[Source(u)] = u /\ task[u].wait = MinInterval[Source(u)] - since[Source(u)]
    BY <2>2 DEF ResearchInv, Sleeps
  <2>4. Source(u) # Source(t) /\ Source(u) \in Sources
    BY <1>7, <2>1, <2>3 DEF Source, ResearchInv, TaskState
  <2>5. QED
    BY <1>1, <1>3, <2>2, <2>3, <2>4 DEF Source
<1>9. SendsInTime
  <2>1. since[Source(t)] = MinInterval[Source(t)]
    <3>1. since[Source(t)] \in Nat /\ MinInterval[Source(t)] \in Nat
      BY <1>1, TimesAssumption
    <3>2. MinInterval[Source(t)] - since[Source(t)] = 0
      BY <1>3, <1>7
    <3>3. QED
      BY <3>1, <3>2
  <2>2. \A u \in Tasks \ {t} : ~Sends(u)
    BY <1>3 DEF ResearchInv, Sends, At
  <2>3. QED
    BY <2>1, <2>2 DEF SendsInTime
<1>10. TasksFit' /\ Reads' /\ DayHasItems'
  <2>1. Fits(r)
    BY <1>1, <1>3 DEF r, At, ResearchInv, TasksFit, Fits, MayFetch, TaskState
  <2>2. QED
    BY <1>2, <1>3, <2>1 DEF ResearchInv, TasksFit, Reads, At, DayHasItems
<1>11. QED
  BY <1>4, <1>5, <1>6, <1>8, <1>9, <1>10 DEF ResearchInv

\* Every other step of a task leaves the rate limiters and what sleeps in them alone.
LEMMA TaskKeeps ==
  ASSUME ResearchInv, NEW t \in Tasks, UNCHANGED <<since, lock>>,
         cache' \in [Sources -> Entry \cup {None}], CacheHoldsAnswers', StoreOK',
         DayHasItems', briefing # None => briefing' # None,
         task'[t].pc = "read" =>
            task'[t].mayReplace = TRUE \/ task'[t].late = TRUE \/ briefing' # None,
         ~At(t, "sleep") \/ task'[t].pc # "http",
         \/ \E r \in TaskState : Become(t, r) /\ Fits(r) /\ r.pc # "sleep"
         \/ \E r \in TaskState, s \in Nat : FetchFrom(t, r, s) /\ MayFetch(r)
  PROVE  ResearchInv' /\ SendsInTime
<1>1. ConnectorOK'
  BY DEF ResearchInv, ConnectorOK
<1>2. /\ task' \in [Tasks -> TaskState] /\ Sleeps' /\ TasksFit'
      /\ \A u \in Tasks \ {t} : task'[u] = task[u]
  <2>1. CASE \E r \in TaskState : Become(t, r) /\ Fits(r) /\ r.pc # "sleep"
    BY <2>1, BecomeKeeps DEF Become, ResearchInv
  <2>2. CASE \E r \in TaskState, s \in Nat : FetchFrom(t, r, s) /\ MayFetch(r)
    BY <2>2, FetchKeeps
  <2>3. QED
    BY <2>1, <2>2
<1>3. SendsInTime
  BY <1>2, OthersDoNotSend
<1>4. Reads'
  BY <1>2 DEF ResearchInv, Reads, At
<1>5. QED
  BY <1>1, <1>2, <1>3, <1>4 DEF ResearchInv

\* What a task goes on with after a source has been asked.
LEMMA FetchedState ==
  ASSUME ResearchInv, NEW t \in Tasks, NEW stories \in SUBSET Stories
  PROVE  /\ [task[t] EXCEPT !.batch[Source(t)] = stories] \in TaskState
         /\ At(t, "http") => MayFetch([task[t] EXCEPT !.batch[Source(t)] = stories])
         /\ Source(t) \in Sources /\ Source(t) \in Nat
<1>1. task[t] \in TaskState
  BY DEF ResearchInv
<1>2. task[t].batch \in [Sources -> SUBSET Stories] /\ task[t].source \in Sources
  BY <1>1 DEF TaskState
<1>3. [task[t].batch EXCEPT ![Source(t)] = stories] \in [Sources -> SUBSET Stories]
  BY <1>2 DEF Source
<1>4. [task[t] EXCEPT !.batch = [task[t].batch EXCEPT ![Source(t)] = stories]] \in TaskState
  BY <1>1, <1>3 DEF TaskState
<1>5. At(t, "http") => MayFetch([task[t] EXCEPT !.batch = [task[t].batch EXCEPT ![Source(t)] = stories]])
  BY <1>1 DEF ResearchInv, TasksFit, Fits, MayFetch, At, TaskState
<1>6. QED
  BY <1>2, <1>4, <1>5, SourcesFacts DEF Source

LEMMA AnswerKeeps ==
  ASSUME ResearchInv, NEW t \in Tasks, Answer(t) \/ PartOfAnswer(t) \/ NoAnswer(t)
  PROVE  ResearchInv' /\ SendsInTime
<1>1. At(t, "http") /\ ~At(t, "sleep") /\ UNCHANGED <<since, lock, day, briefing, known>>
  BY DEF Answer, PartOfAnswer, NoAnswer, At, store, connector
<1>2. StoreOK' /\ DayHasItems'
  BY <1>1 DEF ResearchInv, StoreOK, DayHasItems
<1>3. PICK stories \in SUBSET Stories :
        /\ Fetched(t, stories)
        /\ \/ /\ \E whole \in Content[Source(t)] :
                    /\ stories \subseteq whole
                    /\ Source(t) \notin Collecting => stories = whole
              /\ cache' = [cache EXCEPT ![Source(t)] = [items |-> stories, age |-> 0]]
           \/ cache' = cache
  <2>1. CASE NoAnswer(t)
    BY <2>1 DEF NoAnswer, connector
  <2>2. CASE Answer(t)
    <3>1. Content[Source(t)] \subseteq SUBSET Stories
      BY SourcesFacts, FetchedState
    <3>2. QED
      BY <2>2, <3>1 DEF Answer
  <2>3. CASE PartOfAnswer(t)
    <3>1. Content[Source(t)] \subseteq SUBSET Stories
      BY SourcesFacts, FetchedState
    <3>2. QED
      BY <2>3, <3>1 DEF PartOfAnswer
  <2>4. QED
    BY <2>1, <2>2, <2>3
<1> DEFINE entry == [items |-> stories, age |-> 0]
<1>4. entry \in Entry /\ entry.items = stories
  BY DEF Entry
<1> HIDE DEF entry
<1>5. cache' \in [Sources -> Entry \cup {None}] /\ CacheHoldsAnswers'
  <2>1. cache \in [Sources -> Entry \cup {None}] /\ CacheHoldsAnswers
    BY DEF ResearchInv, ConnectorOK
  <2>2. CASE cache' = cache
    BY <2>1, <2>2 DEF CacheHoldsAnswers
  <2>3. CASE /\ \E whole \in Content[Source(t)] :
                   /\ stories \subseteq whole
                   /\ Source(t) \notin Collecting => stories = whole
             /\ cache' = [cache EXCEPT ![Source(t)] = entry]
    <3>1. cache' \in [Sources -> Entry \cup {None}]
      BY <1>4, <2>1, <2>3
    <3>2. \A s \in Sources : cache'[s] = IF s = Source(t) THEN entry ELSE cache[s]
      BY <2>1, <2>3
    <3>3. QED
      BY <1>4, <2>1, <2>3, <3>1, <3>2 DEF CacheHoldsAnswers
  <2>4. QED
    BY <1>3, <2>2, <2>3 DEF entry
<1>6. PICK r \in TaskState, s \in Nat : FetchFrom(t, r, s) /\ MayFetch(r)
  BY <1>1, <1>3, FetchedState DEF Fetched
<1>7. task'[t].pc # "read"
  BY <1>1, <1>6, FetchKeeps
<1>8. QED
  BY <1>1, <1>2, <1>5, <1>6, <1>7, TaskKeeps

\* Of a stored object that can be read, the items.
LEMMA ReadableItems ==
  ASSUME NEW blob \in Blob \cup {None}
  PROVE  Readable(blob) \in SUBSET Item
  BY DEF Readable, Decrypts, Blob

LEMMA StoriesAreStories ==
  ASSUME NEW items \in SUBSET Item
  PROVE  StoriesOf(items) \subseteq Stories
  BY DEF StoriesOf, Item

\* Starts, and the steps that neither ask a source nor write.
LEMMA QuietStepKeeps ==
  ASSUME ResearchInv, NEW t \in Tasks,
         \/ StartCollect(t) \/ StartGenerate(t) \/ StartGet(t) \/ MergeBatch(t)
         \/ ReadBriefing(t) \/ MissBriefing(t) \/ StorageFails(t)
  PROVE  ResearchInv' /\ SendsInTime
<1>1. ~At(t, "sleep") /\ UNCHANGED <<since, lock, cache, day, briefing, known>>
  BY DEF StartCollect, StartGenerate, StartGet, MergeBatch, ReadBriefing, MissBriefing,
         StorageFails, At, store, connector
<1>2. /\ cache' \in [Sources -> Entry \cup {None}] /\ CacheHoldsAnswers' /\ StoreOK'
      /\ DayHasItems' /\ task[t] \in TaskState
  BY <1>1 DEF ResearchInv, ConnectorOK, CacheHoldsAnswers, StoreOK, DayHasItems
<1>3. \/ \E r \in TaskState : /\ Become(t, r) /\ Fits(r) /\ r.pc # "sleep"
                              /\ r.pc = "read" => r.mayReplace = TRUE \/ briefing # None
      \/ \E r \in TaskState, s \in Nat : FetchFrom(t, r, s) /\ MayFetch(r)
  <2>1. CASE StartCollect(t)
    <3>1. [Idle EXCEPT !.op = "collect"] \in TaskState /\ MayFetch([Idle EXCEPT !.op = "collect"])
      BY IdleOK DEF TaskState, MayFetch
    <3>2. QED
      BY <2>1, <3>1 DEF StartCollect
  <2>2. CASE StartGenerate(t)
    <3>1. /\ [Idle EXCEPT !.op = "brief", !.mayReplace = TRUE] \in TaskState
          /\ MayFetch([Idle EXCEPT !.op = "brief", !.mayReplace = TRUE])
      BY IdleOK DEF TaskState, MayFetch
    <3>2. QED
      BY <2>2, <3>1 DEF StartGenerate
  <2>3. CASE StartGet(t)
    <3>1. PICK late \in BOOLEAN, may \in BOOLEAN :
            /\ may = (briefing = None)
            /\ Become(t, [Idle EXCEPT !.op = "brief", !.pc = "read", !.late = late, !.mayReplace = may])
      BY <2>3 DEF StartGet
    <3> DEFINE r == [Idle EXCEPT !.op = "brief", !.pc = "read", !.late = late, !.mayReplace = may]
    <3>2. /\ r \in TaskState /\ r.pc = "read" /\ r.op = "brief"
          /\ r.mayReplace = may
      BY IdleOK DEF TaskState
    <3> HIDE DEF r
    <3>3. Fits(r)
      BY <3>2 DEF Fits
    <3>4. r.mayReplace = TRUE \/ briefing # None
      BY <3>1, <3>2
    <3>5. QED
      BY <3>1, <3>2, <3>3, <3>4 DEF r
  <2>4. CASE MergeBatch(t)
    <3> DEFINE existing == Readable(day)
               new == {i \in Unique(task[t].batch) : i.story \notin known \cup StoriesOf(existing)}
               r == [task[t] EXCEPT !.pc = "save", !.batch = NoBatch, !.items = existing \cup new]
    <3>1. Become(t, Idle) \/ (new # {} /\ Become(t, r))
      BY <2>4 DEF MergeBatch
    <3>2. existing \in SUBSET Item /\ new \in SUBSET Item
      BY ReadableItems DEF Unique, ResearchInv, StoreOK
    <3>3. existing \cup new \in SUBSET Item /\ NoBatch \in [Sources -> SUBSET Stories]
      BY <3>2 DEF NoBatch
    <3> HIDE DEF existing, new
    <3>4. r \in TaskState /\ r.pc = "save" /\ r.items = existing \cup new
      BY <1>2, <3>3 DEF TaskState
    <3>5. new # {} => Fits(r)
      BY <3>4 DEF Fits
    <3>6. Fits(Idle)
      BY IdleOK DEF Fits
    <3>7. QED
      BY <3>1, <3>4, <3>5, <3>6, IdleOK
  <2>5. CASE ReadBriefing(t) \/ StorageFails(t)
    <3>1. Fits(Idle)
      BY IdleOK DEF Fits
    <3>2. QED
      BY <2>5, <3>1, IdleOK DEF ReadBriefing, StorageFails
  <2>6. CASE MissBriefing(t)
    <3>1. At(t, "read") /\ briefing = None /\ ~task[t].late /\ FetchFrom(t, task[t], 0)
      BY <2>6 DEF MissBriefing
    <3>2. task[t].late # TRUE
      BY <3>1
    <3>3. MayFetch(task[t])
      BY <3>1, <3>2 DEF ResearchInv, Reads, MayFetch
    <3>4. QED
      BY <1>2, <3>1, <3>3
  <2>7. QED
    BY <2>1, <2>2, <2>3, <2>4, <2>5, <2>6
<1>4. task'[t].pc = "read" => task'[t].mayReplace = TRUE \/ briefing' # None
  <2>1. CASE \E r \in TaskState : /\ Become(t, r)
                                  /\ r.pc = "read" => r.mayReplace = TRUE \/ briefing # None
    BY <1>1, <2>1 DEF Become, ResearchInv
  <2>2. CASE \E r \in TaskState, s \in Nat : FetchFrom(t, r, s) /\ MayFetch(r)
    BY <1>1, <2>2, FetchKeeps
  <2>3. QED
    BY <1>3, <2>1, <2>2
<1>5. ~At(t, "sleep") /\ (briefing # None => briefing' # None)
  BY <1>1
<1>6. QED
  BY <1>1, <1>2, <1>3, <1>4, <1>5, TaskKeeps

\* The two writes.
LEMMA SaveKeeps ==
  ASSUME ResearchInv, NEW t \in Tasks, SaveDate(t) \/ SaveBriefing(t)
  PROVE  ResearchInv' /\ SendsInTime
<1>1. /\ ~At(t, "sleep") /\ Become(t, Idle)
      /\ UNCHANGED <<since, lock, cache>>
  BY DEF SaveDate, SaveBriefing, At, connector
<1>2. /\ cache' \in [Sources -> Entry \cup {None}] /\ CacheHoldsAnswers'
      /\ task[t] \in TaskState
  BY <1>1 DEF ResearchInv, ConnectorOK, CacheHoldsAnswers
<1>3. task[t].items \in SUBSET Item
  BY <1>2 DEF TaskState
<1>4. /\ [layout |-> "sealed", items |-> task[t].items] \in Blob
      /\ [layout |-> "encrypted", items |-> task[t].items] \in Blob
  BY <1>3 DEF Blob
<1>5. StoreOK' /\ DayHasItems' /\ (briefing # None => briefing' # None)
  <2>1. CASE SaveDate(t)
    <3>1. StoriesOf(Readable([layout |-> "sealed", items |-> task[t].items])) \subseteq Stories
      BY <1>4, ReadableItems, StoriesAreStories
    <3>2. task[t].items # {}
      BY <2>1 DEF SaveDate, At, ResearchInv, TasksFit, Fits
    <3>3. QED
      BY <1>4, <2>1, <3>1, <3>2 DEF SaveDate, ResearchInv, StoreOK, DayHasItems
  <2>2. CASE SaveBriefing(t)
    <3>1. [layout |-> "encrypted", items |-> task[t].items] # None
      BY <1>4, NoneAssumption
    <3>2. QED
      BY <1>4, <2>2, <3>1 DEF SaveBriefing, ResearchInv, StoreOK, DayHasItems
  <2>3. QED
    BY <2>1, <2>2
<1>6. Fits(Idle) /\ task'[t].pc # "read"
  BY <1>1, IdleOK DEF Fits, Become, ResearchInv
<1>7. QED
  BY <1>1, <1>2, <1>5, <1>6, IdleOK, TaskKeeps

-----------------------------------------------------------------------------
(* The clock *)

LEMMA TickKeepsResearch ==
  ASSUME ResearchInv, Tick
  PROVE  ResearchInv' /\ SendsInTime
<1>1. /\ since' = [s \in Sources |-> Min({since[s] + 1, MinInterval[s]})]
      /\ cache' = [s \in Sources |->
                      IF cache[s] = None \/ cache[s].age = Ttl[s] THEN None
                      ELSE [cache[s] EXCEPT !.age = cache[s].age + 1]]
      /\ task' = [t \in Tasks |-> [task[t] EXCEPT !.wait = IF task[t].wait = 0 THEN 0
                                                           ELSE task[t].wait - 1]]
      /\ UNCHANGED <<lock, day, briefing, known>>
  BY DEF Tick, store
<1>2. /\ since \in [Sources -> Nat] /\ MinInterval \in [Sources -> Nat]
      /\ \A s \in Sources : since[s] <= MinInterval[s]
      /\ lock \in [Sources -> Tasks \cup {None}]
      /\ cache \in [Sources -> Entry \cup {None}]
      /\ task \in [Tasks -> TaskState]
  BY TimesAssumption DEF ResearchInv, ConnectorOK
<1>3. \A s \in Sources :
        since'[s] = IF since[s] + 1 <= MinInterval[s] THEN since[s] + 1 ELSE MinInterval[s]
  <2> TAKE s \in Sources
  <2>1. since[s] + 1 \in Nat /\ MinInterval[s] \in Nat
    BY <1>2
  <2>2. since'[s] = Min({since[s] + 1, MinInterval[s]})
    BY <1>1
  <2>3. QED
    BY <2>1, <2>2, MinOfTwo
<1>4. since' \in [Sources -> Nat] /\ \A s \in Sources : since'[s] <= MinInterval[s]
  <2>1. since' = [s \in Sources |-> since'[s]]
    BY <1>1
  <2>2. \A s \in Sources : since'[s] \in Nat /\ since'[s] <= MinInterval[s]
    BY <1>2, <1>3
  <2>3. QED
    BY <2>1, <2>2
<1>5. \A s \in Sources : cache'[s] # None =>
        /\ cache[s] # None /\ cache'[s] \in Entry
        /\ cache'[s].items = cache[s].items
  BY <1>1, <1>2 DEF Entry
<1>6. cache' \in [Sources -> Entry \cup {None}] /\ CacheHoldsAnswers'
  <2>1. cache' = [s \in Sources |-> cache'[s]]
    BY <1>1
  <2>2. QED
    BY <1>5, <2>1 DEF CacheHoldsAnswers, ResearchInv
<1>7. \A t \in Tasks :
        /\ task'[t] \in TaskState
        /\ task'[t].pc = task[t].pc /\ task'[t].source = task[t].source
        /\ task'[t].op = task[t].op /\ task'[t].items = task[t].items
        /\ task'[t].mayReplace = task[t].mayReplace /\ task'[t].late = task[t].late
        /\ task'[t].wait = IF task[t].wait = 0 THEN 0 ELSE task[t].wait - 1
  <2> TAKE t \in Tasks
  <2> DEFINE left == IF task[t].wait = 0 THEN 0 ELSE task[t].wait - 1
  <2>1. task[t] \in TaskState
    BY <1>2
  <2>2. left \in Nat
    BY <2>1 DEF TaskState
  <2>3. task'[t] = [task[t] EXCEPT !.wait = left]
    BY <1>1
  <2> HIDE DEF left
  <2>4. /\ task'[t] \in TaskState
        /\ task'[t].pc = task[t].pc /\ task'[t].source = task[t].source
        /\ task'[t].op = task[t].op /\ task'[t].items = task[t].items
        /\ task'[t].mayReplace = task[t].mayReplace /\ task'[t].late = task[t].late
        /\ task'[t].wait = left
    BY <2>1, <2>2, <2>3 DEF TaskState
  <2>5. QED
    BY <2>4 DEF left
<1>8. task' \in [Tasks -> TaskState]
  <2>1. task' = [t \in Tasks |-> task'[t]]
    BY <1>1
  <2>2. QED
    BY <1>7, <2>1
<1>9. Sleeps'
  <2> SUFFICES ASSUME NEW t \in Tasks, At(t, "sleep")'
               PROVE  /\ lock'[Source(t)'] = t
                      /\ task'[t].wait = MinInterval[Source(t)'] - since'[Source(t)']
    BY DEF Sleeps
  <2>1. Source(t)' = Source(t) /\ At(t, "sleep") /\ Source(t) \in Sources
    BY <1>2, <1>7 DEF Source, At, TaskState
  <2>2. lock[Source(t)] = t /\ task[t].wait = MinInterval[Source(t)] - since[Source(t)]
    BY <2>1 DEF ResearchInv, Sleeps
  <2>3. task'[t].wait = MinInterval[Source(t)] - since'[Source(t)]
    <3>1. /\ since[Source(t)] \in Nat /\ MinInterval[Source(t)] \in Nat
          /\ since[Source(t)] <= MinInterval[Source(t)]
      BY <1>2, <2>1
    <3>2. since'[Source(t)] = IF since[Source(t)] + 1 <= MinInterval[Source(t)]
                              THEN since[Source(t)] + 1 ELSE MinInterval[Source(t)]
      BY <1>3, <2>1
    <3>3. task'[t].wait = IF task[t].wait = 0 THEN 0 ELSE task[t].wait - 1
      BY <1>7
    <3>4. QED
      BY <2>2, <3>1, <3>2, <3>3
  <2>4. QED
    BY <1>1, <2>1, <2>2, <2>3
<1>10. ConnectorOK' /\ StoreOK'
  BY <1>1, <1>2, <1>4, <1>6 DEF ConnectorOK, StoreOK, ResearchInv
<1>11. SendsInTime
  BY <1>7 DEF SendsInTime, Sends, At
<1>12. TasksFit'
  BY <1>7 DEF ResearchInv, TasksFit, Fits, MayFetch
<1>13. Reads' /\ DayHasItems'
  BY <1>1, <1>7 DEF ResearchInv, Reads, At, DayHasItems
<1>14. QED
  BY <1>6, <1>8, <1>9, <1>10, <1>11, <1>12, <1>13 DEF ResearchInv

LEMMA MidnightKeeps ==
  ASSUME ResearchInv, Midnight
  PROVE  ResearchInv' /\ SendsInTime
<1>1. /\ day' = None /\ briefing' = None
      /\ known' = known \cup StoriesOf(Readable(day))
      /\ task' = [t \in Tasks |->
                    IF task[t].op = "brief" \/ At(t, "load") \/ At(t, "save")
                    THEN [task[t] EXCEPT !.late = TRUE] ELSE task[t]]
      /\ UNCHANGED <<since, lock, cache>>
  BY DEF Midnight, connector
<1>2. task \in [Tasks -> TaskState]
  BY DEF ResearchInv
<1>3. \A t \in Tasks :
        /\ task'[t] \in TaskState
        /\ task'[t].pc = task[t].pc /\ task'[t].source = task[t].source
        /\ task'[t].wait = task[t].wait
        /\ task'[t].op = task[t].op /\ task'[t].items = task[t].items
        /\ task'[t].mayReplace = task[t].mayReplace
        /\ task[t].op = "brief" => task'[t].late = TRUE
  BY <1>1, <1>2 DEF TaskState
<1>4. task' \in [Tasks -> TaskState]
  <2>1. task' = [t \in Tasks |-> task'[t]]
    BY <1>1
  <2>2. QED
    BY <1>3, <2>1
<1>5. Sleeps'
  BY <1>1, <1>3 DEF ResearchInv, Sleeps, At, Source
<1>6. StoreOK'
  BY <1>1, ReadableItems, StoriesAreStories DEF ResearchInv, StoreOK
<1>7. ConnectorOK' /\ CacheHoldsAnswers'
  BY <1>1 DEF ResearchInv, ConnectorOK, CacheHoldsAnswers
<1>8. SendsInTime
  BY <1>3 DEF SendsInTime, Sends, At
<1>9. TasksFit'
  BY <1>3 DEF ResearchInv, TasksFit, Fits, MayFetch
<1>10. Reads'
  <2> SUFFICES ASSUME NEW t \in Tasks, At(t, "read")'
               PROVE  task'[t].late = TRUE
    BY DEF Reads
  <2>1. task[t].pc = "read"
    BY <1>3 DEF At
  <2>2. task[t].op = "brief"
    BY <2>1 DEF ResearchInv, TasksFit, Fits
  <2>3. QED
    BY <1>3, <2>2
<1>11. DayHasItems'
  BY <1>1 DEF DayHasItems
<1>12. QED
  BY <1>4, <1>5, <1>6, <1>7, <1>8, <1>9, <1>10, <1>11 DEF ResearchInv

LEMMA ResearchStep == ResearchInv /\ [Next]_vars => ResearchInv' /\ [SendsInTime]_vars
<1> SUFFICES ASSUME ResearchInv, [Next]_vars
             PROVE  ResearchInv' /\ [SendsInTime]_vars
  OBVIOUS
<1>1. ASSUME NEW t \in Tasks,
             \/ StartCollect(t) \/ StartGenerate(t) \/ StartGet(t) \/ EnterLimiter(t)
             \/ Proceed(t)
      PROVE  ResearchInv' /\ SendsInTime
  BY <1>1, EnterLimiterKeeps, SendRequestKeeps, AnswerKeeps, QuietStepKeeps, SaveKeeps DEF Proceed
<1>2. CASE Tick \/ Midnight
  BY <1>2, TickKeepsResearch, MidnightKeeps
<1>3. CASE UNCHANGED vars
  <2>1. UNCHANGED <<since, lock, cache, day, briefing, known, task>>
    BY <1>3 DEF vars
  <2>2. QED
    BY <1>3, <2>1 DEF ResearchInv, ConnectorOK, StoreOK, Sleeps, At, Source, CacheHoldsAnswers,
                      TasksFit, Reads, DayHasItems
<1>4. QED
  BY <1>1, <1>2, <1>3 DEF Next

\* With any number of tasks and sources: two requests to one source are at least its
\* interval apart.
THEOREM RequestsAlwaysSpaced == Spec => RequestsSpaced
<1>1. ResearchInv /\ [Next]_vars =>
        [\A t \in Tasks : Sends(t) => since[Source(t)] = MinInterval[Source(t)]]_vars
  BY ResearchStep DEF SendsInTime
<1>2. ResearchInv /\ [Next]_vars => ResearchInv'
  BY ResearchStep
<1>3. QED
  BY ResearchInvInit, <1>1, <1>2, PTL DEF Spec, RequestsSpaced

\* With any number of tasks and sources: what a connector that asks once serves from its cache
\* is an answer of its source; what one that asks several times serves is part of one.
THEOREM CacheAlwaysHoldsAnswers == Spec => []CacheHoldsAnswers
<1>1. ResearchInv /\ [Next]_vars => ResearchInv'
  BY ResearchStep
<1>2. ResearchInv => CacheHoldsAnswers
  BY DEF ResearchInv
<1>3. QED
  BY ResearchInvInit, <1>1, <1>2, PTL DEF Spec

\* With any number of tasks and sources: a cycle in which every source fails leaves the
\* items of the day alone.
THEOREM OutagesEraseNothing == Spec => OutageErasesNothing
<1>1. ResearchInv /\ [Next]_vars => ResearchInv'
  BY ResearchStep
<1>2. ResearchInv' => (day # None => day' = None \/ day'.items # {})
  BY DEF ResearchInv, DayHasItems
<1>3. QED
  BY ResearchInvInit, <1>1, <1>2, PTL DEF Spec, OutageErasesNothing

\* With any number of tasks and sources: no call of get_briefing replaces the briefing
\* that was stored when it was called.
THEOREM GetNeverReplacesBriefing == Spec => GetNeverReplaces
<1>1. ResearchInv /\ [Next]_vars => ResearchInv'
  BY ResearchStep
<1>2. ResearchInv => (\A t \in Tasks : Replaces(t) => task[t].mayReplace)
  <2> SUFFICES ASSUME ResearchInv, NEW t \in Tasks, Replaces(t)
               PROVE  task[t].mayReplace
    OBVIOUS
  <2>1. task[t].pc = "write" /\ Fits(task[t])
    BY DEF Replaces, At, ResearchInv, TasksFit
  <2>2. task[t].mayReplace = TRUE
    BY <2>1 DEF Fits, MayFetch
  <2>3. QED
    BY <2>2
<1>3. QED
  BY ResearchInvInit, <1>1, <1>2, PTL DEF Spec, GetNeverReplaces

-----------------------------------------------------------------------------
(* The configuration of the sources *)

\* Whatever is held, read, saved or built has been in storage, or is the defaults.
SourcesInv ==
    /\ reader = [r \in Readers |-> reader[r]]
    /\ Defaults \in once
    /\ stored \in once \cup {Missing}
    /\ copy \in once \cup {Missing}
    /\ built = Missing \/ \E config \in once : built = EnabledIn(config)
    /\ \A r \in Readers :
        /\ reader[r].pc = "read" => reader[r].seen \in once \cup {Missing}
        /\ reader[r].pc = "saved" => reader[r].config \in once
        /\ reader[r].pc = "running" => \E config \in once : built = EnabledIn(config)

LEMMA SourcesInvInit == SourcesInit => SourcesInv
  BY DEF SourcesInit, SourcesInv, Free

\* A step of one reader to q, when q and what the step leaves elsewhere are accounted for.
LEMMA GoKeeps ==
  ASSUME SourcesInv, NEW r \in Readers, NEW q, Go(r, q),
         once \subseteq once',
         stored' \in once' \cup {Missing}, copy' \in once' \cup {Missing},
         built' = built \/ \E config \in once : built' = EnabledIn(config),
         q.pc = "read" => q.seen \in once' \cup {Missing},
         q.pc = "saved" => q.config \in once',
         q.pc = "running" => \E config \in once : built' = EnabledIn(config)
  PROVE  SourcesInv'
<1>1. reader'[r] = q /\ \A x \in Readers \ {r} : reader'[x] = reader[x]
  BY DEF Go, SourcesInv
<1>2. reader' = [x \in Readers |-> reader'[x]]
  BY DEF Go, SourcesInv
<1>3. Defaults \in once'
  BY DEF SourcesInv
<1>4. built' = Missing \/ \E config \in once' : built' = EnabledIn(config)
  BY DEF SourcesInv
<1>5. ASSUME NEW x \in Readers
      PROVE  /\ reader'[x].pc = "read" => reader'[x].seen \in once' \cup {Missing}
             /\ reader'[x].pc = "saved" => reader'[x].config \in once'
             /\ reader'[x].pc = "running" =>
                   \E config \in once' : built' = EnabledIn(config)
  <2>1. CASE x = r
    BY <1>1, <2>1
  <2>2. CASE x # r
    BY <1>1, <2>2 DEF SourcesInv
  <2>3. QED
    BY <2>1, <2>2
<1>6. QED
  BY <1>2, <1>3, <1>4, <1>5 DEF SourcesInv

\* load returning a configuration that has been in storage.
LEMMA ReturnKeeps ==
  ASSUME SourcesInv, NEW r \in Readers, NEW job, NEW config \in once,
         Return(r, job, config),
         copy' \in once \cup {Missing}, UNCHANGED <<stored, once>>
  PROVE  SourcesInv'
<1>1. \/ built' = EnabledIn(config) /\ Go(r, [pc |-> "running"])
      \/ UNCHANGED built /\ Go(r, Free)
  BY DEF Return
<1>2. stored' \in once' \cup {Missing} /\ once \subseteq once' /\ copy' \in once' \cup {Missing}
  BY DEF SourcesInv
<1>3. CASE built' = EnabledIn(config) /\ Go(r, [pc |-> "running"])
  BY <1>2, <1>3, GoKeeps
<1>4. CASE UNCHANGED built /\ Go(r, Free)
  <2>1. Free.pc = "free"
    BY DEF Free
  <2>2. QED
    BY <1>2, <1>4, <2>1, GoKeeps
<1>5. QED
  BY <1>1, <1>3, <1>4

LEMMA LoadKeeps ==
  ASSUME SourcesInv, NEW r \in Readers, NEW job, Load(r, job), UNCHANGED <<stored, copy, once>>
  PROVE  SourcesInv'
<1>1. \/ copy # Missing /\ Return(r, job, copy)
      \/ Go(r, [pc |-> "get", job |-> job]) /\ UNCHANGED built
  BY DEF Load
<1>2. stored' \in once' \cup {Missing} /\ once \subseteq once' /\ copy' \in once' \cup {Missing}
  BY DEF SourcesInv
<1>3. CASE copy # Missing /\ Return(r, job, copy)
  <2>1. copy \in once /\ copy' \in once \cup {Missing}
    BY <1>3 DEF SourcesInv
  <2>2. QED
    BY <1>3, <2>1, ReturnKeeps
<1>4. CASE Go(r, [pc |-> "get", job |-> job]) /\ UNCHANGED built
  BY <1>2, <1>4, GoKeeps
<1>5. QED
  BY <1>1, <1>3, <1>4

LEMMA LoadingStepKeeps ==
  ASSUME SourcesInv, NEW r \in Readers,
         LoadSources(r) \/ StartJob(r) \/ GetObject(r) \/ Decoded(r)
  PROVE  SourcesInv'
<1>1. stored \in once \cup {Missing} /\ copy \in once \cup {Missing}
  BY DEF SourcesInv
<1>2. CASE LoadSources(r)
  BY <1>2, LoadKeeps DEF LoadSources
<1>3. CASE StartJob(r)
  <2>1. UNCHANGED <<stored, copy, once>>
    BY <1>3 DEF StartJob
  <2>2. \/ built # Missing /\ Go(r, [pc |-> "running"]) /\ UNCHANGED built
        \/ Load(r, TRUE)
    BY <1>3 DEF StartJob
  <2>3. CASE built # Missing /\ Go(r, [pc |-> "running"]) /\ UNCHANGED built
    <3>1. \E config \in once : built' = EnabledIn(config)
      BY <2>3 DEF SourcesInv
    <3>2. QED
      BY <1>1, <2>1, <2>3, <3>1, GoKeeps
  <2>4. CASE Load(r, TRUE)
    BY <2>1, <2>4, LoadKeeps
  <2>5. QED
    BY <2>2, <2>3, <2>4
<1>4. CASE GetObject(r)
  <2> DEFINE q == [pc |-> "read", job |-> reader[r].job, seen |-> stored]
  <2>1. Go(r, q) /\ UNCHANGED <<stored, copy, loaded, built, once>>
    BY <1>4 DEF GetObject
  <2>2. q.pc = "read" /\ q.seen \in once' \cup {Missing}
    BY <1>1, <2>1
  <2> HIDE DEF q
  <2>3. QED
    BY <1>1, <2>1, <2>2, GoKeeps
<1>5. CASE Decoded(r)
  <2>1. PICK config \in {reader[r].seen, Defaults} \ {Missing} :
           copy' = config /\ Return(r, reader[r].job, config)
    BY <1>5 DEF Decoded
  <2>2. config \in once
    BY <1>5, <2>1 DEF Decoded, Turn, SourcesInv
  <2>3. UNCHANGED <<stored, once>>
    BY <1>5 DEF Decoded
  <2>4. QED
    BY <2>1, <2>2, <2>3, ReturnKeeps
<1>6. QED
  BY <1>2, <1>3, <1>4, <1>5

LEMMA SavingStepKeeps ==
  ASSUME SourcesInv, NEW r \in Readers,
         \/ JobEnds(r) \/ GetFails(r) \/ Save(r) \/ PutObject(r) \/ SaveSourcesFails(r)
         \/ Saved(r)
  PROVE  SourcesInv'
<1>1. stored \in once \cup {Missing} /\ copy \in once \cup {Missing}
  BY DEF SourcesInv
<1>2. Free.pc = "free"
  BY DEF Free
<1>3. CASE JobEnds(r) \/ GetFails(r) \/ SaveSourcesFails(r)
  <2>1. Go(r, Free) /\ UNCHANGED <<stored, copy, built, once>>
    BY <1>3 DEF JobEnds, GetFails, SaveSourcesFails
  <2>2. QED
    BY <1>1, <1>2, <2>1, GoKeeps
<1>4. CASE Save(r)
  <2>1. PICK config \in Configuration : Go(r, [pc |-> "key", config |-> config])
    BY <1>4 DEF Save
  <2>2. UNCHANGED <<stored, copy, built, once>>
    BY <1>4 DEF Save
  <2>3. QED
    BY <1>1, <2>1, <2>2, GoKeeps
<1>5. CASE PutObject(r)
  <2> DEFINE q == [reader[r] EXCEPT !.pc = "saved"]
  <2>1. /\ Go(r, q) /\ stored' = reader[r].config /\ once' = once \cup {reader[r].config}
        /\ UNCHANGED <<copy, built>>
    BY <1>5 DEF PutObject
  <2>2. q.pc # "read" /\ q.pc # "running" /\ q.config = reader[r].config
    OBVIOUS
  <2> HIDE DEF q
  <2>3. QED
    BY <1>1, <2>1, <2>2, GoKeeps
<1>6. CASE Saved(r)
  <2>1. copy' = reader[r].config /\ Go(r, Free) /\ UNCHANGED <<stored, built, once>>
    BY <1>6 DEF Saved
  <2>2. copy' \in once
    BY <1>6, <2>1 DEF Saved, Turn, SourcesInv
  <2>3. QED
    BY <1>1, <1>2, <2>1, <2>2, GoKeeps
<1>7. QED
  BY <1>3, <1>4, <1>5, <1>6

LEMMA SourcesStep == SourcesInv /\ [SourcesNext]_sourcesVars => SourcesInv'
<1> SUFFICES ASSUME SourcesInv, [SourcesNext]_sourcesVars
             PROVE  SourcesInv'
  OBVIOUS
<1>1. CASE \E r \in Readers :
              \/ LoadSources(r) \/ StartJob(r) \/ JobEnds(r)
              \/ GetObject(r) \/ GetFails(r) \/ Decoded(r)
              \/ Save(r) \/ PutObject(r) \/ SaveSourcesFails(r) \/ Saved(r)
  BY <1>1, LoadingStepKeeps, SavingStepKeeps
<1>2. CASE SourcesRestart
  BY <1>2 DEF SourcesRestart, SourcesInv, Free
<1>3. CASE UNCHANGED sourcesVars
  <2>1. UNCHANGED <<stored, copy, built, reader, once>>
    BY <1>3 DEF sourcesVars
  <2>2. QED
    BY <2>1 DEF SourcesInv
<1>4. QED
  BY <1>1, <1>2, <1>3 DEF SourcesNext

\* With any number of callers, sources and settings: a job runs with a subsystem built
\* from a configuration that has been in storage, or from the defaults.
THEOREM AlwaysRunsConfigured == SourcesSpec => []RunsConfigured
<1>1. SourcesInv => RunsConfigured
  BY DEF SourcesInv, RunsConfigured, Turn
<1>2. QED
  BY SourcesInvInit, SourcesStep, <1>1, PTL DEF SourcesSpec

-----------------------------------------------------------------------------
(* Deep research: the terms *)

\* What is searched for next, after what some titles have: at most two terms, each once, and
\* none that was known before.
Nexts ==
    {next \in [terms : Seq(Words), seen : SUBSET Words] :
        /\ IsInjective(next.terms) /\ Len(next.terms) <= 2
        /\ ToSet(next.terms) \subseteq next.seen /\ seenTerms \subseteq next.seen
        /\ ToSet(next.terms) \cap seenTerms \subseteq ToSet(terms)}

Known == [terms |-> terms, seen |-> seenTerms]

TermsWell ==
    /\ terms \in Seq(Words) /\ seenTerms \subseteq Words
    /\ IsInjective(terms) /\ Len(terms) <= 2 /\ ToSet(terms) \subseteq seenTerms

LEMMA KnownIsNext == TermsWell => Known \in Nexts
<1> SUFFICES ASSUME TermsWell PROVE Known \in Nexts
  OBVIOUS
<1>1. Known.terms = terms /\ Known.seen = seenTerms /\ Known \in [terms : Seq(Words), seen : SUBSET Words]
  BY DEF Known, TermsWell
<1> QED BY <1>1 DEF Nexts, TermsWell

LEMMA ExpandGoes ==
    ASSUME NEW next \in Nexts, NEW term \in Words
    PROVE  Expand(next, term) \in Nexts
<1> DEFINE t == Append(next.terms, term)
           e == [terms |-> t, seen |-> next.seen \cup {term}]
<1>1. CASE term \in next.seen \/ Len(next.terms) >= 2
  BY <1>1 DEF Expand
<1>2. CASE ~(term \in next.seen \/ Len(next.terms) >= 2)
  <2>1. Expand(next, term) = e
    BY <1>2 DEF Expand
  <2>2. next.terms \in Seq(Words) /\ Len(next.terms) \in Nat /\ next.seen \subseteq Words
    BY DEF Nexts
  <2>3. t \in Seq(Words) /\ Len(t) = Len(next.terms) + 1
    BY <2>2
  <2>4. ToSet(t) = ToSet(next.terms) \cup {term}
    BY <2>2, ToSetFacts
  <2>5. IsInjective(t)
    <3>1. IsInjective(next.terms) /\ term \notin ToSet(next.terms)
      BY <1>2 DEF Nexts
    <3> QED BY <2>2, <3>1, DistinctAppend
  <2> HIDE DEF t
  <2>6. e \in [terms : Seq(Words), seen : SUBSET Words] /\ e.terms = t /\ e.seen = next.seen \cup {term}
    BY <2>2, <2>3
  <2> HIDE DEF e
  <2>7. Len(t) <= 2
    BY <1>2, <2>2, <2>3
  <2>8. /\ ToSet(next.terms) \subseteq next.seen /\ seenTerms \subseteq next.seen
        /\ ToSet(next.terms) \cap seenTerms \subseteq ToSet(terms)
    BY DEF Nexts
  <2>9. ToSet(t) \cap seenTerms \subseteq ToSet(terms)
    BY <1>2, <2>4, <2>8
  <2> QED BY <2>1, <2>4, <2>5, <2>6, <2>7, <2>8, <2>9 DEF Nexts
<1> QED BY <1>1, <1>2

ExpandStep == [p \in Nexts \X Words |-> Expand(p[1], p[2])]

LEMMA ExpandAllGoes ==
    ASSUME NEW next \in Nexts, NEW s \in Seq(Words)
    PROVE  ExpandAll(next, s) \in Nexts
<1> DEFINE G(x, y) == Expand(x, y)
           F(f) == [n \in 0 .. Len(s) |-> IF n = 0 THEN next ELSE G(f[n - 1], s[n])]
           P(f) == f = F(f)
           A == Nexts
           B == Words
           N == Len(s)
           way == ExpandStep
           first == next
<1>2. N \in Nat /\ first \in A /\ s \in Seq(B) /\ \A n \in 1 .. N : s[n] \in B
  OBVIOUS
<1>3. ASSUME NEW x \in A, NEW y \in B PROVE G(x, y) \in A
  BY ExpandGoes
<1>4. ASSUME NEW x \in A, NEW y \in B PROVE way[<<x, y>>] = G(x, y)
  BY DEF ExpandStep
<1>5. IsStep(way, A, B)
  BY <1>3 DEF ExpandStep, IsStep
<1> HIDE DEF A, B, N, G, way, first
<1>6. PICK f : Run(f, A, first, way, s)
  BY <1>2, <1>5, RunExists
<1>7. P(f)
  <2>1. f[0] = first /\ f = [n \in 0 .. N |-> f[n]]
    BY <1>6 DEF Run, N
  <2>2. ASSUME NEW n \in 0 .. N, n # 0 PROVE f[n] = G(f[n - 1], s[n])
    <3>1. n \in 1 .. N /\ f[n - 1] \in A /\ s[n] \in B
      BY <1>2, <1>6, <2>2 DEF Run, N
    <3> QED BY <1>4, <1>6, <3>1 DEF Run, N
  <2>3. F(f) = [n \in 0 .. N |-> IF n = 0 THEN first ELSE G(f[n - 1], s[n])]
    BY DEF N, first
  <2> QED BY <2>1, <2>2, <2>3
<1> DEFINE g == CHOOSE h : P(h)
<1>8. P(g)
  <2> HIDE DEF P
  <2> QED BY <1>7, Zenon
<1> HIDE DEF g
<1>9. Steps(g, A, first, way, s)
  <2>1. g = [n \in 0 .. N |-> IF n = 0 THEN first ELSE G(g[n - 1], s[n])]
    BY <1>8 DEF N, first
  <2> HIDE DEF P, F
  <2>2. g[0] = first /\ \A n \in 1 .. N : g[n] = G(g[n - 1], s[n])
    BY <1>2, <2>1
  <2> QED BY <1>2, <1>4, <2>2 DEF Steps, N
<1>10. g[N] = Folded(A, first, way, s)
  BY <1>2, <1>5, <1>9, FoldedBy DEF N
<1>11. Folded(A, first, way, s) \in A
  BY <1>2, <1>5, FoldedFacts
<1>12. ExpandAll(next, s) = g[N]
  BY DEF ExpandAll, g, P, F, G, N
<1> QED BY <1>10, <1>11, <1>12 DEF A

TitleStep == [p \in Nexts \X Published |-> ExpandAll(p[1], TermsOf(p[2]))]

LEMMA ExpandedGoes ==
    ASSUME TermsWell, NEW s \in Seq(Published)
    PROVE  Expanded(s) \in Nexts
<1> DEFINE G(x, y) == ExpandAll(x, TermsOf(y))
           F(f) == [n \in 0 .. Len(s) |-> IF n = 0 THEN Known ELSE G(f[n - 1], s[n])]
           P(f) == f = F(f)
           A == Nexts
           B == Published
           N == Len(s)
           way == TitleStep
           first == Known
<1>2. N \in Nat /\ first \in A /\ s \in Seq(B) /\ \A n \in 1 .. N : s[n] \in B
  BY KnownIsNext
<1>3. ASSUME NEW x \in A, NEW y \in B PROVE G(x, y) \in A
  BY ExpandAllGoes, DeepAssumption
<1>4. ASSUME NEW x \in A, NEW y \in B PROVE way[<<x, y>>] = G(x, y)
  BY DEF TitleStep
<1>5. IsStep(way, A, B)
  BY <1>3 DEF TitleStep, IsStep
<1> HIDE DEF A, B, N, G, way, first
<1>6. PICK f : Run(f, A, first, way, s)
  BY <1>2, <1>5, RunExists
<1>7. P(f)
  <2>1. f[0] = first /\ f = [n \in 0 .. N |-> f[n]]
    BY <1>6 DEF Run, N
  <2>2. ASSUME NEW n \in 0 .. N, n # 0 PROVE f[n] = G(f[n - 1], s[n])
    <3>1. n \in 1 .. N /\ f[n - 1] \in A /\ s[n] \in B
      BY <1>2, <1>6, <2>2 DEF Run, N
    <3> QED BY <1>4, <1>6, <3>1 DEF Run, N
  <2>3. F(f) = [n \in 0 .. N |-> IF n = 0 THEN first ELSE G(f[n - 1], s[n])]
    BY DEF N, first
  <2> QED BY <2>1, <2>2, <2>3
<1> DEFINE g == CHOOSE h : P(h)
<1>8. P(g)
  <2> HIDE DEF P
  <2> QED BY <1>7, Zenon
<1> HIDE DEF g
<1>9. Steps(g, A, first, way, s)
  <2>1. g = [n \in 0 .. N |-> IF n = 0 THEN first ELSE G(g[n - 1], s[n])]
    BY <1>8 DEF N, first
  <2> HIDE DEF P, F
  <2>2. g[0] = first /\ \A n \in 1 .. N : g[n] = G(g[n - 1], s[n])
    BY <1>2, <2>1
  <2> QED BY <1>2, <1>4, <2>2 DEF Steps, N
<1>10. g[N] = Folded(A, first, way, s)
  BY <1>2, <1>5, <1>9, FoldedBy DEF N
<1>11. Folded(A, first, way, s) \in A
  BY <1>2, <1>5, FoldedFacts
<1>12. Expanded(s) = IF tier = depth THEN Known ELSE g[N]
  BY DEF Expanded, Known, g, P, F, G, N
<1> QED BY <1>2, <1>10, <1>11, <1>12 DEF A, first

-----------------------------------------------------------------------------
(* Deep research: the report *)

Scored == [item : Reported, score : Int]

Falling(s) == \A i, j \in 1 .. Len(s) : i < j => s[i].score >= s[j].score

\* firsts has, of each story in s, the first element.
Firsts(firsts, s) ==
    /\ firsts \in Seq(Scored) /\ ToSet(firsts) \subseteq ToSet(s)
    /\ \A i, j \in 1 .. Len(firsts) : firsts[i].item.story = firsts[j].item.story => i = j
    /\ \A x \in ToSet(s) : \E y \in ToSet(firsts) : y.item.story = x.item.story
    /\ Falling(s) => /\ Falling(firsts)
                     /\ \A x \in ToSet(s), y \in ToSet(firsts) :
                            y.item.story = x.item.story => y.score >= x.score

UnlessStep == [p \in Seq(Scored) \X Scored |-> Unless(p[1], p[2])]

LEMMA DistinctIsFolded ==
    ASSUME NEW s \in Seq(Scored)
    PROVE  Distinct(s) = Folded(Seq(Scored), <<>>, UnlessStep, s) /\ Distinct(s) \in Seq(Scored)
<1> DEFINE G(x, y) == Unless(x, y)
           F(f) == [n \in 0 .. Len(s) |-> IF n = 0 THEN <<>> ELSE G(f[n - 1], s[n])]
           P(f) == f = F(f)
           A == Seq(Scored)
           B == Scored
           N == Len(s)
           way == UnlessStep
           first == <<>>
<1>2. N \in Nat /\ first \in A /\ s \in Seq(B) /\ \A n \in 1 .. N : s[n] \in B
  OBVIOUS
<1>3. ASSUME NEW x \in A, NEW y \in B PROVE G(x, y) \in A
  BY DEF Unless
<1>4. ASSUME NEW x \in A, NEW y \in B PROVE way[<<x, y>>] = G(x, y)
  BY DEF UnlessStep
<1>5. IsStep(way, A, B)
  BY <1>3 DEF UnlessStep, IsStep
<1> HIDE DEF A, B, N, G, way, first
<1>6. PICK f : Run(f, A, first, way, s)
  BY <1>2, <1>5, RunExists
<1>7. P(f)
  <2>1. f[0] = first /\ f = [n \in 0 .. N |-> f[n]]
    BY <1>6 DEF Run, N
  <2>2. ASSUME NEW n \in 0 .. N, n # 0 PROVE f[n] = G(f[n - 1], s[n])
    <3>1. n \in 1 .. N /\ f[n - 1] \in A /\ s[n] \in B
      BY <1>2, <1>6, <2>2 DEF Run, N
    <3> QED BY <1>4, <1>6, <3>1 DEF Run, N
  <2>3. F(f) = [n \in 0 .. N |-> IF n = 0 THEN first ELSE G(f[n - 1], s[n])]
    BY DEF N, first
  <2> QED BY <2>1, <2>2, <2>3
<1> DEFINE g == CHOOSE h : P(h)
<1>8. P(g)
  <2> HIDE DEF P
  <2> QED BY <1>7, Zenon
<1> HIDE DEF g
<1>9. Steps(g, A, first, way, s)
  <2>1. g = [n \in 0 .. N |-> IF n = 0 THEN first ELSE G(g[n - 1], s[n])]
    BY <1>8 DEF N, first
  <2> HIDE DEF P, F
  <2>2. g[0] = first /\ \A n \in 1 .. N : g[n] = G(g[n - 1], s[n])
    BY <1>2, <2>1
  <2> QED BY <1>2, <1>4, <2>2 DEF Steps, N
<1>10. g[N] = Folded(A, first, way, s)
  BY <1>2, <1>5, <1>9, FoldedBy DEF N
<1>11. Folded(A, first, way, s) \in A
  BY <1>2, <1>5, FoldedFacts
<1>12. Distinct(s) = g[N]
  BY DEF Distinct, g, P, F, G, N
<1> QED BY <1>10, <1>11, <1>12 DEF A, first, way

LEMMA UnlessIsStep == IsStep(UnlessStep, Seq(Scored), Scored)
<1>1. \A u \in Seq(Scored), x \in Scored : Unless(u, x) \in Seq(Scored)
  BY DEF Unless
<1> QED BY <1>1 DEF IsStep, UnlessStep

LEMMA DistinctFacts ==
    /\ Distinct(<<>>) = <<>>
    /\ \A s \in Seq(Scored) : Distinct(s) \in Seq(Scored)
    /\ \A s \in Seq(Scored), x \in Scored : Distinct(Append(s, x)) = Unless(Distinct(s), x)
<1> DEFINE D(s) == Folded(Seq(Scored), <<>>, UnlessStep, s)
<1>1. \A s \in Seq(Scored) : Distinct(s) = D(s) /\ Distinct(s) \in Seq(Scored)
  BY DistinctIsFolded
<1>2. <<>> \in Seq(Scored)
  OBVIOUS
<1>3. /\ D(<<>>) = <<>>
      /\ \A s \in Seq(Scored), x \in Scored : D(Append(s, x)) = UnlessStep[<<D(s), x>>]
  BY <1>2, UnlessIsStep, FoldedFacts
<1> HIDE DEF D
<1>4. ASSUME NEW s \in Seq(Scored), NEW x \in Scored PROVE Distinct(Append(s, x)) = Unless(Distinct(s), x)
  <2>1. Append(s, x) \in Seq(Scored)
    OBVIOUS
  <2>2. Distinct(Append(s, x)) = UnlessStep[<<Distinct(s), x>>]
    BY <1>1, <1>3, <2>1
  <2> QED BY <1>1, <2>2 DEF UnlessStep
<1> QED BY <1>1, <1>2, <1>3, <1>4

LEMMA FallingAppend ==
    ASSUME NEW s \in Seq(Scored), NEW x \in Scored, NEW t, t = Append(s, x)
    PROVE  Falling(t) <=> Falling(s) /\ \A y \in ToSet(s) : y.score >= x.score
<1>1. /\ Len(s) \in Nat /\ Len(t) = Len(s) + 1 /\ t[Len(s) + 1] = x
      /\ \A i \in 1 .. Len(s) : t[i] = s[i]
  OBVIOUS
<1>2. \A y : y \in ToSet(s) <=> \E i \in 1 .. Len(s) : y = s[i]
  BY DEF ToSet
<1>3. ASSUME Falling(t) PROVE Falling(s) /\ \A y \in ToSet(s) : y.score >= x.score
  <2>1. \A i, j \in 1 .. Len(s) : i \in 1 .. Len(t) /\ j \in 1 .. Len(t)
    BY <1>1
  <2>2. \A i \in 1 .. Len(s) : i < Len(s) + 1 /\ Len(s) + 1 \in 1 .. Len(t)
    BY <1>1
  <2> QED BY <1>1, <1>2, <1>3, <2>1, <2>2 DEF Falling
<1>4. ASSUME Falling(s), \A y \in ToSet(s) : y.score >= x.score PROVE Falling(t)
  <2> SUFFICES ASSUME NEW i \in 1 .. Len(t), NEW j \in 1 .. Len(t), i < j PROVE t[i].score >= t[j].score
    BY DEF Falling
  <2>1. i \in 1 .. Len(s) /\ (j \in 1 .. Len(s) \/ j = Len(s) + 1)
    BY <1>1
  <2> QED BY <1>1, <1>2, <1>4, <2>1 DEF Falling
<1> QED BY <1>3, <1>4

LEMMA FirstsStep ==
    ASSUME NEW s \in Seq(Scored), NEW x \in Scored, NEW u, Firsts(u, s), NEW t, t = Append(s, x)
    PROVE  Firsts(Unless(u, x), t)
<1>1. /\ u \in Seq(Scored) /\ ToSet(u) \subseteq ToSet(s) /\ Len(u) \in Nat
      /\ \A i, j \in 1 .. Len(u) : u[i].item.story = u[j].item.story => i = j
      /\ \A y \in ToSet(s) : \E z \in ToSet(u) : z.item.story = y.item.story
      /\ Falling(s) => /\ Falling(u)
                       /\ \A y \in ToSet(s), z \in ToSet(u) :
                              z.item.story = y.item.story => z.score >= y.score
  BY DEF Firsts
<1>2. ToSet(t) = ToSet(s) \cup {x} /\ ToSet(Append(u, x)) = ToSet(u) \cup {x}
  BY <1>1, ToSetFacts
<1>3. Falling(t) => Falling(s) /\ \A y \in ToSet(s) : y.score >= x.score
  BY FallingAppend
<1>4. x.score \in Int
  BY DEF Scored
<1>5. CASE \E y \in ToSet(u) : y.item.story = x.item.story
  <2>1. Unless(u, x) = u
    BY <1>5 DEF Unless
  <2>2. ToSet(u) \subseteq ToSet(t) /\ \A y \in ToSet(t) : \E z \in ToSet(u) : z.item.story = y.item.story
    BY <1>1, <1>2, <1>5
  <2>3. Falling(t) => /\ Falling(u)
                     /\ \A y \in ToSet(t), z \in ToSet(u) :
                            z.item.story = y.item.story => z.score >= y.score
    BY <1>1, <1>2, <1>3
  <2> QED BY <1>1, <2>1, <2>2, <2>3 DEF Firsts
<1>6. CASE ~\E y \in ToSet(u) : y.item.story = x.item.story
  <2> DEFINE w == Append(u, x)
  <2>1. Unless(u, x) = w
    BY <1>6 DEF Unless
  <2>2. /\ w \in Seq(Scored) /\ Len(w) = Len(u) + 1 /\ w[Len(u) + 1] = x
        /\ \A i \in 1 .. Len(u) : w[i] = u[i]
    BY <1>1
  <2>3. \A i \in 1 .. Len(u) : u[i] \in ToSet(u)
    BY <1>1 DEF ToSet
  <2>4. ASSUME NEW i \in 1 .. Len(w), NEW j \in 1 .. Len(w), w[i].item.story = w[j].item.story
        PROVE  i = j
    <3>1. (i \in 1 .. Len(u) \/ i = Len(u) + 1) /\ (j \in 1 .. Len(u) \/ j = Len(u) + 1)
      BY <1>1, <2>2
    <3> QED BY <1>1, <1>6, <2>2, <2>3, <2>4, <3>1
  <2>5. ToSet(w) \subseteq ToSet(t) /\ \A y \in ToSet(t) : \E z \in ToSet(w) : z.item.story = y.item.story
    BY <1>1, <1>2
  <2>6. ASSUME Falling(t) PROVE Falling(w)
    <3>1. Falling(u) /\ \A y \in ToSet(u) : y.score >= x.score
      BY <1>1, <1>3, <2>6
    <3> HIDE DEF w
    <3>2. w = Append(u, x)
      BY DEF w
    <3> QED BY <1>1, <3>1, <3>2, FallingAppend
  <2>7. ASSUME Falling(t), NEW y \in ToSet(t), NEW z \in ToSet(w), z.item.story = y.item.story
        PROVE  z.score >= y.score
    <3>1. z \in ToSet(u) \/ z = x
      BY <1>2
    <3>2. y \in ToSet(s) \/ y = x
      BY <1>2
    <3>3. CASE z \in ToSet(u)
      BY <1>1, <1>3, <1>6, <2>7, <3>2, <3>3
    <3>4. CASE z = x
      BY <1>1, <1>4, <1>6, <2>7, <3>2, <3>4
    <3> QED BY <3>1, <3>3, <3>4
  <2> HIDE DEF w
  <2> QED BY <2>1, <2>2, <2>4, <2>5, <2>6, <2>7 DEF Firsts
<1> QED BY <1>5, <1>6

LEMMA DistinctTakesFirsts == \A s \in Seq(Scored) : Firsts(Distinct(s), s)
<1> DEFINE S == {s \in Seq(Scored) : Firsts(Distinct(s), s)}
<1>1. <<>> \in S
  <2>1. Distinct(<<>>) = <<>> /\ <<>> \in Seq(Scored) /\ Len(<<>>) = 0 /\ ToSet(<<>>) = {}
    BY DistinctFacts, ToSetFacts
  <2>2. Firsts(<<>>, <<>>)
    BY <2>1 DEF Firsts, Falling
  <2> QED BY <2>1, <2>2
<1>2. ASSUME NEW s \in Seq(Scored), NEW x \in Scored, s \in S PROVE Append(s, x) \in S
  <2> DEFINE t == Append(s, x)
  <2>1. t \in Seq(Scored)
    OBVIOUS
  <2>2. Distinct(t) = Unless(Distinct(s), x)
    BY DistinctFacts
  <2>3. t = Append(s, x)
    OBVIOUS
  <2> HIDE DEF t
  <2>4. Firsts(Distinct(s), s)
    BY <1>2
  <2>5. Firsts(Unless(Distinct(s), x), t)
    BY <2>3, <2>4, FirstsStep
  <2> QED BY <2>1, <2>2, <2>5 DEF t
<1> HIDE DEF S
<1>3. Seq(Scored) \subseteq S
  BY <1>1, <1>2, SeqInduct
<1> QED BY <1>3 DEF S

\* A report of these items, scored with this feedback, as it should be.
Best(story, items, feedback) ==
    Max({ScoreOf(item, feedback) : item \in {x \in ToSet(items) : x.story = story}})

Tells(report, items, feedback) ==
    LET found == {item.story : item \in ToSet(items)}
        reports(x) == {item \in ToSet(items) : item.story = x}
        shown == {f.item.story : f \in ToSet(report)}
    IN  /\ Cardinality(shown) = Len(report) /\ Len(report) <= MaxFindings
        /\ \A f \in ToSet(report) :
            /\ f.item \in reports(f.item.story) /\ f.score = Best(f.item.story, items, feedback)
            /\ f.citations = {item.connector : item \in reports(f.item.story)}
        /\ \A i, j \in DOMAIN report : i < j => report[i].score >= report[j].score
        /\ \A y \in found \ (shown \cup feedback.dismissed) :
            /\ Len(report) = MaxFindings
            /\ \A x \in shown : Best(x, items, feedback) >= Best(y, items, feedback)

LEMMA ScoreIsNumber ==
    ASSUME NEW item \in Reported, NEW feedback
    PROVE  ScoreOf(item, feedback) \in Int
<1>1. item.connector \in DOMAIN Answers /\ item.story \in Published
  BY DEF Reported
<1>2. BaseScore(item.connector, item.story) \in Int
  BY <1>1, DeepAssumption
<1> QED BY <1>2 DEF ScoreOf

\* What _score_findings sorts: every item, with its score.
Given(items) == [i \in DOMAIN items |-> [item |-> items[i], score |-> ScoreOf(items[i], profile)]]

LEMMA GivenFacts ==
    ASSUME NEW items \in Seq(Reported)
    PROVE  /\ Given(items) \in Seq(Scored)
           /\ \A e \in ToSet(Given(items)) : e.item \in ToSet(items) /\ e.score = ScoreOf(e.item, profile)
           /\ \A x \in ToSet(items) : \E e \in ToSet(Given(items)) : e.item = x
<1> DEFINE n == Len(items)
           e(i) == [item |-> items[i], score |-> ScoreOf(items[i], profile)]
<1>1. n \in Nat /\ DOMAIN items = 1 .. n /\ \A i \in 1 .. n : items[i] \in Reported
  OBVIOUS
<1>2. \A i \in 1 .. n : e(i) \in Scored /\ e(i).item = items[i] /\ e(i).score = ScoreOf(items[i], profile)
  BY <1>1, ScoreIsNumber DEF Scored
<1>3. Given(items) = [i \in 1 .. n |-> e(i)]
  BY <1>1 DEF Given
<1> HIDE DEF e, n
<1>4. Given(items) \in Seq(Scored)
  BY <1>1, <1>2, <1>3
<1>5. \A y : y \in ToSet(Given(items)) <=> \E i \in 1 .. n : y = e(i)
  BY <1>3 DEF ToSet
<1>6. \A y : y \in ToSet(items) <=> \E i \in 1 .. n : y = items[i]
  BY <1>1 DEF ToSet
<1> QED BY <1>2, <1>4, <1>5, <1>6

\* The list the report is cut from: of each story the best item.
OneOfEach(d, items) ==
    /\ d \in Seq(Scored) /\ Falling(d)
    /\ \A k \in 1 .. Len(d) :
          /\ d[k].item \in ToSet(items)
          /\ \A x \in ToSet(items) : x.story = d[k].item.story => d[k].score >= ScoreOf(x, profile)
          /\ d[k].score = ScoreOf(d[k].item, profile)
    /\ \A i, j \in 1 .. Len(d) : d[i].item.story = d[j].item.story => i = j
    /\ \A x \in ToSet(items) : \E k \in 1 .. Len(d) : d[k].item.story = x.story

LEMMA DistinctSorted ==
    ASSUME NEW items \in Seq(Reported)
    PROVE  OneOfEach(Distinct(ByScore(Given(items))), items)
<1> DEFINE given == Given(items)
           scored == ByScore(given)
           d == Distinct(scored)
<1>1. HasScores(Scored)
  BY DEF HasScores, Scored
<1>2. /\ given \in Seq(Scored)
      /\ \A e \in ToSet(given) : e.item \in ToSet(items) /\ e.score = ScoreOf(e.item, profile)
      /\ \A x \in ToSet(items) : \E e \in ToSet(given) : e.item = x
  BY GivenFacts
<1> HIDE DEF given
<1>3. /\ scored \in Seq(Scored) /\ ToSet(scored) = ToSet(given) /\ Len(scored) = Len(given)
      /\ \A i, j \in 1 .. Len(given) : i < j => scored[i].score >= scored[j].score
  BY <1>1, <1>2, SortedFacts
<1> HIDE DEF scored
<1>4. Falling(scored)
  BY <1>3 DEF Falling
<1>5. Firsts(d, scored)
  BY <1>3, DistinctTakesFirsts
<1> HIDE DEF d
<1>6. /\ d \in Seq(Scored) /\ Falling(d)
      /\ \A i, j \in 1 .. Len(d) : d[i].item.story = d[j].item.story => i = j
  BY <1>4, <1>5 DEF Firsts
<1>7. /\ ToSet(d) \subseteq ToSet(given)
      /\ \A x \in ToSet(given) : \E y \in ToSet(d) : y.item.story = x.item.story
      /\ \A x \in ToSet(given), y \in ToSet(d) : y.item.story = x.item.story => y.score >= x.score
  BY <1>3, <1>4, <1>5 DEF Firsts
<1>8. \A y : y \in ToSet(d) <=> \E k \in 1 .. Len(d) : y = d[k]
  BY <1>6 DEF ToSet
<1>9. ASSUME NEW k \in 1 .. Len(d)
      PROVE  /\ d[k].item \in ToSet(items)
             /\ \A x \in ToSet(items) : x.story = d[k].item.story => d[k].score >= ScoreOf(x, profile)
             /\ d[k].score = ScoreOf(d[k].item, profile)
  <2>1. d[k] \in ToSet(d) /\ d[k] \in ToSet(given)
    BY <1>7, <1>8
  <2>2. ASSUME NEW x \in ToSet(items), x.story = d[k].item.story PROVE d[k].score >= ScoreOf(x, profile)
    <3>1. PICK e \in ToSet(given) : e.item = x
      BY <1>2
    <3>2. d[k].score >= e.score
      BY <1>7, <2>1, <2>2, <3>1
    <3> QED BY <1>2, <3>1, <3>2
  <2> QED BY <1>2, <2>1, <2>2
<1>10. ASSUME NEW x \in ToSet(items) PROVE \E k \in 1 .. Len(d) : d[k].item.story = x.story
  <2>1. PICK e \in ToSet(given) : e.item = x
    BY <1>2
  <2>2. PICK y \in ToSet(d) : y.item.story = e.item.story
    BY <1>7
  <2> QED BY <1>8, <2>1, <2>2
<1>11. OneOfEach(d, items)
  BY <1>6, <1>9, <1>10 DEF OneOfEach
<1> QED BY <1>11 DEF d, scored, given

LEMMA BestIs ==
    ASSUME NEW items \in Seq(Reported), NEW d, OneOfEach(d, items), NEW k \in 1 .. Len(d)
    PROVE  Best(d[k].item.story, items, profile) = d[k].score
<1> DEFINE story == d[k].item.story
           reports == {x \in ToSet(items) : x.story = story}
           S == {ScoreOf(x, profile) : x \in reports}
<1>1. /\ d[k].item \in reports /\ d[k].score = ScoreOf(d[k].item, profile)
      /\ \A x \in reports : d[k].score >= ScoreOf(x, profile)
  BY DEF OneOfEach
<1>2. \A x \in reports : ScoreOf(x, profile) \in Int
  <2>1. ToSet(items) \subseteq Reported
    BY ToSetFacts
  <2> QED BY <2>1, ScoreIsNumber
<1> HIDE DEF reports
<1>3. S \subseteq Int /\ d[k].score \in S
  BY <1>1, <1>2
<1>4. \A y \in S : y <= d[k].score
  BY <1>1, <1>2
<1> HIDE DEF S
<1>5. Max(S) = d[k].score
  BY <1>3, <1>4, GreatestIs
<1> QED BY <1>5 DEF Best, S, reports

LEMMA FindingsTell ==
    ASSUME NEW items \in Seq(Reported)
    PROVE  Tells(Findings(items), items, profile)
<1> DEFINE d == Distinct(ByScore(Given(items)))
           kept == Cut(d, MaxFindings)
           m == Min({Len(d), MaxFindings})
           cited(x) == {o.connector : o \in {other \in ToSet(items) : other.story = x}}
           report == Findings(items)
           found == {item.story : item \in ToSet(items)}
           shown == {f.item.story : f \in ToSet(report)}
<1>1. OneOfEach(d, items)
  BY DistinctSorted
<1>2. report = [i \in DOMAIN kept |-> [item |-> kept[i].item, score |-> kept[i].score,
                                       citations |-> cited(kept[i].item.story)]]
  BY DEF Findings, Given
<1> HIDE DEF d, report
<1>3. /\ d \in Seq(Scored) /\ Len(d) \in Nat /\ Falling(d)
      /\ \A i, j \in 1 .. Len(d) : d[i].item.story = d[j].item.story => i = j
  BY <1>1 DEF OneOfEach
<1>4. kept \in Seq(Scored) /\ m \in Nat /\ m <= Len(d) /\ Len(kept) = m /\ \A k \in 1 .. m : kept[k] = d[k]
  BY <1>3, DeepAssumption, CutFacts DEF IsFirst
<1>5. DOMAIN kept = 1 .. m /\ \A k \in 1 .. m : k \in 1 .. Len(d)
  BY <1>3, <1>4
<1> HIDE DEF kept
<1>6. /\ Len(report) = m /\ DOMAIN report = 1 .. m
      /\ \A k \in 1 .. m : /\ report[k].item = d[k].item /\ report[k].score = d[k].score
                           /\ report[k].citations = cited(d[k].item.story)
  <2> HIDE DEF cited, m
  <2>1. report = [i \in 1 .. m |-> [item |-> kept[i].item, score |-> kept[i].score,
                                   citations |-> cited(kept[i].item.story)]]
    BY <1>2, <1>5
  <2>2. Len(report) = m /\ DOMAIN report = 1 .. m
    BY <1>4, <2>1
  <2>3. \A k \in 1 .. m : report[k] = [item |-> kept[k].item, score |-> kept[k].score,
                                     citations |-> cited(kept[k].item.story)]
    BY <2>1
  <2> QED BY <1>4, <2>2, <2>3
<1>7. \A f : f \in ToSet(report) <=> \E k \in 1 .. m : f = report[k]
  BY <1>6 DEF ToSet
<1> DEFINE name == [k \in 1 .. Len(d) |-> d[k].item.story]
<1>8. found = {name[k] : k \in 1 .. Len(d)}
  <2>1. \A k \in 1 .. Len(d) : d[k].item \in ToSet(items)
    BY <1>1 DEF OneOfEach
  <2>2. \A x \in ToSet(items) : \E k \in 1 .. Len(d) : d[k].item.story = x.story
    BY <1>1 DEF OneOfEach
  <2> QED BY <2>1, <2>2
<1>9. shown = {name[k] : k \in 1 .. m}
  <2>1. \A k \in 1 .. m : name[k] = report[k].item.story
    BY <1>5, <1>6
  <2> HIDE DEF name, m
  <2> QED BY <1>7, <2>1
<1>10. /\ \A i, j \in 1 .. Len(d) : name[i] = name[j] => i = j
       /\ \A k \in 1 .. Len(d) : name[k] = d[k].item.story
  BY <1>3
<1> HIDE DEF name, found, shown, m
<1>11. m <= MaxFindings /\ (m = Len(d) \/ m = MaxFindings)
  <2>1. Len(d) \in Nat /\ MaxFindings \in Nat
    BY <1>3, DeepAssumption
  <2>2. \E x \in {Len(d), MaxFindings} : \A y \in {Len(d), MaxFindings} : x <= y
    BY <2>1
  <2>3. m \in {Len(d), MaxFindings} /\ \A y \in {Len(d), MaxFindings} : m <= y
    BY <2>2 DEF m, Min
  <2> QED BY <2>1, <2>3
<1>12. Cardinality(shown) = m
  <2>1. \A i, j \in 1 .. m : name[i] = name[j] => i = j
    BY <1>5, <1>10
  <2>2. NamedBy(shown, name, m)
    BY <1>9 DEF NamedBy
  <2> QED BY <1>4, <2>1, <2>2, CountOfNames
<1>13. \A k \in 1 .. Len(d) : Best(name[k], items, profile) = d[k].score
  BY <1>1, <1>10, BestIs
<1> DEFINE reports(x) == {item \in ToSet(items) : item.story = x}
<1>14. ASSUME NEW f \in ToSet(report)
       PROVE  /\ f.item \in reports(f.item.story) /\ f.score = Best(f.item.story, items, profile)
              /\ f.citations = {item.connector : item \in reports(f.item.story)}
  <2>1. PICK k \in 1 .. m : f = report[k]
    BY <1>7
  <2>2. k \in 1 .. Len(d) /\ f.item = d[k].item /\ f.score = d[k].score /\ f.citations = cited(d[k].item.story)
    BY <1>5, <1>6, <2>1
  <2>3. d[k].item \in ToSet(items)
    BY <1>1, <2>2 DEF OneOfEach
  <2>4. Best(d[k].item.story, items, profile) = d[k].score
    BY <1>10, <1>13, <2>2
  <2> QED BY <2>2, <2>3, <2>4
<1>15. \A i, j \in 1 .. m : i < j => report[i].score >= report[j].score
  BY <1>3, <1>5, <1>6 DEF Falling
<1>16. ASSUME NEW y \in found \ (shown \cup profile.dismissed)
       PROVE  /\ Len(report) = MaxFindings
              /\ \A x \in shown : Best(x, items, profile) >= Best(y, items, profile)
  <2>1. PICK l \in 1 .. Len(d) : y = name[l]
    BY <1>8
  <2>2. l \notin 1 .. m
    BY <1>9, <2>1
  <2>3. m # Len(d)
    BY <2>1, <2>2
  <2>4. ASSUME NEW x \in shown PROVE Best(x, items, profile) >= Best(y, items, profile)
    <3>1. PICK k \in 1 .. m : x = name[k]
      BY <1>9
    <3>2. k < l /\ k \in 1 .. Len(d)
      BY <1>3, <1>4, <1>5, <2>2
    <3>3. d[k].score >= d[l].score
      BY <1>3, <3>2 DEF Falling
    <3> QED BY <1>13, <2>1, <3>1, <3>2, <3>3
  <2> QED BY <1>6, <1>11, <2>3, <2>4
<1>17. Len(report) <= MaxFindings
  BY <1>6, <1>11
<1>18. Tells(report, items, profile)
  <2>1. Cardinality(shown) = Len(report)
    BY <1>6, <1>12
  <2>2. \A i, j \in DOMAIN report : i < j => report[i].score >= report[j].score
    BY <1>6, <1>15
  <2> QED BY <1>14, <1>16, <1>17, <2>1, <2>2 DEF Tells, found, shown
<1> QED BY <1>18 DEF report

-----------------------------------------------------------------------------
(* Deep research: the search *)

Queries == Words \cup {Topic}

\* What has been asked for, and what may be now.
Used == (seenTerms \cup {Topic}) \ ToSet(terms)

\* The requests of the levels before this one, at most.
Sent(t) == IF t = 1 THEN 0 ELSE Width * (2 * (t - 1) - 1)

\* The query i and the connector c have had their turn.
Past(i, c) == i < place[1] \/ (i = place[1] /\ c < place[2])

Searching ==
    /\ depth \in 1 .. 5 /\ tier \in 1 .. depth
    /\ TermsWell
    /\ queries \in Seq(Queries) /\ IsInjective(queries) /\ Len(queries) \in 1 .. 2
    /\ tier = 1 => Len(queries) = 1
    /\ ToSet(queries) \subseteq Used
    /\ place[1] \in 1 .. Len(queries) /\ place[2] \in 1 .. Width
    /\ requests \in Seq(Queries \X (1 .. Width)) /\ IsInjective(requests)
    /\ \A r \in ToSet(requests) : r[1] \in Used
    /\ \A r \in ToSet(requests), i \in 1 .. Len(queries) : r[1] = queries[i] => Past(i, r[2])
    /\ Len(requests) <= Sent(tier) + (IF place[1] = 2 THEN Width ELSE 0) + (place[2] - 1)

Enough == IsInjective(requests) /\ Len(requests) <= Width * (1 + 2 * (depth - 1))

Told == Tells(findings, raw, judged)

DeepInv ==
    /\ phase \in {"none", "search", "save", "saved"}
    /\ raw \in Seq(Reported)
    /\ phase = "none" => requests = <<>>
    /\ phase = "search" => Searching
    /\ phase \in {"save", "saved"} => Enough /\ Told

LEMMA NoRequests == IsInjective(<<>>) /\ ToSet(<<>>) = {} /\ Len(<<>>) = 0 /\ \A S : <<>> \in Seq(S)
  BY ToSetFacts DEF IsInjective

LEMMA WidthTyped == Width \in Nat /\ Width > 0 /\ DOMAIN Answers = 1 .. Width
<1>1. Answers \in Seq(SUBSET Seq(Published)) /\ Answers # <<>>
  BY DeepAssumption
<1> DEFINE A == Answers
           T == SUBSET Seq(Published)
<1> HIDE DEF A, T
<1>2. A \in Seq(T) /\ A # <<>>
  BY <1>1 DEF A, T
<1>3. Len(A) \in Nat /\ Len(A) > 0 /\ DOMAIN A = 1 .. Len(A)
  BY <1>2
<1> QED BY <1>3 DEF A, Width

LEMMA SearchStarts ==
    ASSUME DeepInv, StartResearch
    PROVE  DeepInv'
<1>1. PICK d \in Depths : depth' = Max({1, Min({5, d})})
  BY DEF StartResearch
<1>2. depth' \in 1 .. 5
  <2>1. d \in Int
    BY DeepAssumption
  <2>2. Min({5, d}) \in Int /\ Min({5, d}) <= 5
    <3>1. \E x \in {5, d} : \A y \in {5, d} : x <= y
      BY <2>1
    <3>2. Min({5, d}) \in {5, d} /\ \A y \in {5, d} : Min({5, d}) <= y
      BY <3>1 DEF Min
    <3> QED BY <2>1, <3>2
  <2> DEFINE m == Min({5, d})
  <2> HIDE DEF m
  <2>3. m \in Int /\ m <= 5 /\ depth' = Max({1, m})
    BY <1>1, <2>2 DEF m
  <2>4. \E x \in {1, m} : \A y \in {1, m} : x >= y
    BY <2>3
  <2>5. Max({1, m}) \in {1, m} /\ \A y \in {1, m} : Max({1, m}) >= y
    BY <2>4 DEF Max
  <2> QED BY <2>3, <2>5
<1>3. /\ phase' = "search" /\ tier' = 1 /\ queries' = <<Topic>> /\ place' = <<1, 1>>
      /\ raw' = <<>> /\ terms' = <<>> /\ seenTerms' = {} /\ requests' = <<>>
  BY DEF StartResearch
<1>4. /\ <<Topic>> \in Seq(Queries) /\ Len(<<Topic>>) = 1 /\ IsInjective(<<Topic>>)
      /\ ToSet(<<Topic>>) = {Topic}
  <2>1. <<Topic>> = Append(<<>>, Topic) /\ Topic \in Queries /\ <<>> \in Seq(Queries)
    BY DEF Queries
  <2>2. ToSet(<<Topic>>) = {Topic}
    <3>1. \A q \in Seq(Queries), x \in Queries : ToSet(Append(q, x)) = ToSet(q) \cup {x}
      BY ToSetFacts
    <3>2. ToSet(Append(<<>>, Topic)) = ToSet(<<>>) \cup {Topic}
      BY <2>1, <3>1
    <3>3. ToSet(<<>>) = {}
      BY NoRequests
    <3> QED BY <2>1, <3>2, <3>3
  <2>3. IsInjective(Append(<<>>, Topic))
    BY <2>1, NoRequests, DistinctAppend
  <2> QED BY <2>1, <2>2, <2>3
<1>5. TermsWell'
  BY <1>3, NoRequests DEF TermsWell
<1>6. Used' = {Topic}
  BY <1>3, NoRequests DEF Used
<1>7. Searching'
  BY <1>2, <1>3, <1>4, <1>5, <1>6, NoRequests, WidthTyped DEF Searching, Sent
<1> QED BY <1>3, <1>7, NoRequests DEF DeepInv

\* What a fetch adds to the requests.
LEMMA FetchSends ==
    ASSUME Searching, NEW r, r = <<queries[place[1]], place[2]>>, NEW sent, sent = Append(requests, r)
    PROVE  /\ sent \in Seq(Queries \X (1 .. Width)) /\ IsInjective(sent)
           /\ ToSet(sent) = ToSet(requests) \cup {r} /\ Len(sent) = Len(requests) + 1 /\ Len(requests) \in Nat
           /\ r[1] = queries[place[1]] /\ r[2] = place[2] /\ r[1] \in ToSet(queries)
<1>1. place[1] \in 1 .. Len(queries) /\ place[2] \in 1 .. Width /\ queries \in Seq(Queries)
  BY DEF Searching
<1>2. queries[place[1]] \in Queries /\ queries[place[1]] \in ToSet(queries)
  BY <1>1 DEF ToSet
<1>3. r \in Queries \X (1 .. Width) /\ r[1] = queries[place[1]] /\ r[2] = place[2]
  BY <1>1, <1>2
<1>4. requests \in Seq(Queries \X (1 .. Width)) /\ IsInjective(requests)
  BY DEF Searching
<1>5. r \notin ToSet(requests)
  <2>1. ~Past(place[1], place[2])
    BY <1>1 DEF Past
  <2> QED BY <1>1, <1>3, <2>1 DEF Searching
<1> DEFINE T == Queries \X (1 .. Width)
<1> HIDE DEF T
<1>6. requests \in Seq(T) /\ r \in T
  BY <1>3, <1>4 DEF T
<1>7. sent \in Seq(T) /\ Len(sent) = Len(requests) + 1 /\ Len(requests) \in Nat
  BY <1>6
<1>8. ToSet(sent) = ToSet(requests) \cup {r}
  BY <1>6, ToSetFacts
<1>9. IsInjective(sent)
  BY <1>4, <1>5, <1>6, DistinctAppend
<1> QED BY <1>2, <1>3, <1>7, <1>8, <1>9 DEF T

LEMMA FetchKeepsSearch ==
    ASSUME DeepInv, Fetch
    PROVE  DeepInv'
<1>1. phase = "search" /\ Searching
  BY DEF Fetch, DeepInv
<1>2. PICK stories \in Answers[place[2]] \cup {<<>>} :
        LET next == Expanded(stories)
        IN  /\ raw' = raw \o [i \in DOMAIN stories |-> [connector |-> place[2], story |-> stories[i]]]
            /\ seenTerms' = next.seen
            /\ \/ /\ More
                  /\ place' = Following /\ terms' = next.terms
                  /\ UNCHANGED <<phase, tier, queries, findings, judged>>
               \/ /\ ~More /\ tier < depth /\ next.terms # <<>>
                  /\ tier' = tier + 1 /\ queries' = next.terms /\ terms' = <<>>
                  /\ place' = <<1, 1>>
                  /\ UNCHANGED <<phase, findings, judged>>
               \/ /\ ~More /\ (tier = depth \/ next.terms = <<>>)
                  /\ phase' = "save" /\ findings' = Findings(raw') /\ judged' = profile
                  /\ place' = <<0, 0>> /\ queries' = <<>> /\ terms' = <<>>
                  /\ UNCHANGED tier
  BY DEF Fetch
<1> DEFINE next == Expanded(stories)
           r == <<queries[place[1]], place[2]>>
           sent == Append(requests, r)
<1>3. requests' = sent /\ depth' = depth /\ seenTerms' = next.seen
  BY <1>2 DEF Fetch
<1>4. place[1] \in 1 .. Len(queries) /\ Len(queries) \in 1 .. 2 /\ place[2] \in 1 .. Width /\ Width \in Nat
  BY <1>1, WidthTyped DEF Searching
<1>5. stories \in Seq(Published)
  <2>1. Answers[place[2]] \in SUBSET Seq(Published)
    BY <1>4, WidthTyped, DeepAssumption
  <2>2. <<>> \in Seq(Published)
    OBVIOUS
  <2> QED BY <2>1, <2>2
<1>6. raw' \in Seq(Reported)
  <2> DEFINE items == [i \in DOMAIN stories |-> [connector |-> place[2], story |-> stories[i]]]
  <2>1. DOMAIN stories = 1 .. Len(stories) /\ Len(stories) \in Nat
    BY <1>5
  <2>2. \A i \in 1 .. Len(stories) : [connector |-> place[2], story |-> stories[i]] \in Reported
    BY <1>4, <1>5, WidthTyped DEF Reported
  <2>3. items \in Seq(Reported)
    BY <2>1, <2>2
  <2>4. raw' = raw \o items
    BY <1>2
  <2> HIDE DEF items
  <2> QED BY <2>3, <2>4 DEF DeepInv
<1>7. next \in Nexts
  BY <1>1, <1>5, ExpandedGoes DEF Searching
<1>8. /\ next.terms \in Seq(Words) /\ next.seen \subseteq Words
      /\ IsInjective(next.terms) /\ Len(next.terms) <= 2
      /\ ToSet(next.terms) \subseteq next.seen /\ seenTerms \subseteq next.seen
      /\ ToSet(next.terms) \cap seenTerms \subseteq ToSet(terms)
  BY <1>7 DEF Nexts
<1> HIDE DEF next
<1> DEFINE NowUsed == (next.seen \cup {Topic}) \ ToSet(next.terms)
<1>9. Used \subseteq NowUsed
  <2>1. Topic \notin ToSet(next.terms)
    BY <1>8, DeepAssumption
  <2> QED BY <1>8, <2>1 DEF Used
<1>10. /\ sent \in Seq(Queries \X (1 .. Width)) /\ IsInjective(sent)
       /\ ToSet(sent) = ToSet(requests) \cup {r} /\ Len(sent) = Len(requests) + 1 /\ Len(requests) \in Nat
       /\ r[1] = queries[place[1]] /\ r[2] = place[2] /\ r[1] \in ToSet(queries)
  BY <1>1, FetchSends
<1> HIDE DEF r, sent
<1>11. (\A q \in ToSet(sent) : q[1] \in NowUsed) /\ ToSet(queries) \subseteq NowUsed
  BY <1>1, <1>9, <1>10 DEF Searching
<1>12. depth \in 1 .. 5 /\ tier \in 1 .. depth
  BY <1>1 DEF Searching
<1>13. \A t \in 1 .. 5 : Sent(t) \in Int /\ Sent(t + 1) = Width * (2 * t - 1)
       /\ (IF t = 1 THEN Sent(t) + Width ELSE Sent(t) + 2 * Width) = Width * (2 * t - 1)
  BY <1>4 DEF Sent
<1> DEFINE more == IF place[1] = 2 THEN Width ELSE 0
<1>more. more \in Int /\ Sent(tier) \in Int /\ place[2] \in Int
  <2>1. \A t \in 1 .. 5 : Sent(t) \in Int
    BY <1>13
  <2>2. tier \in 1 .. 5
    BY <1>12
  <2> QED BY <1>4, <2>1, <2>2
<1>14. Len(sent) <= Sent(tier) + more + place[2]
  <2>1. Len(requests) <= Sent(tier) + more + (place[2] - 1)
    BY <1>1 DEF Searching
  <2>2. Len(sent) = Len(requests) + 1 /\ Len(requests) \in Nat
    BY <1>10
  <2> HIDE DEF more
  <2> QED BY <1>more, <2>1, <2>2
<1>15. CASE More /\ place' = Following /\ terms' = next.terms /\ UNCHANGED <<phase, tier, queries>>
  <2>1. TermsWell'
    BY <1>3, <1>8, <1>15 DEF TermsWell
  <2>2. Used' = NowUsed
    BY <1>3, <1>15 DEF Used
  <2>3. \/ place' = <<place[1], place[2] + 1>> /\ place[2] < Width
        \/ place' = <<place[1] + 1, 1>> /\ place[2] = Width /\ place[1] = 1 /\ Len(queries) = 2
    <3>1. CASE place[2] < Width
      BY <1>15, <3>1 DEF Following
    <3>2. CASE ~(place[2] < Width)
      <4>1. place[1] < Len(queries) /\ place' = <<place[1] + 1, 1>>
        BY <1>15, <3>2 DEF Following, More
      <4> DEFINE n == Len(queries)
      <4>2. place[1] \in 1 .. n /\ n \in 1 .. 2 /\ place[1] < n
        BY <1>4, <4>1
      <4> HIDE DEF n
      <4>3. place[1] = 1 /\ n = 2
        BY <4>2
      <4>4. place[2] = Width
        BY <1>4, <3>2
      <4> QED BY <4>1, <4>3, <4>4 DEF n
    <3> QED BY <3>1, <3>2
  <2>4. place'[1] \in 1 .. Len(queries) /\ place'[2] \in 1 .. Width
    BY <1>4, <2>3
  <2>5. ASSUME NEW q \in ToSet(sent), NEW i \in 1 .. Len(queries), q[1] = queries[i]
        PROVE  i < place'[1] \/ (i = place'[1] /\ q[2] < place'[2])
    <3>1. i \in Int
      BY <1>4
    <3>2. CASE q \in ToSet(requests)
      <4>1. Past(i, q[2])
        BY <1>1, <2>5, <3>2 DEF Searching
      <4>2. q[2] \in 1 .. Width
        <5>1. ToSet(requests) \subseteq Queries \X (1 .. Width)
          <6>1. requests \in Seq(Queries \X (1 .. Width))
            BY <1>1 DEF Searching
          <6> QED BY <6>1, ToSetFacts
        <5> QED BY <3>2, <5>1
      <4> QED BY <1>4, <2>3, <3>1, <4>1, <4>2 DEF Past
    <3>3. CASE q = r
      <4>1. DOMAIN queries = 1 .. Len(queries) /\ IsInjective(queries)
        BY <1>1 DEF Searching
      <4>2. i = place[1]
        BY <1>4, <1>10, <2>5, <3>3, <4>1 DEF IsInjective
      <4> QED BY <1>4, <1>10, <2>3, <3>1, <3>3, <4>2
    <3> QED BY <1>10, <3>2, <3>3
  <2>6. Len(sent) <= Sent(tier) + (IF place'[1] = 2 THEN Width ELSE 0) + (place'[2] - 1)
    <3>1. Sent(tier) \in Int /\ Len(sent) \in Int
      BY <1>10, <1>12, <1>13
    <3>2. CASE place' = <<place[1], place[2] + 1>>
      <4>1. place'[1] = place[1] /\ place'[2] - 1 = place[2]
        BY <1>4, <3>2
      <4> QED BY <1>14, <4>1
    <3>3. CASE place' = <<place[1] + 1, 1>> /\ place[2] = Width /\ place[1] = 1
      BY <1>4, <1>14, <3>1, <3>3
    <3> QED BY <2>3, <3>2, <3>3
  <2>7. Searching'
    <3>1. (\A q \in ToSet(requests'), i \in 1 .. Len(queries') : q[1] = queries'[i] => Past(i, q[2])')
      BY <1>3, <1>15, <2>5 DEF Past
    <3>2. queries \in Seq(Queries) /\ IsInjective(queries) /\ (tier = 1 => Len(queries) = 1)
      BY <1>1 DEF Searching
    <3>3. Sent(tier)' = Sent(tier)
      BY <1>15 DEF Sent
    <3> HIDE DEF NowUsed
    <3> QED BY <1>3, <1>4, <1>10, <1>11, <1>12, <1>15, <2>1, <2>2, <2>4, <2>6, <3>1, <3>2, <3>3 DEF Searching
  <2> QED BY <1>1, <1>6, <1>15, <2>7 DEF DeepInv
<1>16. ASSUME ~More PROVE Len(sent) <= Width * (2 * tier - 1) /\ Width * (2 * tier - 1) <= Width * (1 + 2 * (depth - 1))
  <2>1. place[2] = Width /\ place[1] = Len(queries)
    BY <1>4, <1>16 DEF More
  <2>2. more + place[2] = IF Len(queries) = 2 THEN 2 * Width ELSE Width
    BY <1>4, <2>1
  <2>3. tier = 1 => Len(queries) = 1
    BY <1>1 DEF Searching
  <2>4. Sent(tier) + more + place[2] <= Width * (2 * tier - 1)
    <3>1. /\ tier \in 1 .. 5 /\ Sent(tier) \in Int
          /\ (IF tier = 1 THEN Sent(tier) + Width ELSE Sent(tier) + 2 * Width) = Width * (2 * tier - 1)
      BY <1>12, <1>13
    <3>2. more \in Int /\ place[2] \in Int /\ Width \in Int
      BY <1>4, <1>more
    <3> DEFINE bound == Width * (2 * tier - 1)
    <3> HIDE DEF bound, more
    <3>3. (IF tier = 1 THEN Sent(tier) + Width ELSE Sent(tier) + 2 * Width) = bound
      BY <3>1 DEF bound
    <3>4. Sent(tier) + more + place[2] <= bound
      <4>1. CASE tier = 1
        BY <1>4, <2>2, <2>3, <3>1, <3>2, <3>3, <4>1
      <4>2. CASE tier # 1
        <5>1. Sent(tier) + 2 * Width = bound
          BY <3>3, <4>2
        <5>2. more + place[2] <= 2 * Width
          BY <1>4, <2>2
        <5> QED BY <3>1, <3>2, <5>1, <5>2
      <4> QED BY <4>1, <4>2
    <3> QED BY <3>4 DEF bound
  <2>5. Width * (2 * tier - 1) <= Width * (1 + 2 * (depth - 1))
    <3>1. \A a, b \in Int : a <= b => Width * a <= Width * b
      BY <1>4
    <3>2. 2 * tier - 1 \in Int /\ 1 + 2 * (depth - 1) \in Int /\ 2 * tier - 1 <= 1 + 2 * (depth - 1)
      BY <1>12
    <3> QED BY <3>1, <3>2
  <2>6. Width * (2 * tier - 1) \in Int
    BY <1>4, <1>12
  <2>7. Len(sent) \in Int /\ Sent(tier) + more + place[2] \in Int
    BY <1>more, <1>10
  <2> HIDE DEF more
  <2> QED BY <1>14, <2>4, <2>5, <2>6, <2>7
<1>17. CASE /\ ~More /\ tier < depth /\ next.terms # <<>> /\ tier' = tier + 1 /\ queries' = next.terms
            /\ terms' = <<>> /\ place' = <<1, 1>> /\ phase' = phase
  <2>1. TermsWell'
    BY <1>3, <1>8, <1>17, NoRequests DEF TermsWell
  <2>2. Used' = next.seen \cup {Topic}
    BY <1>3, <1>17, NoRequests DEF Used
  <2>3. queries' \in Seq(Queries) /\ IsInjective(queries') /\ Len(queries') \in 1 .. 2
    <3>1. Words \subseteq Queries
      BY DEF Queries
    <3>2. next.terms \in Seq(Queries)
      BY <1>8, <3>1, SeqSubset
    <3>3. Len(next.terms) # 0 /\ Len(next.terms) \in Nat
      BY <1>8, <1>17
    <3>4. Len(next.terms) \in 1 .. 2
      <4> DEFINE n == Len(next.terms)
      <4>1. n <= 2
        BY <1>8, Zenon
      <4>2. n # 0 /\ n \in Nat
        BY <3>3
      <4> HIDE DEF n
      <4>3. n \in 1 .. 2
        BY <4>1, <4>2
      <4> QED BY <4>3 DEF n
    <3> QED BY <1>8, <1>17, <3>2, <3>4
  <2>4. ToSet(queries') \subseteq Used'
    BY <1>8, <1>17, <2>2
  <2>5. place'[1] = 1 /\ place'[2] = 1
    BY <1>17
  <2>6. \A q \in ToSet(requests') : q[1] \in Used'
    BY <1>3, <1>11, <2>2
  <2>7. \A q \in ToSet(requests'), i \in 1 .. Len(queries') : q[1] # queries'[i]
    <3>1. \A i \in 1 .. Len(queries') : queries'[i] \in ToSet(next.terms)
      BY <1>17, <2>3 DEF ToSet
    <3> QED BY <1>3, <1>11, <3>1
  <2>8. Len(requests') <= Sent(tier')
    <3>1. Sent(tier + 1) = Width * (2 * tier - 1)
      BY <1>12, <1>13
    <3> QED BY <1>3, <1>16, <1>17, <3>1
  <2>9. tier' \in 1 .. depth' /\ tier' # 1 /\ depth' \in 1 .. 5
    BY <1>3, <1>12, <1>17
  <2>10. Searching'
    <3>1. Sent(tier') \in Int /\ Sent(tier)' = Sent(tier')
      BY <1>4, <2>9 DEF Sent
    <3>2. \A q \in ToSet(requests'), i \in 1 .. Len(queries') : q[1] = queries'[i] => Past(i, q[2])'
      BY <2>7
    <3>3. Len(requests') <= Sent(tier)' + (IF place'[1] = 2 THEN Width ELSE 0) + (place'[2] - 1)
      BY <2>5, <2>8, <3>1
    <3>4. 1 \in 1 .. Len(queries') /\ 1 \in 1 .. Width
      BY <1>4, <2>3
    <3>5. requests' \in Seq(Queries \X (1 .. Width)) /\ IsInjective(requests')
      BY <1>3, <1>10
    <3> QED BY <2>1, <2>3, <2>4, <2>5, <2>6, <2>9, <3>2, <3>3, <3>4, <3>5 DEF Searching
  <2> QED BY <1>1, <1>6, <1>17, <2>10 DEF DeepInv
<1>18. CASE ~More /\ phase' = "save" /\ findings' = Findings(raw') /\ judged' = profile
  <2>1. Enough'
    <3>1. Width * (2 * tier - 1) \in Int /\ Width * (1 + 2 * (depth - 1)) \in Int /\ Len(sent) \in Int
      <4>1. \A a \in Int : Width * a \in Int
        BY <1>4
      <4>2. 2 * tier - 1 \in Int /\ 1 + 2 * (depth - 1) \in Int
        BY <1>12
      <4> QED BY <1>10, <4>1, <4>2
    <3>2. Len(sent) <= Width * (1 + 2 * (depth - 1))
      BY <1>16, <1>18, <3>1
    <3> QED BY <1>3, <1>10, <3>2 DEF Enough
  <2>2. Tells(Findings(raw'), raw', profile)
    BY <1>6, FindingsTell
  <2>3. Tells(findings', raw', judged')
    BY <1>18, <2>2
  <2>4. Told'
    BY <2>3 DEF Told, Tells, Best, ScoreOf
  <2> QED BY <1>6, <1>18, <2>1, <2>4 DEF DeepInv
<1>19. \/ More /\ place' = Following /\ terms' = next.terms /\ UNCHANGED <<phase, tier, queries>>
       \/ /\ ~More /\ tier < depth /\ next.terms # <<>> /\ tier' = tier + 1 /\ queries' = next.terms
          /\ terms' = <<>> /\ place' = <<1, 1>> /\ phase' = phase
       \/ ~More /\ phase' = "save" /\ findings' = Findings(raw') /\ judged' = profile
  BY <1>2 DEF next
<1> QED BY <1>15, <1>17, <1>18, <1>19

LEMMA ToldStays ==
    ASSUME Told, findings' = findings, raw' = raw, judged' = judged
    PROVE  Told'
<1>1. Tells(findings', raw', judged')
  BY DEF Told
<1> QED BY <1>1 DEF Told, Tells, Best, ScoreOf

LEMMA DeepStep == DeepInv /\ [DeepNext]_deepVars => DeepInv'
<1> SUFFICES ASSUME DeepInv, [DeepNext]_deepVars PROVE DeepInv'
  OBVIOUS
<1>1. CASE UNCHANGED <<phase, depth, tier, queries, place, raw, terms, seenTerms, findings, requests, judged>>
  <2>1. Told => Told'
    BY <1>1, ToldStays
  <2>2. Enough => Enough'
    BY <1>1 DEF Enough
  <2>3. Searching => Searching'
    <3>1. TermsWell => TermsWell'
      BY <1>1 DEF TermsWell
    <3>2. Used' = Used /\ Sent(tier)' = Sent(tier)
      BY <1>1 DEF Used, Sent
    <3>3. \A i, c : Past(i, c)' = Past(i, c)
      BY <1>1 DEF Past
    <3> QED BY <1>1, <3>1, <3>2, <3>3 DEF Searching
  <2> QED BY <1>1, <2>1, <2>2, <2>3 DEF DeepInv
<1>2. CASE Feedback
  BY <1>1, <1>2 DEF Feedback, session
<1>3. CASE DeepRestart
  BY <1>3, NoRequests DEF DeepRestart, DeepInv
<1>4. CASE SaveSession
  <2>1. Told => Told'
    BY <1>4, ToldStays DEF SaveSession, progress
  <2>2. Enough => Enough'
    BY <1>4 DEF SaveSession, progress, Enough
  <2> QED BY <1>4, <2>1, <2>2 DEF SaveSession, progress, DeepInv
<1>5. CASE SaveSessionFails
  BY <1>5 DEF SaveSessionFails, progress, DeepInv
<1>6. CASE UNCHANGED deepVars
  BY <1>1, <1>6 DEF deepVars
<1> QED BY <1>2, <1>3, <1>4, <1>5, <1>6, SearchStarts, FetchKeepsSearch DEF DeepNext

\* DeepResearch.research, for any connectors, answers, terms, scores and feedback: no connector
\* is asked twice for the same query, nor for more than two terms on each level after the
\* first; the report is of stories that were found, each once, as its most relevant report
\* and with all its sources, the most relevant first; and of what the user has not dismissed
\* only a full report leaves something out, which is no more relevant than all it has.
THEOREM ReportsAlwaysSound == DeepSpec => []ReportsSound
<1>1. DeepInit => DeepInv
  BY NoRequests DEF DeepInit, DeepInv
<1>2. DeepInv => ReportsSound
  <2> SUFFICES ASSUME DeepInv PROVE ReportsSound
    OBVIOUS
  <2>1. CASE phase = "none"
    BY <2>1, NoRequests DEF DeepInv, ReportsSound
  <2>2. CASE phase = "search"
    <3>1. Searching
      BY <2>2 DEF DeepInv
    <3>2. IsInjective(requests) /\ Len(requests) \in Nat
      BY <3>1 DEF Searching
    <3>3. Len(requests) <= Width * (1 + 2 * (depth - 1))
      <4>1. /\ depth \in 1 .. 5 /\ tier \in 1 .. depth /\ Width \in Nat
            /\ place[1] \in 1 .. Len(queries) /\ Len(queries) \in 1 .. 2 /\ place[2] \in 1 .. Width
            /\ (tier = 1 => Len(queries) = 1)
            /\ Len(requests) <= Sent(tier) + (IF place[1] = 2 THEN Width ELSE 0) + (place[2] - 1)
        BY <3>1, WidthTyped DEF Searching
      <4>2. Sent(tier) + (IF place[1] = 2 THEN Width ELSE 0) + (place[2] - 1) <= Width * (2 * tier - 1)
        <5>1. CASE tier = 1
          <6>1. Sent(tier) = 0 /\ place[1] = 1
            <7>1. Len(queries) = 1
              BY <4>1, <5>1
            <7>2. place[1] \in 1 .. 1
              BY <4>1, <7>1
            <7> QED BY <5>1, <7>2 DEF Sent
          <6>2. Width * (2 * tier - 1) = Width
            BY <4>1, <5>1
          <6> QED BY <4>1, <6>1, <6>2
        <5>2. CASE tier # 1
          <6>1. Sent(tier) = Width * (2 * (tier - 1) - 1) /\ Sent(tier) \in Int
            BY <4>1, <5>2 DEF Sent
          <6>2. Width * (2 * tier - 1) = Width * (2 * (tier - 1) - 1) + 2 * Width
            BY <4>1
          <6> QED BY <4>1, <6>1, <6>2
        <5> QED BY <5>1, <5>2
      <4>3. Width * (2 * tier - 1) <= Width * (1 + 2 * (depth - 1))
        <5>1. \A a, b \in Int : a <= b => Width * a <= Width * b
          BY <4>1
        <5>2. 2 * tier - 1 \in Int /\ 1 + 2 * (depth - 1) \in Int /\ 2 * tier - 1 <= 1 + 2 * (depth - 1)
          BY <4>1
        <5> QED BY <5>1, <5>2
      <4>4. /\ Width * (2 * tier - 1) \in Int /\ Width * (1 + 2 * (depth - 1)) \in Int
            /\ Sent(tier) + (IF place[1] = 2 THEN Width ELSE 0) + (place[2] - 1) \in Int
        BY <4>1 DEF Sent
      <4> QED BY <3>2, <4>1, <4>2, <4>3, <4>4
    <3> QED BY <2>2, <3>2, <3>3 DEF ReportsSound
  <2>3. CASE phase \in {"save", "saved"}
    <3>1. Enough /\ Told
      BY <2>3 DEF DeepInv
    <3> QED BY <2>3, <3>1 DEF ReportsSound, Enough, Told, Tells, Best
  <2> QED BY <2>1, <2>2, <2>3 DEF DeepInv
<1> QED BY <1>1, <1>2, DeepStep, DeepAssumption, PTL DEF DeepSpec
===================================================================================
