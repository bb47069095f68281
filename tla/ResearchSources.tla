----------------------------- MODULE ResearchSources -----------------------------
(***************************************************************************)
(* The configuration of the research sources (src/mysti/research/          *)
(* sources.py), the connectors built from it, and the jobs that build the  *)
(* research subsystem when they first need it (AppContext.ensure_research  *)
(* and the callbacks of the scheduler in src/mysti/core/context.py).       *)
(*                                                                         *)
(* The settings of a source are one value.  Callers share one event loop,  *)
(* each await is a step boundary, and an object read from storage may be   *)
(* old by the time the reader goes on.  The observer `once` has every      *)
(* configuration that storage has held, and the defaults.                  *)
(***************************************************************************)
EXTENDS Naturals

CONSTANTS
    Readers,        \* concurrent callers
    SourceNames,
    Settings,       \* settings a source may have
    Standard,       \* those of DEFAULT_SOURCE_CONFIG
    Enabled(_),     \* whether settings enable the source
    Missing         \* no object, no copy, not built

ASSUME StandardAssumption == Standard \in Settings /\ Enabled(Standard)

VARIABLES
    stored,         \* research_sources.enc, a configuration or Missing
    copy,           \* ResearchSourceConfig._config
    loaded,         \* AppContext._research_loaded
    built,          \* the sources of AppContext.collectors, which the collector and briefing use
    reader,         \* reader[r]: what caller r is doing
    once            \* observer: the configurations that have been in storage

sourcesVars == <<stored, copy, loaded, built, reader, once>>

Configuration == [SourceNames -> Settings]

Defaults == [s \in SourceNames |-> Standard]

Free == [pc |-> "free"]

SourcesTypeOK ==
    /\ stored \in Configuration \cup {Missing}
    /\ copy \in Configuration \cup {Missing}
    /\ loaded \in BOOLEAN
    /\ built \in SUBSET SourceNames \cup {Missing}
    /\ once \in SUBSET Configuration
    /\ reader \in [Readers -> {Free} \cup [pc : {"running"}]
          \cup [pc : {"get"}, job : BOOLEAN]
          \cup [pc : {"read"}, job : BOOLEAN, seen : Configuration \cup {Missing}]
          \cup [pc : {"key", "saved"}, config : Configuration]]

SourcesInit ==
    /\ stored = Missing /\ copy = Missing
    /\ loaded = FALSE /\ built = Missing
    /\ reader = [r \in Readers |-> Free]
    /\ once = {Defaults}

-----------------------------------------------------------------------------
Turn(r, pc) == reader[r].pc = pc

Go(r, to) == reader' = [reader EXCEPT ![r] = to]

\* build_connectors
EnabledIn(config) == {s \in SourceNames : Enabled(config[s])}

\* load returns this configuration: to a job, which builds the subsystem and runs, or to
\* somebody else.
Return(r, job, config) ==
    IF job THEN built' = EnabledIn(config) /\ Go(r, [pc |-> "running"])
    ELSE UNCHANGED built /\ Go(r, Free)

\* load: the copy, or a read of the object.
Load(r, job) ==
    IF copy # Missing THEN Return(r, job, copy)
    ELSE Go(r, [pc |-> "get", job |-> job]) /\ UNCHANGED built

LoadSources(r) ==
    /\ Turn(r, "free")
    /\ Load(r, FALSE)
    /\ UNCHANGED <<stored, copy, loaded, once>>

\* Mutation: without the assertion that the subsystem is there.
StartJob_Unchecked(r) ==
    /\ Turn(r, "free")
    /\ IF loaded THEN Go(r, [pc |-> "running"]) /\ UNCHANGED built
       ELSE Load(r, TRUE)
    /\ loaded' = TRUE
    /\ UNCHANGED <<stored, copy, once>>

\* A job of the scheduler: ensure_research returns at once when another caller has begun
\* to build, and the job fails if that one has not finished.
StartJob(r) ==
    /\ Turn(r, "free")
    /\ IF loaded
       THEN built # Missing /\ Go(r, [pc |-> "running"]) /\ UNCHANGED built
       ELSE Load(r, TRUE)
    /\ loaded' = TRUE
    /\ UNCHANGED <<stored, copy, once>>

JobEnds(r) ==
    /\ Turn(r, "running")
    /\ Go(r, Free)
    /\ UNCHANGED <<stored, copy, loaded, built, once>>

\* The read has its answer, which the reader gets later.
GetObject(r) ==
    /\ Turn(r, "get")
    /\ Go(r, [pc |-> "read", job |-> reader[r].job, seen |-> stored])
    /\ UNCHANGED <<stored, copy, loaded, built, once>>

\* Any failure of storage but a missing object: the exception goes to the caller, and a
\* job that was building never comes back to it.
GetFails(r) ==
    /\ Turn(r, "get")
    /\ Go(r, Free)
    /\ UNCHANGED <<stored, copy, loaded, built, once>>

\* The key comes and the object opens, or not, or there is none: then it is the defaults.
Decoded(r) ==
    /\ Turn(r, "read")
    /\ \E config \in {reader[r].seen, Defaults} \ {Missing} :
        /\ copy' = config
        /\ Return(r, reader[r].job, config)
    /\ UNCHANGED <<stored, loaded, once>>

-----------------------------------------------------------------------------
\* save, up to the key: what is given, over the defaults.  What is not valid is refused.
Save(r) ==
    /\ Turn(r, "free")
    /\ \E config \in Configuration : Go(r, [pc |-> "key", config |-> config])
    /\ UNCHANGED <<stored, copy, loaded, built, once>>

PutObject(r) ==
    /\ Turn(r, "key")
    /\ stored' = reader[r].config
    /\ once' = once \cup {reader[r].config}
    /\ Go(r, [reader[r] EXCEPT !.pc = "saved"])
    /\ UNCHANGED <<copy, loaded, built>>

\* The key is missing or storage fails, or its answer is lost.
SaveSourcesFails(r) ==
    /\ Turn(r, "key") \/ Turn(r, "saved")
    /\ Go(r, Free)
    /\ UNCHANGED <<stored, copy, loaded, built, once>>

Saved(r) ==
    /\ Turn(r, "saved")
    /\ copy' = reader[r].config
    /\ Go(r, Free)
    /\ UNCHANGED <<stored, loaded, built, once>>

SourcesRestart ==
    /\ copy' = Missing /\ loaded' = FALSE /\ built' = Missing
    /\ reader' = [r \in Readers |-> Free]
    /\ UNCHANGED <<stored, once>>

SourcesNext ==
    \/ \E r \in Readers :
          \/ LoadSources(r) \/ StartJob(r) \/ JobEnds(r)
          \/ GetObject(r) \/ GetFails(r) \/ Decoded(r)
          \/ Save(r) \/ PutObject(r) \/ SaveSourcesFails(r) \/ Saved(r)
    \/ SourcesRestart

SourcesSpec == SourcesInit /\ [][SourcesNext]_sourcesVars

-----------------------------------------------------------------------------
(* Properties *)

\* A job runs only with a subsystem that is complete and was built from a configuration
\* that has been in storage, or from the defaults; and such a one is what load serves:
\* never the settings of a save that has not reached storage.
RunsConfigured ==
    /\ copy \in once \cup {Missing}
    /\ \A r \in Readers : Turn(r, "running") =>
          \E config \in once : built = EnabledIn(config)
===================================================================================
