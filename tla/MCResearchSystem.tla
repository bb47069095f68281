---------------------------- MODULE MCResearchSystem ----------------------------
(***************************************************************************)
(* Small instances of Research, ResearchSources and DeepResearch.  A       *)
(* collection or a briefing, the configuration and its subsystem, and a    *)
(* research session share only the connectors, which Research models for   *)
(* every task that fetches, so a behaviour is one of one of them.          *)
(***************************************************************************)
EXTENDS MCResearch, ResearchSources, DeepResearch

VARIABLE part

MCVars == <<part, vars, sourcesVars, deepVars>>

On(settings) == settings # "off"

-----------------------------------------------------------------------------
\* The first connector has two stories that share a term, the second one of them and
\* another, which no connector expands.
Replies == << {<<"a", "b">>}, {<<"b", "c">>} >>

TitleTerms(x) == CASE x = "a" -> <<"t", "u", "v">> [] x = "b" -> <<"u", "v">> [] OTHER -> <<>>

Worth(i, x) == CASE x = "a" -> 6 [] x = "b" -> 3 + i [] OTHER -> 8

Writer(x) == IF x = "a" THEN "ada" ELSE "bob"

-----------------------------------------------------------------------------
MCInit ==
    /\ part \in {"cycles", "sources", "deep"}
    /\ Init /\ SourcesInit /\ DeepInit

MCNext ==
    /\ UNCHANGED part
    /\ \/ part = "cycles" /\ Next /\ UNCHANGED <<sourcesVars, deepVars>>
       \/ part = "sources" /\ SourcesNext /\ UNCHANGED <<vars, deepVars>>
       \/ part = "deep" /\ DeepNext /\ UNCHANGED <<vars, sourcesVars>>

\* Where the cycles do not run, none of their fair actions is ever enabled.
MCSpec == MCInit /\ [][MCNext]_MCVars /\ Fairness
=================================================================================
