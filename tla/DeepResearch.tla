------------------------------ MODULE DeepResearch ------------------------------
(***************************************************************************)
(* Deep research (src/mysti/research/deep.py) and the relevance engine     *)
(* with the user's feedback (src/mysti/research/relevance.py): a session   *)
(* asks every connector for the topic, then for terms taken from what it   *)
(* finds, and makes a report of the stories, the most relevant first.      *)
(*                                                                         *)
(* A finding is a story as one source reports it; stories are known by     *)
(* their fingerprints, and the terms of a title are given with the story.  *)
(* A score is in half points.  The observers `requests` and `judged` have  *)
(* the queries sent, in order, and the feedback a report was scored with.  *)
(***************************************************************************)
EXTENDS Ranking

CONSTANTS
    Topic,
    Published,      \* the stories there are
    Words,          \* the terms titles may have that the topic does not have
    Answers,        \* Answers[i]: what connector i may answer, sequences of stories
    TermsOf(_),     \* _extract_terms of a story's title, without those of the topic
    BaseScore(_, _),    \* keywords, source and age, of story x as connector i reports it
    AuthorOf(_),
    Depths,         \* depths asked for
    MaxFindings,    \* 25 in the code
    MaxFeedback,    \* bound: dismissed stories and trusted authors together
    Broken          \* a file that cannot be read

\* The command line builds the connectors from the default sources: there are some.
ASSUME DeepAssumption ==
    /\ Answers \in Seq(SUBSET Seq(Published)) /\ Answers # <<>>
    /\ Topic \notin Words /\ \A x \in Published : TermsOf(x) \in Seq(Words)
    /\ \A i \in DOMAIN Answers, x \in Published : BaseScore(i, x) \in Int
    /\ Depths \subseteq Int /\ MaxFindings \in Nat

VARIABLES
    phase,          \* "none", "search", "save" or "saved"
    depth,
    tier,           \* level, from 1
    queries,        \* the queries of this level
    place,          \* the query and the connector whose turn it is
    raw,            \* raw_items, [connector, story]
    terms,          \* next_terms
    seenTerms,      \* seen_terms
    findings,
    profile,        \* RelevanceEngine.profile: dismissed URLs, of one story each, and trusted authors
    profileFile,    \* interests.json: the same, or Broken
    requests,       \* observer
    judged          \* observer

deepVars ==
    <<phase, depth, tier, queries, place, raw, terms, seenTerms, findings,
      profile, profileFile, requests, judged>>

session == <<phase, depth, tier, queries, place, raw, terms, seenTerms, findings, requests, judged>>

progress == <<depth, tier, queries, place, raw, terms, seenTerms>>

NoFeedback == [dismissed |-> {}, trusted |-> {}]

Width == Len(Answers)

Reported == [connector : DOMAIN Answers, story : Published]

Authors == {AuthorOf(item.story) : item \in Reported}

Feedbacks == [dismissed : SUBSET {item.story : item \in Reported}, trusted : SUBSET Authors]

DeepTypeOK ==
    /\ phase \in {"none", "search", "save", "saved"}
    /\ depth \in Nat /\ tier \in Nat
    /\ raw \in Seq(Reported)
    /\ Len(terms) <= 2 /\ Len(findings) <= MaxFindings
    /\ profile \in Feedbacks /\ judged \in Feedbacks
    /\ profileFile \in Feedbacks \cup {Broken}

DeepInit ==
    /\ phase = "none" /\ depth = 0 /\ tier = 0 /\ place = <<0, 0>>
    /\ queries = <<>> /\ raw = <<>> /\ terms = <<>> /\ seenTerms = {}
    /\ findings = <<>> /\ requests = <<>> /\ judged = NoFeedback
    /\ profile = NoFeedback /\ profileFile = NoFeedback

-----------------------------------------------------------------------------
(* RelevanceEngine *)

\* score: nothing for what the user has dismissed; two points for a trusted author.
ScoreOf(item, feedback) ==
    IF item.story \in feedback.dismissed THEN 0
    ELSE BaseScore(item.connector, item.story)
         + (IF AuthorOf(item.story) \in feedback.trusted THEN 4 ELSE 0)

\* record_feedback and save_profile: written after the change, which stays when the write
\* fails, before it touches the file or after it has emptied it.
Feedback ==
    /\ \E item \in Reported :
          \/ profile' = [profile EXCEPT !.dismissed = @ \cup {item.story}]
          \/ profile' = [profile EXCEPT !.trusted = @ \cup {AuthorOf(item.story)}]
    /\ Cardinality(profile'.dismissed) + Cardinality(profile'.trusted) <= MaxFeedback
    /\ profileFile' \in {profile', profileFile, Broken}
    /\ UNCHANGED session

\* load_profile, when the program starts: a file that cannot be read has no feedback.
DeepRestart ==
    /\ profile' = IF profileFile = Broken THEN NoFeedback ELSE profileFile
    /\ phase' = "none" /\ findings' = <<>> /\ requests' = <<>> /\ judged' = NoFeedback
    /\ depth' = 0 /\ tier' = 0 /\ place' = <<0, 0>>
    /\ queries' = <<>> /\ raw' = <<>> /\ terms' = <<>> /\ seenTerms' = {}
    /\ UNCHANGED profileFile

-----------------------------------------------------------------------------
(* DeepResearch.research *)

StartResearch ==
    /\ phase \in {"none", "saved"}
    /\ phase' = "search"
    /\ \E d \in Depths : depth' = Max({1, Min({5, d})})
    /\ tier' = 1 /\ queries' = <<Topic>> /\ place' = <<1, 1>>
    /\ raw' = <<>> /\ terms' = <<>> /\ seenTerms' = {}
    /\ findings' = <<>> /\ requests' = <<>> /\ judged' = NoFeedback
    /\ UNCHANGED <<profile, profileFile>>

\* Mutation: a term is forgotten with its level.
Expand_Forgotten(next, term) ==
    IF term \in ToSet(next.terms) \/ Len(next.terms) >= 2 THEN next
    ELSE [terms |-> Append(next.terms, term), seen |-> {}]

\* A term that is new is searched for on the next level, at most two of them.
Expand(next, term) ==
    IF term \in next.seen \/ Len(next.terms) >= 2 THEN next
    ELSE [terms |-> Append(next.terms, term), seen |-> next.seen \cup {term}]

ExpandAll(next, news) ==
    LET now[n \in 0 .. Len(news)] == IF n = 0 THEN next ELSE Expand(now[n - 1], news[n])
    IN  now[Len(news)]

\* The terms of the stories a connector has answered; none on the last level.
Expanded(stories) ==
    LET old == [terms |-> terms, seen |-> seenTerms]
        now[n \in 0 .. Len(stories)] ==
            IF n = 0 THEN old ELSE ExpandAll(now[n - 1], TermsOf(stories[n]))
    IN  IF tier = depth THEN old ELSE now[Len(stories)]

\* Each story once, as the first that has it.
Unless(firsts, x) ==
    IF \E y \in ToSet(firsts) : y.item.story = x.item.story THEN firsts ELSE Append(firsts, x)

Distinct(scored) ==
    LET firsts[n \in 0 .. Len(scored)] ==
            IF n = 0 THEN <<>> ELSE Unless(firsts[n - 1], scored[n])
    IN  firsts[Len(scored)]

\* _score_findings: the best report of each story, with the sources that have it.
Findings(items) ==
    LET scored == ByScore([i \in DOMAIN items |->
                      [item |-> items[i], score |-> ScoreOf(items[i], profile)]])
        kept == Cut(Distinct(scored), MaxFindings)
        sources(x) == {o.connector : o \in {other \in ToSet(items) : other.story = x.story}}
    IN  [i \in DOMAIN kept |-> [item |-> kept[i].item, score |-> kept[i].score,
                                citations |-> sources(kept[i].item)]]

\* The turn after the one at `place`, if this level has one.
More == place[2] < Width \/ place[1] < Len(queries)

Following == IF place[2] < Width THEN <<place[1], place[2] + 1>> ELSE <<place[1] + 1, 1>>

\* One fetch, which answers, or fails and finds nothing.  Then the next query or
\* connector, the next level, or the report.
Fetch ==
    /\ phase = "search"
    /\ \E stories \in Answers[place[2]] \cup {<<>>} :
        LET next == Expanded(stories)
        IN  /\ raw' = raw \o [i \in DOMAIN stories |-> [connector |-> place[2], story |-> stories[i]]]
            /\ seenTerms' = next.seen
            /\ \/ /\ More
                  /\ place' = Following /\ terms' = next.terms
                  /\ UNCHANGED <<phase, tier, queries, findings, judged>>
               \/ /\ ~More /\ tier < depth /\ next.terms # <<>>
                  /\ tier' = tier + 1 /\ queries' = next.terms /\ terms' = <<>>
                  /\ place' = <<1, 1>>
                  /\ UNCHANGED <<phase, findings, judged>>
               \/ /\ ~More /\ (tier = depth \/ next.terms = <<>>)
                  /\ phase' = "save" /\ findings' = Findings(raw') /\ judged' = profile
                  /\ place' = <<0, 0>> /\ queries' = <<>> /\ terms' = <<>>
                  /\ UNCHANGED tier
    /\ requests' = Append(requests, <<queries[place[1]], place[2]>>)
    /\ UNCHANGED <<depth, profile, profileFile>>

\* _save_session: the report is stored and returned.
SaveSession ==
    /\ phase = "save"
    /\ phase' = "saved"
    /\ UNCHANGED <<progress, findings, profile, profileFile, requests, judged>>

\* Without the key or storage the caller gets the exception, and the work is lost.
SaveSessionFails ==
    /\ phase = "save"
    /\ phase' = "none" /\ findings' = <<>> /\ requests' = <<>> /\ judged' = NoFeedback
    /\ UNCHANGED <<progress, profile, profileFile>>

DeepNext ==
    \/ Feedback \/ DeepRestart
    \/ StartResearch \/ Fetch \/ SaveSession \/ SaveSessionFails

DeepSpec == DeepInit /\ [][DeepNext]_deepVars

-----------------------------------------------------------------------------
(* Properties *)

\* However the connectors answer, a session asks each of them at most once for the same
\* query and for at most two terms on each level after the first.  Its report is of stories
\* that were found, each once, as its most relevant report and with all its sources, the most
\* relevant story first; and of what the user has not dismissed only a full report leaves
\* something out, which is no more relevant than all it has.
ReportsSound ==
    /\ IsInjective(requests)
    /\ requests # <<>> => Len(requests) <= Width * (1 + 2 * (depth - 1))
    /\ phase \in {"save", "saved"} =>
        LET found == {item.story : item \in ToSet(raw)}
            reports(x) == {item \in ToSet(raw) : item.story = x}
            best(x) == Max({ScoreOf(item, judged) : item \in reports(x)})
            shown == {f.item.story : f \in ToSet(findings)}
        IN  /\ Cardinality(shown) = Len(findings) /\ Len(findings) <= MaxFindings
            /\ \A f \in ToSet(findings) :
                /\ f.item \in reports(f.item.story) /\ f.score = best(f.item.story)
                /\ f.citations = {item.connector : item \in reports(f.item.story)}
            /\ \A i, j \in DOMAIN findings : i < j => findings[i].score >= findings[j].score
            /\ \A y \in found \ (shown \cup judged.dismissed) :
                /\ Len(findings) = MaxFindings
                /\ \A x \in shown : best(x) >= best(y)

\* "Items whose URL is in the profile's ``dismissed`` list (explicit user feedback) score 0
\* immediately and are never surfaced again" (RelevanceEngine.score): a report has none.
\* In fact _score_findings keeps them, last.
DismissedNotSurfaced ==
    \A f \in ToSet(findings) : f.item.story \notin judged.dismissed
=================================================================================
