------------------------------- MODULE Suggestions -------------------------------
(***************************************************************************)
(* ProactiveEngine.get_suggestions and ModelRouter.route                   *)
(* (src/mysti/engine/): the suggestions offered for a message, and the     *)
(* model chosen for a task.  Scores are in hundredths, prices in dollars   *)
(* per million tokens times a thousand.                                    *)
(***************************************************************************)
EXTENDS Ranking

CONSTANTS
    Sources,        \* previews of memories and names of entities
    MemoryHits,     \* results of the memory search: sequences of [source, score]
    Entities,       \* results of the graph search: sequences of names
    Words,          \* what a message may ask for: sets of names of actions
    SuggestionLimit, LeastRelevance     \* limit, min_relevance

ASSUME FoundAssumption == MemoryHits \subseteq Seq([source : Sources, score : Int])
                          /\ Entities \subseteq Seq(Sources)
ASSUME OfferAssumption == SuggestionLimit \in Nat /\ LeastRelevance \in Int

VARIABLES
    step,           \* "memory", "graph" or "done"
    asked,          \* the actions the message has words for
    fromMemory,     \* the suggestions of the memory search, of the graph, and all of them
    fromGraph,
    suggestions,
    spent           \* ModelRouter._cost_tracker: the models with a cost

suggestionVars == <<step, asked, fromMemory, fromGraph, suggestions, spent>>

-----------------------------------------------------------------------------
(* ModelRouter *)

\* DEFAULT_MODELS
Models == <<
    [model |-> "gpt-4o-mini", quality |-> 85, input |-> 150, output |-> 600,
     latency |-> 300, capable |-> {"general", "fast"}],
    [model |-> "gpt-4o", quality |-> 95, input |-> 5000, output |-> 15000,
     latency |-> 800, capable |-> {"general", "code", "complex", "advanced"}],
    [model |-> "claude-3-haiku", quality |-> 80, input |-> 250, output |-> 1250,
     latency |-> 250, capable |-> {"general", "fast"}],
    [model |-> "claude-3.5-sonnet", quality |-> 92, input |-> 3000, output |-> 15000,
     latency |-> 600, capable |-> {"general", "code", "complex"}] >>

ComplexityScore(m, complexity) ==
    IF complexity = "complex"
    THEN (IF m.capable \cap {"complex", "advanced"} # {} THEN 300 ELSE -100)
    ELSE IF complexity = "simple" THEN (IF "fast" \in m.capable THEN 200 ELSE 100)
    ELSE 0

DomainScore(m, domain) ==
    IF domain = "code" THEN (IF "code" \in m.capable THEN 200 ELSE -50) ELSE 0

\* In thousandths: quality, fit, price and latency.
RouteScore(m, complexity, domain) ==
    4 * m.quality
    + ComplexityScore(m, complexity) + DomainScore(m, domain)
    + (IF m.input + m.output < 1000 THEN 100 ELSE IF m.input + m.output > 10000 THEN -50 ELSE 0)
    + (IF m.latency < 400 THEN 50 ELSE 0)

\* route: the model with the highest score, the first of equal ones.
Routed(complexity, domain) ==
    ByScore([i \in DOMAIN Models |->
        [model |-> Models[i], score |-> RouteScore(Models[i], complexity, domain)]])[1].model

-----------------------------------------------------------------------------
(* ProactiveEngine *)

SuggestionsInit ==
    /\ step = "memory"
    /\ asked \in Words
    /\ fromMemory = <<>> /\ fromGraph = <<>> /\ suggestions = <<>>
    /\ spent = [i \in DOMAIN Models |-> FALSE]

\* Mutation: the actions the message asks for come first, whatever their score.
Offered_ActionsFirst(all) ==
    AtLeast(Cut(all, SuggestionLimit), LeastRelevance)

\* Sorted, those relevant enough, and of these the first.
Offered(all) == Cut(AtLeast(ByScore(all), LeastRelevance), SuggestionLimit)

\* _get_memory_suggestions: of at most three hits those with more than 0.6.
AskMemory ==
    /\ step = "memory"
    /\ \E found \in MemoryHits :
          fromMemory' = Only(Cut(found, 3), {hit \in ToSet(found) : hit.score > 60})
    /\ step' = "graph"
    /\ UNCHANGED <<asked, fromGraph, suggestions, spent>>

\* A failing search, or none configured, suggests nothing.
AskMemoryFails ==
    /\ step = "memory"
    /\ step' = "graph"
    /\ UNCHANGED <<asked, fromMemory, fromGraph, suggestions, spent>>

ActionScore == [remember |-> 80, research |-> 70, project |-> 60, help |-> 90]

\* _get_action_suggestions, in the order of the code.
Actions ==
    LET order == <<"remember", "research", "project", "help">>
        chosen == Only(order, asked)
    IN  [i \in DOMAIN chosen |-> [source |-> chosen[i], score |-> ActionScore[chosen[i]]]]

\* _get_knowledge_suggestions: the first two entities; or none, when the graph fails or
\* is not there.  The rest does not wait.
AskGraph ==
    /\ step = "graph"
    /\ \E found \in Entities \cup {<<>>} :
          LET named == Cut(found, 2)
          IN  fromGraph' = [i \in DOMAIN named |-> [source |-> named[i], score |-> 70]]
    /\ suggestions' = Offered(fromMemory \o fromGraph' \o Actions)
    /\ step' = "done"
    /\ UNCHANGED <<asked, fromMemory, spent>>

\* route tracks that a model was chosen, and reset_costs forgets it.
Route ==
    /\ \E complexity \in {"simple", "medium", "complex"}, domain \in {"general", "code"} :
          LET m == Routed(complexity, domain)
          IN  spent' = [i \in DOMAIN Models |-> spent[i] \/ Models[i] = m]
    /\ UNCHANGED <<step, asked, fromMemory, fromGraph, suggestions>>

ResetCosts ==
    /\ spent' = [i \in DOMAIN Models |-> FALSE]
    /\ UNCHANGED <<step, asked, fromMemory, fromGraph, suggestions>>

NextMessage ==
    /\ step = "done"
    /\ step' = "memory"
    /\ asked' \in Words
    /\ fromMemory' = <<>> /\ fromGraph' = <<>> /\ suggestions' = <<>>
    /\ UNCHANGED spent

SuggestionsNext ==
    AskMemory \/ AskMemoryFails \/ AskGraph \/ NextMessage \/ Route \/ ResetCosts

SuggestionsSpec == SuggestionsInit /\ [][SuggestionsNext]_suggestionVars

-----------------------------------------------------------------------------
(* Properties *)

\* The suggestions offered are the most relevant of those the searches that answered
\* and the message give; and the router keeps what it says of itself, "simple -> fast
\* model, complex -> quality model" and "code -> code-capable model", but for a simple
\* task about code, which goes to a fast model.
SelectionsBest ==
    /\ step = "done" =>
        BestOf(suggestions, fromMemory \o fromGraph \o Actions, LeastRelevance, SuggestionLimit)
    /\ \A domain \in {"general", "code"} :
        /\ Routed("complex", domain).capable \cap {"complex", "advanced"} # {}
        /\ "fast" \in Routed("simple", domain).capable
        /\ "code" \in Routed("medium", "code").capable \cap Routed("complex", "code").capable
==================================================================================
