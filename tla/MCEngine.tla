-------------------------------- MODULE MCEngine --------------------------------
(***************************************************************************)
(* Small instances of Engine, GraphSearch, RagPipeline and Suggestions.    *)
(* The chat pipeline, the graph, the retrieval pipeline and the proactive  *)
(* engine share no state, so a behaviour is one of one of them.            *)
(***************************************************************************)
EXTENDS Engine, GraphSearch, RagPipeline, Suggestions

CONSTANTS m1, m2, m3, ann, Anne, bo, cy, di

VARIABLE part

MCVars == <<part, vars, graphVars, ragVars, suggestionVars>>

-----------------------------------------------------------------------------
\* One message is longer than the budget of the small instance.
Lengths == [m \in {m1, m2, m3} |-> IF m = m1 THEN 4 ELSE 1]

\* Anne is ann in another case.
KeyOf == [n \in {ann, Anne, bo, cy, di} |-> IF n = Anne THEN ann ELSE n]

Relation(a, b) == [source |-> a, target |-> b]

\* Relations in both directions, a path over three entities, one that appears twice,
\* and entities of an earlier extraction.
Texts ==
    {[names |-> <<Anne, bo>>, relations |-> <<Relation(Anne, bo), Relation(bo, ann)>>],
     [names |-> <<bo, ann, cy>>, relations |-> <<Relation(bo, cy)>>],
     [names |-> <<di>>, relations |-> <<>>],
     [names |-> <<cy, di>>, relations |-> <<Relation(cy, di)>>],
     [names |-> <<ann, di>>, relations |-> <<Relation(ann, di)>>]}

-----------------------------------------------------------------------------
Memory(text, match, importance, fresh) ==
    [text |-> text, match |-> match, importance |-> importance, fresh |-> fresh]

\* A chain of similar texts, one that is irrelevant, and one that the search ranks low.
MemoriesFound ==
    {Memory("a", 80, 1, 90), Memory("a2", 70, 10, 45), Memory("a3", 60, 10, 90),
     Memory("b", 60, 1, 45), Memory("c", 3, 1, 5), Memory("d", 50, 6, 60)}

Alike(x, y) == x = y \/ {x, y} \in {{"a", "a2"}, {"a2", "a3"}}

LengthOf(text) == IF text = "b" THEN 60 ELSE 20

Asking ==
    {<<>>, <<[role |-> "user", text |-> <<"hi">>]>>,
     <<[role |-> "system", text |-> <<"be">>], [role |-> "user", text |-> <<"hi">>]>>}

-----------------------------------------------------------------------------
Offer(name, score) == [source |-> name, score |-> score]

\* Results of the memory search: with an irrelevant one, and more than three.
OffersFound ==
    {<<>>, <<Offer("p", 95), Offer("q", 60)>>,
     <<Offer("p", 85), Offer("q", 75), Offer("r", 65), Offer("s", 62)>>,
     <<Offer("p", 61)>>}

AnySource == {"p", "q", "r", "s", "e", "f", "g"}

NamesFound == {<<"e">>, <<"e", "f", "g">>}

AllWords == SUBSET {"remember", "research", "project", "help"}

-----------------------------------------------------------------------------
MCInit ==
    /\ part \in {"chat", "graph", "rag", "suggestions"}
    /\ Init /\ GraphInit
    /\ IF part = "rag" THEN RagInit ELSE RagInit /\ given = <<>>
    /\ IF part = "suggestions" THEN SuggestionsInit ELSE SuggestionsInit /\ asked = {}

MCNext ==
    /\ UNCHANGED part
    /\ \/ part = "chat" /\ Next /\ UNCHANGED <<graphVars, ragVars, suggestionVars>>
       \/ part = "graph" /\ GraphNext /\ UNCHANGED <<vars, ragVars, suggestionVars>>
       \/ part = "rag" /\ RagNext /\ UNCHANGED <<vars, graphVars, suggestionVars>>
       \/ part = "suggestions" /\ SuggestionsNext /\ UNCHANGED <<vars, graphVars, ragVars>>

MCSpec == MCInit /\ [][MCNext]_MCVars /\ (part = "chat" => Fairness)
=============================================================================
