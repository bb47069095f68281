------------------------------- MODULE RagPipeline -------------------------------
(***************************************************************************)
(* Retrieval-augmented generation (src/mysti/engine/): RAGPipeline.run     *)
(* searches the memory, ranks what it finds (MemoryRanker), puts the best  *)
(* into the messages (MemoryInjector) and asks the model.                  *)
(*                                                                         *)
(* A hit is the text it would show, its search score, its importance (1 to *)
(* 10) and its freshness; scores are counted in 90ths and relevance in     *)
(* 900ths.  A text is a member of a set with a length, and Similar is the  *)
(* ranker's near-duplicate test.                                           *)
(***************************************************************************)
EXTENDS Ranking

CONSTANTS
    Hits,           \* hits a search may return, [text, match, importance, fresh]
    Parts,          \* what texts of messages are put together from
    Conversations,  \* messages a caller may pass, sequences of [role, text], a text the sequence of its parts
    Similar(_, _),  \* MemoryRanker._is_duplicate
    TextLength(_),  \* characters of a text
    Heading,        \* characters of the heading, and of the mark before each text
    Mark,
    RankLimit, TokenBudget, MinRelevance,   \* PipelineConfig
    MaxHits         \* search_limit

ASSUME HitsAssumption ==
    /\ \A h \in Hits : {h.match, h.importance, h.fresh} \subseteq Nat
    /\ \A h, k \in Hits : Similar(h.text, k.text) <=> Similar(k.text, h.text)
ASSUME RankAssumption == RankLimit \in Nat /\ MinRelevance \in Int

\* A system message is the first of a conversation.
ASSUME ConversationsAssumption ==
    \A messages \in Conversations :
        /\ messages \in Seq([role : {"system", "user", "assistant"}, text : Seq(Parts)])
        /\ \A i \in DOMAIN messages : messages[i].role = "system" => i = 1

VARIABLES
    stage,          \* "search", "generate" or "done"
    given,          \* the messages of the caller
    hits,           \* the result of the search
    ranked,         \* the memories ranked
    injected,       \* how many of them are in the prompt
    prompt          \* the messages for the model; the injected memories are the part Memories

ragVars == <<stage, given, hits, ranked, injected, prompt>>

Memories == "memories"

RagTypeOK ==
    /\ stage \in {"search", "generate", "done"}
    /\ ranked \in Seq([hit : Hits, score : 0 .. 900])
    /\ injected \in 0 .. Len(ranked)

RagInit ==
    /\ stage = "search"
    /\ given \in Conversations
    /\ hits = <<>> /\ ranked = <<>> /\ injected = 0 /\ prompt = <<>>

-----------------------------------------------------------------------------
(* MemoryRanker.rank *)

\* Mutation: a hit is compared with the last one kept only.
Unique_Last(found) ==
    FoldLeft(LAMBDA kept, h : IF kept # <<>> /\ Similar(h.text, Last(kept).text)
                              THEN kept ELSE Append(kept, h), <<>>, found)

KeepUnlike(kept, h) ==
    IF \E k \in ToSet(kept) : Similar(h.text, k.text) THEN kept ELSE Append(kept, h)

\* Of two similar hits the one the search ranked first is kept.
Unique(found) ==
    LET kept[n \in 0 .. Len(found)] ==
            IF n = 0 THEN <<>> ELSE KeepUnlike(kept[n - 1], found[n])
    IN  kept[Len(found)]

\* Search score, importance from 1 to 10, and freshness, weighted 6 : 2 : 2.
Relevance(h) == 6 * h.match + 2 * (10 * (h.importance - 1)) + 2 * h.fresh

Scored(found) ==
    LET kept == Unique(found)
    IN  [i \in DOMAIN kept |-> [hit |-> kept[i], score |-> Relevance(kept[i])]]

\* RAGPipeline.rank
Rank(found) == AtLeast(Cut(ByScore(Scored(found)), RankLimit), MinRelevance)

-----------------------------------------------------------------------------
(* MemoryInjector.inject *)

\* The tokens of the block that lists the first n memories.
Tokens(memories, n) ==
    LET characters == FoldLeft(LAMBDA sum, m : sum + Mark + TextLength(m.hit.text),
                               IF n = 0 THEN 0 ELSE Heading, SubSeq(memories, 1, n))
    IN  Max({1, characters \div 4})

InBudget(memories, n) == Tokens(memories, n) <= TokenBudget

\* The memories are dropped from the last until the block fits.
Fitting(memories) == Max({0} \cup {n \in DOMAIN memories : InBudget(memories, n)})

\* The memories join the system message, or become one before the conversation.
Augmented(messages, n) ==
    IF n = 0 THEN messages
    ELSE IF messages # <<>> /\ messages[1].role = "system"
    THEN <<[messages[1] EXCEPT !.text = Append(@, Memories)]>> \o Tail(messages)
    ELSE <<[role |-> "system", text |-> <<Memories>>]>> \o messages

-----------------------------------------------------------------------------
(* RAGPipeline.run *)

\* The search answers, at most search_limit hits, the best match first; what follows
\* does not wait.
Retrieve ==
    /\ stage = "search"
    /\ \E n \in 0 .. MaxHits : \E found \in [1 .. n -> Hits] :
        /\ \A i, j \in 1 .. n : i < j => found[i] # found[j] /\ found[i].match >= found[j].match
        /\ hits' = found
        /\ ranked' = Rank(found)
    /\ injected' = Fitting(ranked')
    /\ prompt' = Augmented(given, injected')
    /\ stage' = "generate"
    /\ UNCHANGED given

\* A failing search finds nothing.
RetrieveFails ==
    /\ stage = "search"
    /\ prompt' = given
    /\ stage' = "generate"
    /\ UNCHANGED <<given, hits, ranked, injected>>

\* The model answers or fails, or there is none: the result says so.
Generate ==
    /\ stage = "generate"
    /\ stage' = "done"
    /\ UNCHANGED <<given, hits, ranked, injected, prompt>>

NextQuery ==
    /\ stage = "done"
    /\ stage' = "search"
    /\ given' \in Conversations
    /\ hits' = <<>> /\ ranked' = <<>> /\ injected' = 0 /\ prompt' = <<>>

RagNext == Retrieve \/ RetrieveFails \/ Generate \/ NextQuery

RagSpec == RagInit /\ [][RagNext]_ragVars

-----------------------------------------------------------------------------
(* Properties *)

\* The model gets the caller's messages, in order and complete, and with them the most
\* relevant memories found, as many as fit the budget and no two of them similar; a
\* hit is left out for a similar one that the search had ranked before it.
BestMemoriesInjected ==
    stage # "search" =>
        /\ \A i, j \in DOMAIN ranked :
              i # j => ~Similar(ranked[i].hit.text, ranked[j].hit.text)
        /\ BestOf(ranked, Scored(hits), MinRelevance, RankLimit)
        /\ \A i \in DOMAIN hits : \E j \in 1 .. i :
              /\ hits[j] \in {m.hit : m \in ToSet(Scored(hits))}
              /\ j = i \/ Similar(hits[i].text, hits[j].text)
        /\ injected > 0 => InBudget(ranked, injected)
        /\ injected < Len(ranked) => ~InBudget(ranked, injected + 1)
        /\ IsSuffix(Only(given, {m \in ToSet(given) : m.role # "system"}), prompt)
        /\ Cardinality({i \in DOMAIN prompt : prompt[i].role = "system"}) <= 1
=================================================================================
