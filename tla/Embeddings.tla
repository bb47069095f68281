------------------------------- MODULE Embeddings -------------------------------
(***************************************************************************)
(* The embedding service (src/mysti/memory/embeddings.py): a chain of      *)
(* backends tried in order, and a RAM cache of the vectors, least recently *)
(* used first.  The calls of several coroutines interleave at the await of *)
(* a backend; before and after it a call is one step.                      *)
(*                                                                         *)
(* A vector is the text it was computed from and the backend that did.     *)
(* What else a vector is, and the similarity of two, is numeric and left   *)
(* out.                                                                    *)
(***************************************************************************)
EXTENDS Ranking

CONSTANTS
    Embedders,      \* the coroutines that ask
    Texts,
    Blank,          \* the text of spaces only
    Batches,        \* the lists of texts asked for in one call
    VectorsKept,    \* embedding_cache_size
    NoVector

ASSUME EmbeddingsAssumption ==
    Blank \in Texts /\ Batches \subseteq Seq(Texts) /\ VectorsKept \in Nat

VARIABLES
    chain,          \* _backends
    kept,           \* _cache, a sequence of [text, vector]
    request         \* request[c]: the last call of c, its texts and their vectors

embeddingsVars == <<chain, kept, request>>

Backend == {"sentence-transformers", "api", "hashing"}

Vector == [of : Texts, by : Backend]

ASSUME NoVectorAssumption == NoVector \notin Vector

\* at: how many backends have failed.
NoRequest == [pc |-> "returned", texts |-> <<>>, found |-> <<>>, at |-> 0]

EmbeddingsTypeOK ==
    /\ chain \in Seq(Backend)
    /\ kept \in Seq([text : Texts, vector : Vector])
    /\ request \in [Embedders -> [pc : {"returned", "embed"}, texts : Seq(Texts),
                                  found : Seq(Vector \cup {NoVector}), at : Nat]]

\* What from_settings builds; with nothing to build from, it raises.
Chain(provider, installed, key) ==
    LET local == IF provider \in {"auto", "sentence-transformers"} /\ installed
                 THEN <<"sentence-transformers">> ELSE <<>>
        remote == IF provider \in {"auto", "api"} /\ key THEN <<"api">> ELSE <<>>
    IN  IF provider \in {"auto", "hashing"} /\ local \o remote = <<>>
        THEN <<"hashing">> ELSE local \o remote

EmbeddingsInit ==
    /\ \E provider \in {"auto", "sentence-transformers", "api", "hashing"},
          installed, key \in BOOLEAN : chain = Chain(provider, installed, key)
    /\ chain # <<>>
    /\ kept = <<>>
    /\ request = [c \in Embedders |-> NoRequest]

-----------------------------------------------------------------------------
(* The cache *)

Except(held, text) == Only(held, {x \in ToSet(held) : x.text # text})

Cached(held, text) ==
    LET match == {x \in ToSet(held) : x.text = text}
    IN  IF match = {} THEN NoVector ELSE (CHOOSE x \in match : TRUE).vector

\* _cache_get moves what it finds to the end.
Touched(held, text) ==
    IF Cached(held, text) = NoVector THEN held
    ELSE Append(Except(held, text), [text |-> text, vector |-> Cached(held, text)])

TouchedAll(held, texts) ==
    LET now[n \in 0 .. Len(texts)] == IF n = 0 THEN held ELSE Touched(now[n - 1], texts[n])
    IN  now[Len(texts)]

\* _cache_put, of a text with its vector, evicts from the front.
Put(held, x) ==
    LET all == Append(Except(held, x.text), x)
    IN  IF Len(all) > VectorsKept THEN SubSeq(all, (Len(all) - VectorsKept) + 1, Len(all)) ELSE all

PutAll(held, entries) ==
    LET now[n \in 0 .. Len(entries)] == IF n = 0 THEN held ELSE Put(now[n - 1], entries[n])
    IN  now[Len(entries)]

-----------------------------------------------------------------------------
Turn(c, r) == request' = [request EXCEPT ![c] = r]

Asked(c) == request[c].pc = "embed"

\* A call looks in the cache for each of its texts, and asks for those that are missing.
Ask(c, texts) ==
    LET found == [i \in DOMAIN texts |-> Cached(kept, texts[i])]
    IN  /\ ~Asked(c)
        /\ kept' = TouchedAll(kept, texts)
        /\ Turn(c, [pc |-> IF NoVector \in ToSet(found) THEN "embed" ELSE "returned",
                    texts |-> texts, found |-> found, at |-> 0])
        /\ UNCHANGED chain

\* generate_embedding; a blank text has no vector.
GenerateEmbedding(c, text) == Ask(c, IF text = Blank THEN <<>> ELSE <<text>>)

\* generate_embeddings_batch; here a blank text is one like the others.
GenerateBatch(c, texts) == Ask(c, texts)

\* Where the request has no vector yet.
Unfound(r) == Only([i \in DOMAIN r.texts |-> i], {i \in DOMAIN r.texts : r.found[i] = NoVector})

\* Mutation: the vectors as the reply lists them.
InOrder_AsListed(reply) == [i \in DOMAIN reply |-> reply[i].vector]

\* The vectors of an /embeddings reply, in the order of the texts that were sent.
InOrder(reply) ==
    LET sorted == ByScore([i \in DOMAIN reply |->
                      [vector |-> reply[i].vector, score |-> -reply[i].index]])
    IN  [i \in DOMAIN sorted |-> sorted[i].vector]

\* What a backend makes of these texts: the endpoint may list them in any order.
VectorsBy(backend, texts) ==
    LET vector == [i \in DOMAIN texts |-> [of |-> texts[i], by |-> backend]]
    IN  IF backend = "api"
        THEN {InOrder([i \in DOMAIN texts |-> [index |-> order[i], vector |-> vector[order[i]]]]) :
                  order \in {f \in [DOMAIN texts -> DOMAIN texts] : IsInjective(f)}}
        ELSE {vector}

\* The backend answers: the missing vectors are cached and filled in, and the call returns.
BackendAnswers(c) ==
    LET r == request[c]
        missing == Unfound(r)
        texts == [k \in DOMAIN missing |-> r.texts[missing[k]]]
    IN  /\ Asked(c)
        /\ \E vectors \in VectorsBy(chain[r.at + 1], texts) :
             /\ kept' = PutAll(kept, [k \in DOMAIN missing |->
                                         [text |-> texts[k], vector |-> vectors[k]]])
             /\ Turn(c, [r EXCEPT !.pc = "returned", !.at = 0,
                            !.found = [i \in DOMAIN r.found |->
                                IF r.found[i] # NoVector THEN r.found[i]
                                ELSE vectors[CHOOSE k \in DOMAIN missing : missing[k] = i]]])
        /\ UNCHANGED chain

\* The network, or the loading of the model, fails: the next backend is asked with the
\* same texts.  After the last one the call raises.  Hashing does not fail.
BackendFails(c) ==
    LET r == request[c]
    IN  /\ Asked(c) /\ chain[r.at + 1] # "hashing"
        /\ Turn(c, IF r.at + 1 < Len(chain) THEN [r EXCEPT !.at = @ + 1] ELSE NoRequest)
        /\ UNCHANGED <<chain, kept>>

\* A reply of an unexpected form, or a package that does not import, is a MystiError:
\* the call raises it and asks no other backend.
BackendRefuses(c) ==
    /\ Asked(c) /\ chain[request[c].at + 1] # "hashing"
    /\ Turn(c, NoRequest)
    /\ UNCHANGED <<chain, kept>>

EmbeddingsNext ==
    \E c \in Embedders :
        \/ \E text \in Texts : GenerateEmbedding(c, text)
        \/ \E texts \in Batches : GenerateBatch(c, texts)
        \/ BackendAnswers(c) \/ BackendFails(c) \/ BackendRefuses(c)

EmbeddingsSpec == EmbeddingsInit /\ [][EmbeddingsNext]_embeddingsVars

-----------------------------------------------------------------------------
(* Property *)

\* Whichever backends fail, in whatever order a reply lists its vectors and whatever other
\* calls do to the cache meanwhile: a call that returns has one vector for each of its texts
\* and it is that text's, and so is every vector the cache keeps, each text once and within
\* the bound.
VectorsOfTheirTexts ==
    /\ \A c \in Embedders : LET r == request[c] IN
          /\ Len(r.found) = Len(r.texts)
          /\ \A i \in DOMAIN r.texts : IF r.found[i] = NoVector THEN Asked(c)
                                       ELSE r.found[i].of = r.texts[i]
    /\ \A i \in DOMAIN kept : kept[i].vector.of = kept[i].text
    /\ Cardinality({kept[i].text : i \in DOMAIN kept}) = Len(kept) /\ Len(kept) <= VectorsKept
=============================================================================
