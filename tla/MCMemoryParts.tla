----------------------------- MODULE MCMemoryParts -----------------------------
(***************************************************************************)
(* Small instances of Consolidation, BlobCache and Embeddings, the parts   *)
(* of the memory service that MemoryService takes as a whole, and of       *)
(* Categories over the key hierarchy, which it takes as given.  They share *)
(* no state: a behaviour is one of one of them.                            *)
(***************************************************************************)
EXTENDS Consolidation, BlobCache, Embeddings, Categories, TLC

CONSTANTS p1, p2, tag1, e1, e2, k1, k2, k3, k4, k5, c1, api

VARIABLE part

categoriesVars == <<managerVars, own>>

MCVars == <<part, vars, cacheVars, embeddingsVars, categoriesVars>>

\* Pieces are interchangeable, and so are the coroutines.
DataSymmetry == Permutations(Pieces) \cup Permutations(Embedders)

\* One that repeats a text, and one that is larger than the cache.
SomeBatches == {<<"x", "x">>, <<"y", " ", "x">>}

SingleProcess == [c \in Clients |-> api]

\* Key material is interchangeable too, but five pieces of it have too many
\* permutations: it is taken in this order instead, the lowest free ones first.
Order == <<k1, k2, k3, k4, k5>>

LowestFirst(keys) == keys = {Order[k] : k \in 1 .. Cardinality(keys)}

MCInit ==
    /\ part \in {"consolidation", "cache", "embeddings", "categories"}
    /\ Init /\ CacheInit /\ EmbeddingsInit /\ CategoriesInit
    /\ part # "embeddings" => chain = <<"hashing">>

MCNext ==
    /\ UNCHANGED part
    /\ \/ part = "consolidation" /\ Next
          /\ UNCHANGED <<cacheVars, embeddingsVars, categoriesVars>>
       \/ part = "cache" /\ CacheNext
          /\ UNCHANGED <<vars, embeddingsVars, categoriesVars>>
       \/ part = "embeddings" /\ EmbeddingsNext
          /\ UNCHANGED <<vars, cacheVars, categoriesVars>>
       \/ part = "categories" /\ CategoriesNext /\ LowestFirst(minted')
          /\ UNCHANGED <<vars, cacheVars, embeddingsVars>>

MCSpec == MCInit /\ [][MCNext]_MCVars
================================================================================
