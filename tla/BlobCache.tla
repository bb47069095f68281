------------------------------- MODULE BlobCache -------------------------------
(***************************************************************************)
(* The RAM cache of sealed blobs (src/mysti/memory/cache.py): least        *)
(* recently used first, bounded by a count of the bytes held, which is     *)
(* kept beside the entries, and by the age of each entry.                  *)
(*                                                                         *)
(* MemoryService has what the cache does to a record (any blob may be gone *)
(* at any time); this module has the cache itself.  No call awaits         *)
(* anything, so a call is a step.  A blob is its size.  The observer       *)
(* `recent` has the keys in the order of their last use.                   *)
(***************************************************************************)
EXTENDS Lists, SequencesExt, FiniteSets

CONSTANTS
    Keys,
    Sizes,          \* sizes of the blobs offered
    MaxBytes,
    Ttl             \* an entry older than that has expired

ASSUME CacheAssumption == Sizes \subseteq Nat /\ MaxBytes \in Nat /\ Ttl \in Nat

VARIABLES
    entries,        \* _entries, a sequence of [key, size, age]
    bytes,          \* _current_bytes
    recent          \* observer

cacheVars == <<entries, bytes, recent>>

Entry == [key : Keys, size : Sizes, age : 0 .. Ttl + 1]

CacheTypeOK == entries \in Seq(Entry) /\ bytes \in Nat /\ recent \in Seq(Keys)

CacheInit == entries = <<>> /\ bytes = 0 /\ recent = <<>>

-----------------------------------------------------------------------------
Of(k) == {x \in Entry : x.key = k}

Live == {x \in Entry : x.age <= Ttl}

SizeOf(held) ==
    LET sum[n \in 0 .. Len(held)] == IF n = 0 THEN 0 ELSE sum[n - 1] + held[n].size
    IN  sum[Len(held)]

Used(k) == recent' = Append(Only(recent, Keys \ {k}), k)

\* An expired entry goes, a live one goes to the end.
GetBlob(k) ==
    /\ LET found == Only(entries, Of(k))
           rest == Only(entries, Entry \ Of(k))
       IN  \/ found = <<>> /\ UNCHANGED cacheVars
           \/ /\ found # <<>> /\ Head(found) \notin Live
              /\ entries' = rest
              /\ bytes' = bytes - Head(found).size
              /\ UNCHANGED recent
           \/ /\ found # <<>> /\ Head(found) \in Live
              /\ entries' = Append(rest, Head(found))
              /\ UNCHANGED bytes
              /\ Used(k)

\* How many of the oldest entries go until a blob of this size fits.
Evicted(held, count, size) ==
    CHOOSE n \in 0 .. Len(held) :
        /\ n = Len(held) \/ (count - SizeOf(SubSeq(held, 1, n))) + size <= MaxBytes
        /\ \A m \in 0 .. n - 1 : (count - SizeOf(SubSeq(held, 1, m))) + size > MaxBytes

\* Mutation: what the blob replaces is not taken off the count.
PutBlobInCache_Replacing(k, size) ==
    /\ size <= MaxBytes
    /\ LET rest == Only(entries, Entry \ Of(k))
           live == Only(rest, Live)
           count == bytes - SizeOf(Only(rest, Entry \ Live))
           n == Evicted(live, count, size)
       IN  /\ entries' = Append(SubSeq(live, n + 1, Len(live)), [key |-> k, size |-> size, age |-> 0])
           /\ bytes' = (count - SizeOf(SubSeq(live, 1, n))) + size
    /\ Used(k)

\* A blob larger than the cache is not taken, and what it would replace stays.  Else that
\* goes, then what has expired, then the least recently used until the blob fits.
PutBlobInCache(k, size) ==
    /\ size <= MaxBytes
    /\ LET rest == Only(entries, Entry \ Of(k))
           live == Only(rest, Live)
           count == (bytes - SizeOf(Only(entries, Of(k)))) - SizeOf(Only(rest, Entry \ Live))
           n == Evicted(live, count, size)
       IN  /\ entries' = Append(SubSeq(live, n + 1, Len(live)), [key |-> k, size |-> size, age |-> 0])
           /\ bytes' = (count - SizeOf(SubSeq(live, 1, n))) + size
    /\ Used(k)

DropBlob(k) ==
    /\ entries' = Only(entries, Entry \ Of(k))
    /\ bytes' = bytes - SizeOf(Only(entries, Of(k)))
    /\ UNCHANGED recent

ClearCache ==
    /\ entries' = <<>> /\ bytes' = 0
    /\ UNCHANGED recent

\* Time passes.
Pass ==
    /\ entries' = [i \in DOMAIN entries |->
                      IF entries[i] \in Live THEN [entries[i] EXCEPT !.age = @ + 1] ELSE entries[i]]
    /\ UNCHANGED <<bytes, recent>>

CacheNext ==
    \/ \E k \in Keys : GetBlob(k) \/ DropBlob(k) \/ \E size \in Sizes : PutBlobInCache(k, size)
    \/ ClearCache \/ Pass

CacheSpec == CacheInit /\ [][CacheNext]_cacheVars

-----------------------------------------------------------------------------
(* Property *)

\* Whatever is replaced, refused, dropped, expired or evicted, the count is the size of
\* what is held and within the bound; a key is held once; and the entries stay in the
\* order of their last use, so that what an eviction takes is the least recently used.
BytesCounted ==
    /\ bytes = SizeOf(entries)
    /\ bytes <= MaxBytes
    /\ \E kept \in SUBSET ToSet(recent) :
          [i \in DOMAIN entries |-> entries[i].key] = Only(recent, kept)
=============================================================================
