---------------------------- MODULE MCMemoryService ----------------------------
(* Small instances of MemoryService: who shares which process, and symmetry. *)
EXTENDS MemoryService, TLC

CONSTANTS r1, r2, x1, x2, x3, c1, c2, api

SingleProcess == [c \in Clients |-> api]

LocalAndS3 == {{}, {"storage", "embed"}}

S3 == {{"storage", "embed"}}

\* Ids are interchangeable, and so are the contents the cache can hold and the
\* clients of one process.
DataSymmetry ==
    Permutations(Ids) \cup Permutations({x1, x2}) \cup Permutations(Clients)

\* Where operations interleave, one record of one importance is followed and no
\* content is too large for the cache; where they do not, no key is rotated.
SmallInstance ==
    IF yields = {}
    THEN \A k \in Categories : active[k] = 1
    ELSE /\ Cardinality({i \in Ids : blobs[i] # None}) <= 1
         /\ \A c \in Clients, i \in Ids :
                task[c].snapshot[i] # None => task[c].snapshot[i].importance = 1
         /\ \A c \in Clients : task[c].blob # None => task[c].blob.content \notin Oversize
=============================================================================
