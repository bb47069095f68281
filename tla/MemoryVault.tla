------------------------------ MODULE MemoryVault ------------------------------
(***************************************************************************)
(* What the memory service promises its callers, with the storage objects, *)
(* the cache and the awaits left out: a record appears once, whole; its    *)
(* content is replaced or it is soft-deleted; a deleted record is never    *)
(* live again.  The one step a caller would not expect is Spoil: replacing *)
(* the content writes the blob before the index, so an interrupted         *)
(* replacement leaves a record whose content no longer matches its hash.   *)
(* It stays listed but unreadable until a later replacement completes.     *)
(***************************************************************************)
CONSTANTS Ids, Contents, None

VARIABLES
    status,     \* status[i]: is the record absent, live or deleted
    content,    \* content[i]: the content the index vouches for
    readable    \* readable[i]: does the stored blob hold that content

vars == <<status, content, readable>>

TypeOK ==
    /\ status \in [Ids -> {"absent", "live", "deleted"}]
    /\ content \in [Ids -> Contents \cup {None}]
    /\ readable \in [Ids -> BOOLEAN]

Init ==
    /\ status = [i \in Ids |-> "absent"]
    /\ content = [i \in Ids |-> None]
    /\ readable = [i \in Ids |-> FALSE]

Store(i, x) ==
    /\ status[i] = "absent"
    /\ status' = [status EXCEPT ![i] = "live"]
    /\ content' = [content EXCEPT ![i] = x]
    /\ readable' = [readable EXCEPT ![i] = TRUE]

Replace(i, x) ==
    /\ status[i] = "live"
    /\ content' = [content EXCEPT ![i] = x]
    /\ readable' = [readable EXCEPT ![i] = TRUE]
    /\ UNCHANGED status

Spoil(i) ==
    /\ status[i] = "live"
    /\ readable' = [readable EXCEPT ![i] = FALSE]
    /\ UNCHANGED <<status, content>>

Delete(i) ==
    /\ status[i] = "live"
    /\ status' = [status EXCEPT ![i] = "deleted"]
    /\ UNCHANGED <<content, readable>>

Next ==
    \E i \in Ids :
        \/ \E x \in Contents : Store(i, x) \/ Replace(i, x)
        \/ Spoil(i)
        \/ Delete(i)

Spec == Init /\ [][Next]_vars
=============================================================================
