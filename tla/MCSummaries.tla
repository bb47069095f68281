----------------------------- MODULE MCSummaries ------------------------------
(* Small instances of Summaries. *)
EXTENDS Summaries, FiniteSets, TLC

CONSTANTS m1, m2, m3, m4

\* Two messages are longer than the budget of 4, the two others fill it.
MixedLengths == [m \in Messages |-> IF m \in {m1, m2} THEN 5 ELSE 2]

\* Clients, summarizers and sessions are interchangeable; messages are when they
\* are equally long.
MixedSymmetry ==
    Permutations(Sessions) \cup Permutations(Clients) \cup Permutations(Summarizers)
        \cup Permutations({m1, m2}) \cup Permutations({m3, m4})

\* Two programs or coroutines are busy at a time.  Over S3 there is one session
\* of three messages (a fourth is the last step) and no summary, of which nothing is
\* said there; on the local store summaries are made when there is one session.
Busy == {c \in Clients : task[c] # Idle} \cup {p \in Summarizers : job[p] # NoJob}

OneSession == Cardinality({s \in Sessions : sessions[s] # None}) <= 1

NoSummaries == summaries = NoSessions /\ job = [p \in Summarizers |-> NoJob]

SmallInstance ==
    /\ Cardinality(Busy) <= 2
    /\ store = "s3" => NoSummaries /\ OneSession /\ Cardinality(stored) <= 3
    /\ NoSummaries \/ OneSession
=============================================================================
