--------------------------------- MODULE Ranking ---------------------------------
(***************************************************************************)
(* Lists ordered by score, as Python's sort with reverse=True leaves them: *)
(* the highest score first, equal ones in the order they had.              *)
(***************************************************************************)
EXTENDS Lists, Integers, SequencesExt, FiniteSetsExt

\* The places of the elements with at least this score.
Reaching(s, least) == {i \in DOMAIN s : s[i].score >= least}

\* An element goes after those with as high a score.
Insert(sorted, x) == InsertAt(sorted, Cardinality(Reaching(sorted, x.score)) + 1, x)

\* list.sort(key=score, reverse=True) for elements with a field `score`.
ByScore(s) ==
    LET sorted[n \in 0 .. Len(s)] == IF n = 0 THEN <<>> ELSE Insert(sorted[n - 1], s[n])
    IN  sorted[Len(s)]

\* s[:n]
Cut(s, n) == SubSeq(s, 1, Min({Len(s), n}))

AtLeast(s, least) == Only(s, {x \in ToSet(s) : x.score >= least})

Better(s, i, j) == s[i].score > s[j].score \/ (s[i].score = s[j].score /\ i < j)

\* Of the elements of `all` with at least the score `least`, s has the n best, the
\* earlier of two equal ones, in order.
BestOf(s, all, least, n) ==
    LET eligible == Reaching(all, least)
        place(i) == Cardinality({j \in eligible : Better(all, j, i)}) + 1
    IN  /\ Len(s) = Min({n, Cardinality(eligible)})
        /\ \A i \in eligible : place(i) <= Len(s) => s[place(i)] = all[i]
=================================================================================
