------------------------------- MODULE MCResearch -------------------------------
(* Small instances of Research. *)
EXTENDS Research

CONSTANTS f, g

\* Both sources report the one story.
TwoSources == <<{{f}}, {{f}}>>

\* One source, whose news change.
OneSource == <<{{f}, {g}}>>

TwoScores == <<[x \in Stories |-> 2], [x \in Stories |-> IF x = f THEN 3 ELSE 1]>>

FirstLimited == <<1, 0>>

\* Both caches hold an answer until time passes.
UntilTick == <<0, 0>>

OneLimit == <<1>>

OneScore == <<[x \in Stories |-> 2]>>
=============================================================================
