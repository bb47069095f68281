--------------------------------- MODULE Lists ---------------------------------
(* A list comprehension with a condition, as a function that can be proved about. *)
EXTENDS Naturals, Sequences

\* [x for x in s if x in S]
Only(s, S) ==
    LET kept[n \in 0 .. Len(s)] ==
            IF n = 0 THEN <<>>
            ELSE IF s[n] \in S THEN Append(kept[n - 1], s[n]) ELSE kept[n - 1]
    IN  kept[Len(s)]
=================================================================================
