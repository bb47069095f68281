----------------------------- MODULE PermissionPolicy -----------------------------
(***************************************************************************)
(* What the permission manager and the tool gateway promise together: a    *)
(* permission is in force from its grant until its time is over, it is     *)
(* revoked or everything is; once everything is revoked nothing is granted *)
(* any more before the program starts again; and a tool starts only when   *)
(* everything it requires is in force.                                     *)
(***************************************************************************)
EXTENDS Naturals

CONSTANTS
    Permission,
    Tool,
    Required,   \* Required[t]: the permissions tool t requires
    Callers,
    Nothing,    \* the tool of a caller that runs none
    Forever     \* the time left of a grant without a limit; others have less

VARIABLES
    left,       \* left[p]: the ticks permission p is still in force, 0 when it is not
    stopped,    \* everything has been revoked
    runs        \* runs[c]: the tool caller c has running

vars == <<left, stopped, runs>>

Clear == [p \in Permission |-> 0]

Init ==
    /\ left = Clear
    /\ stopped = FALSE
    /\ runs = [c \in Callers |-> Nothing]

Grant(p) ==
    /\ ~stopped
    /\ \E time \in 0 .. Forever : left' = [left EXCEPT ![p] = time]
    /\ UNCHANGED <<stopped, runs>>

Revoke(p) ==
    /\ left' = [left EXCEPT ![p] = 0]
    /\ UNCHANGED <<stopped, runs>>

StopAll ==
    /\ left' = Clear
    /\ stopped' = TRUE
    /\ UNCHANGED runs

Pass ==
    /\ left' = [p \in Permission |-> IF left[p] \in 1 .. Forever - 1 THEN left[p] - 1 ELSE left[p]]
    /\ UNCHANGED <<stopped, runs>>

Start(c, t) ==
    /\ \A p \in Required[t] : left[p] > 0
    /\ runs' = [runs EXCEPT ![c] = t]
    /\ UNCHANGED <<left, stopped>>

End(c) ==
    /\ runs' = [runs EXCEPT ![c] = Nothing]
    /\ UNCHANGED <<left, stopped>>

Restart ==
    /\ left' = Clear
    /\ stopped' = FALSE
    /\ runs' = [c \in Callers |-> Nothing]

Next ==
    \/ \E p \in Permission : Grant(p) \/ Revoke(p)
    \/ StopAll
    \/ Pass
    \/ \E c \in Callers : End(c) \/ \E t \in Tool : Start(c, t)
    \/ Restart

Spec == Init /\ [][Next]_vars
===================================================================================
