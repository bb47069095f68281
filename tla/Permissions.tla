------------------------------- MODULE Permissions -------------------------------
(***************************************************************************)
(* PermissionManager (src/mysti/security/permissions.py): the permissions  *)
(* granted, their expiry, and the emergency revocation.  It lives in one   *)
(* process and is not stored.  Time is kept as the ticks a grant has left; *)
(* an expired grant stays in the dictionary until a check meets it.        *)
(***************************************************************************)
EXTENDS Naturals, FiniteSets

CONSTANTS
    Permission,
    MaxLife         \* bound on the lifetime of a grant, in ticks

ASSUME MaxLifeAssumption == MaxLife \in Nat

VARIABLES
    granted,        \* the keys of _permissions
    life,           \* life[p]: ticks until the expiry of p, Forever without one
    emergency       \* _emergency

permissionVars == <<granted, life, emergency>>

Forever == MaxLife + 1

PermissionsTypeOK ==
    /\ granted \in SUBSET Permission
    /\ life \in [Permission -> 0 .. Forever]
    /\ emergency \in BOOLEAN

PermissionsInit ==
    /\ granted = {}
    /\ life = [p \in Permission |-> 0]
    /\ emergency = FALSE

-----------------------------------------------------------------------------
\* Mutation: the emergency is over with the next grant, which counts again.
Passes_Emergency(p) == p \in granted /\ life[p] > 0

\* The answer of check_permission.
Passes(p) == ~emergency /\ p \in granted /\ life[p] > 0

Expired == {p \in granted : life[p] = 0}

\* What check_permission leaves of the dictionary when it is asked for each of ps.
Purged(ps) == IF emergency THEN granted ELSE granted \ (ps \cap Expired)

\* Bounded by MaxLife.
GrantPermission(p) ==
    /\ granted' = granted \cup {p}
    /\ \E time \in 0 .. Forever : life' = [life EXCEPT ![p] = time]
    /\ UNCHANGED emergency

RevokePermission(p) ==
    /\ granted' = granted \ {p}
    /\ life' = [life EXCEPT ![p] = 0]
    /\ UNCHANGED emergency

CheckPermission(p) ==
    /\ granted' = Purged({p})
    /\ UNCHANGED <<life, emergency>>

\* The listing goes over the dictionary that check_permission shrinks: with an
\* expired grant it drops the first one and then fails.
ListPermissions ==
    /\ ~emergency /\ Expired # {}
    /\ \E p \in Expired : granted' = granted \ {p}
    /\ UNCHANGED <<life, emergency>>

EmergencyRevokeAll ==
    /\ granted' = {}
    /\ life' = [p \in Permission |-> 0]
    /\ emergency' = TRUE

PermissionsTick ==
    /\ life' = [p \in Permission |-> IF life[p] \in 1 .. MaxLife THEN life[p] - 1 ELSE life[p]]
    /\ UNCHANGED <<granted, emergency>>

PermissionsRestart ==
    /\ granted' = {}
    /\ life' = [p \in Permission |-> 0]
    /\ emergency' = FALSE
===================================================================================
