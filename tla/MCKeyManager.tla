----------------------------- MODULE MCKeyManager -----------------------------
(* A small instance of KeyManager: one coroutine of one process. *)
EXTENDS KeyManager, TLC

CONSTANTS k1, k2, k3, k4, k5, c1, api

SingleProcess == [c \in Clients |-> api]

\* Key material is interchangeable.
KeySymmetry == Permutations(Material)
=============================================================================
