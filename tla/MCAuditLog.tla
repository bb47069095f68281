------------------------------- MODULE MCAuditLog -------------------------------
(* A small instance of AuditLog: two programs that log to one file. *)
EXTENDS AuditLog

CONSTANTS t1, t2, api, cli

OwnProcess == [t \in Threads |-> IF t = t1 THEN api ELSE cli]
=============================================================================
