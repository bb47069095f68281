------------------------------- MODULE MCToolAudit -------------------------------
(* A command whose timeout is not a number, beside one that is well formed. *)
EXTENDS ToolAudit

Commands == {[tool |-> "terminal", kind |-> "plain"], [tool |-> "terminal", kind |-> "timeout"]}
===================================================================================
