----------------------------- MODULE MCToolGate -----------------------------
(***************************************************************************)
(* ToolGate on a small instance: a write inside the run's directory, one   *)
(* outside it, and a shell command that only reads.                        *)
(***************************************************************************)
EXTENDS ToolGate

SomeCalls == {"edit in", "edit out", "look"}
FileCalls == {"edit in", "edit out"}
Allowed == {"edit in", "look"}
Looks == {"look"}
Rules == [c \in SomeCalls |-> IF c = "look" THEN "always-approve" ELSE "auto-if-confident"]
=============================================================================
