----------------------------- MODULE MCWorkers -----------------------------
(***************************************************************************)
(* Workers on two calls: enough for two workers of one turn to overlap, to *)
(* be cancelled together, and for one to find the other's terminal open.   *)
(***************************************************************************)
EXTENDS Workers

\* One CLI is not on the deployment's list.
TwoCLIs == {"xdev", "claude"}
OneFile == {"f"}
=============================================================================
