----------------------------- MODULE MCSettings -----------------------------
(***************************************************************************)
(* Settings on a small instance: one panel with two reads, its save's own  *)
(* among them, and two visits of the operator's editor.  A second panel    *)
(* would write as the editor does, at any moment and whole: what the first *)
(* is filled with is stale all the same.                                   *)
(***************************************************************************)
EXTENDS Settings

CONSTANTS p1, default

PanelIds == {p1}
LegalValues == {default}
RowValues == [k \in FormKeys |-> Absent]
=============================================================================
