----------------------------- MODULE ChangeLog -----------------------------
(***************************************************************************)
(* What the document store promises its readers, and nothing of how it is  *)
(* done: one document, a version that counts its accepted changes, and an  *)
(* append-only log with exactly one row for every version.                 *)
(* models/document_change.py calls it the "append-only log of accepted     *)
(* edits".  DocumentStore and LiveDocument are shown to implement it.      *)
(***************************************************************************)
EXTENDS Naturals

CONSTANT Operation      \* what a row of the log records

VARIABLES
  stage,                \* "absent", "live" or "gone": the id is never reused
  head,                 \* the version of the document, meaningful while live
  rows                  \* the log: {[base, version, operation]}

logVars == <<stage, head, rows>>

Row(base, op) == [base |-> base, version |-> base + 1, operation |-> op]

LogInit ==
  /\ stage = "absent"
  /\ head = 0
  /\ rows = {}

(* The first row is logged against version 0, the document that never was. *)
Create ==
  /\ stage = "absent"
  /\ stage' = "live"
  /\ head' = 1
  /\ \E op \in Operation : rows' = {Row(0, op)}

(* An accepted change takes the next version and adds the one row for it.  *)
Accept ==
  /\ stage = "live"
  /\ stage' = "live"
  /\ head' = head + 1
  /\ \E op \in Operation : rows' = rows \cup {Row(head, op)}

(* Deleting the document takes its log with it (ON DELETE CASCADE).        *)
Delete ==
  /\ stage = "live"
  /\ stage' = "gone"
  /\ head' = 0
  /\ rows' = {}

LogNext == Create \/ Accept \/ Delete

LogSpec == LogInit /\ [][LogNext]_logVars
=============================================================================
