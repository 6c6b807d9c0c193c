-------------------------- MODULE MCDocumentStore --------------------------
(* DocumentStore on a small instance: a document is the sequence of the     *)
(* step batches it absorbed since it was last replaced, so that a lost, a   *)
(* repeated or a misplaced batch shows in it.                               *)
EXTENDS DocumentStore, Sequences

MCMaxLength == 4

MCContent == UNION {[1..n -> StepBatch] : n \in 0..MCMaxLength}

MCUploads == {<<>>}

MCTransform(c, s) == IF Len(c) < MCMaxLength THEN Append(c, s) ELSE c
=============================================================================
