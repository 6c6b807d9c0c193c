--------------------------- MODULE MCAIGeneration ---------------------------
(* Instances of AIGeneration for TLC.                                       *)
EXTENDS AIGeneration

CONSTANTS q1, q2, r1, r2
=============================================================================
