------------------------------ MODULE MCSources ------------------------------
(* Two files that do not fit together, one of them a scan, and two that are *)
(* refused.                                                                 *)
EXTENDS Sources

File(sum, size, magic, zip, holds) ==
  [sum |-> sum, size |-> size, magic |-> magic, zip |-> zip, holds |-> holds]

MCFiles == {File("a", 2, "other", "none", "words"), File("b", 1, "pdf", "none", "scan"),
            File("c", 1, "archive", "none", "damage"), File("d", 0, "other", "none", "words")}
MCIds == 1..2
MCPassages == 1..2
=============================================================================
