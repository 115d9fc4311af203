----------------------------- MODULE MCEvidence -----------------------------
(* Evidence on small sets.                                                   *)
EXTENDS Evidence, TLC

\* Every statement before which a request can die.
AllPoints == {"limit", "write", "row", "demo", "clear", "copy", "load", "more", "save",
              "fail", "answer", "unlink", "erase"}

\* Those where what is on disk and what is in the database differ.
DiskPoints == {"row", "erase"}

NoPoints == {}

Interchangeable == Permutations(Ids) \cup Permutations(CaseIds) \cup Permutations(Handlers)

=============================================================================
