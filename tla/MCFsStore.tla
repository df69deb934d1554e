----------------------------- MODULE MCFsStore -----------------------------
(***************************************************************************)
(* The instance of FsStore for TLC: every id has one caller at a time.     *)
(***************************************************************************)
EXTENDS FsStore, TLC

CONSTANTS p1, p2, a, b, x, y

\* Each id belongs to one caller.
OwnedIds == [p \in Callers |-> IF p = p1 THEN {x} ELSE {y}]

\* p1 only puts: its calls may be cut short.
OwnedDeletes == [p \in Callers |-> IF p = p2 THEN {y} ELSE {}]

\* x moves between collections; y comes and goes in the one that is read.
MovingPlacement == [id \in Ids |-> IF id = x THEN SUBSET Colls ELSE {{Viewed}}]

\* No operator orders timestamps.
Interchangeable == Permutations(Times)
=============================================================================
