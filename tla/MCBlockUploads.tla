---------------------------- MODULE MCBlockUploads ---------------------------
(* Small instances of the DBS buffer for TLC: two datasets, the second one *)
(* made of the file p of the first.                                        *)
EXTENDS BlockProperties, TLC

CONSTANTS p, c, d, P1, C1, C2, P2

Upstream == {p, P1, P2}

Origin == [x \in Files \cup Blocks |-> IF x \in Upstream THEN "first" ELSE "second"]

OneParent == [f \in Files |-> IF f = c THEN {p} ELSE {}]
=============================================================================
