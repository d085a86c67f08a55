------------------------- MODULE MCDirGuidRegistry -------------------------
(* Small trees for DirGuidRegistry: directory a, and b inside or beside it. *)
EXTENDS DirGuidRegistry, TLC

CONSTANTS root, a, b, f1

Chain      == [p \in Paths \ {root} |-> IF p = a THEN root ELSE a]
ChainAbove == [p \in Paths |-> IF p = root THEN {root} ELSE IF p = a THEN {root, a} ELSE Paths]
Twins      == [p \in Paths \ {root} |-> root]
TwinsAbove == [p \in Paths |-> {root, p}]
NoWatch    == [p \in Paths |-> NoGuid]
WatchOnA   == [p \in Paths |-> IF p = a THEN f1 ELSE NoGuid]
Symmetry   == Permutations(Own)
=============================================================================
