---------------------------- MODULE MCConflicts ----------------------------
(* Small instances of Conflicts for TLC. *)
EXTENDS Conflicts

CONSTANTS above, below, hash,  \* a directory, a file in it, the hash of both items
          one, other           \* items: two contents offered for the file

\* A directory stands for what is below it in commands, and not as a rule.
Matches == [k \in Keys |-> IF k = hash THEN {one} ELSE Items]
Rules   == [k \in Keys |-> IF k = hash THEN {one} ELSE IF k = below THEN Items ELSE {}]
=============================================================================
