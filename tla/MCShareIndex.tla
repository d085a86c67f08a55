---------------------------- MODULE MCShareIndex ----------------------------
(* Small instances of ShareIndex for TLC. *)
EXTENDS ShareIndex

CONSTANT short

\* One content of one chunk, the others of two.
OneIsShort == [c \in Contents |-> IF c = short THEN 1 ELSE 2]
=============================================================================
