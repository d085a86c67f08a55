----------------------------- MODULE MCFileSync -----------------------------
(* Small instances of FileSync for TLC. *)
EXTENDS FileSync

\* The content of a file that has no name and no open stream is gone.
LiveContent == [i \in InUse \ {NoFile} |-> content[i]]
SeenState == <<final, staging, archive, LiveContent, edits, registered, conflicts, pc,
               want, accepting, retry, trusted, fd, todo>>
=============================================================================
