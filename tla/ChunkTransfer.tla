--------------------------- MODULE ChunkTransfer ---------------------------
(***************************************************************************)
(* What a caller of run_swarm_download (swarm_downloader.cpp) may rely on, *)
(* with no threads, queues, peers or retries: chunks of one file reach the *)
(* staging file in some order, and the call returns once, with success     *)
(* only when every chunk is there and with failure only when one is not.   *)
(***************************************************************************)
CONSTANTS Chunks

VARIABLES written,   \* chunks whose bytes are in the staging file
          outcome    \* "running", then what the call returned

vars == <<written, outcome>>

Init == /\ written = {}
        /\ outcome = "running"

Write(c) == /\ outcome = "running"
            /\ c \notin written
            /\ written' = written \cup {c}
            /\ UNCHANGED outcome

Succeed == /\ outcome = "running"
           /\ written = Chunks
           /\ outcome' = "succeeded"
           /\ UNCHANGED written

Fail == /\ outcome = "running"
        /\ written # Chunks
        /\ outcome' = "failed"
        /\ UNCHANGED written

Next == \/ \E c \in Chunks : Write(c)
        \/ Succeed
        \/ Fail

SafeSpec == Init /\ [][Next]_vars

Spec == SafeSpec /\ WF_vars(Succeed \/ Fail)
=============================================================================
