----------------------------- MODULE PathUpdate -----------------------------
(***************************************************************************)
(* What the caller of download_file_from_providers, conflict accept and    *)
(* sync force (src/MeshCLI.hpp) may rely on for one path, with no staging  *)
(* file, streams, chunks, providers or retries: the path is empty or holds *)
(* one content; a call puts the content it was asked for there, and only   *)
(* into an empty path, or leaves the path alone; it reports success only   *)
(* when there is that content or the hash is shared already; accept        *)
(* archives what it takes away; no ignored hash becomes a conflict.        *)
(***************************************************************************)
CONSTANTS Hashes,   \* what the peers announce
          Whole,    \* [hash -> its content]
          Local,    \* content of the user's
          Torn,     \* what a copy that was cut short leaves
          Ignored

VARIABLES file,       \* the content at the path: at most one
          kept,       \* contents in the archive
          known,      \* hashes registered for sharing
          pending,    \* hashes of the conflicts of the path
          phase,      \* where the call is
          hash,       \* the content it is to bring
          accepting,  \* it is a conflict accept
          success     \* what the last call returned

vars == <<file, kept, known, pending, phase, hash, accepting, success>>

Init == /\ file \in {{}, {Local}}
        /\ kept = {} /\ pending = {}
        /\ known \subseteq Hashes
        /\ phase = "idle"
        /\ hash \in Hashes
        /\ accepting = FALSE /\ success = TRUE

\* The call returns; a successful accept goes on to drop its conflict.
Return(ok) == /\ phase' = IF ok /\ accepting THEN "accepted" ELSE "idle"
              /\ success' = ok

Sync == /\ phase = "idle"
        /\ phase' \in {"fetch", "purge"}
        /\ hash' \in Hashes
        /\ accepting' = FALSE
        /\ UNCHANGED <<file, kept, known, pending, success>>

Accept == /\ phase = "idle"
          /\ phase' = "archive"
          /\ hash' \in pending
          /\ accepting' = TRUE
          /\ UNCHANGED <<file, kept, known, pending, success>>

Archive == /\ phase = "archive"
           /\ kept' = kept \cup file
           /\ file' = {}
           /\ phase' = "fetch"
           /\ UNCHANGED <<known, pending, hash, accepting, success>>

Purge == /\ phase = "purge"
         /\ file' = {}
         /\ phase' = "fetch"
         /\ UNCHANGED <<kept, known, pending, hash, accepting, success>>

AlreadyThere == /\ phase = "fetch"
                /\ file = {Whole[hash]} \/ (hash \in known /\ file # {})
                /\ Return(TRUE)
                /\ UNCHANGED <<file, kept, known, pending, hash, accepting>>

GiveUp == /\ phase = "fetch"
          /\ pending' \in {pending, pending \cup ({hash} \ Ignored)}
          /\ Return(FALSE)
          /\ UNCHANGED <<file, kept, known, hash, accepting>>

Deliver == /\ phase = "fetch" /\ file = {}
           /\ file' = {Whole[hash]}
           /\ phase' = "placed"
           /\ UNCHANGED <<kept, known, pending, hash, accepting, success>>

Spoil == /\ phase = "fetch" /\ file = {}
         /\ file' = {Torn}
         /\ Return(FALSE)
         /\ UNCHANGED <<kept, known, pending, hash, accepting>>

Share == /\ phase = "placed" /\ file = {Whole[hash]}
         /\ known' = known \cup {hash}
         /\ Return(TRUE)
         /\ UNCHANGED <<file, kept, pending, hash, accepting>>

UserWrites == /\ phase # "placed"
              /\ file' = {Local}
              /\ UNCHANGED <<kept, known, pending, phase, hash, accepting, success>>

Next == \/ Sync \/ Accept \/ Archive \/ Purge \/ AlreadyThere \/ GiveUp
        \/ Deliver \/ Spoil \/ Share \/ UserWrites

Spec == Init /\ [][Next]_vars
=============================================================================
