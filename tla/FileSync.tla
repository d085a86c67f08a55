------------------------------ MODULE FileSync ------------------------------
(***************************************************************************)
(* How one path of the share comes to hold the content a peer announced:   *)
(* download_file_from_providers, conflict accept and sync force            *)
(* (src/MeshCLI.hpp).  Two threads run that code, the watch loop and the   *)
(* command line, with no lock around it and with the same staging path.    *)
(* Files are inodes, because a thread keeps writing through an open stream *)
(* after another thread has renamed or unlinked the name it opened.        *)
(*                                                                         *)
(* One step is one file-system call or one critical section.  The transfer *)
(* is what ChunkTransfer promises: chunks in any order, then success with  *)
(* all of them or failure with one missing.                                *)
(***************************************************************************)
EXTENDS Naturals, FiniteSets

CONSTANTS Threads,         \* subset of {"watch", "cli"}
          Hashes,          \* contents that peers announce for the path
          Chunks,
          Ignored,         \* hashes that ignore.json suppresses
          AllServe,        \* what a chunk from any provider can hold: "good", "bad"
          TrustedServe,    \* the same for the trusted providers alone
          SwarmOutcomes,   \* what opening the staging file and the swarm may return
          PlaceOutcomes,   \* how moving the file into place may go
          ArchiveOutcomes, \* how archiving the old file may go
          Inodes, NoFile,
          MaxEdits,        \* bound: files the user writes at the path
          EditPlaces,      \* bound: where the calls stand when the user writes
          MaxArchived      \* bound: files moved to the archive

ASSUME FileSyncAssumption ==
  /\ Threads \subseteq {"watch", "cli"}
  /\ Chunks # {} /\ IsFiniteSet(Chunks)
  /\ Inodes # {} /\ NoFile \notin Inodes
  /\ Hashes \cap {"zero", "bad", "local"} = {}
  /\ AllServe \subseteq {"good", "bad"} /\ TrustedServe \subseteq {"good", "bad"}
  /\ SwarmOutcomes \subseteq BOOLEAN
  /\ PlaceOutcomes \subseteq {"renamed", "copied", "torn"}
  /\ ArchiveOutcomes \subseteq {"kept", "lost"}
  /\ MaxEdits \in Nat /\ MaxArchived \in Nat

Data  == Hashes \cup {"zero", "bad", "local"}
Names == Inodes \cup {NoFile}

VARIABLES
  final, staging,  \* the inode the share path and the staging path name
  archive,         \* inodes kept under the archive directory
  content,         \* [inode -> [chunk -> data]]
  edits,           \* files the user has written at the path
  registered,      \* hashes in shared_files_by_hash_
  conflicts,       \* hashes of the pending conflicts of the path
  pc, want,        \* where each thread is, and primary.hash
  accepting,       \* the thread runs conflict accept
  retry,           \* a trusted-only provider set is still to be tried
  trusted,         \* the current attempt uses the trusted-only set
  fd, todo,        \* the open stream, the chunks not yet written
  result           \* outcome.success of the last call

diskVars   == <<final, staging, archive, content, edits>>
callVars   == <<want, accepting>>
streamVars == <<fd, todo>>
vars == <<diskVars, registered, conflicts, pc, callVars, retry, trusted, streamVars, result>>

Locations == {"idle", "archive", "purge", "lookup", "check", "open", "write",
              "mismatch", "conflict", "place", "register", "accepted", "hung"}

Fill(d) == [c \in Chunks |-> d]
Holds(f, h) == f # NoFile /\ content[f] = Fill(h)

\* The path is empty or holds a file of the user's.  The index may name any hash
\* already, from this path at another time or from another path (ShareIndex).
Init ==
  /\ content = [i \in Inodes |-> Fill("local")]
  /\ final \in {NoFile, CHOOSE i \in Inodes : TRUE}
  /\ staging = NoFile /\ archive = {} /\ edits = 0
  /\ registered \in SUBSET Hashes /\ conflicts = {}
  /\ pc = [t \in Threads |-> "idle"]
  /\ want \in [Threads -> Hashes]
  /\ accepting = [t \in Threads |-> FALSE]
  /\ retry = [t \in Threads |-> FALSE] /\ trusted = [t \in Threads |-> FALSE]
  /\ fd = [t \in Threads |-> NoFile] /\ todo = [t \in Threads |-> {}]
  /\ result = [t \in Threads |-> TRUE]

InUse == archive \cup {final, staging} \cup {fd[t] : t \in Threads}
\* A new file gets an unused inode; which one makes no difference.
Fresh == {i \in Inodes \ InUse : i = CHOOSE j \in Inodes \ InUse : TRUE}
LeaveStaging  == UNCHANGED staging                        \* mutant
RemoveStaging == staging' = NoFile
KeepStream(t)  == UNCHANGED fd                            \* mutant
CloseStream(t) == fd' = [fd EXCEPT ![t] = NoFile]
Goto(t, l) == pc' = [pc EXCEPT ![t] = l]

\* remove_conflicts_matching locks conflict_mutex_ and calls
\* clear_staged_conflict_if_matches, which locks it again: the thread waits for
\* itself and the mutex stays locked (see Conflicts).
ConflictMutexFree == \A t \in Threads : pc[t] # "hung"

\* The call returns; conflict accept goes on to drop the conflict if it succeeded.
Return(t, ok) ==
  /\ Goto(t, IF ok /\ accepting[t] THEN "accepted" ELSE "idle")
  /\ result' = [result EXCEPT ![t] = ok]

-----------------------------------------------------------------------------
\* The watch loop, the sync and the watch commands reach the download; those run
\* for a watch bring a trusted-only provider set.
BeginSync(t) ==
  /\ pc[t] = "idle"
  /\ \E h \in Hashes, l \in {"lookup", "purge"}, r \in BOOLEAN :
       /\ l = "purge" => t = "cli"
       /\ want' = [want EXCEPT ![t] = h]
       /\ retry' = [retry EXCEPT ![t] = r]
       /\ Goto(t, l)
  /\ accepting' = [accepting EXCEPT ![t] = FALSE]
  /\ trusted' = [trusted EXCEPT ![t] = FALSE]
  /\ UNCHANGED <<diskVars, registered, conflicts, streamVars, result>>

\* conflict accept, once providers are known.
BeginAccept ==
  /\ pc["cli"] = "idle"
  /\ Cardinality(archive) < MaxArchived
  /\ \E h \in conflicts : want' = [want EXCEPT !["cli"] = h]
  /\ accepting' = [accepting EXCEPT !["cli"] = TRUE]
  /\ retry' = [retry EXCEPT !["cli"] = FALSE]
  /\ trusted' = [trusted EXCEPT !["cli"] = FALSE]
  /\ Goto("cli", "archive")
  /\ UNCHANGED <<diskVars, registered, conflicts, streamVars, result>>

\* archive_existing_file: rename, or else copy and remove whatever the copy did.
ArchiveExisting(t) ==
  /\ pc[t] = "archive"
  /\ \E kept \in ArchiveOutcomes :
       archive' = IF kept = "kept" THEN archive \cup ({final} \ {NoFile}) ELSE archive
  /\ final' = NoFile
  /\ Goto(t, "lookup")
  /\ UNCHANGED <<staging, content, edits, registered, conflicts, callVars, retry, trusted,
                 streamVars, result>>

\* sync force: purge_local_paths removes the file and its staging file.
Purge(t) ==
  /\ pc[t] = "purge"
  /\ final' = NoFile /\ staging' = NoFile
  /\ Goto(t, "lookup")
  /\ UNCHANGED <<archive, content, edits, registered, conflicts, callVars, retry, trusted,
                 streamVars, result>>

\* A hash already shared and something at the path: nothing to do.
Lookup(t) ==
  /\ pc[t] = "lookup"
  /\ \/ want[t] \in registered /\ final # NoFile /\ Return(t, TRUE)
     \/ ~(want[t] \in registered /\ final # NoFile) /\ Goto(t, "check") /\ UNCHANGED result
     \/ ~(want[t] \in registered /\ final # NoFile) /\ Return(t, FALSE)  \* no provider
  /\ UNCHANGED <<diskVars, registered, conflicts, callVars, retry, trusted, streamVars>>

CheckNothing(t) ==                                        \* mutant
  /\ pc[t] = "check"
  /\ Goto(t, "open")
  /\ UNCHANGED <<diskVars, registered, conflicts, callVars, retry, trusted, streamVars, result>>

CheckDestination(t) ==
  /\ pc[t] = "check"
  /\ \/ Holds(final, want[t]) /\ Return(t, TRUE)
     \/ /\ final # NoFile /\ ~Holds(final, want[t])
        /\ Goto(t, "conflict") /\ UNCHANGED result
     \/ final = NoFile /\ Goto(t, "open") /\ UNCHANGED result
     \/ final = NoFile /\ Return(t, FALSE)                       \* unknown size
  /\ UNCHANGED <<diskVars, registered, conflicts, callVars, retry, trusted, streamVars>>

\* is_conflict_ignored, then add_conflict unless the pair is queued already.
QueueAnyConflict(t) ==                                    \* mutant
  /\ pc[t] = "conflict"
  /\ ConflictMutexFree
  /\ conflicts' = conflicts \cup {want[t]}
  /\ Return(t, FALSE)
  /\ UNCHANGED <<diskVars, registered, callVars, retry, trusted, streamVars>>

QueueConflict(t) ==
  /\ pc[t] = "conflict"
  /\ want[t] \notin Ignored => ConflictMutexFree
  /\ conflicts' = conflicts \cup ({want[t]} \ Ignored)
  /\ Return(t, FALSE)
  /\ UNCHANGED <<diskVars, registered, callVars, retry, trusted, streamVars>>

\* The stream truncates the file another thread may have staged; it may also
\* fail to open.
OpenStaging(t) ==
  /\ pc[t] = "open"
  /\ \/ \E i \in IF staging = NoFile THEN Fresh ELSE {staging} :
          /\ staging' = i
          /\ content' = [content EXCEPT ![i] = Fill("zero")]
          /\ fd' = [fd EXCEPT ![t] = i]
          /\ todo' = [todo EXCEPT ![t] = Chunks]
          /\ Goto(t, "write")
          /\ UNCHANGED result
     \/ /\ FALSE \in SwarmOutcomes
        /\ Return(t, FALSE)
        /\ UNCHANGED <<staging, content, fd, todo>>
  /\ UNCHANGED <<final, archive, edits, registered, conflicts, callVars, retry, trusted>>

WriteFromAnyone(t) ==                                     \* mutant
  /\ pc[t] = "write"
  /\ \E c \in todo[t], q \in AllServe :
       /\ content' = [content EXCEPT ![fd[t]][c] = IF q = "good" THEN want[t] ELSE "bad"]
       /\ todo' = [todo EXCEPT ![t] = @ \ {c}]
  /\ UNCHANGED <<final, staging, archive, edits, registered, conflicts, pc, callVars, retry,
                 trusted, fd, result>>

WriteChunk(t) ==
  /\ pc[t] = "write"
  /\ \E c \in todo[t], q \in IF trusted[t] THEN TrustedServe ELSE AllServe :
       /\ content' = [content EXCEPT ![fd[t]][c] = IF q = "good" THEN want[t] ELSE "bad"]
       /\ todo' = [todo EXCEPT ![t] = @ \ {c}]
  /\ UNCHANGED <<final, staging, archive, edits, registered, conflicts, pc, callVars, retry,
                 trusted, fd, result>>

\* The staging file is removed by name, whichever inode the name stands for.
TransferFails(t) ==
  /\ pc[t] = "write" /\ todo[t] # {} /\ FALSE \in SwarmOutcomes
  /\ CloseStream(t)
  /\ todo' = [todo EXCEPT ![t] = {}]
  /\ RemoveStaging
  /\ Return(t, FALSE)
  /\ UNCHANGED <<final, archive, content, edits, registered, conflicts, callVars, retry, trusted>>

VerifyNothing(t) ==                                       \* mutant
  /\ pc[t] = "write" /\ todo[t] = {}
  /\ CloseStream(t)
  /\ Goto(t, "place")
  /\ UNCHANGED <<diskVars, registered, conflicts, callVars, retry, trusted, todo, result>>

\* The stream is closed and the file at the staging path is hashed.
Verify(t) ==
  /\ pc[t] = "write" /\ todo[t] = {}
  /\ CloseStream(t)
  /\ \/ Holds(staging, want[t]) /\ Goto(t, "place") /\ UNCHANGED staging
     \/ ~Holds(staging, want[t]) /\ Goto(t, "mismatch") /\ RemoveStaging
  /\ UNCHANGED <<final, archive, content, edits, registered, conflicts, callVars, retry, trusted,
                 todo, result>>

RetryForever(t) ==                                        \* mutant
  /\ pc[t] = "mismatch"
  /\ Goto(t, "open")
  /\ UNCHANGED <<diskVars, registered, conflicts, callVars, retry, trusted, streamVars, result>>

\* Only a failed hash check is tried again, once, with trusted peers.
Mismatch(t) ==
  /\ pc[t] = "mismatch"
  /\ Goto(t, IF retry[t] THEN "open" ELSE "conflict")
  /\ trusted' = [trusted EXCEPT ![t] = retry[t]]
  /\ retry' = [retry EXCEPT ![t] = FALSE]
  /\ UNCHANGED <<diskVars, registered, conflicts, callVars, streamVars, result>>

\* copy_file with overwrite_existing, complete or cut short.
Copied(data) ==
  \E i \in IF final = NoFile THEN Fresh ELSE {final} :
    /\ final' = i
    /\ content' = [content EXCEPT ![i] = data]

RenamedByCopy == Copied(content[staging])                 \* mutant
Renamed == /\ final' = staging
           /\ UNCHANGED content

Place(t) ==
  /\ pc[t] = "place"
  /\ \/ /\ staging # NoFile
        /\ \/ "renamed" \in PlaceOutcomes /\ Renamed
           \/ "copied" \in PlaceOutcomes /\ Copied(content[staging])
        /\ Goto(t, "register") /\ UNCHANGED result
     \/ /\ staging # NoFile
        /\ "torn" \in PlaceOutcomes /\ Copied(Fill("zero"))
        /\ Return(t, FALSE)
     \/ /\ staging = NoFile
        /\ Return(t, FALSE)
        /\ UNCHANGED <<final, content>>
  /\ RemoveStaging
  /\ UNCHANGED <<archive, edits, registered, conflicts, callVars, retry, trusted, streamVars>>

\* register_local_share
Register(t) ==
  /\ pc[t] = "register"
  /\ registered' = registered \cup {want[t]}
  /\ Return(t, TRUE)
  /\ UNCHANGED <<diskVars, conflicts, callVars, retry, trusted, streamVars>>

\* remove_conflict_by_id: see ConflictMutexFree.
RemoveConflict(t) ==
  /\ pc[t] = "accepted"
  /\ Goto(t, "hung")
  /\ UNCHANGED <<diskVars, registered, conflicts, callVars, retry, trusted, streamVars, result>>

Step(t) == \/ ArchiveExisting(t) \/ Purge(t) \/ Lookup(t) \/ CheckDestination(t)
           \/ QueueConflict(t) \/ OpenStaging(t) \/ WriteChunk(t) \/ TransferFails(t)
           \/ Verify(t) \/ Mismatch(t) \/ Place(t) \/ Register(t) \/ RemoveConflict(t)

\* Outside the program, a user writes a file at the path or changes the one there.
LocalEdit ==
  /\ edits < MaxEdits
  /\ \A t \in Threads : pc[t] \in EditPlaces
  /\ edits' = edits + 1
  /\ Copied(Fill("local"))
  /\ UNCHANGED <<staging, archive, registered, conflicts, pc, callVars, retry, trusted,
                 streamVars, result>>

Next == \/ \E t \in Threads : BeginSync(t) \/ Step(t)
        \/ "cli" \in Threads /\ BeginAccept
        \/ LocalEdit

Spec == Init /\ [][Next]_vars

\* Every thread runs; run_swarm_download returns (SwarmDownload!DownloadReturns).
FairSpec == Spec /\ \A t \in Threads : WF_vars(Step(t))

-----------------------------------------------------------------------------
TypeOK ==
  /\ final \in Names /\ staging \in Names /\ archive \subseteq Inodes
  /\ content \in [Inodes -> [Chunks -> Data]]
  /\ edits \in 0..MaxEdits
  /\ registered \subseteq Hashes /\ conflicts \subseteq Hashes
  /\ pc \in [Threads -> Locations] /\ want \in [Threads -> Hashes]
  /\ accepting \in [Threads -> BOOLEAN]
  /\ retry \in [Threads -> BOOLEAN] /\ trusted \in [Threads -> BOOLEAN]
  /\ fd \in [Threads -> Names] /\ todo \in [Threads -> SUBSET Chunks]
  /\ result \in [Threads -> BOOLEAN]
  /\ \A t \in Threads : fd[t] # NoFile <=> pc[t] = "write"

\* A hash is registered only while the path holds exactly that content
\* ("Hash verified", MeshCLI.hpp:1608), whatever the providers served and
\* however the file was moved.
VerifiedWhenRegistered == \A t \in Threads : pc[t] = "register" => Holds(final, want[t])

\* No run of calls of the two threads leaves a file at the staging path behind.
StagingIsTidy ==
  staging # NoFile => \E t \in Threads : pc[t] \in {"write", "place"}

\* Two threads that download one content from honest providers truncate, write
\* and rename each other's staging file, and yet the path holds whole content once
\* both have returned.  (Of two contents the later writer spoils the file that the
\* other has moved into place: the property is for one hash.)
SettledIsWhole ==
  (\A t \in Threads : pc[t] \in {"idle", "hung"}) /\ final # NoFile
     => \E h \in Hashes \cup {"local"} : content[final] = Fill(h)

\* README.md:90-91: a download never overwrites a local file; the only ways the
\* path loses its file are conflict accept, which archives it, and sync force.  No
\* user writes the path during the download here.
OldCopyKept ==
  [][final # NoFile /\ edits' = edits /\ (\A t \in Threads : pc[t] # "purge")
       => \/ final \in archive'
          \/ final' = final /\ content'[final] = content[final]]_vars

\* README.md:80: after a failed hash check the CLI "retries once with trusted
\* peers only": if those are honest, the second check does not fail, whatever the
\* first attempt left behind and whoever else offers the file.
RetryRepairs == \A t \in Threads : trusted[t] => pc[t] # "mismatch"

\* Every call returns, however the threads get in each other's way: a call that
\* finds its staging file spoilt by the other tries once more and then gives up.
\* (conflict accept does not return: Conflicts!AcceptReturns.)
CallsReturn == \A t \in Threads : pc[t] # "idle" ~> pc[t] = "idle"

\* One thread at a path that no user writes during the download does what
\* PathUpdate promises, whatever the providers serve and however moving the file
\* goes: nothing of the staging file, the retry and the copy shows at the path.
Phase(l) == CASE l \in {"idle", "archive", "purge"} -> l
              [] l = "register" -> "placed"
              [] l \in {"accepted", "hung"} -> "accepted"
              [] OTHER -> "fetch"
Self == CHOOSE t \in Threads : TRUE
AtPath == {content[i] : i \in {final} \ {NoFile}}
InArchive == {content[i] : i \in archive}
Path == INSTANCE PathUpdate
        WITH Whole <- [h \in Hashes |-> Fill(h)], Local <- Fill("local"), Torn <- Fill("zero"),
             file <- AtPath, kept <- InArchive,
             known <- registered, pending <- conflicts,
             phase <- Phase(pc[Self]), hash <- want[Self],
             accepting <- accepting[Self], success <- result[Self]
ImplementsPathUpdate == Path!Spec
=============================================================================
