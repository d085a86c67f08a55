--------------------------- MODULE FileSyncProofs ---------------------------
(* Theorems about FileSync for every set of threads, hashes, chunks and files. *)
EXTENDS FileSync, FiniteSetTheorems, TLAPS

USE FileSyncAssumption

LEMMA FreshUnused == ASSUME NEW i \in Fresh PROVE i \in Inodes /\ i \notin InUse
BY DEF Fresh

LEMMA TypeInit == Init => TypeOK
<1> SUFFICES ASSUME Init PROVE TypeOK
  OBVIOUS
<1>1. final \in Names
  BY DEF Init, Names
<1>2. content \in [Inodes -> [Chunks -> Data]]
  BY DEF Init, Fill, Data
<1> QED BY <1>1, <1>2 DEF Init, TypeOK, Locations, Names

\* Each step keeps the type of the files.
LEMMA TypeDisk ==
  ASSUME TypeOK, Next
  PROVE  /\ final' \in Names /\ staging' \in Names /\ archive' \subseteq Inodes
         /\ content' \in [Inodes -> [Chunks -> Data]] /\ edits' \in 0..MaxEdits
<1> USE DEF TypeOK
<1> DEFINE Goal == /\ final' \in Names /\ staging' \in Names /\ archive' \subseteq Inodes
                   /\ content' \in [Inodes -> [Chunks -> Data]] /\ edits' \in 0..MaxEdits
<1>0. \A d \in Data : Fill(d) \in [Chunks -> Data]
  BY DEF Fill
<1>c. ASSUME NEW data \in [Chunks -> Data], Copied(data)
      PROVE  final' \in Names /\ content' \in [Inodes -> [Chunks -> Data]]
  <2>1. PICK i \in IF final = NoFile THEN Fresh ELSE {final} :
               final' = i /\ content' = [content EXCEPT ![i] = data]
    BY <1>c DEF Copied
  <2>2. i \in Inodes
    BY <2>1, FreshUnused DEF Names
  <2> QED BY <2>1, <2>2 DEF Names
<1>1. ASSUME NEW t \in Threads, BeginSync(t) PROVE Goal
  BY <1>1 DEF BeginSync, diskVars
<1>2. ASSUME BeginAccept PROVE Goal
  BY <1>2 DEF BeginAccept, diskVars
<1>3. ASSUME LocalEdit PROVE Goal
  <2>1. Fill("local") \in [Chunks -> Data]
    BY <1>0 DEF Data
  <2> QED BY <1>3, <1>c, <2>1 DEF LocalEdit
<1>4. ASSUME NEW t \in Threads, Step(t) PROVE Goal
  <2>1. CASE ArchiveExisting(t) BY <2>1 DEF ArchiveExisting, Names
  <2>2. CASE Purge(t) BY <2>2 DEF Purge, Names
  <2>3. CASE Lookup(t) \/ CheckDestination(t) \/ Mismatch(t) \/ Register(t)
    BY <2>3 DEF Lookup, CheckDestination, Mismatch, Register, diskVars
  <2>4. CASE QueueConflict(t) \/ RemoveConflict(t)
    BY <2>4 DEF QueueConflict, RemoveConflict, diskVars
  <2>5. CASE OpenStaging(t)
    <3>1. CASE UNCHANGED <<staging, content>>
      BY <2>5, <3>1 DEF OpenStaging
    <3>2. CASE ~UNCHANGED <<staging, content>>
      <4>1. PICK i \in IF staging = NoFile THEN Fresh ELSE {staging} :
                   staging' = i /\ content' = [content EXCEPT ![i] = Fill("zero")]
        BY <2>5, <3>2 DEF OpenStaging
      <4>2. i \in Inodes
        BY <4>1, FreshUnused DEF Names
      <4>3. Fill("zero") \in [Chunks -> Data]
        BY <1>0 DEF Data
      <4> QED BY <2>5, <4>1, <4>2, <4>3 DEF OpenStaging, Names
    <3> QED BY <3>1, <3>2
  <2>6. CASE WriteChunk(t)
    <3>1. PICK c \in todo[t], d \in Data : content' = [content EXCEPT ![fd[t]][c] = d]
      BY <2>6 DEF WriteChunk, Data
    <3>2. c \in Chunks
      BY <3>1
    <3>3. content' \in [Inodes -> [Chunks -> Data]]
      BY <3>1, <3>2
    <3> QED BY <2>6, <3>3 DEF WriteChunk
  <2>7. CASE TransferFails(t) BY <2>7 DEF TransferFails, RemoveStaging, Names
  <2>8. CASE Verify(t) BY <2>8 DEF Verify, RemoveStaging, Names
  <2>9. CASE Place(t)
    <3>1. staging' = NoFile /\ UNCHANGED <<archive, edits>>
      BY <2>9 DEF Place, RemoveStaging
    <3>2. CASE Renamed
      BY <3>1, <3>2 DEF Renamed, Names
    <3>3. CASE staging # NoFile /\ Copied(content[staging])
      <4>1. content[staging] \in [Chunks -> Data]
        BY <3>3 DEF Names
      <4> QED BY <3>1, <3>3, <4>1, <1>c DEF Names
    <3>4. CASE Copied(Fill("zero"))
      <4>1. Fill("zero") \in [Chunks -> Data]
        BY <1>0 DEF Data
      <4> QED BY <3>1, <3>4, <4>1, <1>c DEF Names
    <3>5. CASE UNCHANGED <<final, content>>
      BY <3>1, <3>5 DEF Names
    <3> QED BY <2>9, <3>2, <3>3, <3>4, <3>5 DEF Place
  <2> QED BY <1>4, <2>1, <2>2, <2>3, <2>4, <2>5, <2>6, <2>7, <2>8, <2>9 DEF Step
<1> QED BY <1>1, <1>2, <1>3, <1>4 DEF Next

\* Each step keeps the type of the rest.
LEMMA TypeRest ==
  ASSUME TypeOK, Next
  PROVE  /\ registered' \subseteq Hashes /\ conflicts' \subseteq Hashes
         /\ pc' \in [Threads -> Locations] /\ want' \in [Threads -> Hashes]
         /\ accepting' \in [Threads -> BOOLEAN]
         /\ retry' \in [Threads -> BOOLEAN] /\ trusted' \in [Threads -> BOOLEAN]
         /\ fd' \in [Threads -> Names] /\ todo' \in [Threads -> SUBSET Chunks]
         /\ result' \in [Threads -> BOOLEAN]
<1> USE DEF TypeOK, Goto, Locations
<1> DEFINE Goal == /\ registered' \subseteq Hashes /\ conflicts' \subseteq Hashes
                   /\ pc' \in [Threads -> Locations] /\ want' \in [Threads -> Hashes]
                   /\ accepting' \in [Threads -> BOOLEAN]
                   /\ retry' \in [Threads -> BOOLEAN] /\ trusted' \in [Threads -> BOOLEAN]
                   /\ fd' \in [Threads -> Names] /\ todo' \in [Threads -> SUBSET Chunks]
                   /\ result' \in [Threads -> BOOLEAN]
<1>r. ASSUME NEW t \in Threads, NEW ok \in BOOLEAN, Return(t, ok)
      PROVE  pc' \in [Threads -> Locations] /\ result' \in [Threads -> BOOLEAN]
  BY <1>r DEF Return
<1>1. ASSUME NEW t \in Threads, BeginSync(t) PROVE Goal
  BY <1>1 DEF BeginSync, streamVars
<1>2. ASSUME "cli" \in Threads, BeginAccept PROVE Goal
  BY <1>2 DEF BeginAccept, streamVars
<1>3. ASSUME LocalEdit PROVE Goal
  BY <1>3 DEF LocalEdit, callVars, streamVars
<1>4. ASSUME NEW t \in Threads, Step(t) PROVE Goal
  <2>1. CASE ArchiveExisting(t) BY <2>1 DEF ArchiveExisting, callVars, streamVars
  <2>2. CASE Purge(t) BY <2>2 DEF Purge, callVars, streamVars
  <2>3. CASE Lookup(t) BY <2>3, <1>r DEF Lookup, callVars, streamVars
  <2>4. CASE CheckDestination(t) BY <2>4, <1>r DEF CheckDestination, callVars, streamVars
  <2>5. CASE QueueConflict(t)
    <3>1. Return(t, FALSE) /\ UNCHANGED <<registered, callVars, retry, trusted, streamVars>>
      BY <2>5 DEF QueueConflict
    <3>2. conflicts' \subseteq Hashes
      BY <2>5 DEF QueueConflict
    <3> QED BY <3>1, <3>2, <1>r DEF callVars, streamVars
  <2>6. CASE OpenStaging(t)
    <3>1. CASE Return(t, FALSE) /\ UNCHANGED <<staging, content, fd, todo>>
      BY <2>6, <3>1, <1>r DEF OpenStaging, callVars
    <3>2. CASE ~(Return(t, FALSE) /\ UNCHANGED <<staging, content, fd, todo>>)
      <4>1. PICK i \in IF staging = NoFile THEN Fresh ELSE {staging} :
                   /\ fd' = [fd EXCEPT ![t] = i]
                   /\ todo' = [todo EXCEPT ![t] = Chunks]
                   /\ Goto(t, "write")
                   /\ UNCHANGED result
        BY <2>6, <3>2 DEF OpenStaging
      <4>2. i \in Names
        BY <4>1, FreshUnused DEF Names
      <4> QED BY <2>6, <4>1, <4>2 DEF OpenStaging, callVars
    <3> QED BY <3>1, <3>2
  <2>7. CASE WriteChunk(t) BY <2>7 DEF WriteChunk, callVars
  <2>8. CASE TransferFails(t)
    BY <2>8, <1>r DEF TransferFails, CloseStream, callVars, Names
  <2>9. CASE Verify(t) BY <2>9 DEF Verify, CloseStream, callVars, Names
  <2>10. CASE Mismatch(t) BY <2>10 DEF Mismatch, callVars, streamVars
  <2>11. CASE Place(t)
    <3>1. pc' \in [Threads -> Locations] /\ result' \in [Threads -> BOOLEAN]
      BY <2>11, <1>r DEF Place
    <3> QED BY <2>11, <3>1 DEF Place, callVars, streamVars
  <2>12. CASE Register(t)
    <3>1. Return(t, TRUE) /\ UNCHANGED <<conflicts, callVars, retry, trusted, streamVars>>
      BY <2>12 DEF Register
    <3>2. registered' \subseteq Hashes
      BY <2>12 DEF Register
    <3> QED BY <3>1, <3>2, <1>r DEF callVars, streamVars
  <2>13. CASE RemoveConflict(t) BY <2>13 DEF RemoveConflict, callVars, streamVars
  <2> QED BY <1>4, <2>1, <2>2, <2>3, <2>4, <2>5, <2>6, <2>7, <2>8, <2>9, <2>10, <2>11,
             <2>12, <2>13 DEF Step
<1> QED BY <1>1, <1>2, <1>3, <1>4 DEF Next

\* A stream is open exactly during a transfer.
LEMMA Streams ==
  ASSUME TypeOK, Next
  PROVE  (\A t \in Threads : fd[t] # NoFile <=> pc[t] = "write")'
<1> USE DEF TypeOK, Goto
<1> DEFINE Goal == (\A t \in Threads : fd[t] # NoFile <=> pc[t] = "write")'
<1>1. ASSUME NEW t \in Threads, BeginSync(t) PROVE Goal
  <2>1. PICK l \in {"lookup", "purge"} : pc' = [pc EXCEPT ![t] = l]
    BY <1>1 DEF BeginSync
  <2>2. pc[t] = "idle" /\ fd' = fd
    BY <1>1 DEF BeginSync, streamVars
  <2> QED BY <2>1, <2>2
<1>2. CASE "cli" \in Threads /\ BeginAccept
  BY <1>2 DEF BeginAccept, streamVars
<1>3. CASE LocalEdit
  BY <1>3 DEF LocalEdit, streamVars
<1>4. ASSUME NEW t \in Threads, Step(t) PROVE Goal
  <2>1. CASE ArchiveExisting(t) \/ Purge(t) \/ Mismatch(t) \/ RemoveConflict(t)
    BY <2>1 DEF ArchiveExisting, Purge, Mismatch, RemoveConflict, streamVars
  <2>2. CASE Lookup(t) \/ CheckDestination(t) \/ QueueConflict(t) \/ Register(t)
    <3>1. fd' = fd /\ pc[t] # "write"
      BY <2>2 DEF Lookup, CheckDestination, QueueConflict, Register, streamVars
    <3>2. pc' = [pc EXCEPT ![t] = pc'[t]] /\ pc'[t] # "write"
      BY <2>2 DEF Lookup, CheckDestination, QueueConflict, Register, Return
    <3> QED BY <3>1, <3>2
  <2>3. CASE OpenStaging(t)
    <3>0. pc[t] = "open"
      BY <2>3 DEF OpenStaging
    <3>1. CASE Return(t, FALSE) /\ fd' = fd
      BY <3>0, <3>1 DEF Return
    <3>2. CASE ~(Return(t, FALSE) /\ fd' = fd)
      <4>1. PICK i \in IF staging = NoFile THEN Fresh ELSE {staging} :
                   fd' = [fd EXCEPT ![t] = i] /\ Goto(t, "write")
        BY <2>3, <3>2 DEF OpenStaging
      <4>2. i # NoFile
        BY <4>1, FreshUnused
      <4> QED BY <4>1, <4>2
    <3> QED BY <3>1, <3>2
  <2>4. CASE WriteChunk(t)
    BY <2>4 DEF WriteChunk
  <2>5. CASE TransferFails(t)
    BY <2>5 DEF TransferFails, CloseStream, Return
  <2>6. CASE Verify(t)
    BY <2>6 DEF Verify, CloseStream
  <2>7. CASE Place(t)
    <3>1. fd' = fd /\ pc[t] = "place"
      BY <2>7 DEF Place, streamVars
    <3>2. Goto(t, "register") \/ Return(t, FALSE)
      BY <2>7 DEF Place
    <3>3. pc' = [pc EXCEPT ![t] = pc'[t]] /\ pc'[t] # "write"
      BY <3>2 DEF Return
    <3> QED BY <3>1, <3>3
  <2> QED BY <1>4, <2>1, <2>2, <2>3, <2>4, <2>5, <2>6, <2>7 DEF Step
<1> QED BY <1>1, <1>2, <1>3, <1>4 DEF Next

\* The type invariant holds for every instance.
THEOREM TypeCorrect == Spec => []TypeOK
<1>1. ASSUME TypeOK, [Next]_vars PROVE TypeOK'
  <2>1. CASE Next
    BY <2>1, <1>1, TypeDisk, TypeRest, Streams DEF TypeOK
  <2>2. CASE UNCHANGED vars
    BY <2>2, <1>1 DEF TypeOK, vars, diskVars, callVars, streamVars
  <2> QED BY <1>1, <2>1, <2>2
<1> QED BY <1>1, TypeInit, PTL DEF Spec

\* However the threads interleave, none leaves a file at the staging path: the
\* last one to use it removes it or moves it into place.
THEOREM StagingNeverLeaks == Spec => []StagingIsTidy
<1>1. Init => StagingIsTidy
  BY DEF Init, StagingIsTidy
<1>2. ASSUME TypeOK, StagingIsTidy, [Next]_vars PROVE StagingIsTidy'
  <2> USE <1>2 DEF TypeOK, StagingIsTidy, Goto
  <2>1. ASSUME NEW t \in Threads, BeginSync(t) PROVE StagingIsTidy'
    BY <2>1 DEF BeginSync, diskVars
  <2>2. ASSUME "cli" \in Threads, BeginAccept PROVE StagingIsTidy'
    BY <2>2 DEF BeginAccept, diskVars
  <2>3. CASE LocalEdit \/ UNCHANGED vars
    BY <2>3 DEF LocalEdit, vars, diskVars
  <2>4. ASSUME NEW t \in Threads, Step(t) PROVE StagingIsTidy'
    <3>1. CASE ArchiveExisting(t) \/ RemoveConflict(t) \/ Register(t) \/ Mismatch(t)
      BY <3>1 DEF ArchiveExisting, RemoveConflict, Register, Mismatch, Return, diskVars
    <3>2. CASE Purge(t) \/ TransferFails(t) \/ Place(t)
      BY <3>2 DEF Purge, TransferFails, Place, RemoveStaging
    <3>3. CASE Lookup(t) \/ CheckDestination(t) \/ QueueConflict(t)
      BY <3>3 DEF Lookup, CheckDestination, QueueConflict, Return, diskVars
    <3>4. CASE OpenStaging(t)
      <4>1. pc[t] = "open"
        BY <3>4 DEF OpenStaging
      <4>2. Goto(t, "write") \/ (Return(t, FALSE) /\ UNCHANGED staging)
        BY <3>4 DEF OpenStaging
      <4>3. CASE Goto(t, "write")
        BY <4>3
      <4>4. CASE Return(t, FALSE) /\ UNCHANGED staging
        BY <4>1, <4>4 DEF Return
      <4> QED BY <4>2, <4>3, <4>4
    <3>5. CASE WriteChunk(t)
      BY <3>5 DEF WriteChunk
    <3>6. CASE Verify(t)
      BY <3>6 DEF Verify, RemoveStaging
    <3> QED BY <2>4, <3>1, <3>2, <3>3, <3>4, <3>5, <3>6 DEF Step
  <2> QED BY <2>1, <2>2, <2>3, <2>4 DEF Next
<1> QED BY <1>1, <1>2, TypeCorrect, PTL DEF Spec

-----------------------------------------------------------------------------
\* The places from the check of the path to the registration.
Exposed == {"open", "write", "mismatch", "place", "register"}

\* What one thread alone knows about the path while it downloads to it.
AloneInv ==
  \A t \in Threads :
    /\ pc[t] \in {"open", "write", "mismatch", "place"} => final = NoFile
    /\ pc[t] = "place" => Holds(staging, want[t])
    /\ pc[t] = "register" => Holds(final, want[t])

LEMMA AloneStep ==
  ASSUME NEW self, Threads = {self}, EditPlaces \cap Exposed = {},
         TypeOK, AloneInv, Next
  PROVE  AloneInv'
<1> USE DEF TypeOK, AloneInv, Goto
<1>1. ASSUME BeginSync(self) PROVE AloneInv'
  BY <1>1 DEF BeginSync, diskVars
<1>2. ASSUME "cli" \in Threads, BeginAccept PROVE AloneInv'
  BY <1>2 DEF BeginAccept, diskVars
<1>3. ASSUME LocalEdit PROVE AloneInv'
  <2>1. pc[self] \notin Exposed /\ pc' = pc
    BY <1>3 DEF LocalEdit
  <2> QED BY <2>1 DEF Exposed
<1>4. ASSUME Step(self) PROVE AloneInv'
  <2>1. CASE ArchiveExisting(self) \/ Purge(self) \/ RemoveConflict(self)
    BY <2>1 DEF ArchiveExisting, Purge, RemoveConflict
  <2>2. CASE Lookup(self) \/ CheckDestination(self)
    BY <2>2 DEF Lookup, CheckDestination, Return, diskVars
  <2>3. CASE QueueConflict(self) \/ Register(self)
    BY <2>3 DEF QueueConflict, Register, Return
  <2>4. CASE OpenStaging(self)
    <3>1. final' = NoFile
      BY <2>4 DEF OpenStaging
    <3>2. Goto(self, "write") \/ Return(self, FALSE)
      BY <2>4 DEF OpenStaging
    <3>3. pc'[self] \in {"write", "idle", "accepted"}
      BY <3>2 DEF Return
    <3> QED BY <3>1, <3>3
  <2>5. CASE WriteChunk(self) BY <2>5 DEF WriteChunk
  <2>6. CASE TransferFails(self) BY <2>6 DEF TransferFails, Return
  <2>7. CASE Verify(self) BY <2>7 DEF Verify, Holds, callVars
  <2>8. CASE Mismatch(self) BY <2>8 DEF Mismatch, diskVars
  <2>9. CASE Place(self)
    <3>1. CASE Goto(self, "register")
      <4>1. staging # NoFile /\ (Renamed \/ Copied(content[staging]))
        <5>1. ~Return(self, FALSE)
          BY <2>9, <3>1 DEF Place, Return
        <5> QED BY <2>9, <5>1 DEF Place
      <4>2. content[staging] = Fill(want[self]) /\ want' = want
        BY <2>9 DEF Place, Holds, callVars
      <4>3. CASE Renamed
        BY <3>1, <4>1, <4>2, <4>3 DEF Renamed, Holds
      <4>4. CASE Copied(content[staging])
        <5>1. PICK i \in IF final = NoFile THEN Fresh ELSE {final} :
                     final' = i /\ content' = [content EXCEPT ![i] = content[staging]]
          BY <4>4 DEF Copied
        <5>2. i \in Inodes
          BY <5>1, FreshUnused DEF Names
        <5>3. final' # NoFile /\ content'[final'] = Fill(want[self])
          BY <5>1, <5>2, <4>2
        <5> QED BY <3>1, <4>2, <5>3 DEF Holds
      <4> QED BY <4>1, <4>3, <4>4
    <3>2. CASE Return(self, FALSE)
      BY <2>9, <3>2 DEF Place, Return
    <3> QED BY <2>9, <3>1, <3>2 DEF Place
  <2> QED BY <1>4, <2>1, <2>2, <2>3, <2>4, <2>5, <2>6, <2>7, <2>8, <2>9 DEF Step
<1> QED BY <1>1, <1>2, <1>3, <1>4 DEF Next

LEMMA AloneInvariant ==
  ASSUME NEW self, Threads = {self}, EditPlaces \cap Exposed = {}
  PROVE  Spec => []AloneInv
<1>1. Init => AloneInv
  BY DEF Init, AloneInv
<1>2. ASSUME TypeOK, AloneInv, [Next]_vars PROVE AloneInv'
  <2>1. CASE Next BY <1>2, <2>1, AloneStep
  <2>2. CASE UNCHANGED vars
    BY <1>2, <2>2 DEF AloneInv, Holds, vars, diskVars, callVars
  <2> QED BY <1>2, <2>1, <2>2
<1> QED BY <1>1, <1>2, TypeCorrect, PTL DEF Spec

\* One thread on a path no user writes meanwhile registers a hash only for a file
\* with exactly that content, whatever the providers serve.
THEOREM AloneRegistersWhatItVerified ==
  ASSUME NEW self, Threads = {self}, EditPlaces \cap Exposed = {}
  PROVE  Spec => []VerifiedWhenRegistered
<1>1. AloneInv => VerifiedWhenRegistered
  BY DEF AloneInv, VerifiedWhenRegistered
<1> QED BY <1>1, AloneInvariant, PTL

\* One thread on a path no user writes meanwhile never loses the file it finds there.
THEOREM AloneKeepsOldCopy ==
  ASSUME NEW self, Threads = {self}, EditPlaces \cap Exposed = {}, ArchiveOutcomes = {"kept"}
  PROVE  Spec => OldCopyKept
<1> DEFINE Kept == final # NoFile /\ edits' = edits /\ (\A t \in Threads : pc[t] # "purge")
                     => \/ final \in archive'
                        \/ final' = final /\ content'[final] = content[final]
<1>1. ASSUME TypeOK, AloneInv, [Next]_vars PROVE [Kept]_vars
  <2> USE <1>1 DEF TypeOK
  <2>0. SUFFICES ASSUME Next, final # NoFile, edits' = edits, pc[self] # "purge"
                 PROVE  \/ final \in archive'
                        \/ final' = final /\ content'[final] = content[final]
    OBVIOUS
  <2>1. pc[self] \notin {"open", "write", "mismatch", "place"}
    BY <2>0 DEF AloneInv
  <2>2. CASE BeginSync(self) \/ BeginAccept
    BY <2>2 DEF BeginSync, BeginAccept, diskVars
  <2>3. ~LocalEdit
    BY <2>0 DEF LocalEdit
  <2>4. CASE Step(self)
    <3>1. CASE ArchiveExisting(self)
      BY <2>0, <3>1 DEF ArchiveExisting
    <3>2. CASE Lookup(self) \/ CheckDestination(self) \/ QueueConflict(self)
      BY <3>2 DEF Lookup, CheckDestination, QueueConflict, diskVars
    <3>3. CASE Register(self) \/ RemoveConflict(self)
      BY <3>3 DEF Register, RemoveConflict, diskVars
    <3>4. ~Purge(self) /\ ~OpenStaging(self) /\ ~WriteChunk(self) /\ ~TransferFails(self)
      BY <2>0, <2>1 DEF Purge, OpenStaging, WriteChunk, TransferFails
    <3>5. ~Verify(self) /\ ~Mismatch(self) /\ ~Place(self)
      BY <2>1 DEF Verify, Mismatch, Place
    <3> QED BY <2>4, <3>1, <3>2, <3>3, <3>4, <3>5 DEF Step
  <2> QED BY <2>0, <2>2, <2>3, <2>4 DEF Next
<1> QED BY <1>1, TypeCorrect, AloneInvariant, PTL DEF Spec, OldCopyKept

-----------------------------------------------------------------------------
\* What one thread alone has written, once it fetches from trusted peers only.
RetryInv ==
  \A t \in Threads :
    /\ pc[t] = "write" => fd[t] = staging
    /\ trusted[t] => pc[t] # "mismatch"
    /\ trusted[t] /\ pc[t] = "write" =>
         \A c \in Chunks \ todo[t] : content[staging][c] = want[t]

LEMMA RetryStep ==
  ASSUME NEW self, Threads = {self}, "write" \notin EditPlaces, TrustedServe = {"good"},
         TypeOK, RetryInv, Next
  PROVE  RetryInv'
<1> USE DEF TypeOK, RetryInv, Goto
<1>1. ASSUME BeginSync(self) PROVE RetryInv'
  BY <1>1 DEF BeginSync, diskVars, streamVars
<1>2. ASSUME "cli" \in Threads, BeginAccept PROVE RetryInv'
  BY <1>2 DEF BeginAccept, diskVars, streamVars
<1>3. ASSUME LocalEdit PROVE RetryInv'
  <2>1. pc[self] # "write" /\ pc' = pc /\ trusted' = trusted
    BY <1>3 DEF LocalEdit
  <2> QED BY <2>1
<1>4. ASSUME Step(self) PROVE RetryInv'
  <2>1. CASE ArchiveExisting(self) \/ Purge(self) \/ RemoveConflict(self)
    BY <2>1 DEF ArchiveExisting, Purge, RemoveConflict
  <2>2. CASE Lookup(self) \/ CheckDestination(self)
    BY <2>2 DEF Lookup, CheckDestination, Return
  <2>3. CASE QueueConflict(self) \/ Register(self) \/ TransferFails(self) \/ Place(self)
    <3>1. Return(self, FALSE) \/ Return(self, TRUE) \/ Goto(self, "register")
      BY <2>3 DEF QueueConflict, Register, TransferFails, Place
    <3>2. pc'[self] \in {"idle", "accepted", "register"}
      BY <3>1 DEF Return
    <3> QED BY <3>2
  <2>4. CASE OpenStaging(self)
    <3>1. CASE Return(self, FALSE)
      <4>1. pc'[self] \in {"idle", "accepted"}
        BY <3>1 DEF Return
      <4> QED BY <4>1
    <3>2. CASE Goto(self, "write")
      <4>1. ~Return(self, FALSE)
        BY <3>2 DEF Return
      <4>2. PICK i \in (IF staging = NoFile THEN Fresh ELSE {staging}) :
              /\ staging' = i
              /\ fd' = [fd EXCEPT ![self] = i]
              /\ todo' = [todo EXCEPT ![self] = Chunks]
        BY <2>4, <4>1 DEF OpenStaging
      <4>3. fd'[self] = staging' /\ todo'[self] = Chunks /\ pc'[self] = "write"
        BY <3>2, <4>2
      <4> QED BY <4>3
    <3> QED BY <2>4, <3>1, <3>2 DEF OpenStaging
  <2>5. CASE WriteChunk(self)
    <3>1. PICK c \in todo[self], q \in (IF trusted[self] THEN TrustedServe ELSE AllServe) :
            /\ content' = [content EXCEPT ![fd[self]][c] = IF q = "good" THEN want[self] ELSE "bad"]
            /\ todo' = [todo EXCEPT ![self] = @ \ {c}]
      BY <2>5 DEF WriteChunk
    <3>2. /\ pc[self] = "write" /\ pc' = pc /\ fd' = fd /\ staging' = staging
          /\ want' = want /\ trusted' = trusted
      BY <2>5 DEF WriteChunk, callVars
    <3>3. ASSUME trusted[self], NEW d \in Chunks \ todo'[self]
          PROVE  content'[staging][d] = want[self]
      <4>1. staging \in Inodes /\ content[staging] \in [Chunks -> Data]
        BY <3>2 DEF Names
      <4>2. q = "good"
        BY <3>1, <3>3
      <4>3. content'[staging][d] = IF d = c THEN want[self] ELSE content[staging][d]
        BY <3>1, <3>2, <4>1, <4>2
      <4>4. d = c \/ d \in Chunks \ todo[self]
        BY <3>1, <3>3
      <4> QED BY <3>2, <3>3, <4>3, <4>4
    <3> QED BY <3>2, <3>3
  <2>6. CASE Verify(self)
    <3>1. pc[self] = "write" /\ todo[self] = {} /\ trusted' = trusted
      BY <2>6 DEF Verify
    <3>2. ASSUME trusted[self] PROVE Holds(staging, want[self])
      <4>1. staging \in Inodes /\ content[staging] \in [Chunks -> Data]
        BY <3>1 DEF Names
      <4>2. content[staging] = [c \in Chunks |-> want[self]]
        BY <3>1, <3>2, <4>1
      <4> QED BY <3>1, <4>2, FileSyncAssumption, <4>1 DEF Holds, Fill
    <3>3. pc'[self] \in {"place", "mismatch"} /\ (pc'[self] = "mismatch" => ~trusted[self])
      BY <2>6, <3>2 DEF Verify
    <3> QED BY <3>1, <3>3
  <2>7. CASE Mismatch(self)
    <3>1. pc'[self] \in {"open", "conflict"}
      BY <2>7 DEF Mismatch
    <3> QED BY <3>1
  <2> QED BY <1>4, <2>1, <2>2, <2>3, <2>4, <2>5, <2>6, <2>7 DEF Step
<1> QED BY <1>1, <1>2, <1>3, <1>4 DEF Next

\* With honest trusted peers the retry of one thread passes its hash check,
\* whatever the first attempt fetched and whoever else offers the file.
THEOREM AloneRetryRepairs ==
  ASSUME NEW self, Threads = {self}, "write" \notin EditPlaces, TrustedServe = {"good"}
  PROVE  Spec => []RetryRepairs
<1>1. Init => RetryInv
  BY DEF Init, RetryInv
<1>2. ASSUME TypeOK, RetryInv, [Next]_vars PROVE RetryInv'
  <2>1. CASE Next BY <1>2, <2>1, RetryStep
  <2>2. CASE UNCHANGED vars
    BY <1>2, <2>2 DEF RetryInv, vars, diskVars, callVars, streamVars
  <2> QED BY <1>2, <2>1, <2>2
<1>3. RetryInv => RetryRepairs
  BY DEF RetryInv, RetryRepairs
<1> QED BY <1>1, <1>2, <1>3, TypeCorrect, PTL DEF Spec

-----------------------------------------------------------------------------
\* Two threads that download one content: a file that is not whole is being
\* written by a thread that has put the content where it has written so far, and
\* a file that is being written holds nothing else.
WholeInv ==
  /\ \A i \in Inodes :
       \/ \E d \in Hashes \cup {"local"} : \A c \in Chunks : content[i][c] = d
       \/ \E t \in Threads : /\ pc[t] = "write" /\ fd[t] = i
                             /\ \A c \in Chunks \ todo[t] : content[i][c] \in Hashes
  /\ \A t \in Threads : pc[t] = "write" =>
       \A c \in Chunks : content[fd[t]][c] \in Hashes \cup {"zero"}

\* A step that neither writes nor opens nor closes keeps it.
LEMMA WholeKept ==
  ASSUME WholeInv, UNCHANGED <<content, fd, todo>>,
         \A t \in Threads : pc'[t] = "write" <=> pc[t] = "write"
  PROVE  WholeInv'
BY DEF WholeInv

LEMMA WholeStep ==
  ASSUME NEW h, Hashes = {h}, "write" \notin EditPlaces, FALSE \notin SwarmOutcomes,
         AllServe = {"good"}, TrustedServe = {"good"}, PlaceOutcomes = {"renamed"},
         TypeOK, WholeInv, Next
  PROVE  WholeInv'
<1> USE DEF TypeOK, Goto
<1>1. ASSUME NEW t \in Threads, BeginSync(t) PROVE WholeInv'
  BY <1>1, WholeKept DEF BeginSync, diskVars, streamVars
<1>2. ASSUME "cli" \in Threads, BeginAccept PROVE WholeInv'
  BY <1>2, WholeKept DEF BeginAccept, diskVars, streamVars
<1>3. ASSUME LocalEdit PROVE WholeInv'
  <2>1. \A t \in Threads : pc[t] # "write"
    BY <1>3 DEF LocalEdit
  <2>2. PICK i \in IF final = NoFile THEN Fresh ELSE {final} :
               content' = [content EXCEPT ![i] = Fill("local")]
    BY <1>3 DEF LocalEdit, Copied
  <2>3. i \in Inodes /\ pc' = pc
    BY <1>3, <2>2, FreshUnused DEF LocalEdit, Names
  <2>4. ASSUME NEW j \in Inodes
        PROVE  \E d \in Hashes \cup {"local"} : \A c \in Chunks : content'[j][c] = d
    <3>1. CASE j = i
      BY <2>2, <2>3, <3>1 DEF Fill
    <3>2. CASE j # i
      BY <2>1, <2>2, <2>3, <3>2 DEF WholeInv
    <3> QED BY <3>1, <3>2
  <2> QED BY <2>1, <2>3, <2>4 DEF WholeInv
<1>4. ASSUME NEW t \in Threads, Step(t) PROVE WholeInv'
  <2>r. ASSUME NEW ok, Return(t, ok)
        PROVE  pc' = [pc EXCEPT ![t] = pc'[t]] /\ pc'[t] # "write"
    BY <2>r DEF Return
  <2>1. CASE ArchiveExisting(t) \/ Purge(t) \/ RemoveConflict(t) \/ Mismatch(t)
    <3>1. UNCHANGED <<content, fd, todo>> /\ pc[t] # "write"
      BY <2>1 DEF ArchiveExisting, Purge, RemoveConflict, Mismatch, diskVars, streamVars
    <3>2. pc' = [pc EXCEPT ![t] = pc'[t]] /\ pc'[t] # "write"
      BY <2>1 DEF ArchiveExisting, Purge, RemoveConflict, Mismatch
    <3> QED BY <3>1, <3>2, WholeKept
  <2>2. CASE Lookup(t) \/ CheckDestination(t) \/ QueueConflict(t) \/ Register(t)
    <3>1. UNCHANGED <<content, fd, todo>> /\ pc[t] # "write"
      BY <2>2 DEF Lookup, CheckDestination, QueueConflict, Register, diskVars, streamVars
    <3>2. \/ Return(t, TRUE) \/ Return(t, FALSE)
          \/ Goto(t, "check") \/ Goto(t, "conflict") \/ Goto(t, "open")
      BY <2>2 DEF Lookup, CheckDestination, QueueConflict, Register
    <3>3. pc' = [pc EXCEPT ![t] = pc'[t]] /\ pc'[t] # "write"
      BY <3>2, <2>r
    <3> QED BY <3>1, <3>3, WholeKept
  <2>3. CASE OpenStaging(t)
    <3>1. PICK i \in (IF staging = NoFile THEN Fresh ELSE {staging}) :
            /\ content' = [content EXCEPT ![i] = Fill("zero")]
            /\ fd' = [fd EXCEPT ![t] = i]
            /\ todo' = [todo EXCEPT ![t] = Chunks]
            /\ pc' = [pc EXCEPT ![t] = "write"]
      BY <2>3 DEF OpenStaging
    <3>2. i \in Inodes /\ pc[t] = "open"
      BY <2>3, <3>1, FreshUnused DEF OpenStaging, Names
    <3>3. \A c \in Chunks : content'[i][c] = "zero"
      BY <3>1, <3>2 DEF Fill
    <3>4. pc'[t] = "write" /\ fd'[t] = i /\ todo'[t] = Chunks
      BY <3>1
    <3>5. \A j \in Inodes : j # i => content'[j] = content[j]
      BY <3>1
    <3>6. \A u \in Threads : u # t => pc'[u] = pc[u] /\ fd'[u] = fd[u] /\ todo'[u] = todo[u]
      BY <3>1
    <3>7. ASSUME NEW j \in Inodes
          PROVE  \/ \E d \in Hashes \cup {"local"} : \A c \in Chunks : content'[j][c] = d
                 \/ \E u \in Threads : /\ pc'[u] = "write" /\ fd'[u] = j
                                       /\ \A c \in Chunks \ todo'[u] : content'[j][c] \in Hashes
      <4>1. CASE j = i
        BY <3>4, <4>1
      <4>2. CASE j # i
        <5>1. CASE \E d \in Hashes \cup {"local"} : \A c \in Chunks : content[j][c] = d
          BY <3>5, <4>2, <5>1
        <5>2. CASE \E u \in Threads : /\ pc[u] = "write" /\ fd[u] = j
                                      /\ \A c \in Chunks \ todo[u] : content[j][c] \in Hashes
          <6>1. PICK u \in Threads : /\ pc[u] = "write" /\ fd[u] = j
                                     /\ \A c \in Chunks \ todo[u] : content[j][c] \in Hashes
            BY <5>2
          <6>2. u # t
            BY <3>2, <6>1
          <6> QED BY <3>5, <3>6, <4>2, <6>1, <6>2
        <5> QED BY <5>1, <5>2 DEF WholeInv
      <4> QED BY <4>1, <4>2
    <3>8. ASSUME NEW u \in Threads, pc'[u] = "write", NEW c \in Chunks
          PROVE  content'[fd'[u]][c] \in Hashes \cup {"zero"}
      <4>1. CASE fd'[u] = i
        BY <3>3, <4>1
      <4>2. CASE fd'[u] # i
        <5>1. u # t /\ pc[u] = "write" /\ fd'[u] = fd[u]
          BY <3>4, <3>6, <3>8, <4>2
        <5>2. fd[u] \in Inodes
          BY <5>1 DEF Names
        <5> QED BY <3>5, <4>2, <5>1, <5>2 DEF WholeInv
      <4> QED BY <4>1, <4>2
    <3> QED BY <3>7, <3>8 DEF WholeInv
  <2>4. CASE WriteChunk(t)
    <3>1. PICK c \in todo[t] :
            /\ content' = [content EXCEPT ![fd[t]][c] = h]
            /\ todo' = [todo EXCEPT ![t] = @ \ {c}]
      BY <2>4 DEF WriteChunk
    <3>2. pc[t] = "write" /\ pc' = pc /\ fd' = fd /\ fd[t] \in Inodes /\ c \in Chunks
      BY <2>4, <3>1 DEF WriteChunk, Names
    <3>3. \A j \in Inodes, e \in Chunks :
            content'[j][e] = IF j = fd[t] /\ e = c THEN h ELSE content[j][e]
      BY <3>1, <3>2
    <3>4. \A u \in Threads : todo'[u] = IF u = t THEN todo[u] \ {c} ELSE todo[u]
      BY <3>1
    <3>5. ASSUME NEW j \in Inodes
          PROVE  \/ \E d \in Hashes \cup {"local"} : \A e \in Chunks : content'[j][e] = d
                 \/ \E u \in Threads : /\ pc'[u] = "write" /\ fd'[u] = j
                                       /\ \A e \in Chunks \ todo'[u] : content'[j][e] \in Hashes
      <4>1. CASE \E d \in Hashes \cup {"local"} : \A e \in Chunks : content[j][e] = d
        <5>1. PICK d \in Hashes \cup {"local"} : \A e \in Chunks : content[j][e] = d
          BY <4>1
        <5>2. CASE j # fd[t]
          BY <3>3, <5>1, <5>2
        <5>3. CASE j = fd[t]
          <6>1. content[j][c] \in Hashes \cup {"zero"}
            BY <3>2, <5>3 DEF WholeInv
          <6>2. d = h
            BY <3>2, <5>1, <6>1
          <6> QED BY <3>3, <5>1, <6>2
        <5> QED BY <5>2, <5>3
      <4>2. CASE \E u \in Threads : /\ pc[u] = "write" /\ fd[u] = j
                                    /\ \A e \in Chunks \ todo[u] : content[j][e] \in Hashes
        <5>1. PICK u \in Threads : /\ pc[u] = "write" /\ fd[u] = j
                                   /\ \A e \in Chunks \ todo[u] : content[j][e] \in Hashes
          BY <4>2
        <5>2. ASSUME NEW e \in Chunks \ todo'[u] PROVE content'[j][e] \in Hashes
          <6>1. CASE j = fd[t] /\ e = c
            BY <3>3, <6>1
          <6>2. CASE ~(j = fd[t] /\ e = c)
            <7>1. e \notin todo[u]
              BY <3>4, <5>1, <5>2, <6>2
            <7> QED BY <3>3, <5>1, <6>2, <7>1
          <6> QED BY <6>1, <6>2
        <5> QED BY <3>2, <5>1, <5>2
      <4> QED BY <4>1, <4>2 DEF WholeInv
    <3>6. ASSUME NEW u \in Threads, pc'[u] = "write", NEW e \in Chunks
          PROVE  content'[fd'[u]][e] \in Hashes \cup {"zero"}
      <4>1. pc[u] = "write" /\ fd'[u] = fd[u] /\ fd[u] \in Inodes
        BY <3>2, <3>6 DEF Names
      <4>2. content[fd[u]][e] \in Hashes \cup {"zero"}
        BY <4>1 DEF WholeInv
      <4> QED BY <3>3, <4>1, <4>2
    <3> QED BY <3>5, <3>6 DEF WholeInv
  <2>5. ~TransferFails(t)
    BY DEF TransferFails
  <2>6. CASE Verify(t)
    <3>1. /\ pc[t] = "write" /\ todo[t] = {} /\ content' = content /\ todo' = todo
          /\ fd' = [fd EXCEPT ![t] = NoFile]
          /\ pc' = [pc EXCEPT ![t] = pc'[t]] /\ pc'[t] # "write"
      BY <2>6 DEF Verify, CloseStream
    <3>2. \A u \in Threads : u # t => pc'[u] = pc[u] /\ fd'[u] = fd[u]
      BY <3>1
    <3>3. ASSUME NEW j \in Inodes
          PROVE  \/ \E d \in Hashes \cup {"local"} : \A c \in Chunks : content[j][c] = d
                 \/ \E u \in Threads : /\ pc'[u] = "write" /\ fd'[u] = j
                                       /\ \A c \in Chunks \ todo[u] : content[j][c] \in Hashes
      <4>1. CASE \E u \in Threads : /\ pc[u] = "write" /\ fd[u] = j
                                    /\ \A c \in Chunks \ todo[u] : content[j][c] \in Hashes
        <5>1. PICK u \in Threads : /\ pc[u] = "write" /\ fd[u] = j
                                   /\ \A c \in Chunks \ todo[u] : content[j][c] \in Hashes
          BY <4>1
        <5>2. CASE u = t
          BY <3>1, <5>1, <5>2
        <5>3. CASE u # t
          BY <3>2, <5>1, <5>3
        <5> QED BY <5>2, <5>3
      <4> QED BY <4>1 DEF WholeInv
    <3>4. ASSUME NEW u \in Threads, pc'[u] = "write", NEW c \in Chunks
          PROVE  content[fd'[u]][c] \in Hashes \cup {"zero"}
      <4>1. u # t
        BY <3>1, <3>4
      <4> QED BY <3>2, <3>4, <4>1 DEF WholeInv
    <3> QED BY <3>1, <3>3, <3>4 DEF WholeInv
  <2>7. CASE Place(t)
    <3>1. UNCHANGED <<content, fd, todo>> /\ pc[t] = "place"
      BY <2>7 DEF Place, Renamed, streamVars
    <3>2. pc' = [pc EXCEPT ![t] = pc'[t]] /\ pc'[t] # "write"
      BY <2>7, <2>r DEF Place
    <3> QED BY <3>1, <3>2, WholeKept
  <2> QED BY <1>4, <2>1, <2>2, <2>3, <2>4, <2>5, <2>6, <2>7 DEF Step
<1> QED BY <1>1, <1>2, <1>3, <1>4 DEF Next

\* Any number of threads that download one content from honest providers, without
\* failures, leave whole content at the path once all have returned, although they
\* truncate, write and rename one another's staging file.
THEOREM SharedSettlesWhole ==
  ASSUME NEW h, Hashes = {h}, "write" \notin EditPlaces, FALSE \notin SwarmOutcomes,
         AllServe = {"good"}, TrustedServe = {"good"}, PlaceOutcomes = {"renamed"}
  PROVE  Spec => []SettledIsWhole
<1>1. Init => WholeInv
  BY DEF Init, WholeInv, Fill
<1>2. ASSUME TypeOK, WholeInv, [Next]_vars PROVE WholeInv'
  <2>1. CASE Next BY <1>2, <2>1, WholeStep
  <2>2. CASE UNCHANGED vars
    BY <1>2, <2>2, WholeKept DEF vars, diskVars, streamVars
  <2> QED BY <1>2, <2>1, <2>2
<1>3. ASSUME TypeOK, WholeInv PROVE SettledIsWhole
  <2>1. SUFFICES ASSUME \A t \in Threads : pc[t] # "write", final \in Inodes
                 PROVE  \E d \in Hashes \cup {"local"} : content[final] = Fill(d)
    BY <1>3 DEF SettledIsWhole, TypeOK, Names
  <2>2. PICK d \in Hashes \cup {"local"} : \A c \in Chunks : content[final][c] = d
    BY <1>3, <2>1 DEF WholeInv
  <2>3. content[final] = [c \in Chunks |-> content[final][c]]
    BY <1>3, <2>1 DEF TypeOK
  <2>4. content[final] = [c \in Chunks |-> d]
    BY <2>2, <2>3
  <2> QED BY <2>4 DEF Fill
<1> QED BY <1>1, <1>2, <1>3, TypeCorrect, PTL DEF Spec

-----------------------------------------------------------------------------
\* One thread alone never writes to a file that has been archived or moved into
\* place: the names are of different files and its stream is of the staged one.
FilesApart ==
  /\ final \notin archive /\ staging \notin archive
  /\ staging # NoFile => staging # final
  /\ \A t \in Threads : pc[t] = "write" => fd[t] = staging

LEMMA AtPathIs == AtPath = IF final = NoFile THEN {} ELSE {content[final]}
BY DEF AtPath

LEMMA CopyPlaces ==
  ASSUME TypeOK, FilesApart, NEW data, Copied(data), archive' = archive
  PROVE  /\ final' \in Inodes /\ final' \notin archive
         /\ final' = final \/ final' \notin InUse
         /\ AtPath' = {data} /\ InArchive' = InArchive
<1>1. PICK i \in (IF final = NoFile THEN Fresh ELSE {final}) :
             final' = i /\ content' = [content EXCEPT ![i] = data]
  BY DEF Copied
<1>2. i \in Inodes /\ i \notin archive /\ (i = final \/ i \notin InUse)
  BY <1>1, FreshUnused DEF TypeOK, Names, InUse, FilesApart
<1>3. content'[i] = data /\ \A j \in archive : content'[j] = content[j]
  BY <1>1, <1>2 DEF TypeOK
<1>4. AtPath' = {data}
  BY <1>1, <1>2, <1>3, FileSyncAssumption DEF AtPath
<1>5. InArchive' = InArchive
  BY <1>3 DEF InArchive
<1> QED BY <1>1, <1>2, <1>4, <1>5

\* A step that leaves the files alone, or writes only to the staged one.
LEMMA DiskKept ==
  ASSUME UNCHANGED <<final, archive, content>>
  PROVE  AtPath' = AtPath /\ InArchive' = InArchive
BY DEF AtPath, InArchive

LEMMA ApartStep ==
  ASSUME NEW self, Threads = {self}, EditPlaces \cap Exposed = {},
         TypeOK, FilesApart, Next
  PROVE  FilesApart'
<1> USE DEF TypeOK, FilesApart, Goto
<1>n. NoFile \notin archive
  OBVIOUS
<1>1. ASSUME BeginSync(self) PROVE FilesApart'
  <2>0. PICK l \in {"lookup", "purge"} : pc' = [pc EXCEPT ![self] = l]
    BY <1>1 DEF BeginSync
  <2>1. pc'[self] # "write" /\ UNCHANGED diskVars
    BY <1>1, <2>0 DEF BeginSync
  <2> QED BY <2>1 DEF diskVars
<1>2. ASSUME "cli" \in Threads, BeginAccept PROVE FilesApart'
  BY <1>2 DEF BeginAccept, diskVars
<1>c. ASSUME NEW data, Copied(data), archive' = archive, staging' \in {staging, NoFile}
      PROVE  final' \notin archive' /\ staging' \notin archive'
             /\ (staging' # NoFile => staging' # final')
  <2>1. final' \notin archive /\ (final' = final \/ final' \notin InUse)
    BY <1>c, CopyPlaces
  <2>2. staging \in InUse
    BY DEF InUse
  <2> QED BY <1>c, <2>1, <2>2, <1>n
<1>3. ASSUME LocalEdit PROVE FilesApart'
  <2>1. UNCHANGED <<archive, staging, pc, fd>> /\ Copied(Fill("local"))
    BY <1>3 DEF LocalEdit, streamVars
  <2> QED BY <2>1, <1>c
<1>4. ASSUME Step(self) PROVE FilesApart'
  <2>1. CASE ArchiveExisting(self)
    BY <2>1, <1>n DEF ArchiveExisting
  <2>2. CASE Purge(self)
    BY <2>2, <1>n DEF Purge
  <2>3. CASE RemoveConflict(self) \/ Mismatch(self)
    BY <2>3 DEF RemoveConflict, Mismatch, diskVars
  <2>4. CASE Lookup(self) \/ CheckDestination(self) \/ QueueConflict(self) \/ Register(self)
    <3>1. UNCHANGED <<final, staging, archive>>
      BY <2>4 DEF Lookup, CheckDestination, QueueConflict, Register, diskVars
    <3>2. pc'[self] # "write"
      BY <2>4 DEF Lookup, CheckDestination, QueueConflict, Register, Return
    <3> QED BY <3>1, <3>2
  <2>5. CASE OpenStaging(self)
    <3>1. UNCHANGED <<final, archive>>
      BY <2>5 DEF OpenStaging
    <3>2. CASE Return(self, FALSE) /\ UNCHANGED <<staging, content, fd, todo>>
      <4>1. pc'[self] # "write"
        BY <3>2 DEF Return
      <4> QED BY <3>1, <3>2, <4>1
    <3>3. CASE ~(Return(self, FALSE) /\ UNCHANGED <<staging, content, fd, todo>>)
      <4>1. PICK i \in (IF staging = NoFile THEN Fresh ELSE {staging}) :
                   staging' = i /\ fd' = [fd EXCEPT ![self] = i]
        BY <2>5, <3>3 DEF OpenStaging
      <4>2. i = staging \/ i \notin archive \cup {final}
        BY <4>1, FreshUnused DEF InUse
      <4>3. fd'[self] = staging'
        BY <4>1
      <4> QED BY <3>1, <4>1, <4>2, <4>3
    <3> QED BY <3>2, <3>3
  <2>6. CASE WriteChunk(self)
    BY <2>6 DEF WriteChunk
  <2>7. CASE TransferFails(self)
    BY <2>7, <1>n DEF TransferFails, RemoveStaging, Return
  <2>8. CASE Verify(self)
    BY <2>8, <1>n DEF Verify, RemoveStaging
  <2>9. CASE Place(self)
    <3>1. archive' = archive /\ staging' = NoFile
      BY <2>9 DEF Place, RemoveStaging
    <3>2. pc'[self] # "write"
      BY <2>9 DEF Place, Return
    <3>3. final' \notin archive
      <4>1. CASE Renamed
        BY <4>1 DEF Renamed
      <4>2. CASE Copied(content[staging]) \/ Copied(Fill("zero"))
        BY <4>2, <3>1, <1>c
      <4>3. CASE final' = final
        BY <4>3
      <4> QED BY <2>9, <4>1, <4>2, <4>3 DEF Place
    <3> QED BY <3>1, <3>2, <3>3, <1>n
  <2> QED BY <1>4, <2>1, <2>2, <2>3, <2>4, <2>5, <2>6, <2>7, <2>8, <2>9 DEF Step
<1> QED BY <1>1, <1>2, <1>3, <1>4 DEF Next

\* Each step of one thread is a step of the call PathUpdate describes, or none.
LEMMA PathStep ==
  ASSUME NEW self, Threads = {self}, EditPlaces \cap Exposed = {},
         ArchiveOutcomes \subseteq {"kept"}, TypeOK, AloneInv, FilesApart, Next
  PROVE  Path!Next \/ UNCHANGED Path!vars
<1> USE DEF TypeOK
<1> DEFINE Rest == UNCHANGED <<registered, conflicts, want, accepting>>
<1>s. Self = self /\ self \in Threads
  BY DEF Self
<1>r. ASSUME NEW ok, Return(self, ok) PROVE Path!Return(ok) /\ result'[self] = ok
  <2>1. pc'[self] = (IF ok /\ accepting[self] THEN "accepted" ELSE "idle") /\ result'[self] = ok
    BY <1>r DEF Return, Goto
  <2> QED BY <1>s, <2>1 DEF Path!Return, Phase
<1>1. ASSUME BeginSync(self) PROVE Path!Sync
  <2>1. PICK h \in Hashes, l \in {"lookup", "purge"} :
          want' = [want EXCEPT ![self] = h] /\ pc' = [pc EXCEPT ![self] = l]
    BY <1>1 DEF BeginSync, Goto
  <2>2. /\ pc[self] = "idle" /\ pc'[self] = l /\ want'[self] = h /\ accepting'[self] = FALSE
        /\ UNCHANGED <<final, archive, content, registered, conflicts, result>>
    BY <1>1, <2>1 DEF BeginSync, diskVars
  <2> QED BY <1>s, <2>1, <2>2, DiskKept DEF Path!Sync, Phase
<1>2. ASSUME self = "cli", BeginAccept PROVE Path!Accept
  <2>1. PICK h \in conflicts : want' = [want EXCEPT !["cli"] = h]
    BY <1>2 DEF BeginAccept
  <2>2. /\ pc[self] = "idle" /\ pc'[self] = "archive" /\ want'[self] = h /\ accepting'[self] = TRUE
        /\ UNCHANGED <<final, archive, content, registered, conflicts, result>>
    BY <1>2, <2>1 DEF BeginAccept, diskVars, Goto
  <2> QED BY <1>s, <2>1, <2>2, DiskKept DEF Path!Accept, Phase
<1>3. ASSUME LocalEdit PROVE Path!UserWrites
  <2>1. /\ Copied(Fill("local")) /\ pc[self] # "register"
        /\ UNCHANGED <<archive, registered, conflicts, pc, want, accepting, result>>
    BY <1>3 DEF LocalEdit, callVars, Exposed
  <2>2. AtPath' = {Fill("local")} /\ InArchive' = InArchive
    BY <2>1, CopyPlaces
  <2> QED BY <1>s, <2>1, <2>2 DEF Path!UserWrites, Phase
<1>4. ASSUME Step(self) PROVE Path!Next \/ UNCHANGED Path!vars
  <2>1. CASE ArchiveExisting(self)
    <3>1. /\ archive' = archive \cup ({final} \ {NoFile}) /\ final' = NoFile
          /\ pc[self] = "archive" /\ pc'[self] = "lookup"
          /\ Rest /\ UNCHANGED <<content, result>>
      BY <2>1 DEF ArchiveExisting, Goto, callVars
    <3>2. AtPath' = {} /\ InArchive' = InArchive \cup AtPath
      BY <3>1 DEF AtPath, InArchive
    <3> QED BY <1>s, <3>1, <3>2 DEF Path!Next, Path!Archive, Phase
  <2>2. CASE Purge(self)
    <3>1. /\ final' = NoFile /\ pc[self] = "purge" /\ pc'[self] = "lookup"
          /\ Rest /\ UNCHANGED <<archive, content, result>>
      BY <2>2 DEF Purge, Goto, callVars
    <3>2. AtPath' = {} /\ InArchive' = InArchive
      BY <3>1 DEF AtPath, InArchive
    <3> QED BY <1>s, <3>1, <3>2 DEF Path!Next, Path!Purge, Phase
  <2>3. CASE Lookup(self)
    <3>1. pc[self] = "lookup" /\ Rest /\ UNCHANGED <<final, archive, content>>
      BY <2>3 DEF Lookup, callVars, diskVars
    <3>2. CASE want[self] \in registered /\ final # NoFile /\ Return(self, TRUE)
      BY <1>s, <1>r, <3>1, <3>2, DiskKept, AtPathIs DEF Path!Next, Path!AlreadyThere, Phase
    <3>3. CASE Goto(self, "check") /\ UNCHANGED result
      BY <1>s, <3>1, <3>3, DiskKept DEF Path!vars, Phase, Goto
    <3>4. CASE Return(self, FALSE)
      BY <1>s, <1>r, <3>1, <3>4, DiskKept DEF Path!Next, Path!GiveUp, Phase
    <3> QED BY <2>3, <3>2, <3>3, <3>4 DEF Lookup
  <2>4. CASE CheckDestination(self)
    <3>1. pc[self] = "check" /\ Rest /\ UNCHANGED <<final, archive, content>>
      BY <2>4 DEF CheckDestination, callVars, diskVars
    <3>2. CASE Holds(final, want[self]) /\ Return(self, TRUE)
      <4>1. AtPath = {[h \in Hashes |-> Fill(h)][want[self]]}
        BY <1>s, <3>2, AtPathIs DEF Holds
      <4> QED BY <1>s, <1>r, <3>1, <3>2, <4>1, DiskKept DEF Path!Next, Path!AlreadyThere, Phase
    <3>3. CASE (Goto(self, "conflict") \/ Goto(self, "open")) /\ UNCHANGED result
      BY <1>s, <3>1, <3>3, DiskKept DEF Path!vars, Phase, Goto
    <3>4. CASE Return(self, FALSE)
      BY <1>s, <1>r, <3>1, <3>4, DiskKept DEF Path!Next, Path!GiveUp, Phase
    <3> QED BY <2>4, <3>2, <3>3, <3>4 DEF CheckDestination
  <2>5. CASE QueueConflict(self)
    <3>1. /\ pc[self] = "conflict" /\ Return(self, FALSE)
          /\ conflicts' = conflicts \cup ({want[self]} \ Ignored)
          /\ UNCHANGED <<final, archive, content, registered, want, accepting>>
      BY <2>5 DEF QueueConflict, callVars, diskVars
    <3> QED BY <1>s, <1>r, <3>1, DiskKept DEF Path!Next, Path!GiveUp, Phase
  <2>6. CASE OpenStaging(self)
    <3>1. pc[self] = "open" /\ final = NoFile /\ Rest /\ UNCHANGED <<final, archive>>
      BY <2>6 DEF OpenStaging, callVars, AloneInv
    <3>2. CASE Return(self, FALSE) /\ UNCHANGED <<staging, content, fd, todo>>
      BY <1>s, <1>r, <3>1, <3>2, DiskKept DEF Path!Next, Path!GiveUp, Phase
    <3>3. CASE ~(Return(self, FALSE) /\ UNCHANGED <<staging, content, fd, todo>>)
      <4>1. PICK i \in (IF staging = NoFile THEN Fresh ELSE {staging}) :
                   /\ content' = [content EXCEPT ![i] = Fill("zero")]
                   /\ Goto(self, "write") /\ UNCHANGED result
        BY <2>6, <3>3 DEF OpenStaging
      <4>2. i \notin archive
        BY <4>1, FreshUnused DEF InUse, FilesApart
      <4>3. AtPath' = AtPath /\ InArchive' = InArchive
        BY <3>1, <4>1, <4>2 DEF AtPath, InArchive
      <4> QED BY <1>s, <3>1, <4>1, <4>3 DEF Path!vars, Phase, Goto
    <3> QED BY <3>2, <3>3
  <2>7. CASE WriteChunk(self)
    <3>1. /\ pc[self] = "write" /\ final = NoFile /\ fd[self] \notin archive
          /\ Rest /\ UNCHANGED <<final, archive, pc, result>>
      BY <2>7 DEF WriteChunk, callVars, AloneInv, FilesApart
    <3>2. PICK c \in todo[self], d \in Data : content' = [content EXCEPT ![fd[self]][c] = d]
      BY <2>7 DEF WriteChunk, Data
    <3>3. AtPath' = AtPath /\ InArchive' = InArchive
      BY <3>1, <3>2 DEF AtPath, InArchive
    <3> QED BY <1>s, <3>1, <3>3 DEF Path!vars
  <2>8. CASE TransferFails(self)
    <3>1. /\ pc[self] = "write" /\ Return(self, FALSE)
          /\ Rest /\ UNCHANGED <<final, archive, content>>
      BY <2>8 DEF TransferFails, callVars
    <3> QED BY <1>s, <1>r, <3>1, DiskKept DEF Path!Next, Path!GiveUp, Phase
  <2>9. CASE Verify(self) \/ Mismatch(self)
    <3>1. /\ pc[self] \in {"write", "mismatch"}
          /\ Rest /\ UNCHANGED <<final, archive, content, result>>
      BY <2>9 DEF Verify, Mismatch, callVars, diskVars
    <3>2. pc'[self] \in {"place", "mismatch", "open", "conflict"}
      BY <2>9 DEF Verify, Mismatch, Goto
    <3> QED BY <1>s, <3>1, <3>2, DiskKept DEF Path!vars, Phase
  <2>10. CASE Place(self)
    <3>1. /\ pc[self] = "place" /\ final = NoFile /\ AtPath = {}
          /\ content[staging] = Fill(want[self]) /\ Rest /\ UNCHANGED archive
      BY <2>10, AtPathIs DEF Place, callVars, AloneInv, Holds
    <3>2. CASE staging # NoFile /\ (Renamed \/ Copied(content[staging]))
               /\ Goto(self, "register") /\ UNCHANGED result
      <4>1. AtPath' = {Fill(want[self])} /\ InArchive' = InArchive
        <5>1. CASE Renamed
          BY <3>1, <3>2, <5>1 DEF Renamed, AtPath, InArchive
        <5>2. CASE Copied(content[staging])
          BY <3>1, <5>2, CopyPlaces
        <5> QED BY <3>2, <5>1, <5>2
      <4>2. AtPath' = {[h \in Hashes |-> Fill(h)][want[self]]}
        BY <4>1
      <4> QED BY <1>s, <3>1, <3>2, <4>1, <4>2 DEF Path!Next, Path!Deliver, Phase, Goto
    <3>3. CASE Copied(Fill("zero")) /\ Return(self, FALSE)
      <4>1. AtPath' = {Fill("zero")} /\ InArchive' = InArchive
        BY <3>1, <3>3, CopyPlaces
      <4> QED BY <1>s, <1>r, <3>1, <3>3, <4>1 DEF Path!Next, Path!Spoil, Phase
    <3>4. CASE Return(self, FALSE) /\ UNCHANGED <<final, content>>
      BY <1>s, <1>r, <3>1, <3>4, DiskKept DEF Path!Next, Path!GiveUp, Phase
    <3> QED BY <2>10, <3>2, <3>3, <3>4 DEF Place
  <2>11. CASE Register(self)
    <3>1. /\ pc[self] = "register" /\ Holds(final, want[self]) /\ Return(self, TRUE)
          /\ registered' = registered \cup {want[self]}
          /\ UNCHANGED <<final, archive, content, conflicts, want, accepting>>
      BY <2>11 DEF Register, callVars, diskVars, AloneInv
    <3>2. AtPath = {[h \in Hashes |-> Fill(h)][want[self]]}
      BY <3>1, AtPathIs DEF Holds
    <3> QED BY <1>s, <1>r, <3>1, <3>2, DiskKept DEF Path!Next, Path!Share, Phase
  <2>12. CASE RemoveConflict(self)
    <3>1. /\ pc[self] = "accepted" /\ pc'[self] = "hung"
          /\ Rest /\ UNCHANGED <<final, archive, content, result>>
      BY <2>12 DEF RemoveConflict, Goto, callVars, diskVars
    <3> QED BY <1>s, <3>1, DiskKept DEF Path!vars, Phase
  <2> QED BY <1>4, <2>1, <2>2, <2>3, <2>4, <2>5, <2>6, <2>7, <2>8, <2>9, <2>10, <2>11,
             <2>12 DEF Step
<1> QED BY <1>1, <1>2, <1>3, <1>4 DEF Next, Path!Next

\* One thread, at a path that no user writes between its check and the
\* registration, does exactly what PathUpdate promises for the path.
THEOREM AloneImplementsPathUpdate ==
  ASSUME NEW self, Threads = {self}, EditPlaces \cap Exposed = {},
         ArchiveOutcomes \subseteq {"kept"}
  PROVE  Spec => ImplementsPathUpdate
<1>1. Init => FilesApart /\ AloneInv
  BY DEF Init, FilesApart, AloneInv
<1>2. ASSUME TypeOK, FilesApart, AloneInv, [Next]_vars PROVE FilesApart' /\ AloneInv'
  <2>1. CASE Next BY <1>2, <2>1, ApartStep, AloneStep
  <2>2. CASE UNCHANGED vars
    BY <1>2, <2>2 DEF FilesApart, AloneInv, Holds, vars, diskVars, callVars, streamVars
  <2> QED BY <1>2, <2>1, <2>2
<1>3. Init => Path!Init
  <2>1. SUFFICES ASSUME Init PROVE Path!Init
    OBVIOUS
  <2>2. Self \in Threads
    BY DEF Self
  <2>3. AtPath \in {{}, {Fill("local")}} /\ InArchive = {}
    <3>1. final \in Names /\ archive = {} /\ content = [i \in Inodes |-> Fill("local")]
      BY <2>1 DEF Init, Names
    <3> QED BY <3>1, AtPathIs DEF InArchive, Names
  <2> QED BY <2>1, <2>2, <2>3 DEF Init, Path!Init, Phase
<1>4. ASSUME TypeOK, FilesApart, AloneInv, [Next]_vars PROVE [Path!Next]_(Path!vars)
  <2>1. CASE Next BY <1>4, <2>1, PathStep
  <2>2. CASE UNCHANGED vars
    BY <2>2, DiskKept DEF Path!vars, vars, diskVars, callVars
  <2> QED BY <1>4, <2>1, <2>2
<1> QED BY <1>1, <1>2, <1>3, <1>4, TypeCorrect, PTL DEF Spec, Path!Spec, ImplementsPathUpdate

-----------------------------------------------------------------------------
\* How many steps a call has left at most, when it still has to write every chunk,
\* and once more if its retry is unspent.
Again(unspent) == IF unspent THEN Cardinality(Chunks) + 10 ELSE 0
RankAt(l, unspent, S) ==
  CASE l \in {"idle", "hung"}      -> 0
    [] l = "accepted"              -> 1
    [] l = "register"              -> 2
    [] l \in {"place", "conflict"} -> 3
    [] l = "mismatch"              -> Again(unspent) + 4
    [] l = "write"                 -> Again(unspent) + 5 + Cardinality(S)
    [] l = "open"                  -> Again(unspent) + 6 + Cardinality(Chunks)
    [] l = "check"                 -> Again(unspent) + 7 + Cardinality(Chunks)
    [] l = "lookup"                -> Again(unspent) + 8 + Cardinality(Chunks)
    [] l \in {"archive", "purge"}  -> Again(unspent) + 9 + Cardinality(Chunks)
Rank(t) == RankAt(pc[t], retry[t], todo[t])

\* A call that stands somewhere only ever comes nearer to its end: no step of the
\* other thread or of the user sets it back, not even by spoiling its staging file.
CallsGetShorter ==
  [][\A t \in Threads : \/ pc[t] = "idle"
                        \/ UNCHANGED <<pc[t], todo[t], Rank(t)>>
                        \/ Rank(t)' < Rank(t)]_vars

\* A step of one call leaves the place, the chunks and the retry of the others.
LEMMA OneThreadSteps ==
  ASSUME TypeOK, NEW t \in Threads, Step(t), NEW u \in Threads, u # t
  PROVE  pc'[u] = pc[u] /\ todo'[u] = todo[u] /\ retry'[u] = retry[u]
<1> USE DEF TypeOK, Goto
<1>r. ASSUME NEW ok, Return(t, ok) PROVE pc'[u] = pc[u]
  BY <1>r DEF Return
<1>1. CASE ArchiveExisting(t) \/ Purge(t) \/ RemoveConflict(t) \/ Mismatch(t)
  BY <1>1 DEF ArchiveExisting, Purge, RemoveConflict, Mismatch, streamVars
<1>2. CASE Lookup(t) \/ CheckDestination(t) \/ QueueConflict(t) \/ Register(t)
  BY <1>2, <1>r DEF Lookup, CheckDestination, QueueConflict, Register, streamVars
<1>3. CASE OpenStaging(t)
  <2>1. retry' = retry
    BY <1>3 DEF OpenStaging
  <2>2. CASE Return(t, FALSE) /\ UNCHANGED <<staging, content, fd, todo>>
    BY <1>r, <2>1, <2>2
  <2>3. CASE ~(Return(t, FALSE) /\ UNCHANGED <<staging, content, fd, todo>>)
    <3>1. todo' = [todo EXCEPT ![t] = Chunks] /\ pc' = [pc EXCEPT ![t] = "write"]
      BY <1>3, <2>3 DEF OpenStaging
    <3> QED BY <2>1, <3>1
  <2> QED BY <2>2, <2>3
<1>4. CASE WriteChunk(t)
  BY <1>4 DEF WriteChunk
<1>5. CASE TransferFails(t)
  BY <1>5, <1>r DEF TransferFails
<1>6. CASE Verify(t)
  BY <1>6 DEF Verify
<1>7. CASE Place(t)
  BY <1>7, <1>r DEF Place, streamVars
<1> QED BY <1>1, <1>2, <1>3, <1>4, <1>5, <1>6, <1>7 DEF Step

LEMMA ChunkCounts ==
  /\ Cardinality(Chunks) \in Nat
  /\ \A S \in SUBSET Chunks : /\ Cardinality(S) \in Nat /\ Cardinality(S) <= Cardinality(Chunks)
                              /\ \A c \in S : Cardinality(S \ {c}) = Cardinality(S) - 1
BY FS_CardinalityType, FS_Subset, FS_RemoveElement

LEMMA RankValues ==
  \A b \in BOOLEAN, S \in SUBSET Chunks :
    /\ Again(b) \in Nat /\ Cardinality(S) \in Nat
    /\ \A l \in {"idle", "hung"} : RankAt(l, b, S) = 0
    /\ RankAt("accepted", b, S) = 1
    /\ RankAt("register", b, S) = 2
    /\ \A l \in {"place", "conflict"} : RankAt(l, b, S) = 3
    /\ RankAt("mismatch", b, S) = Again(b) + 4
    /\ RankAt("write", b, S) = Again(b) + 5 + Cardinality(S)
    /\ RankAt("open", b, S) = Again(b) + 6 + Cardinality(Chunks)
    /\ RankAt("check", b, S) = Again(b) + 7 + Cardinality(Chunks)
    /\ RankAt("lookup", b, S) = Again(b) + 8 + Cardinality(Chunks)
    /\ \A l \in {"archive", "purge"} : RankAt(l, b, S) = Again(b) + 9 + Cardinality(Chunks)
<1> SUFFICES ASSUME NEW b \in BOOLEAN, NEW S \in SUBSET Chunks
             PROVE  /\ Again(b) \in Nat /\ Cardinality(S) \in Nat
                    /\ \A l \in {"idle", "hung"} : RankAt(l, b, S) = 0
                    /\ RankAt("accepted", b, S) = 1
                    /\ RankAt("register", b, S) = 2
                    /\ \A l \in {"place", "conflict"} : RankAt(l, b, S) = 3
                    /\ RankAt("mismatch", b, S) = Again(b) + 4
                    /\ RankAt("write", b, S) = Again(b) + 5 + Cardinality(S)
                    /\ RankAt("open", b, S) = Again(b) + 6 + Cardinality(Chunks)
                    /\ RankAt("check", b, S) = Again(b) + 7 + Cardinality(Chunks)
                    /\ RankAt("lookup", b, S) = Again(b) + 8 + Cardinality(Chunks)
                    /\ \A l \in {"archive", "purge"} :
                         RankAt(l, b, S) = Again(b) + 9 + Cardinality(Chunks)
  OBVIOUS
<1>1. Again(b) \in Nat /\ Cardinality(S) \in Nat
  BY ChunkCounts DEF Again
<1> QED BY <1>1 DEF RankAt

\* A call's own step lowers its rank, so the rank bounds the steps that are left.
LEMMA StepLowersRank ==
  ASSUME TypeOK, TypeOK', NEW t \in Threads, Step(t)
  PROVE  Rank(t)' < Rank(t)
<1> DEFINE n == Cardinality(Chunks)
           left == Again(retry[t])
           now == Rank(t)
           next == Rank(t)'
<1>n. n \in Nat /\ left \in Nat
  BY ChunkCounts, RankValues DEF TypeOK
<1>t. /\ retry[t] \in BOOLEAN /\ todo[t] \in SUBSET Chunks /\ pc \in [Threads -> Locations]
      /\ retry'[t] \in BOOLEAN /\ todo'[t] \in SUBSET Chunks
  BY DEF TypeOK
<1>v. \A l \in Locations : pc[t] = l => now = RankAt(l, retry[t], todo[t])
  BY DEF Rank
<1>w. \A l \in Locations : pc'[t] = l => next = RankAt(l, retry'[t], todo'[t])
  BY DEF Rank
<1>x. /\ pc[t] = "write" => now = left + 5 + Cardinality(todo[t])
      /\ pc[t] = "open" => now = left + 6 + n
      /\ pc[t] = "check" => now = left + 7 + n
      /\ pc[t] = "lookup" => now = left + 8 + n
      /\ pc[t] \in {"archive", "purge"} => now = left + 9 + n
      /\ pc[t] = "mismatch" => now = left + 4
      /\ pc[t] \in {"place", "conflict"} => now = 3
      /\ pc[t] = "register" => now = 2 
      /\ pc[t] = "accepted" => now = 1
  BY <1>t, <1>v, RankValues DEF Locations
<1>y. /\ pc'[t] = "write" => next = Again(retry'[t]) + 5 + Cardinality(todo'[t])
      /\ pc'[t] = "open" => next = Again(retry'[t]) + 6 + n
      /\ pc'[t] = "check" => next = Again(retry'[t]) + 7 + n
      /\ pc'[t] = "lookup" => next = Again(retry'[t]) + 8 + n
      /\ pc'[t] = "mismatch" => next = Again(retry'[t]) + 4
      /\ pc'[t] \in {"place", "conflict"} => next = 3
      /\ pc'[t] = "register" => next = 2
      /\ pc'[t] = "accepted" => next = 1
      /\ pc'[t] \in {"idle", "hung"} => next = 0
  BY <1>t, <1>w, RankValues DEF Locations
<1> HIDE DEF n, left, now, next
<1>s. retry'[t] = retry[t] => Again(retry'[t]) = left
  BY DEF left
<1>r. ASSUME NEW ok, Return(t, ok) PROVE next \in {0, 1}
  <2>1. pc'[t] \in {"idle", "accepted"}
    BY <1>r, <1>t DEF Return, Goto
  <2> QED BY <2>1, <1>y
<1>1. CASE ArchiveExisting(t) \/ Purge(t)
  <2>1. pc[t] \in {"archive", "purge"} /\ pc'[t] = "lookup" /\ retry'[t] = retry[t]
    BY <1>1, <1>t DEF ArchiveExisting, Purge, Goto
  <2>2. now = left + 9 + n /\ next = left + 8 + n
    BY <2>1, <1>x, <1>y, <1>s
  <2> QED BY <2>2, <1>n DEF now, next
<1>2. CASE Lookup(t)
  <2>1. pc[t] = "lookup" /\ retry'[t] = retry[t] /\ now = left + 8 + n
    BY <1>2, <1>x DEF Lookup
  <2>2. ASSUME pc'[t] = "check" PROVE next < now
    <3>1. next = left + 7 + n
      BY <2>1, <2>2, <1>y, <1>s
    <3> QED BY <2>1, <3>1, <1>n
  <2>3. ASSUME next \in {0, 1} PROVE next < now
    BY <2>1, <2>3, <1>n
  <2>4. pc'[t] = "check" \/ Return(t, TRUE) \/ Return(t, FALSE)
    BY <1>2, <1>t DEF Lookup, Goto
  <2> QED BY <2>2, <2>3, <2>4, <1>r DEF now, next
<1>3. CASE CheckDestination(t)
  <2>1. pc[t] = "check" /\ retry'[t] = retry[t] /\ now = left + 7 + n
    BY <1>3, <1>x DEF CheckDestination
  <2>2. ASSUME pc'[t] \in {"conflict", "open"} PROVE next < now
    <3>1. next = 3 \/ next = left + 6 + n
      BY <2>1, <2>2, <1>y, <1>s
    <3> QED BY <2>1, <3>1, <1>n
  <2>3. ASSUME next \in {0, 1} PROVE next < now
    BY <2>1, <2>3, <1>n
  <2>4. pc'[t] \in {"conflict", "open"} \/ Return(t, TRUE) \/ Return(t, FALSE)
    BY <1>3, <1>t DEF CheckDestination, Goto
  <2> QED BY <2>2, <2>3, <2>4, <1>r DEF now, next
<1>4. CASE QueueConflict(t) \/ Register(t)
  <2>1. now \in {2, 3}
    BY <1>4, <1>x DEF QueueConflict, Register
  <2>2. next \in {0, 1}
    BY <1>4, <1>r DEF QueueConflict, Register
  <2>3. next < now
    BY <2>1, <2>2
  <2> QED BY <2>3 DEF now, next
<1>5. CASE OpenStaging(t)
  <2>1. pc[t] = "open" /\ retry'[t] = retry[t] /\ now = left + 6 + n
    BY <1>5, <1>x DEF OpenStaging
  <2>2. ASSUME pc'[t] = "write", todo'[t] = Chunks PROVE next < now
    <3>1. next = left + 5 + n
      BY <2>1, <2>2, <1>y, <1>s DEF n
    <3> QED BY <2>1, <3>1, <1>n
  <2>3. ASSUME next \in {0, 1} PROVE next < now
    BY <2>1, <2>3, <1>n
  <2>4. (pc'[t] = "write" /\ todo'[t] = Chunks) \/ Return(t, FALSE)
    <3>1. CASE Return(t, FALSE)
      BY <3>1
    <3>2. CASE ~Return(t, FALSE)
      <4>1. pc' = [pc EXCEPT ![t] = "write"] /\ todo' = [todo EXCEPT ![t] = Chunks]
        BY <1>5, <3>2 DEF OpenStaging, Goto
      <4> QED BY <4>1, <1>t DEF TypeOK
    <3> QED BY <3>1, <3>2
  <2> QED BY <2>2, <2>3, <2>4, <1>r DEF now, next
<1>6. CASE WriteChunk(t)
  <2>1. PICK c \in todo[t] : todo'[t] = todo[t] \ {c}
    BY <1>6 DEF WriteChunk, TypeOK
  <2>2. pc[t] = "write" /\ pc'[t] = "write" /\ retry'[t] = retry[t]
    BY <1>6 DEF WriteChunk
  <2>3. Cardinality(todo[t]) \in Nat /\ Cardinality(todo'[t]) = Cardinality(todo[t]) - 1
    BY <2>1, <1>t, ChunkCounts
  <2>4. now = left + 5 + Cardinality(todo[t]) /\ next = left + 5 + Cardinality(todo'[t])
    BY <2>2, <1>x, <1>y, <1>s
  <2>5. next < now
    BY <2>3, <2>4, <1>n
  <2> QED BY <2>5 DEF now, next
<1>7. CASE TransferFails(t) \/ Verify(t)
  <2>1. pc[t] = "write" /\ retry'[t] = retry[t]
    BY <1>7 DEF TransferFails, Verify
  <2>2. now = left + 5 + Cardinality(todo[t]) /\ Cardinality(todo[t]) \in Nat
    BY <2>1, <1>x, <1>t, ChunkCounts
  <2>3. ASSUME pc'[t] \in {"place", "mismatch"} PROVE next < now
    <3>1. next = 3 \/ next = left + 4
      BY <2>1, <2>3, <1>y, <1>s
    <3> QED BY <2>2, <3>1, <1>n
  <2>4. ASSUME next \in {0, 1} PROVE next < now
    BY <2>2, <2>4, <1>n
  <2>5. pc'[t] \in {"place", "mismatch"} \/ Return(t, FALSE)
    BY <1>7, <1>t DEF TransferFails, Verify, Goto
  <2> QED BY <2>3, <2>4, <2>5, <1>r DEF now, next
<1>8. CASE Mismatch(t)
  <2>1. /\ pc[t] = "mismatch" /\ retry'[t] = FALSE
        /\ pc'[t] = IF retry[t] THEN "open" ELSE "conflict"
    BY <1>8, <1>t DEF Mismatch, Goto, TypeOK
  <2>2. now = left + 4
    BY <2>1, <1>x
  <2>3. CASE retry[t]
    <3>1. left = n + 10 /\ next = 6 + n
      BY <2>1, <2>3, <1>y, <1>n DEF left, n, Again
    <3>2. next < now
      BY <2>2, <3>1, <1>n
    <3> QED BY <3>2 DEF now, next
  <2>4. CASE ~retry[t]
    <3>1. next = 3
      BY <2>1, <2>4, <1>y
    <3>2. next < now
      BY <2>2, <3>1, <1>n
    <3> QED BY <3>2 DEF now, next
  <2> QED BY <2>3, <2>4
<1>9. CASE Place(t)
  <2>1. now = 3
    BY <1>9, <1>x DEF Place
  <2>2. pc'[t] = "register" \/ Return(t, FALSE)
    BY <1>9, <1>t DEF Place, Goto
  <2>3. next \in {0, 1, 2}
    BY <2>2, <1>r, <1>y
  <2>4. next < now
    BY <2>1, <2>3
  <2> QED BY <2>4 DEF now, next
<1>10. CASE RemoveConflict(t)
  <2>1. pc[t] = "accepted" /\ pc'[t] = "hung"
    BY <1>10, <1>t DEF RemoveConflict, Goto
  <2>2. now = 1 /\ next = 0
    BY <2>1, <1>x, <1>y
  <2>3. next < now
    BY <2>2
  <2> QED BY <2>3 DEF now, next
<1> QED BY <1>1, <1>2, <1>3, <1>4, <1>5, <1>6, <1>7, <1>8, <1>9, <1>10 DEF Step

\* Once begun, a call of any thread has at most 2 * |Chunks| + 19 steps, whatever
\* the other threads, the providers and the disk do: with the fairness of each
\* thread that is why CallsReturn holds.
THEOREM CallsTakeBoundedlyManySteps ==
  Spec => CallsGetShorter /\ [](\A t \in Threads : Rank(t) \in 0..(2 * Cardinality(Chunks) + 19))
<1>1. ASSUME TypeOK, TypeOK', [Next]_vars, NEW t \in Threads
      PROVE  \/ pc[t] = "idle"
             \/ UNCHANGED <<pc[t], todo[t], Rank(t)>>
             \/ Rank(t)' < Rank(t)
  <2>k. ASSUME pc'[t] = pc[t], todo'[t] = todo[t], retry'[t] = retry[t]
        PROVE  UNCHANGED <<pc[t], todo[t], Rank(t)>>
    BY <2>k DEF Rank
  <2>1. ASSUME NEW u \in Threads, BeginSync(u), u # t PROVE UNCHANGED <<pc[t], todo[t], Rank(t)>>
    <3>1. pc'[t] = pc[t] /\ retry'[t] = retry[t] /\ todo' = todo
      BY <1>1, <2>1 DEF BeginSync, Goto, streamVars, TypeOK
    <3> QED BY <3>1, <2>k
  <2>2. ASSUME BeginAccept, t # "cli" PROVE UNCHANGED <<pc[t], todo[t], Rank(t)>>
    <3>1. pc'[t] = pc[t] /\ retry'[t] = retry[t] /\ todo' = todo
      BY <1>1, <2>2 DEF BeginAccept, Goto, streamVars, TypeOK
    <3> QED BY <3>1, <2>k
  <2>3. CASE LocalEdit \/ UNCHANGED vars
    <3>1. pc' = pc /\ retry' = retry /\ todo' = todo
      BY <2>3 DEF LocalEdit, vars, streamVars
    <3> QED BY <3>1, <2>k
  <2>4. ASSUME NEW u \in Threads, Step(u), u # t PROVE UNCHANGED <<pc[t], todo[t], Rank(t)>>
    BY <1>1, <2>4, <2>k, OneThreadSteps
  <2>5. CASE BeginSync(t) \/ (t = "cli" /\ BeginAccept)
    BY <2>5 DEF BeginSync, BeginAccept
  <2> QED BY <1>1, <2>1, <2>2, <2>3, <2>4, <2>5, StepLowersRank DEF Next
<1>2. ASSUME TypeOK, NEW t \in Threads
      PROVE  Rank(t) \in 0..(2 * Cardinality(Chunks) + 19)
  <2>1. /\ Cardinality(Chunks) \in Nat /\ Cardinality(todo[t]) \in 0..Cardinality(Chunks)
        /\ retry[t] \in BOOLEAN /\ todo[t] \in SUBSET Chunks /\ pc[t] \in Locations
    BY <1>2, ChunkCounts DEF TypeOK
  <2> DEFINE n == Cardinality(Chunks)
             left == Again(retry[t])
             k == Cardinality(todo[t])
             now == Rank(t)
  <2>2. n \in Nat /\ k \in 0..n /\ left \in Nat /\ left <= n + 10
    BY <2>1 DEF Again
  <2>3. \/ now \in {0, 1, 2, 3, left + 4, left + 5 + k}
        \/ now \in {left + 6 + n, left + 7 + n, left + 8 + n, left + 9 + n}
    <3>1. \A l \in Locations : pc[t] = l => now = RankAt(l, retry[t], todo[t])
      BY DEF Rank
    <3> HIDE DEF now
    <3> QED BY <2>1, <3>1, RankValues DEF Locations
  <2> HIDE DEF n, left, k, now
  <2>4. now \in 0..(2 * n + 19)
    BY <2>2, <2>3
  <2> QED BY <2>4 DEF n, now
<1>3. TypeOK /\ TypeOK' /\ [Next]_vars =>
        [\A t \in Threads : \/ pc[t] = "idle"
                            \/ UNCHANGED <<pc[t], todo[t], Rank(t)>>
                            \/ Rank(t)' < Rank(t)]_vars
  BY <1>1
<1>4. TypeOK => \A t \in Threads : Rank(t) \in 0..(2 * Cardinality(Chunks) + 19)
  BY <1>2
<1> QED BY <1>3, <1>4, TypeCorrect, PTL DEF Spec, CallsGetShorter
=============================================================================
