----------------------------- MODULE ShareIndex -----------------------------
(***************************************************************************)
(* The index of shared files: shared_files_by_hash_ and path_to_hash_      *)
(* (src/peer_manager.cpp), kept up by the scan of the share directory, the *)
(* share command and finished downloads (src/MeshCLI.hpp), and read to     *)
(* list the share and to serve chunks of it.                               *)
(*                                                                         *)
(* The index is a cache of the directory that nothing invalidates: the     *)
(* user changes files at any moment, no entry is ever removed, and a scan  *)
(* hashes a file only when its size differs from the one recorded.  A hash *)
(* stands for its content.  One step is one file-system call or one        *)
(* critical section, so a file may change between the reading of its hash, *)
(* the reading of its size and the registration.  Nothing of the index is  *)
(* stored: a restart is an initial state.                                  *)
(***************************************************************************)
EXTENDS Naturals, FiniteSets

CONSTANTS Paths,
          Contents,
          Size,         \* [Contents -> number of chunks]
          Scanners,     \* threads that run index_share_root: "io" and "cli"
          Sharers,      \* threads that run the share command: "cli"
          Downloaders,  \* threads that register a download: "cli" and "watch"
          Nobody,       \* no thread holds share_index_mutex_
          NoFile, NoEntry, NoPath,
          MaxChanges    \* bound: changes of files in the share directory

Threads == Scanners \cup Sharers \cup Downloaders \cup {"io"}

ASSUME ShareIndexAssumption ==
  /\ IsFiniteSet(Paths)
  /\ Size \in [Contents -> Nat \ {0}]
  /\ Nobody \notin Threads
  /\ NoFile \notin Contents /\ NoPath \notin Paths
  /\ MaxChanges \in Nat

\* SharedFileEntry.  "at" is history: the clock of the file when it was hashed.
Entry == [path : Paths, size : Nat, at : 0..MaxChanges]
Job   == [path : Paths \cup {NoPath}, hash : Contents \cup {NoFile}, size : Nat,
          at : 0..MaxChanges]
Request == [hash : Contents, entry : Entry]

ASSUME NoEntryAssumption == NoEntry \notin Entry \cup Request

VARIABLES
  disk,     \* [path -> content or NoFile]: the share directory
  clock,    \* number of changes made to it
  changed,  \* [path -> clock of the last change]
  entries,  \* shared_files_by_hash_: [content -> entry or NoEntry]
  hashAt,   \* path_to_hash_: [path -> content or NoFile]
  owner,    \* the thread that holds share_index_mutex_
  pc, job,  \* where each thread is, and the file it is at
  todo,     \* files the thread's scan has still to come to
  asked     \* the chunk request the io thread is at

diskVars == <<disk, clock, changed>>
index    == <<entries, hashAt>>
vars == <<diskVars, index, owner, pc, job, todo, asked>>

ToHash(p) == [path |-> p, hash |-> NoFile, size |-> 0, at |-> 0]
NoJob     == ToHash(NoPath)
Goto(t, l) == pc' = [pc EXCEPT ![t] = l]

Init ==
  /\ disk \in [Paths -> Contents \cup {NoFile}]
  /\ clock = 0 /\ changed = [p \in Paths |-> 0]
  /\ entries = [h \in Contents |-> NoEntry]
  /\ hashAt = [p \in Paths |-> NoFile]
  /\ owner = Nobody
  /\ pc = [t \in Threads |-> "idle"] /\ job = [t \in Threads |-> NoJob]
  /\ todo = [t \in Threads |-> {}]
  /\ asked = NoEntry

\* A file at p gets content c, or goes.
Change(p, c) ==
  /\ clock < MaxChanges
  /\ disk' = [disk EXCEPT ![p] = c]
  /\ clock' = clock + 1
  /\ changed' = [changed EXCEPT ![p] = clock + 1]

\* The user, or a purge of sync force.
Edit ==
  /\ \E p \in Paths : \E c \in (Contents \cup {NoFile}) \ {disk[p]} : Change(p, c)
  /\ UNCHANGED <<index, owner, pc, job, todo, asked>>

-----------------------------------------------------------------------------
\* find_local_file_by_path: by the path's hash, whichever path its entry has.
SizeIsKnown(p) ==
  /\ disk[p] # NoFile /\ hashAt[p] # NoFile
  /\ entries[hashAt[p]].size = Size[disk[p]]

\* After a file the scan goes on to the next; the share command is at its end.
GoOn(t) == /\ job' = [job EXCEPT ![t] = NoJob]
           /\ Goto(t, IF owner = t THEN "scan" ELSE "idle")

\* index_share_root, for a command or in front of the answer to a list_request.
BeginScan(t) ==
  /\ pc[t] = "idle" /\ owner = Nobody
  /\ owner' = t
  /\ todo' = [todo EXCEPT ![t] = Paths]
  /\ Goto(t, "scan")
  /\ UNCHANGED <<diskVars, index, job, asked>>

VisitKnown(t) ==                                          \* mutant
  /\ pc[t] = "scan"
  /\ \E p \in todo[t] :
       /\ todo' = [todo EXCEPT ![t] = @ \ {p}]
       /\ IF disk[p] = NoFile \/ hashAt[p] # NoFile
          THEN UNCHANGED <<pc, job>>
          ELSE /\ job' = [job EXCEPT ![t] = ToHash(p)]
               /\ Goto(t, "hash")
  /\ UNCHANGED <<diskVars, index, owner, asked>>

\* A file whose recorded size is its size is passed over.
Visit(t) ==
  /\ pc[t] = "scan"
  /\ \E p \in todo[t] :
       /\ todo' = [todo EXCEPT ![t] = @ \ {p}]
       /\ \/ /\ disk[p] = NoFile \/ SizeIsKnown(p)
             /\ UNCHANGED <<pc, job>>
          \/ /\ disk[p] # NoFile /\ ~SizeIsKnown(p)
             /\ job' = [job EXCEPT ![t] = ToHash(p)]
             /\ Goto(t, "hash")
  /\ UNCHANGED <<diskVars, index, owner, asked>>

EndScanLocked(t) ==                                       \* mutant
  /\ pc[t] = "scan" /\ todo[t] = {}
  /\ Goto(t, "idle")
  /\ UNCHANGED <<diskVars, index, owner, job, todo, asked>>

EndScan(t) ==
  /\ pc[t] = "scan" /\ todo[t] = {}
  /\ owner' = Nobody
  /\ Goto(t, "idle")
  /\ UNCHANGED <<diskVars, index, job, todo, asked>>

\* The share command hashes every file under its path, without the mutex.
Share(t) ==
  /\ pc[t] = "idle"
  /\ \E p \in Paths :
       /\ disk[p] # NoFile
       /\ job' = [job EXCEPT ![t] = ToHash(p)]
  /\ Goto(t, "hash")
  /\ UNCHANGED <<diskVars, index, owner, todo, asked>>

\* share_single_file: the hash first, then the size.
HashFile(t) ==
  /\ pc[t] = "hash"
  /\ LET p == job[t].path IN
     \/ /\ disk[p] # NoFile
        /\ job' = [job EXCEPT ![t] = [path |-> p, hash |-> disk[p], size |-> 0, at |-> changed[p]]]
        /\ Goto(t, "measure")
     \/ /\ disk[p] = NoFile
        /\ GoOn(t)
  /\ UNCHANGED <<diskVars, index, owner, todo, asked>>

Measure(t) ==
  /\ pc[t] = "measure"
  /\ LET p == job[t].path IN
     \/ /\ disk[p] # NoFile
        /\ job' = [job EXCEPT ![t] =
             [path |-> p, hash |-> job[t].hash, size |-> Size[disk[p]], at |-> job[t].at]]
        /\ Goto(t, "register")
     \/ /\ disk[p] = NoFile
        /\ GoOn(t)
  /\ UNCHANGED <<diskVars, index, owner, todo, asked>>

\* register_local_share overwrites the entry of the hash and the hash of the
\* path; the entry of the path's former hash stays.
Register(t) ==
  /\ pc[t] = "register"
  /\ LET j == job[t] IN
     /\ entries' = [entries EXCEPT ![j.hash] = [path |-> j.path, size |-> j.size, at |-> j.at]]
     /\ hashAt' = [hashAt EXCEPT ![j.path] = j.hash]
  /\ GoOn(t)
  /\ UNCHANGED <<diskVars, owner, todo, asked>>

DeliverLate(t) ==                                         \* mutant
  /\ pc[t] = "idle"
  /\ \E p \in Paths, c \in Contents :
       job' = [job EXCEPT ![t] = [path |-> p, hash |-> c, size |-> Size[c], at |-> changed[p]]]
  /\ Goto(t, "register")
  /\ UNCHANGED <<diskVars, index, owner, todo, asked>>

\* A download moves a file with the announced content into place (FileSync) and
\* registers it, without the mutex of the scan.
Deliver(t) ==
  /\ pc[t] = "idle"
  /\ \E p \in Paths, c \in Contents :
       /\ Change(p, c)
       /\ job' = [job EXCEPT ![t] = [path |-> p, hash |-> c, size |-> Size[c], at |-> clock + 1]]
  /\ Goto(t, "register")
  /\ UNCHANGED <<index, owner, todo, asked>>

-----------------------------------------------------------------------------
\* local_listing_items_for_path lists one path for each hash, the last registered.
ListedAt(p) == {h \in Contents : entries[h] # NoEntry /\ entries[h].path = p}

\* Nobody has changed the file of an entry since it was hashed for it.
Untouched(e) == changed[e.path] = e.at

\* file_chunk_request: the entry is copied under m_ and the file read after that.
\* A hash without entry and a chunk beyond the recorded size are refused at once;
\* which of the others is asked for does not matter until the file is read.
Ask ==
  /\ pc["io"] = "idle"
  /\ \E h \in Contents :
       /\ entries[h] # NoEntry
       /\ asked' = [hash |-> h, entry |-> entries[h]]
  /\ Goto("io", "read")
  /\ UNCHANGED <<diskVars, index, owner, job, todo>>

\* Chunk i of what is at the path now is sent, with a checksum of its own.
Reply(e, i) ==
  LET found == disk[e.path] IN
  IF found = NoFile THEN "unopened"
  ELSE IF i >= Size[found] THEN "unread"
  ELSE found

Respond ==
  /\ pc["io"] = "read"
  /\ asked' = NoEntry
  /\ Goto("io", "idle")
  /\ UNCHANGED <<diskVars, index, owner, job, todo>>

Step(t) == Visit(t) \/ EndScan(t) \/ HashFile(t) \/ Measure(t) \/ Register(t)

Next == \/ Edit
        \/ \E t \in Scanners : BeginScan(t)
        \/ \E t \in Sharers : Share(t)
        \/ \E t \in Downloaders : Deliver(t)
        \/ \E t \in Threads : Step(t)
        \/ Ask \/ Respond

Spec == Init /\ [][Next]_vars

\* Threads run, and some peer or the user goes on asking for listings, each of
\* which begins with a scan (a thread may have to wait for the other's).
FairSpec ==
  /\ Spec /\ WF_vars(Respond)
  /\ \A t \in Threads : WF_vars(Step(t))
  /\ \E t \in Scanners : SF_vars(BeginScan(t))

-----------------------------------------------------------------------------
\* Only who holds share_index_mutex_ scans; a response under way has an entry.
TypeOK ==
  /\ disk \in [Paths -> Contents \cup {NoFile}]
  /\ clock \in 0..MaxChanges /\ changed \in [Paths -> 0..MaxChanges]
  /\ entries \in [Contents -> Entry \cup {NoEntry}]
  /\ hashAt \in [Paths -> Contents \cup {NoFile}]
  /\ \A p \in Paths : hashAt[p] # NoFile => entries[hashAt[p]] # NoEntry
  /\ owner \in Threads \cup {Nobody}
  /\ pc \in [Threads -> {"idle", "scan", "hash", "measure", "register", "read"}]
  /\ job \in [Threads -> Job]
  /\ todo \in [Threads -> SUBSET Paths]
  /\ asked \in Request \cup {NoEntry}
  /\ \A t \in Threads : /\ pc[t] = "scan" => owner = t
                        /\ owner = t => pc[t] \in {"scan", "hash", "measure", "register"}
  /\ \A t \in Threads :
       /\ pc[t] \in {"hash", "measure", "register"} => job[t].path \in Paths
       /\ pc[t] \in {"measure", "register"} => job[t].hash \in Contents
  /\ asked # NoEntry => pc["io"] = "read"

\* A chunk of a file that nobody changed since it was hashed is a chunk of the
\* content asked for and is never refused, whatever scans, shares and downloads
\* register in the meantime and under whichever path the hash was asked for.
ServedAsAsked ==
  /\ \A h \in Contents :
       entries[h] # NoEntry /\ Untouched(entries[h]) => entries[h].size = Size[h]
  /\ asked # NoEntry /\ Untouched(asked.entry) =>
       \A i \in 0 .. Size[asked.hash] - 1 : Reply(asked.entry, i) = asked.hash

\* What a scan passes over although the content is another: the recorded size,
\* of the old content or of the new one read after the old hash, is right.
Overlooked(p) == hashAt[p] # disk[p] /\ SizeIsKnown(p)

\* Once files are left alone, scans bring the index to their contents: each file
\* is known by its hash, and its content is listed, at its own or another path,
\* unless it is overlooked because of its size.
IndexCatchesUp ==
  \A p \in Paths :
    <>[](disk[p] # NoFile => \/ Overlooked(p)
                             \/ hashAt[p] = disk[p] /\ \E q \in Paths : disk[p] \in ListedAt(q))
=============================================================================
