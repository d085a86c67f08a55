------------------------------ MODULE Conflicts ------------------------------
(***************************************************************************)
(* The conflict queue, the preview of a conflict and the ignore rules      *)
(* (src/MeshCLI.hpp): downloads of both threads queue a conflict where a   *)
(* file would be overwritten; the command line accepts, stages, unstages   *)
(* and ignores them.                                                       *)
(*                                                                         *)
(* Two mutexes that are not recursive guard this state.  Code that takes   *)
(* one and gives it back without calling anything is one step; a holder    *)
(* that calls what takes the mutex it holds waits for itself, for good.    *)
(* The queue is in memory only, ignore.json is read at start, the previews *)
(* are files: a restart is an initial state.                               *)
(***************************************************************************)
EXTENDS FiniteSets

CONSTANTS Threads,   \* those that download: "cli" and "watch"
          Items,     \* what may conflict: a path and the hash offered for it
          Keys,      \* targets of a command: a path, a hash, a directory GUID
          Match,     \* [Keys -> items a command finds: the path and what is below]
          Rule,      \* [Keys -> items an ignore rule is for: the path itself]
          Ids,       \* ids of queue entries; bound: entries queued
          Files,     \* time-stamped names in the stage directory; bound: previews
          Nobody, NoEntry, NoPreview

Entry   == [id : Ids, item : Items]
Preview == [id : Ids, item : Items, file : Files]

ASSUME ConflictsAssumption ==
  /\ "cli" \in Threads /\ Nobody \notin Threads
  /\ Match \in [Keys -> SUBSET Items] /\ Rule \in [Keys -> SUBSET Items]
  /\ \A k \in Keys : Rule[k] \subseteq Match[k]
  /\ Items \cap {"none", "partial"} = {}
  /\ NoEntry \notin Entry /\ NoPreview \notin Preview

VARIABLES
  conflicts,      \* conflicts_: the queue
  conflictOwner,  \* who holds conflict_mutex_
  rules,          \* ignore_config_
  ignoreOwner,    \* who holds ignore_mutex_
  staged,         \* staged_conflict_
  stageDir,       \* [file -> the item it is a whole copy of, "partial" or "none"]
  orphans,        \* history: files of earlier runs of the program
  pc, item,       \* where each thread is, and the item its download found
  matches,        \* what conflict accept has still to try
  entry,          \* what conflict accept or stage is at
  doomed,         \* items whose entries are to be dropped
  target          \* the file a preview is downloaded to

queue   == <<conflicts, conflictOwner>>
ignores == <<rules, ignoreOwner>>
preview == <<staged, stageDir, orphans>>
command == <<matches, entry, doomed, target>>
vars == <<queue, ignores, preview, pc, item, command>>

Locations == {"idle", "differs", "queue", "insert", "accept", "accepted", "drop", "relock",
              "saving", "stage", "download", "staged"}

Goto(t, l)  == pc' = [pc EXCEPT ![t] = l]
Absent(f)   == stageDir[f] = "none"
Found(k)    == {e \in conflicts : e.item \in Match[k]}
Ignored(x)  == \E k \in rules : x \in Rule[k]
Queued(x)   == \E e \in conflicts : e.item = x

\* load_ignore_config; what is in the stage directory has nobody to point at it.
Init ==
  /\ conflicts = {} /\ conflictOwner = Nobody
  /\ rules \in SUBSET Keys /\ ignoreOwner = Nobody
  /\ staged = NoPreview
  /\ stageDir \in [Files -> Items \cup {"none", "partial"}] /\ \E f \in Files : Absent(f)
  /\ orphans = {f \in Files : stageDir[f] # "none"}
  /\ pc = [t \in Threads |-> "idle"] /\ item \in [Threads -> Items]
  /\ matches = {} /\ entry = NoEntry /\ doomed = {}
  /\ target \in Files

-----------------------------------------------------------------------------
\* A download finds another file at the destination, or its hash check failed.
Differs(t) ==
  /\ pc[t] = "idle"
  /\ \E x \in Items : item' = [item EXCEPT ![t] = x]
  /\ Goto(t, "differs")
  /\ UNCHANGED <<queue, ignores, preview, command>>

\* is_conflict_ignored, by the download and once more by add_conflict.
CheckIgnored(t) ==
  /\ pc[t] \in {"differs", "queue"} /\ ignoreOwner = Nobody
  /\ Goto(t, IF Ignored(item[t]) THEN "idle"
             ELSE IF pc[t] = "differs" THEN "queue" ELSE "insert")
  /\ UNCHANGED <<queue, ignores, preview, item, command>>

AddUnseen(t) ==                                           \* mutant
  /\ pc[t] = "insert" /\ conflictOwner = Nobody
  /\ \E i \in Ids \ {e.id : e \in conflicts} :
       conflicts' = conflicts \cup {[id |-> i, item |-> item[t]]}
  /\ Goto(t, "idle")
  /\ UNCHANGED <<conflictOwner, ignores, preview, item, command>>

KeepLocked(t) ==                                          \* mutant
  /\ pc[t] = "insert" /\ conflictOwner = Nobody
  /\ conflictOwner' = t
  /\ Goto(t, "idle")
  /\ UNCHANGED <<conflicts, ignores, preview, item, command>>

AddConflict(t) ==
  /\ pc[t] = "insert" /\ conflictOwner = Nobody
  /\ \/ Queued(item[t]) /\ UNCHANGED conflicts
     \/ /\ ~Queued(item[t])
        /\ \E i \in Ids \ {e.id : e \in conflicts} :
             conflicts' = conflicts \cup {[id |-> i, item |-> item[t]]}
  /\ Goto(t, "idle")
  /\ UNCHANGED <<conflictOwner, ignores, preview, item, command>>

-----------------------------------------------------------------------------
\* What follows is run by the command line.  conflict accept takes a copy of the
\* matching entries and tries them in turn.
Accept ==
  /\ pc["cli"] = "idle" /\ conflictOwner = Nobody
  /\ \E k \in Keys : Found(k) # {} /\ matches' = Found(k)
  /\ Goto("cli", "accept")
  /\ UNCHANGED <<queue, ignores, preview, item, entry, doomed, target>>

\* force_conflict_download (FileSync): no provider, a failed download, or success.
ForceDownload ==
  /\ pc["cli"] = "accept"
  /\ \E e \in matches :
       /\ matches' = matches \ {e}
       /\ entry' = e
  /\ \E l \in {"accept", "accepted"} : Goto("cli", l)
  /\ UNCHANGED <<queue, ignores, preview, item, doomed, target>>

Accepted ==
  /\ pc["cli"] = "accept" /\ matches = {}
  /\ Goto("cli", "idle")
  /\ UNCHANGED <<queue, ignores, preview, item, command>>

\* staged_conflict_ is reset and its file removed.
Discard ==
  /\ staged' = NoPreview
  /\ stageDir' = [stageDir EXCEPT ![staged.file] = "none"]
  /\ UNCHANGED orphans

\* clear_staged_conflict_if_matches at the end of force_conflict_download; then
\* apply_conflict_accept drops the entry.
ClearAccepted ==
  /\ pc["cli"] = "accepted" /\ conflictOwner = Nobody
  /\ \/ staged # NoPreview /\ staged.id = entry.id /\ Discard
     \/ staged = NoPreview /\ UNCHANGED preview
     \/ staged # NoPreview /\ staged.id # entry.id /\ UNCHANGED preview
  /\ doomed' = {entry.item}
  /\ Goto("cli", "drop")
  /\ UNCHANGED <<queue, ignores, item, matches, entry, target>>

\* remove_conflicts_matching calls clear_staged_conflict_if_matches for each entry
\* it is to drop, holding the mutex that one takes: no step leads on from "relock",
\* and nothing is ever dropped.
Drop ==
  /\ pc["cli"] = "drop" /\ conflictOwner = Nobody
  /\ \/ /\ \E x \in doomed : Queued(x)
        /\ conflictOwner' = "cli"
        /\ Goto("cli", "relock")
     \/ /\ \A x \in doomed : ~Queued(x)
        /\ UNCHANGED conflictOwner
        /\ Goto("cli", "idle")
  /\ UNCHANGED <<conflicts, ignores, preview, item, command>>

-----------------------------------------------------------------------------
\* add_ignore_entry and remove_ignore_entry: a change of the rules is saved by
\* save_ignore_config, which takes the mutex its caller holds: no step leads on
\* from "saving", and ignore.json is never written.
ChangeRules(k) ==
  /\ rules' = IF k \in rules THEN rules \ {k} ELSE rules \cup {k}
  /\ ignoreOwner' = "cli"
  /\ Goto("cli", "saving")
  /\ UNCHANGED <<queue, preview, item, command>>

\* ignore add, ignore remove, and conflict ignore of a target without a rule.
\* (Adding a rule that is there and removing one that is not change nothing.)
Ignore ==
  /\ pc["cli"] = "idle" /\ ignoreOwner = Nobody
  /\ \E k \in Keys : ChangeRules(k)

\* conflict ignore of a target that has a rule goes on to the queue at once.
IgnoreAgain ==
  /\ pc["cli"] = "idle" /\ ignoreOwner = Nobody
  /\ \E k \in rules : doomed' = Match[k]
  /\ Goto("cli", "drop")
  /\ UNCHANGED <<queue, ignores, preview, item, matches, entry, target>>

-----------------------------------------------------------------------------
\* conflict stage: one of the matching entries, the first, if it has providers.
Stage ==
  /\ pc["cli"] = "idle" /\ conflictOwner = Nobody
  /\ \E k \in Keys : \E e \in Found(k) : entry' = e
  /\ Goto("cli", "stage")
  /\ UNCHANGED <<queue, ignores, preview, item, matches, doomed, target>>

\* download_conflict_to_path creates the file.
OpenPreview(f) ==
  /\ target' = f
  /\ Goto("cli", "download")

StageOver ==                                              \* mutant
  /\ pc["cli"] = "stage" /\ conflictOwner = Nobody
  /\ \E f \in Files :
       /\ Absent(f) /\ OpenPreview(f)
       /\ stageDir' = [stageDir EXCEPT ![f] = "partial"]
  /\ UNCHANGED <<queue, ignores, staged, orphans, item, matches, entry, doomed>>

\* The preview there is goes first, then a file is opened; within a second the
\* name may be the same.
BeginPreview ==
  /\ pc["cli"] = "stage" /\ conflictOwner = Nobody
  /\ \E f \in Files :
       /\ Absent(f) \/ (staged # NoPreview /\ f = staged.file)
       /\ OpenPreview(f)
       /\ stageDir' = [g \in Files |->
            IF g = f THEN "partial"
            ELSE IF staged # NoPreview /\ g = staged.file THEN "none"
            ELSE stageDir[g]]
  /\ staged' = NoPreview
  /\ UNCHANGED <<queue, ignores, orphans, item, matches, entry, doomed>>

\* A failed transfer or hash check removes the file again.
PreviewFails ==
  /\ pc["cli"] = "download"
  /\ stageDir' = [stageDir EXCEPT ![target] = "none"]
  /\ Goto("cli", "idle")
  /\ UNCHANGED <<queue, ignores, staged, orphans, item, command>>

PreviewVerified ==
  /\ pc["cli"] = "download"
  /\ stageDir' = [stageDir EXCEPT ![target] = entry.item]
  /\ Goto("cli", "staged")
  /\ UNCHANGED <<queue, ignores, staged, orphans, item, command>>

PointAtPreview ==
  /\ pc["cli"] = "staged" /\ conflictOwner = Nobody
  /\ staged' = [id |-> entry.id, item |-> entry.item, file |-> target]
  /\ Goto("cli", "idle")
  /\ UNCHANGED <<queue, ignores, stageDir, orphans, item, command>>

\* conflict unstage
Unstage ==
  /\ pc["cli"] = "idle" /\ conflictOwner = Nobody
  /\ staged # NoPreview /\ Discard
  /\ UNCHANGED <<queue, ignores, pc, item, command>>

-----------------------------------------------------------------------------
Command == \/ ForceDownload \/ Accepted \/ ClearAccepted \/ Drop
           \/ BeginPreview \/ PreviewFails \/ PreviewVerified \/ PointAtPreview

Step(t) == CheckIgnored(t) \/ AddConflict(t) \/ (t = "cli" /\ Command)

Next == \/ \E t \in Threads : Differs(t) \/ Step(t)
        \/ Accept \/ Ignore \/ IgnoreAgain \/ Stage \/ Unstage

Spec == Init /\ [][Next]_vars

\* Every thread runs; a mutex is held over several steps only for good.
FairSpec == Spec /\ \A t \in Threads : WF_vars(Step(t))

-----------------------------------------------------------------------------
TypeOK ==
  /\ conflicts \subseteq Entry /\ conflictOwner \in {Nobody, "cli"}
  /\ rules \subseteq Keys /\ ignoreOwner \in {Nobody, "cli"}
  /\ staged \in Preview \cup {NoPreview}
  /\ stageDir \in [Files -> Items \cup {"none", "partial"}]
  /\ orphans \subseteq Files /\ target \in Files
  /\ pc \in [Threads -> Locations] /\ item \in [Threads -> Items]
  /\ matches \subseteq conflicts /\ doomed \subseteq Items
  /\ entry \in conflicts \cup {NoEntry}
  /\ conflictOwner = "cli" <=> pc["cli"] = "relock"
  /\ ignoreOwner = "cli" <=> pc["cli"] = "saving"

\* A conflict is queued once, whichever threads run into it and when
\* (MeshCLI.hpp:4041-4045).
QueuedOnce ==
  \A d, e \in conflicts : d.item = e.item => d = e

\* README.md:101: previews are "stored in share/.conflict-stage/ until they are
\* accepted or explicitly unstaged".  What conflict view opens is there and is
\* whole, and every file of this run is the preview or about to be.
PreviewsAccounted ==
  /\ staged # NoPreview => stageDir[staged.file] = staged.item
  /\ \A f \in Files \ orphans :
       ~Absent(f) => \/ staged # NoPreview /\ staged.file = f
                     \/ pc["cli"] \in {"download", "staged"} /\ target = f

\* The thread waits for a mutex it holds.
Relocks == pc["cli"] \in {"relock", "saving"}

\* Whatever the commands and downloads do at the same time, each comes to its end
\* unless the command line has locked a mutex twice.
StuckOnlyByRelock == \A t \in Threads : pc[t] # "idle" ~> pc[t] = "idle" \/ Relocks

\* README.md:91: conflict accept "approves overwrites", and MeshCLI.hpp:3494 goes
\* on to say what was accepted.  It does not get there: see Drop.
AcceptReturns == pc["cli"] = "accept" ~> pc["cli"] = "idle"
=============================================================================
