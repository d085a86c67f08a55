---------------------------- MODULE ConflictsProofs ----------------------------
(***************************************************************************)
(* The conflict queue has no entry twice and no preview is lost or left    *)
(* over, for any number of threads, items and targets.                     *)
(*                                                                         *)
(* The first holds because add_conflict looks and inserts under one mutex, *)
(* the second because staging discards the preview there is before it      *)
(* opens a file: while a preview is under way nothing is staged (Staging). *)
(***************************************************************************)
EXTENDS Conflicts, FiniteSetTheorems, TLAPS

USE ConflictsAssumption

\* What the command line holds on to while it stages or accepts.
Staging ==
  /\ pc["cli"] \in {"download", "staged"} => staged = NoPreview
  /\ pc["cli"] = "staged" => stageDir[target] = entry.item
  /\ pc["cli"] \in {"accepted", "stage", "download", "staged"} => entry \in conflicts

IInv == TypeOK /\ QueuedOnce /\ PreviewsAccounted /\ Staging

-----------------------------------------------------------------------------
LEMMA StagedTypes ==
  ASSUME TypeOK, staged # NoPreview
  PROVE  staged.id \in Ids /\ staged.item \in Items /\ staged.file \in Files
<1>1. staged \in Preview
  BY DEF TypeOK
<1> QED BY <1>1 DEF Preview

LEMMA EntryTypes ==
  ASSUME TypeOK, NEW e \in conflicts
  PROVE  e \in Entry /\ e.id \in Ids /\ e.item \in Items
<1>1. e \in Entry
  BY DEF TypeOK
<1> QED BY <1>1 DEF Entry

LEMMA InitKeeps == Init => IInv
<1> SUFFICES ASSUME Init PROVE IInv
  OBVIOUS
<1>1. TypeOK
  BY DEF Init, TypeOK, Locations
<1>2. QueuedOnce
  BY DEF Init, QueuedOnce
<1>3. PreviewsAccounted
  BY DEF Init, PreviewsAccounted, Absent
<1>4. Staging
  BY DEF Init, Staging
<1> QED BY <1>1, <1>2, <1>3, <1>4 DEF IInv

-----------------------------------------------------------------------------
\* What a thread that moves to l leaves of the type invariant to show: that it
\* does not come to or from a mutex taken for good.
LEMMA MoveIsTyped ==
  ASSUME TypeOK, NEW t \in Threads, NEW l \in Locations \ {"relock", "saving"},
         pc[t] \notin {"relock", "saving"}, Goto(t, l),
         UNCHANGED <<conflictOwner, rules, ignoreOwner, orphans>>,
         conflicts' \subseteq Entry, staged' \in Preview \cup {NoPreview},
         stageDir' \in [Files -> Items \cup {"none", "partial"}], target' \in Files,
         item' \in [Threads -> Items], matches' \subseteq conflicts', doomed' \subseteq Items,
         entry' \in conflicts' \cup {NoEntry}
  PROVE  TypeOK'
<1>1. pc' \in [Threads -> Locations] /\ pc'[t] = l
      /\ \A s \in Threads \ {t} : pc'[s] = pc[s]
  BY DEF Goto, TypeOK
<1>2. pc'["cli"] = "relock" <=> pc["cli"] = "relock"
  BY <1>1
<1>3. pc'["cli"] = "saving" <=> pc["cli"] = "saving"
  BY <1>1
<1> QED BY <1>1, <1>2, <1>3 DEF TypeOK

\* A step of the command line that leaves the queue and the previews alone.
LEMMA QuietMove ==
  ASSUME IInv, TypeOK', UNCHANGED <<conflicts, preview, target>>,
         pc["cli"] \notin {"download", "staged"}, pc'["cli"] \notin {"download", "staged"},
         pc'["cli"] \in {"accepted", "stage"} => entry' \in conflicts
  PROVE  IInv'
<1>1. QueuedOnce'
  BY DEF IInv, QueuedOnce
<1>2. PreviewsAccounted'
  BY DEF IInv, PreviewsAccounted, Absent, preview
<1>3. Staging'
  BY DEF Staging
<1> QED BY <1>1, <1>2, <1>3 DEF IInv

\* Discarding the preview keeps the account of the others.
LEMMA DiscardKeeps ==
  ASSUME IInv, TypeOK', staged # NoPreview, Discard, UNCHANGED <<conflicts, target>>,
         pc["cli"] \notin {"download", "staged"},
         pc'["cli"] \notin {"accepted", "stage", "download", "staged"}
  PROVE  IInv'
<1>1. QueuedOnce'
  BY DEF IInv, QueuedOnce
<1>2. PreviewsAccounted'
  <2> SUFFICES ASSUME NEW f \in Files, f \notin orphans, stageDir'[f] # "none" PROVE FALSE
    BY DEF PreviewsAccounted, Absent, Discard
  <2>1. f # staged.file
    BY StagedTypes DEF Discard, IInv, TypeOK
  <2>2. stageDir'[f] = stageDir[f]
    BY <2>1 DEF Discard, IInv, TypeOK
  <2> QED BY <2>1, <2>2 DEF IInv, PreviewsAccounted, Absent
<1>3. Staging'
  BY DEF Staging
<1> QED BY <1>1, <1>2, <1>3 DEF IInv

\* The downloads of any thread, also those of the command line.
LEMMA DownloadKeeps ==
  ASSUME IInv, NEW t \in Threads, Differs(t) \/ CheckIgnored(t) \/ AddConflict(t)
  PROVE  IInv'
<1> USE DEF IInv
<1>1. UNCHANGED <<conflictOwner, ignores, preview, command>>
  BY DEF Differs, CheckIgnored, AddConflict, queue
<1>2. \E l \in {"idle", "differs", "queue", "insert"} :
        Goto(t, l) /\ pc[t] \in {"idle", "differs", "queue", "insert"}
  BY DEF Differs, CheckIgnored, AddConflict, Goto
<1>3. /\ conflicts \subseteq conflicts' /\ conflicts' \subseteq Entry
      /\ QueuedOnce'
  <2>1. CASE UNCHANGED conflicts
    BY <2>1 DEF QueuedOnce, TypeOK
  <2>2. CASE \E i \in Ids : /\ ~Queued(item[t])
                            /\ conflicts' = conflicts \cup {[id |-> i, item |-> item[t]]}
    <3>1. PICK i \in Ids : /\ ~Queued(item[t])
                           /\ conflicts' = conflicts \cup {[id |-> i, item |-> item[t]]}
      BY <2>2
    <3> DEFINE e == [id |-> i, item |-> item[t]]
    <3>2. e \in Entry /\ e.item = item[t]
      BY DEF Entry, TypeOK
    <3>3. \A d \in conflicts : d.item # e.item
      BY <3>1, <3>2 DEF Queued
    <3>4. conflicts' = conflicts \cup {e}
      BY <3>1
    <3> HIDE DEF e
    <3>5. QueuedOnce'
      BY <3>3, <3>4 DEF QueuedOnce
    <3> QED BY <3>2, <3>4, <3>5 DEF TypeOK
  <2> QED BY <2>1, <2>2 DEF Differs, CheckIgnored, AddConflict, queue
<1>4. item' \in [Threads -> Items]
  BY DEF Differs, CheckIgnored, AddConflict, TypeOK
<1>5. TypeOK'
  <2>1. PICK l \in {"idle", "differs", "queue", "insert"} :
          Goto(t, l) /\ pc[t] \in {"idle", "differs", "queue", "insert"}
    BY <1>2
  <2>2. /\ staged' \in Preview \cup {NoPreview} /\ target' \in Files
        /\ stageDir' \in [Files -> Items \cup {"none", "partial"}]
        /\ matches' \subseteq conflicts' /\ doomed' \subseteq Items
        /\ entry' \in conflicts' \cup {NoEntry}
        /\ UNCHANGED <<conflictOwner, rules, ignoreOwner, orphans>>
    BY <1>1, <1>3 DEF TypeOK, ignores, preview, command
  <2> QED BY <1>3, <1>4, <2>1, <2>2, MoveIsTyped DEF Locations
<1>6. \/ pc'["cli"] = pc["cli"]
      \/ /\ pc["cli"] \in {"idle", "differs", "queue", "insert"}
         /\ pc'["cli"] \in {"idle", "differs", "queue", "insert"}
  BY <1>2 DEF Goto, TypeOK
<1>7. PreviewsAccounted'
  BY <1>1, <1>6 DEF PreviewsAccounted, Absent, preview, command
<1>8. Staging'
  BY <1>1, <1>3, <1>6 DEF Staging, preview, command
<1> QED BY <1>3, <1>5, <1>7, <1>8

\* The commands that only take copies of what matches.
LEMMA BeginKeeps ==
  ASSUME IInv, Accept \/ IgnoreAgain \/ Stage
  PROVE  IInv'
<1> USE DEF IInv
<1>1. UNCHANGED <<queue, ignores, preview, item, target>> /\ pc["cli"] = "idle"
  BY DEF Accept, IgnoreAgain, Stage
<1>2. \/ Goto("cli", "accept") \/ Goto("cli", "drop")
      \/ Goto("cli", "stage") /\ entry' \in conflicts
  BY DEF Accept, IgnoreAgain, Stage, Found
<1>3. matches' \subseteq conflicts' /\ doomed' \subseteq Items /\ entry' \in conflicts' \cup {NoEntry}
  BY <1>1 DEF Accept, IgnoreAgain, Stage, Found, queue, TypeOK
<1>4. TypeOK'
  <2>1. PICK l \in {"accept", "drop", "stage"} : Goto("cli", l)
    BY <1>2
  <2> QED BY <1>1, <1>3, <2>1, MoveIsTyped DEF TypeOK, Locations, queue, ignores, preview
<1>5. pc'["cli"] \in {"accept", "drop"} \/ (pc'["cli"] = "stage" /\ entry' \in conflicts)
  BY <1>2 DEF Goto, TypeOK
<1> QED BY <1>1, <1>4, <1>5, QuietMove DEF queue

LEMMA IgnoreKeeps ==
  ASSUME IInv, Ignore
  PROVE  IInv'
<1> USE DEF IInv
<1>1. PICK k \in Keys : ChangeRules(k)
  BY DEF Ignore
<1>2. /\ pc["cli"] = "idle" /\ pc' = [pc EXCEPT !["cli"] = "saving"]
      /\ rules' \subseteq Keys /\ ignoreOwner' = "cli"
      /\ UNCHANGED <<queue, preview, item, command>>
  BY <1>1 DEF Ignore, ChangeRules, Goto, TypeOK
<1>3. pc' \in [Threads -> Locations] /\ pc'["cli"] = "saving"
  BY <1>2 DEF TypeOK, Locations
<1>4. TypeOK'
  BY <1>2, <1>3 DEF TypeOK, queue, preview, command
<1> QED BY <1>2, <1>3, <1>4, QuietMove DEF queue, command

LEMMA UnstageKeeps ==
  ASSUME IInv, Unstage
  PROVE  IInv'
<1> USE DEF IInv
<1>1. /\ pc["cli"] = "idle" /\ staged # NoPreview /\ Discard
      /\ UNCHANGED <<queue, ignores, pc, item, command>>
  BY DEF Unstage
<1>2. TypeOK'
  BY <1>1, StagedTypes DEF Discard, TypeOK, queue, ignores, command
<1> QED BY <1>1, <1>2, DiscardKeeps DEF queue, command

LEMMA CommandKeeps ==
  ASSUME IInv, Command
  PROVE  IInv'
<1> USE DEF IInv
<1>1. CASE ForceDownload
  <2>1. PICK e \in matches, l \in {"accept", "accepted"} :
          matches' = matches \ {e} /\ entry' = e /\ Goto("cli", l)
    BY <1>1 DEF ForceDownload
  <2>2. /\ pc["cli"] = "accept" /\ entry' \in conflicts /\ matches' \subseteq conflicts
        /\ UNCHANGED <<queue, ignores, preview, item, doomed, target>>
    BY <1>1, <2>1 DEF ForceDownload, TypeOK
  <2>3. TypeOK'
    BY <2>1, <2>2, MoveIsTyped DEF TypeOK, Locations, queue, ignores, preview
  <2>4. pc'["cli"] \in {"accept", "accepted"}
    BY <2>1 DEF Goto, TypeOK
  <2> QED BY <2>2, <2>3, <2>4, QuietMove DEF queue
<1>2. CASE Accepted
  <2>1. /\ pc["cli"] = "accept" /\ Goto("cli", "idle")
        /\ UNCHANGED <<queue, ignores, preview, item, command>>
    BY <1>2 DEF Accepted
  <2>2. TypeOK'
    BY <2>1, MoveIsTyped DEF TypeOK, Locations, queue, ignores, preview, command
  <2>3. pc'["cli"] = "idle"
    BY <2>1 DEF Goto, TypeOK
  <2> QED BY <2>1, <2>2, <2>3, QuietMove DEF queue, command
<1>3. CASE ClearAccepted
  <2>1. /\ pc["cli"] = "accepted" /\ Goto("cli", "drop")
        /\ UNCHANGED <<queue, ignores, item, matches, entry, target>>
        /\ doomed' = {entry.item}
    BY <1>3 DEF ClearAccepted
  <2>2. entry.item \in Items
    BY <2>1, EntryTypes DEF Staging
  <2>3. pc'["cli"] = "drop"
    BY <2>1 DEF Goto, TypeOK
  <2>4. /\ staged' \in Preview \cup {NoPreview} /\ UNCHANGED orphans
        /\ stageDir' \in [Files -> Items \cup {"none", "partial"}]
    BY <1>3, StagedTypes DEF ClearAccepted, Discard, TypeOK, preview
  <2>5. TypeOK'
    BY <2>1, <2>2, <2>4, MoveIsTyped DEF TypeOK, Locations, queue, ignores
  <2>6. CASE staged # NoPreview /\ Discard
    BY <2>1, <2>3, <2>5, <2>6, DiscardKeeps DEF queue
  <2>7. CASE UNCHANGED preview
    BY <2>1, <2>3, <2>5, <2>7, QuietMove DEF queue
  <2> QED BY <1>3, <2>6, <2>7 DEF ClearAccepted
<1>4. CASE Drop
  <2>1. /\ pc["cli"] = "drop" /\ UNCHANGED <<conflicts, ignores, preview, item, command>>
    BY <1>4 DEF Drop
  <2>2. CASE conflictOwner' = "cli" /\ Goto("cli", "relock")
    <3>1. pc' \in [Threads -> Locations] /\ pc'["cli"] = "relock"
      BY <2>2 DEF Goto, TypeOK, Locations
    <3>2. TypeOK'
      BY <2>1, <2>2, <3>1 DEF TypeOK, ignores, preview, command
    <3> QED BY <2>1, <3>1, <3>2, QuietMove DEF command
  <2>3. CASE UNCHANGED conflictOwner /\ Goto("cli", "idle")
    <3>1. TypeOK'
      BY <2>1, <2>3, MoveIsTyped DEF TypeOK, Locations, ignores, preview, command
    <3>2. pc'["cli"] = "idle"
      BY <2>3 DEF Goto, TypeOK
    <3> QED BY <2>1, <3>1, <3>2, QuietMove DEF command
  <2> QED BY <1>4, <2>2, <2>3 DEF Drop
<1>5. CASE BeginPreview
  <2>1. PICK f \in Files :
          /\ Absent(f) \/ (staged # NoPreview /\ f = staged.file)
          /\ target' = f /\ Goto("cli", "download")
          /\ stageDir' = [g \in Files |->
               IF g = f THEN "partial"
               ELSE IF staged # NoPreview /\ g = staged.file THEN "none"
               ELSE stageDir[g]]
    BY <1>5 DEF BeginPreview, OpenPreview
  <2>2. /\ pc["cli"] = "stage" /\ staged' = NoPreview
        /\ UNCHANGED <<queue, ignores, orphans, item, matches, entry, doomed>>
    BY <1>5 DEF BeginPreview
  <2>3. stageDir' \in [Files -> Items \cup {"none", "partial"}]
    BY <2>1 DEF TypeOK
  <2>4. TypeOK'
    BY <2>1, <2>2, <2>3, MoveIsTyped DEF TypeOK, Locations, queue, ignores
  <2>5. pc'["cli"] = "download"
    BY <2>1 DEF Goto, TypeOK
  <2>6. PreviewsAccounted'
    <3> SUFFICES ASSUME NEW g \in Files, g \notin orphans, stageDir'[g] # "none", g # f
                 PROVE  FALSE
      BY <2>1, <2>2, <2>5 DEF PreviewsAccounted, Absent
    <3>1. stageDir'[g] = stageDir[g] /\ ~(staged # NoPreview /\ g = staged.file)
      BY <2>1
    <3> QED BY <2>2, <3>1 DEF PreviewsAccounted, Absent
  <2> QED BY <2>2, <2>4, <2>5, <2>6 DEF QueuedOnce, Staging, queue
<1>6. CASE PreviewFails
  <2>1. /\ pc["cli"] = "download" /\ Goto("cli", "idle")
        /\ stageDir' = [stageDir EXCEPT ![target] = "none"]
        /\ UNCHANGED <<queue, ignores, staged, orphans, item, command>>
    BY <1>6 DEF PreviewFails
  <2>2. TypeOK'
    BY <2>1, MoveIsTyped DEF TypeOK, Locations, queue, ignores, command
  <2>3. pc'["cli"] = "idle" /\ staged = NoPreview
    BY <2>1 DEF Goto, TypeOK, Staging
  <2>4. PreviewsAccounted'
    BY <2>1, <2>3 DEF PreviewsAccounted, Absent, TypeOK, command
  <2> QED BY <2>1, <2>2, <2>3, <2>4 DEF QueuedOnce, Staging, queue
<1>7. CASE PreviewVerified
  <2>1. /\ pc["cli"] = "download" /\ Goto("cli", "staged")
        /\ stageDir' = [stageDir EXCEPT ![target] = entry.item]
        /\ UNCHANGED <<queue, ignores, staged, orphans, item, command>>
    BY <1>7 DEF PreviewVerified
  <2>2. entry \in conflicts /\ entry.item \in Items
    BY <2>1, EntryTypes DEF Staging
  <2>3. TypeOK'
    BY <2>1, <2>2, MoveIsTyped DEF TypeOK, Locations, queue, ignores, command
  <2>4. pc'["cli"] = "staged" /\ staged = NoPreview /\ stageDir'[target] = entry.item
    BY <2>1 DEF Goto, TypeOK, Staging
  <2>5. PreviewsAccounted'
    BY <2>1, <2>4 DEF PreviewsAccounted, Absent, TypeOK, command
  <2>6. Staging'
    BY <2>1, <2>2, <2>4 DEF Staging, queue, command
  <2> QED BY <2>1, <2>3, <2>5, <2>6 DEF QueuedOnce, queue
<1>8. CASE PointAtPreview
  <2> DEFINE v == [id |-> entry.id, item |-> entry.item, file |-> target]
  <2>1. /\ pc["cli"] = "staged" /\ Goto("cli", "idle") /\ staged' = v
        /\ UNCHANGED <<queue, ignores, stageDir, orphans, item, command>>
    BY <1>8 DEF PointAtPreview
  <2>2. entry \in conflicts
    BY <2>1 DEF Staging
  <2>3. v \in Preview /\ v.item = entry.item /\ v.file = target
    BY <2>2, EntryTypes DEF Preview, TypeOK
  <2> HIDE DEF v
  <2>4. TypeOK'
    BY <2>1, <2>3, MoveIsTyped DEF TypeOK, Locations, queue, ignores, command
  <2>5. pc'["cli"] = "idle"
    BY <2>1 DEF Goto, TypeOK
  <2>6. PreviewsAccounted'
    <3>1. stageDir'[staged'.file] = staged'.item
      BY <2>1, <2>3 DEF Staging
    <3>2. ASSUME NEW f \in Files, f \notin orphans, stageDir[f] # "none"
          PROVE  staged' # NoPreview /\ staged'.file = f
      <4>1. target = f
        BY <2>1, <3>2 DEF PreviewsAccounted, Absent, Staging
      <4> QED BY <2>1, <2>3, <4>1
    <3> QED BY <2>1, <3>1, <3>2 DEF PreviewsAccounted, Absent
  <2> QED BY <2>1, <2>4, <2>5, <2>6 DEF QueuedOnce, Staging, queue
<1> QED BY <1>1, <1>2, <1>3, <1>4, <1>5, <1>6, <1>7, <1>8 DEF Command

LEMMA NextKeeps == IInv /\ [Next]_vars => IInv'
<1> SUFFICES ASSUME IInv, [Next]_vars PROVE IInv'
  OBVIOUS
<1>1. ASSUME NEW t \in Threads, Differs(t) \/ Step(t) PROVE IInv'
  <2>1. CASE Differs(t) \/ CheckIgnored(t) \/ AddConflict(t)
    BY <2>1, DownloadKeeps
  <2>2. CASE Command
    BY <2>2, CommandKeeps
  <2> QED BY <1>1, <2>1, <2>2 DEF Step
<1>2. CASE Accept \/ IgnoreAgain \/ Stage
  BY <1>2, BeginKeeps
<1>3. CASE Ignore
  BY <1>3, IgnoreKeeps
<1>4. CASE Unstage
  BY <1>4, UnstageKeeps
<1>5. CASE UNCHANGED vars
  <2>1. UNCHANGED <<queue, ignores, preview, pc, item, command>>
    BY <1>5 DEF vars
  <2> QED BY <2>1 DEF queue, ignores, preview, command, IInv, TypeOK, QueuedOnce,
                      PreviewsAccounted, Absent, Staging
<1> QED BY <1>1, <1>2, <1>3, <1>4, <1>5 DEF Next

LEMMA Invariance == Spec => []IInv
<1> QED BY InitKeeps, NextKeeps, PTL DEF Spec

\* The types, and what they say of the mutexes: the queue's is held over a step
\* only while entries are dropped, that of the rules only while they are saved.
THEOREM TypeCorrect == Spec => []TypeOK
<1>1. IInv => TypeOK
  BY DEF IInv
<1> QED BY <1>1, Invariance, PTL

\* No conflict is queued twice.
THEOREM NoConflictTwice == Spec => []QueuedOnce
<1>1. IInv => QueuedOnce
  BY DEF IInv
<1> QED BY <1>1, Invariance, PTL

\* The preview is whole and there, and no other file of this run is left over.
THEOREM PreviewsAreKept == Spec => []PreviewsAccounted
<1>1. IInv => PreviewsAccounted
  BY DEF IInv
<1> QED BY <1>1, Invariance, PTL

-----------------------------------------------------------------------------
\* How many steps a thread has left at most: conflict accept tries the matches one
\* after the other and stops at the first that succeeds.
RankAt(l, S) == CASE l \in {"idle", "relock", "saving"}     -> 0
                  [] l \in {"insert", "drop", "staged"}     -> 1
                  [] l \in {"queue", "accepted", "download"} -> 2
                  [] l \in {"differs", "stage"}             -> 3
                  [] l = "accept"                           -> 3 + Cardinality(S)
Rank(t) == RankAt(pc[t], matches)

\* A command or a download that has found a conflict only ever comes nearer to its
\* end; it is not set back by what the other thread queues meanwhile.
CommandsGetShorter ==
  [][\A t \in Threads : \/ pc[t] = "idle"
                        \/ UNCHANGED <<pc[t], Rank(t)>>
                        \/ Rank(t)' < Rank(t)]_vars

\* Only the command line runs commands, and the queue is finite.
OwnPlaces ==
  /\ IsFiniteSet(conflicts)
  /\ \A t \in Threads \ {"cli"} : pc[t] \in {"idle", "differs", "queue", "insert"}

LEMMA OwnPlacesKept == TypeOK /\ OwnPlaces /\ [Next]_vars => OwnPlaces'
<1> SUFFICES ASSUME TypeOK, OwnPlaces, [Next]_vars PROVE OwnPlaces'
  OBVIOUS
<1> USE DEF TypeOK, Goto
<1>1. ASSUME NEW t \in Threads, Differs(t) \/ CheckIgnored(t) \/ AddConflict(t) PROVE OwnPlaces'
  <2>1. conflicts' = conflicts \/ \E e : conflicts' = conflicts \cup {e}
    BY <1>1 DEF Differs, CheckIgnored, AddConflict, queue
  <2>2. IsFiniteSet(conflicts')
    BY <2>1, FS_AddElement DEF OwnPlaces
  <2>3. \E l \in {"idle", "differs", "queue", "insert"} : pc' = [pc EXCEPT ![t] = l]
    BY <1>1 DEF Differs, CheckIgnored, AddConflict
  <2> QED BY <2>2, <2>3 DEF OwnPlaces
<1>2. CASE Command
  <2>1. conflicts' = conflicts /\ \E l : pc' = [pc EXCEPT !["cli"] = l]
    BY <1>2 DEF Command, ForceDownload, Accepted, ClearAccepted, Drop, BeginPreview, OpenPreview,
                PreviewFails, PreviewVerified, PointAtPreview, queue
  <2> QED BY <2>1 DEF OwnPlaces
<1>3. CASE Accept \/ Ignore \/ IgnoreAgain \/ Stage
  <2>1. conflicts' = conflicts /\ \E l : pc' = [pc EXCEPT !["cli"] = l]
    BY <1>3 DEF Accept, Ignore, ChangeRules, IgnoreAgain, Stage, queue
  <2> QED BY <2>1 DEF OwnPlaces
<1>4. CASE Unstage \/ UNCHANGED vars
  <2>1. conflicts' = conflicts /\ pc' = pc
    BY <1>4 DEF Unstage, vars, queue
  <2> QED BY <2>1 DEF OwnPlaces
<1> QED BY <1>1, <1>2, <1>3, <1>4 DEF Next, Step

LEMMA RankValues ==
  /\ \A S : /\ \A l \in {"idle", "relock", "saving"} : RankAt(l, S) = 0
            /\ \A l \in {"insert", "drop", "staged"} : RankAt(l, S) = 1
            /\ \A l \in {"queue", "accepted", "download"} : RankAt(l, S) = 2
            /\ \A l \in {"differs", "stage"} : RankAt(l, S) = 3
            /\ RankAt("accept", S) = 3 + Cardinality(S)
BY DEF RankAt

\* A step of one thread lowers its rank.
LEMMA StepLowersRank ==
  ASSUME TypeOK, OwnPlaces, NEW t \in Threads, Step(t)
  PROVE  Rank(t)' < Rank(t)
<1> USE DEF Goto
<1>t. pc \in [Threads -> Locations] /\ IsFiniteSet(conflicts) /\ matches \subseteq conflicts
  BY DEF TypeOK, OwnPlaces
<1>1. CASE CheckIgnored(t)
  <2>1. \/ pc[t] = "differs" /\ pc'[t] \in {"idle", "queue"}
        \/ pc[t] = "queue" /\ pc'[t] \in {"idle", "insert"}
    BY <1>1, <1>t DEF CheckIgnored
  <2>2. \/ Rank(t) = 3 /\ Rank(t)' \in {0, 2}
        \/ Rank(t) = 2 /\ Rank(t)' \in {0, 1}
    BY <2>1, RankValues DEF Rank
  <2> QED BY <2>2
<1>2. CASE AddConflict(t)
  <2>1. pc[t] = "insert" /\ pc'[t] = "idle"
    BY <1>2, <1>t DEF AddConflict
  <2>2. Rank(t) = 1 /\ Rank(t)' = 0
    BY <2>1, RankValues DEF Rank
  <2> QED BY <2>2
<1>3. CASE t = "cli" /\ ForceDownload
  <2>1. PICK e \in matches : matches' = matches \ {e}
    BY <1>3 DEF ForceDownload
  <2>2. pc[t] = "accept" /\ pc'[t] \in {"accept", "accepted"}
    BY <1>3, <1>t DEF ForceDownload
  <2>3. IsFiniteSet(matches)
    BY <1>t, FS_Subset
  <2>4. Cardinality(matches') = Cardinality(matches) - 1 /\ Cardinality(matches) \in Nat
        /\ Cardinality(matches') \in Nat
    BY <2>1, <2>3, FS_RemoveElement, FS_CardinalityType
  <2>5. Rank(t) = 3 + Cardinality(matches) /\ Rank(t)' \in {2, 3 + Cardinality(matches')}
    BY <2>2, RankValues DEF Rank
  <2> QED BY <2>4, <2>5
<1>4. CASE t = "cli" /\ Accepted
  <2>1. pc[t] = "accept" /\ pc'[t] = "idle" /\ Cardinality(matches) = 0
    BY <1>4, <1>t, FS_EmptySet DEF Accepted
  <2>2. Rank(t) = 3 + 0 /\ Rank(t)' = 0
    BY <2>1, RankValues DEF Rank
  <2> QED BY <2>2
<1>5. CASE t = "cli" /\ (ClearAccepted \/ Drop)
  <2>1. \/ pc[t] = "accepted" /\ pc'[t] = "drop"
        \/ pc[t] = "drop" /\ pc'[t] \in {"relock", "idle"}
    BY <1>5, <1>t DEF ClearAccepted, Drop
  <2>2. \/ Rank(t) = 2 /\ Rank(t)' = 1
        \/ Rank(t) = 1 /\ Rank(t)' = 0
    BY <2>1, RankValues DEF Rank
  <2> QED BY <2>2
<1>6. CASE t = "cli" /\ (BeginPreview \/ PreviewFails \/ PreviewVerified \/ PointAtPreview)
  <2>1. \/ pc[t] = "stage" /\ pc'[t] = "download"
        \/ pc[t] = "download" /\ pc'[t] \in {"idle", "staged"}
        \/ pc[t] = "staged" /\ pc'[t] = "idle"
    BY <1>6, <1>t DEF BeginPreview, OpenPreview, PreviewFails, PreviewVerified, PointAtPreview
  <2>2. \/ Rank(t) = 3 /\ Rank(t)' = 2
        \/ Rank(t) = 2 /\ Rank(t)' \in {0, 1}
        \/ Rank(t) = 1 /\ Rank(t)' = 0
    BY <2>1, RankValues DEF Rank
  <2> QED BY <2>2
<1> QED BY <1>1, <1>2, <1>3, <1>4, <1>5, <1>6 DEF Step, Command

\* What others do does not show in it.
LEMMA OthersKeepRank ==
  ASSUME TypeOK, OwnPlaces, [Next]_vars, NEW t \in Threads, pc[t] # "idle", ~Step(t)
  PROVE  UNCHANGED <<pc[t], Rank(t)>>
<1> USE DEF Goto
<1>t. pc \in [Threads -> Locations]
  BY DEF TypeOK
\* The matches count only for who accepts.
<1>a. ASSUME pc'[t] = pc[t], t = "cli" => matches' = matches PROVE UNCHANGED <<pc[t], Rank(t)>>
  <2>1. CASE t = "cli"
    BY <1>a, <2>1 DEF Rank
  <2>2. CASE t # "cli"
    <3>1. pc[t] \in {"idle", "differs", "queue", "insert"}
      BY <2>2 DEF OwnPlaces
    <3> QED BY <1>a, <3>1, RankValues DEF Rank
  <2> QED BY <2>1, <2>2
<1>1. ASSUME NEW u \in Threads \ {t}, Differs(u) \/ CheckIgnored(u) \/ AddConflict(u)
      PROVE  UNCHANGED <<pc[t], Rank(t)>>
  <2>1. matches' = matches /\ \E l : pc' = [pc EXCEPT ![u] = l]
    BY <1>1 DEF Differs, CheckIgnored, AddConflict, command
  <2> QED BY <1>a, <1>t, <2>1
<1>2. CASE Command
  <2>1. t # "cli" /\ \E l : pc' = [pc EXCEPT !["cli"] = l]
    BY <1>2 DEF Step, Command, ForceDownload, Accepted, ClearAccepted, Drop, BeginPreview, OpenPreview,
                PreviewFails, PreviewVerified, PointAtPreview
  <2> QED BY <1>a, <1>t, <2>1
<1>3. CASE Accept \/ Ignore \/ IgnoreAgain \/ Stage
  <2>1. pc["cli"] = "idle" /\ \E l : pc' = [pc EXCEPT !["cli"] = l]
    BY <1>3 DEF Accept, Ignore, ChangeRules, IgnoreAgain, Stage
  <2> QED BY <1>a, <1>t, <2>1
<1>4. CASE Unstage \/ UNCHANGED vars
  BY <1>4, <1>a DEF Unstage, vars, command
<1> QED BY <1>1, <1>2, <1>3, <1>4 DEF Next, Step, Differs

\* Commands and the ends of downloads take boundedly many steps: what keeps a thread
\* from its end is only a mutex that the command line has locked twice.
THEOREM CommandsTakeBoundedlyManySteps ==
  Spec => /\ CommandsGetShorter
          /\ [](\A t \in Threads : Rank(t) \in 0..(Cardinality(conflicts) + 3))
<1>1. Init => OwnPlaces
  BY FS_EmptySet DEF Init, OwnPlaces
<1>2. TypeOK /\ OwnPlaces /\ [Next]_vars =>
        [\A t \in Threads : \/ pc[t] = "idle"
                            \/ UNCHANGED <<pc[t], Rank(t)>>
                            \/ Rank(t)' < Rank(t)]_vars
  BY StepLowersRank, OthersKeepRank
<1>3. ASSUME TypeOK, OwnPlaces, NEW t \in Threads
      PROVE  Rank(t) \in 0..(Cardinality(conflicts) + 3)
  <2> DEFINE n == Cardinality(conflicts)
             m == Cardinality(matches)
  <2>1. n \in Nat /\ m \in Nat /\ m <= n
    <3>1. matches \in SUBSET conflicts /\ IsFiniteSet(conflicts)
      BY <1>3 DEF TypeOK, OwnPlaces
    <3> QED BY <3>1, FS_Subset, FS_CardinalityType
  <2>2. pc[t] \in Locations
    BY <1>3 DEF TypeOK
  <2>3. Rank(t) \in {0, 1, 2, 3, 3 + m}
    BY <2>2, RankValues DEF Rank, Locations
  <2> HIDE DEF n, m
  <2>4. Rank(t) \in 0..(n + 3)
    BY <2>1, <2>3
  <2> QED BY <2>4 DEF n
<1>4. TypeOK /\ OwnPlaces => \A t \in Threads : Rank(t) \in 0..(Cardinality(conflicts) + 3)
  BY <1>3
<1> QED BY <1>1, <1>2, <1>4, OwnPlacesKept, TypeCorrect, PTL DEF Spec, CommandsGetShorter
=============================================================================
