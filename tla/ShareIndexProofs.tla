--------------------------- MODULE ShareIndexProofs ---------------------------
(***************************************************************************)
(* What a peer serves under a hash is the content asked for, as long as    *)
(* the user leaves the file alone, for any number of files, contents and   *)
(* threads.                                                                *)
(*                                                                         *)
(* The argument goes by the clock: what was recorded of a file, in an      *)
(* entry, in a request under way or in the hands of a thread, is right     *)
(* unless the file has changed since, and a change moves the clock past    *)
(* every time recorded before.                                             *)
(***************************************************************************)
EXTENDS ShareIndex, FiniteSetTheorems, TLAPS

USE ShareIndexAssumption, NoEntryAssumption

Busy == {"hash", "measure", "register"}

\* What a thread has found out about the file it is at.
JobIsRight(t) ==
  /\ pc[t] \in {"measure", "register"} /\ Untouched(job[t]) => disk[job[t].path] = job[t].hash
  /\ pc[t] = "register" /\ Untouched(job[t]) => job[t].size = Size[job[t].hash]

\* What was recorded of a file with content h.
EntryIsRight(e, h) == Untouched(e) => disk[e.path] = h /\ e.size = Size[h]

\* Nothing was recorded in the future.
InThePast ==
  /\ \A p \in Paths : changed[p] <= clock
  /\ \A t \in Threads : job[t].at <= clock
  /\ \A h \in Contents : entries[h] # NoEntry => entries[h].at <= clock
  /\ asked # NoEntry => asked.entry.at <= clock

RecordsAreRight ==
  /\ \A t \in Threads : JobIsRight(t)
  /\ \A h \in Contents : entries[h] # NoEntry => EntryIsRight(entries[h], h)
  /\ asked # NoEntry => EntryIsRight(asked.entry, asked.hash)

IInv == TypeOK /\ InThePast /\ RecordsAreRight

-----------------------------------------------------------------------------
LEMMA IoIsAThread == "io" \in Threads
BY DEF Threads

LEMMA EntryTypes ==
  ASSUME TypeOK, NEW h \in Contents, entries[h] # NoEntry
  PROVE  /\ entries[h] \in Entry /\ entries[h].path \in Paths
         /\ entries[h].size \in Nat /\ entries[h].at \in 0..MaxChanges
<1>1. entries[h] \in Entry
  BY DEF TypeOK
<1> QED BY <1>1 DEF Entry

LEMMA RequestTypes ==
  ASSUME TypeOK, asked # NoEntry
  PROVE  /\ asked.hash \in Contents /\ asked.entry \in Entry /\ asked.entry.path \in Paths
         /\ asked.entry.size \in Nat /\ asked.entry.at \in 0..MaxChanges
<1>1. asked \in Request
  BY DEF TypeOK
<1>2. asked.hash \in Contents /\ asked.entry \in Entry
  BY <1>1 DEF Request
<1> QED BY <1>2 DEF Entry

LEMMA JobTypes ==
  ASSUME TypeOK, NEW t \in Threads
  PROVE  /\ job[t].path \in Paths \cup {NoPath} /\ job[t].hash \in Contents \cup {NoFile}
         /\ job[t].size \in Nat /\ job[t].at \in 0..MaxChanges
<1>1. job[t] \in Job
  BY DEF TypeOK
<1> QED BY <1>1 DEF Job

LEMMA ToHashIsAJob ==
  ASSUME NEW p \in Paths \cup {NoPath}
  PROVE  ToHash(p) \in Job /\ ToHash(p).path = p /\ ToHash(p).at = 0
BY DEF ToHash, Job

\* The part of the type invariant that is about the threads, when one of them
\* moves on and the mutex stays with its owner.
Placed(t) ==
  /\ pc[t] = "scan" => owner = t
  /\ owner = t => pc[t] \in {"scan", "hash", "measure", "register"}
  /\ pc[t] \in Busy => job[t].path \in Paths
  /\ pc[t] \in {"measure", "register"} => job[t].hash \in Contents

LEMMA MoveIsTyped ==
  ASSUME TypeOK, NEW t \in Threads, NEW l \in Busy \cup {"idle", "scan"}, NEW j \in Job,
         pc' = [pc EXCEPT ![t] = l], job' = [job EXCEPT ![t] = j],
         disk' \in [Paths -> Contents \cup {NoFile}],
         clock' \in 0..MaxChanges, changed' \in [Paths -> 0..MaxChanges],
         UNCHANGED <<index, owner, asked>>, todo' \in [Threads -> SUBSET Paths],
         pc[t] # "read", l = "scan" => owner = t, owner = t => l # "idle",
         l \in Busy => j.path \in Paths, l \in {"measure", "register"} => j.hash \in Contents
  PROVE  TypeOK'
<1>1. pc' \in [Threads -> {"idle", "scan", "hash", "measure", "register", "read"}]
  BY DEF TypeOK, Busy
<1>2. job' \in [Threads -> Job]
  BY DEF TypeOK
<1>3. pc'[t] = l /\ job'[t] = j /\ \A s \in Threads \ {t} : pc'[s] = pc[s] /\ job'[s] = job[s]
  BY DEF TypeOK
<1>4. ASSUME NEW s \in Threads PROVE Placed(s)'
  <2>1. CASE s = t
    BY <1>3, <2>1 DEF Placed, Busy
  <2>2. CASE s # t
    <3>1. Placed(s)
      BY DEF Placed, TypeOK, Busy
    <3> QED BY <1>3, <2>2, <3>1 DEF Placed
  <2> QED BY <2>1, <2>2
<1>5. asked' # NoEntry => pc'["io"] = "read"
  BY <1>3, IoIsAThread DEF TypeOK
<1> QED BY <1>1, <1>2, <1>4, <1>5 DEF TypeOK, Placed, Busy, index

-----------------------------------------------------------------------------
LEMMA InitTyped == Init => TypeOK
<1> SUFFICES ASSUME Init PROVE TypeOK
  OBVIOUS
<1>1. NoJob \in Job
  BY ToHashIsAJob DEF NoJob
<1> QED BY <1>1 DEF Init, TypeOK

LEMMA ChangeTypes ==
  ASSUME TypeOK, NEW p \in Paths, NEW c \in Contents \cup {NoFile}, Change(p, c)
  PROVE  /\ disk' \in [Paths -> Contents \cup {NoFile}]
         /\ clock' = clock + 1 /\ clock' \in 0..MaxChanges
         /\ changed' \in [Paths -> 0..MaxChanges]
         /\ changed'[p] = clock + 1 /\ disk'[p] = c
         /\ \A q \in Paths \ {p} : changed'[q] = changed[q] /\ disk'[q] = disk[q]
<1>1. clock' = clock + 1 /\ clock + 1 \in 0..MaxChanges
  BY DEF Change, TypeOK
<1>2. changed' = [changed EXCEPT ![p] = clock + 1] /\ disk' = [disk EXCEPT ![p] = c]
  BY DEF Change
<1> QED BY <1>1, <1>2 DEF TypeOK

LEMMA StepTyped ==
  ASSUME TypeOK, NEW t \in Threads, Step(t)
  PROVE  TypeOK'
<1>0. Step(t) = (Visit(t) \/ EndScan(t) \/ HashFile(t) \/ Measure(t) \/ Register(t))
  BY DEF Step
<1> USE DEF Goto
<1>1. CASE Visit(t)
  <2>1. PICK p \in todo[t] :
          /\ todo' = [todo EXCEPT ![t] = @ \ {p}]
          /\ \/ UNCHANGED <<pc, job>>
             \/ job' = [job EXCEPT ![t] = ToHash(p)] /\ pc' = [pc EXCEPT ![t] = "hash"]
    BY <1>1 DEF Visit
  <2>2. pc[t] = "scan" /\ owner = t /\ UNCHANGED <<diskVars, index, owner, asked>>
    BY <1>1 DEF Visit, TypeOK
  <2>3. todo' \in [Threads -> SUBSET Paths] /\ p \in Paths
    BY <2>1 DEF TypeOK
  <2>4. CASE UNCHANGED <<pc, job>>
    BY <2>2, <2>3, <2>4 DEF TypeOK, diskVars, index
  <2>5. CASE job' = [job EXCEPT ![t] = ToHash(p)] /\ pc' = [pc EXCEPT ![t] = "hash"]
    <3>1. ToHash(p) \in Job /\ ToHash(p).path = p
      BY <2>3, ToHashIsAJob
    <3> QED BY <2>2, <2>3, <2>5, <3>1, MoveIsTyped DEF TypeOK, Busy, diskVars
  <2> QED BY <2>1, <2>4, <2>5
<1>2. CASE EndScan(t)
  <2>1. /\ pc[t] = "scan" /\ owner = t /\ owner' = Nobody /\ pc' = [pc EXCEPT ![t] = "idle"]
        /\ UNCHANGED <<diskVars, index, job, todo, asked>>
    BY <1>2 DEF EndScan, TypeOK
  <2>2. pc'[t] = "idle" /\ \A s \in Threads \ {t} : pc'[s] = pc[s]
    BY <2>1 DEF TypeOK
  <2>3. pc' \in [Threads -> {"idle", "scan", "hash", "measure", "register", "read"}]
    BY <2>1 DEF TypeOK
  <2>4. \A s \in Threads : Placed(s)'
    BY <2>1, <2>2 DEF TypeOK, Placed, Busy
  <2>5. asked' # NoEntry => pc'["io"] = "read"
    BY <2>1, <2>2, IoIsAThread DEF TypeOK
  <2> QED BY <2>1, <2>3, <2>4, <2>5 DEF TypeOK, Placed, Busy, diskVars, index
<1>3. ASSUME GoOn(t), pc[t] \in Busy, UNCHANGED <<diskVars, index, owner, todo, asked>>
      PROVE  TypeOK'
  <2>1. /\ job' = [job EXCEPT ![t] = NoJob]
        /\ pc' = [pc EXCEPT ![t] = IF owner = t THEN "scan" ELSE "idle"]
    BY <1>3 DEF GoOn
  <2>2. NoJob \in Job
    BY ToHashIsAJob DEF NoJob
  <2>3. /\ disk' \in [Paths -> Contents \cup {NoFile}] /\ todo' \in [Threads -> SUBSET Paths]
        /\ clock' \in 0..MaxChanges /\ changed' \in [Paths -> 0..MaxChanges] /\ pc[t] # "read"
    BY <1>3 DEF TypeOK, Busy, diskVars
  <2>4. CASE owner = t
    <3>1. pc' = [pc EXCEPT ![t] = "scan"]
      BY <2>1, <2>4
    <3> QED BY <1>3, <2>1, <2>2, <2>3, <2>4, <3>1, MoveIsTyped DEF Busy
  <2>5. CASE owner # t
    <3>1. pc' = [pc EXCEPT ![t] = "idle"]
      BY <2>1, <2>5
    <3> QED BY <1>3, <2>1, <2>2, <2>3, <2>5, <3>1, MoveIsTyped DEF Busy
  <2> QED BY <2>4, <2>5
<1>4. CASE HashFile(t)
  <2> DEFINE p == job[t].path
             j == [path |-> p, hash |-> disk[p], size |-> 0, at |-> changed[p]]
  <2>1. pc[t] = "hash" /\ UNCHANGED <<diskVars, index, owner, todo, asked>> /\ p \in Paths
    BY <1>4 DEF HashFile, TypeOK
  <2>2. CASE disk[p] = NoFile /\ GoOn(t)
    BY <1>3, <2>1, <2>2 DEF Busy
  <2>3. CASE disk[p] # NoFile /\ job' = [job EXCEPT ![t] = j] /\ pc' = [pc EXCEPT ![t] = "measure"]
    <3>1. disk[p] \in Contents /\ changed[p] \in 0..MaxChanges
      BY <2>1, <2>3 DEF TypeOK
    <3>2. j \in Job /\ j.path \in Paths /\ j.hash \in Contents
      BY <2>1, <3>1 DEF Job
    <3> HIDE DEF j
    <3> QED BY <2>1, <2>3, <3>2, MoveIsTyped DEF TypeOK, Busy, diskVars
  <2> QED BY <1>4, <2>2, <2>3 DEF HashFile
<1>5. CASE Measure(t)
  <2> DEFINE p == job[t].path
             j == [path |-> p, hash |-> job[t].hash, size |-> Size[disk[p]], at |-> job[t].at]
  <2>1. /\ pc[t] = "measure" /\ UNCHANGED <<diskVars, index, owner, todo, asked>>
        /\ p \in Paths /\ job[t].hash \in Contents
    BY <1>5 DEF Measure, TypeOK
  <2>2. CASE disk[p] = NoFile /\ GoOn(t)
    BY <1>3, <2>1, <2>2 DEF Busy
  <2>3. CASE disk[p] # NoFile /\ job' = [job EXCEPT ![t] = j] /\ pc' = [pc EXCEPT ![t] = "register"]
    <3>1. disk[p] \in Contents
      BY <2>1, <2>3 DEF TypeOK
    <3>2. Size[disk[p]] \in Nat /\ job[t].at \in 0..MaxChanges
      BY <3>1, JobTypes
    <3>3. j \in Job /\ j.path \in Paths /\ j.hash \in Contents
      BY <2>1, <3>2 DEF Job
    <3> HIDE DEF j
    <3> QED BY <2>1, <2>3, <3>3, MoveIsTyped DEF TypeOK, Busy, diskVars
  <2> QED BY <1>5, <2>2, <2>3 DEF Measure
<1>6. CASE Register(t)
  <2> DEFINE e == [path |-> job[t].path, size |-> job[t].size, at |-> job[t].at]
  <2>1. /\ pc[t] = "register" /\ GoOn(t) /\ UNCHANGED <<diskVars, owner, todo, asked>>
        /\ entries' = [entries EXCEPT ![job[t].hash] = e]
        /\ hashAt' = [hashAt EXCEPT ![job[t].path] = job[t].hash]
    BY <1>6 DEF Register
  <2>2. job[t].path \in Paths /\ job[t].hash \in Contents
    BY <2>1 DEF TypeOK
  <2>3. e \in Entry
    BY <2>2, JobTypes DEF Entry
  <2> HIDE DEF e
  <2>4. entries' \in [Contents -> Entry \cup {NoEntry}]
    BY <2>1, <2>2, <2>3 DEF TypeOK
  <2>5. hashAt' \in [Paths -> Contents \cup {NoFile}]
    BY <2>1, <2>2 DEF TypeOK
  <2>6. \A p \in Paths : hashAt'[p] # NoFile => entries'[hashAt'[p]] # NoEntry
    <3>1. \A h \in Contents : entries[h] # NoEntry => entries'[h] # NoEntry
      BY <2>1, <2>2, <2>3 DEF TypeOK
    <3>2. entries'[job[t].hash] # NoEntry
      BY <2>1, <2>2, <2>3 DEF TypeOK
    <3>3. \A p \in Paths : hashAt'[p] = hashAt[p] \/ hashAt'[p] = job[t].hash
      BY <2>1, <2>2 DEF TypeOK
    <3>4. \A p \in Paths : hashAt[p] # NoFile => hashAt[p] \in Contents /\ entries[hashAt[p]] # NoEntry
      BY DEF TypeOK
    <3> QED BY <3>1, <3>2, <3>3, <3>4
  <2>7. /\ job' = [job EXCEPT ![t] = NoJob]
        /\ pc' = [pc EXCEPT ![t] = IF owner = t THEN "scan" ELSE "idle"]
    BY <2>1 DEF GoOn
  <2>8. NoJob \in Job
    BY ToHashIsAJob DEF NoJob
  <2>9. pc' \in [Threads -> {"idle", "scan", "hash", "measure", "register", "read"}]
        /\ job' \in [Threads -> Job]
    BY <2>7, <2>8 DEF TypeOK
  <2>10. \A s \in Threads : Placed(s)'
    <3> SUFFICES ASSUME NEW s \in Threads PROVE Placed(s)'
      OBVIOUS
    <3>1. Placed(s)
      BY DEF TypeOK, Placed, Busy
    <3>2. CASE s # t
      <4>1. pc'[s] = pc[s] /\ job'[s] = job[s] /\ owner' = owner
        BY <2>1, <2>7, <3>2 DEF TypeOK
      <4> QED BY <3>1, <4>1 DEF Placed
    <3>3. CASE s = t
      <4>1. owner' = owner /\ pc'[s] = IF owner = s THEN "scan" ELSE "idle"
        BY <2>1, <2>7, <3>3 DEF TypeOK
      <4> QED BY <4>1 DEF Placed, Busy
    <3> QED BY <3>2, <3>3
  <2>11. asked' # NoEntry => pc'["io"] = "read"
    <3>1. asked # NoEntry => t # "io"
      BY <2>1 DEF TypeOK
    <3> QED BY <2>1, <2>7, <3>1, IoIsAThread DEF TypeOK
  <2> QED BY <2>1, <2>4, <2>5, <2>6, <2>9, <2>10, <2>11 DEF TypeOK, Placed, Busy, diskVars
<1> QED BY <1>0, <1>1, <1>2, <1>4, <1>5, <1>6

LEMMA NextTyped == TypeOK /\ [Next]_vars => TypeOK'
<1> SUFFICES ASSUME TypeOK, [Next]_vars PROVE TypeOK'
  OBVIOUS
<1> USE DEF Goto
<1>1. CASE Edit
  <2>1. PICK p \in Paths, c \in Contents \cup {NoFile} : Change(p, c)
    BY <1>1 DEF Edit
  <2> QED BY <1>1, <2>1, ChangeTypes DEF Edit, TypeOK, index
<1>2. ASSUME NEW t \in Scanners, BeginScan(t) PROVE TypeOK'
  <2>1. /\ t \in Threads /\ pc[t] = "idle" /\ owner = Nobody /\ owner' = t
        /\ todo' = [todo EXCEPT ![t] = Paths] /\ pc' = [pc EXCEPT ![t] = "scan"]
        /\ UNCHANGED <<diskVars, index, job, asked>>
    BY <1>2 DEF BeginScan, Threads
  <2>2. /\ pc' \in [Threads -> {"idle", "scan", "hash", "measure", "register", "read"}]
        /\ pc'[t] = "scan" /\ \A s \in Threads \ {t} : pc'[s] = pc[s]
    BY <2>1 DEF TypeOK
  <2>3. todo' \in [Threads -> SUBSET Paths]
    BY <2>1 DEF TypeOK
  <2>4. \A s \in Threads : Placed(s)'
    BY <2>1, <2>2 DEF TypeOK, Placed, Busy
  <2>5. asked' # NoEntry => pc'["io"] = "read"
    BY <2>1, <2>2, IoIsAThread DEF TypeOK
  <2> QED BY <2>1, <2>2, <2>3, <2>4, <2>5 DEF TypeOK, Placed, Busy, diskVars, index
<1>3. ASSUME NEW t \in Sharers, Share(t) PROVE TypeOK'
  <2>1. PICK p \in Paths : job' = [job EXCEPT ![t] = ToHash(p)]
    BY <1>3 DEF Share
  <2>2. /\ t \in Threads /\ pc[t] = "idle" /\ pc' = [pc EXCEPT ![t] = "hash"]
        /\ UNCHANGED <<diskVars, index, owner, todo, asked>>
    BY <1>3 DEF Share, Threads
  <2>3. ToHash(p) \in Job /\ ToHash(p).path = p
    BY ToHashIsAJob
  <2> QED BY <2>1, <2>2, <2>3, MoveIsTyped DEF TypeOK, Busy, diskVars
<1>4. ASSUME NEW t \in Downloaders, Deliver(t) PROVE TypeOK'
  <2>1. PICK p \in Paths, c \in Contents :
          /\ Change(p, c)
          /\ job' = [job EXCEPT ![t] =
                       [path |-> p, hash |-> c, size |-> Size[c], at |-> clock + 1]]
    BY <1>4 DEF Deliver
  <2> DEFINE j == [path |-> p, hash |-> c, size |-> Size[c], at |-> clock + 1]
  <2>2. /\ t \in Threads /\ pc[t] = "idle" /\ pc' = [pc EXCEPT ![t] = "register"]
        /\ UNCHANGED <<index, owner, todo, asked>>
    BY <1>4 DEF Deliver, Threads
  <2>3. /\ disk' \in [Paths -> Contents \cup {NoFile}] /\ changed' \in [Paths -> 0..MaxChanges]
        /\ clock + 1 \in 0..MaxChanges /\ clock' \in 0..MaxChanges
    BY <2>1, ChangeTypes
  <2>4. j \in Job /\ j.path \in Paths /\ j.hash \in Contents
    BY <2>3 DEF Job
  <2>5. job' = [job EXCEPT ![t] = j]
    BY <2>1
  <2> HIDE DEF j
  <2> QED BY <2>2, <2>3, <2>4, <2>5, MoveIsTyped DEF TypeOK, Busy
<1>5. ASSUME NEW t \in Threads, Step(t) PROVE TypeOK'
  BY <1>5, StepTyped
<1>6. CASE Ask
  <2>1. PICK h \in Contents : entries[h] # NoEntry /\ asked' = [hash |-> h, entry |-> entries[h]]
    BY <1>6 DEF Ask
  <2>2. /\ pc["io"] = "idle" /\ pc' = [pc EXCEPT !["io"] = "read"]
        /\ UNCHANGED <<diskVars, index, owner, job, todo>>
    BY <1>6 DEF Ask
  <2>3. asked' \in Request
    BY <2>1, EntryTypes DEF Request
  <2>4. /\ pc' \in [Threads -> {"idle", "scan", "hash", "measure", "register", "read"}]
        /\ pc'["io"] = "read" /\ \A s \in Threads \ {"io"} : pc'[s] = pc[s]
    BY <2>2, IoIsAThread DEF TypeOK
  <2>5. \A s \in Threads : Placed(s)'
    BY <2>2, <2>4 DEF TypeOK, Placed, Busy
  <2> QED BY <2>2, <2>3, <2>4, <2>5 DEF TypeOK, Placed, Busy, diskVars, index
<1>7. CASE Respond
  <2>1. /\ pc["io"] = "read" /\ pc' = [pc EXCEPT !["io"] = "idle"] /\ asked' = NoEntry
        /\ UNCHANGED <<diskVars, index, owner, job, todo>>
    BY <1>7 DEF Respond
  <2>2. /\ pc' \in [Threads -> {"idle", "scan", "hash", "measure", "register", "read"}]
        /\ pc'["io"] = "idle" /\ \A s \in Threads \ {"io"} : pc'[s] = pc[s]
    BY <2>1, IoIsAThread DEF TypeOK
  <2>3. \A s \in Threads : Placed(s)'
    BY <2>1, <2>2 DEF TypeOK, Placed, Busy
  <2> QED BY <2>1, <2>2, <2>3 DEF TypeOK, Placed, Busy, diskVars, index
<1>8. CASE UNCHANGED vars
  BY <1>8 DEF vars, diskVars, index, TypeOK
<1> QED BY <1>1, <1>2, <1>3, <1>4, <1>5, <1>6, <1>7, <1>8 DEF Next

\* The types, and what they say of the mutex: only its owner scans.
THEOREM TypeCorrect == Spec => []TypeOK
<1> QED BY InitTyped, NextTyped, PTL DEF Spec

-----------------------------------------------------------------------------
\* A change moves the clock of the file past everything recorded of it.
LEMMA ChangeOutdates ==
  ASSUME TypeOK, InThePast, NEW p \in Paths, NEW c \in Contents \cup {NoFile}, Change(p, c)
  PROVE  /\ \A q \in Paths : changed'[q] <= clock'
         /\ \A e : e.path \in Paths /\ e.at \in Nat /\ e.at <= clock =>
              e.at <= clock' /\ (Untouched(e)' => e.path # p /\ Untouched(e) /\ disk'[e.path] = disk[e.path])
<1>1. /\ clock' = clock + 1 /\ clock \in Nat /\ changed \in [Paths -> 0..MaxChanges]
      /\ changed'[p] = clock + 1
      /\ \A q \in Paths \ {p} : changed'[q] = changed[q] /\ disk'[q] = disk[q]
  BY ChangeTypes DEF TypeOK
<1>2. ASSUME NEW q \in Paths PROVE changed'[q] <= clock'
  <2>1. changed[q] \in Nat /\ changed[q] <= clock
    BY <1>1 DEF InThePast
  <2> QED BY <1>1, <2>1
<1>3. ASSUME NEW e, e.path \in Paths, e.at \in Nat, e.at <= clock
      PROVE  /\ e.at <= clock'
             /\ Untouched(e)' => e.path # p /\ Untouched(e) /\ disk'[e.path] = disk[e.path]
  <2>1. Untouched(e)' <=> changed'[e.path] = e.at
    BY DEF Untouched
  <2>2. e.at # clock + 1 /\ e.at <= clock + 1
    BY <1>1, <1>3
  <2> QED BY <1>1, <1>3, <2>1, <2>2 DEF Untouched
<1> QED BY <1>2, <1>3

\* A change of one file leaves right what was recorded before it.
LEMMA ChangeKeeps ==
  ASSUME IInv, NEW p \in Paths, NEW c \in Contents \cup {NoFile}, Change(p, c),
         UNCHANGED <<index, asked>>
  PROVE  /\ \A q \in Paths : changed'[q] <= clock'
         /\ \A h \in Contents : entries[h] # NoEntry =>
              entries[h].at <= clock' /\ EntryIsRight(entries[h], h)'
         /\ asked # NoEntry => asked.entry.at <= clock' /\ EntryIsRight(asked.entry, asked.hash)'
         /\ \A t \in Threads : pc'[t] = pc[t] /\ job'[t] = job[t] =>
              job'[t].at <= clock' /\ JobIsRight(t)'
<1> USE DEF IInv
<1>1. \A q \in Paths : changed'[q] <= clock'
  BY ChangeOutdates
<1>2. ASSUME NEW h \in Contents, entries[h] # NoEntry
      PROVE  entries[h].at <= clock' /\ EntryIsRight(entries[h], h)'
  <2>1. entries[h].path \in Paths /\ entries[h].at \in Nat /\ entries[h].at <= clock
    BY <1>2, EntryTypes DEF InThePast
  <2>2. EntryIsRight(entries[h], h) /\ entries'[h] = entries[h]
    BY <1>2 DEF RecordsAreRight, index
  <2> QED BY <2>1, <2>2, ChangeOutdates DEF EntryIsRight, Untouched
<1>3. ASSUME asked # NoEntry
      PROVE  asked.entry.at <= clock' /\ EntryIsRight(asked.entry, asked.hash)'
  <2>1. asked.entry.path \in Paths /\ asked.entry.at \in Nat /\ asked.entry.at <= clock
    BY <1>3, RequestTypes DEF InThePast
  <2>2. EntryIsRight(asked.entry, asked.hash) /\ asked' = asked
    BY <1>3 DEF RecordsAreRight
  <2> QED BY <2>1, <2>2, ChangeOutdates DEF EntryIsRight, Untouched
<1>4. ASSUME NEW t \in Threads, pc'[t] = pc[t], job'[t] = job[t]
      PROVE  job'[t].at <= clock' /\ JobIsRight(t)'
  <2>1. job[t].at \in Nat /\ job[t].at <= clock /\ clock \in Nat /\ clock' = clock + 1
    BY JobTypes, ChangeTypes DEF InThePast, TypeOK
  <2>2. JobIsRight(t)
    BY DEF RecordsAreRight
  <2>3. job'[t].at <= clock'
    BY <1>4, <2>1
  <2>4. CASE pc[t] \in {"measure", "register"}
    <3>1. job[t].path \in Paths
      BY <2>4 DEF TypeOK
    <3>2. changed'[job[t].path] = job[t].at =>
            Untouched(job[t]) /\ disk'[job[t].path] = disk[job[t].path]
      BY <2>1, <3>1, ChangeOutdates DEF Untouched
    <3> QED BY <1>4, <2>2, <2>3, <3>2 DEF JobIsRight, Untouched
  <2>5. CASE pc[t] \notin {"measure", "register"}
    BY <1>4, <2>3, <2>5 DEF JobIsRight
  <2> QED BY <2>4, <2>5
<1> QED BY <1>1, <1>2, <1>3, <1>4

LEMMA InitRight == Init => IInv
<1> SUFFICES ASSUME Init PROVE IInv
  OBVIOUS
<1>1. \A t \in Threads : pc[t] = "idle" /\ job[t].at = 0
  BY DEF Init, NoJob, ToHash
<1> QED BY <1>1, InitTyped DEF Init, IInv, InThePast, RecordsAreRight, JobIsRight

\* A step that changes no file is right if what the thread at work records is.
LEMMA QuietStep ==
  ASSUME IInv, UNCHANGED diskVars, TypeOK', NEW t \in Threads,
         \A s \in Threads \ {t} : pc'[s] = pc[s] /\ job'[s] = job[s],
         job'[t].at <= clock /\ JobIsRight(t)',
         NEW g, \A h \in Contents \ {g} : entries'[h] = entries[h],
         g \in Contents => \/ entries'[g] = entries[g]
                           \/ entries'[g].at <= clock /\ EntryIsRight(entries'[g], g),
         \/ asked' = NoEntry \/ asked' = asked
         \/ asked'.entry.at <= clock /\ EntryIsRight(asked'.entry, asked'.hash)
  PROVE  IInv'
<1>1. \A e, h : EntryIsRight(e, h)' <=> EntryIsRight(e, h)
  BY DEF EntryIsRight, Untouched, diskVars
<1>2. \A s \in Threads : job'[s].at <= clock' /\ JobIsRight(s)'
  <2> SUFFICES ASSUME NEW s \in Threads PROVE job'[s].at <= clock' /\ JobIsRight(s)'
    OBVIOUS
  <2>1. CASE s = t
    BY <2>1 DEF diskVars
  <2>2. CASE s # t
    BY <2>2 DEF IInv, InThePast, RecordsAreRight, JobIsRight, Untouched, diskVars
  <2> QED BY <2>1, <2>2
<1>3. ASSUME NEW h \in Contents, entries'[h] # NoEntry
      PROVE  entries'[h].at <= clock' /\ EntryIsRight(entries'[h], h)
  <2>1. CASE entries'[h] = entries[h]
    <3>1. entries[h].at <= clock /\ EntryIsRight(entries[h], h)
      BY <1>3, <2>1 DEF IInv, InThePast, RecordsAreRight
    <3> QED BY <2>1, <3>1 DEF diskVars
  <2>2. CASE entries'[h] # entries[h]
    <3>1. h = g
      BY <2>2
    <3> QED BY <2>2, <3>1 DEF diskVars
  <2> QED BY <2>1, <2>2
<1>4. asked' # NoEntry => asked'.entry.at <= clock' /\ EntryIsRight(asked'.entry, asked'.hash)
  BY DEF IInv, InThePast, RecordsAreRight, diskVars
<1>5. \A p \in Paths : changed'[p] <= clock'
  BY DEF IInv, InThePast, diskVars
<1>6. InThePast'
  BY <1>2, <1>3, <1>4, <1>5 DEF InThePast
<1>7. RecordsAreRight'
  <2>1. \A h \in Contents : entries'[h] # NoEntry => EntryIsRight(entries[h], h)'
    BY <1>3 DEF EntryIsRight, Untouched, diskVars
  <2>2. asked' # NoEntry => EntryIsRight(asked.entry, asked.hash)'
    BY <1>4 DEF EntryIsRight, Untouched, diskVars
  <2> QED BY <1>2, <2>1, <2>2 DEF RecordsAreRight
<1> QED BY <1>6, <1>7 DEF IInv

LEMMA StepRight ==
  ASSUME IInv, TypeOK', NEW t \in Threads, Step(t)
  PROVE  IInv'
<1>0. Step(t) = (Visit(t) \/ EndScan(t) \/ HashFile(t) \/ Measure(t) \/ Register(t))
  BY DEF Step
<1> USE DEF Goto, IInv
<1>a. clock \in Nat /\ \A p \in Paths : changed[p] \in Nat /\ changed[p] <= clock
  BY DEF TypeOK, InThePast
<1>b. job[t].at <= clock /\ JobIsRight(t)
  BY DEF InThePast, RecordsAreRight
\* A thread without a hash in its hands has nothing to be right about.
<1>c. ASSUME UNCHANGED <<diskVars, index, asked>>, NEW j, j.at = 0 \/ j = job[t],
             NEW l \in {"idle", "scan", "hash"},
             job' = [job EXCEPT ![t] = j] \/ (j = job[t] /\ job' = job),
             pc' = [pc EXCEPT ![t] = l]
      PROVE  IInv'
  <2>1. /\ pc'[t] = l /\ job'[t] = j
        /\ \A s \in Threads \ {t} : pc'[s] = pc[s] /\ job'[s] = job[s]
    BY <1>c DEF TypeOK
  <2>2. job'[t].at <= clock /\ JobIsRight(t)'
    BY <1>a, <1>b, <1>c, <2>1 DEF JobIsRight
  <2> QED BY <1>c, <2>1, <2>2, QuietStep DEF index
<1>d. NoJob.at = 0 /\ \A p : ToHash(p).at = 0
  BY DEF NoJob, ToHash
<1>1. CASE Visit(t)
  <2>1. UNCHANGED <<diskVars, index, asked>>
    BY <1>1 DEF Visit
  <2>2. CASE UNCHANGED <<pc, job>>
    BY <1>b, <2>1, <2>2, QuietStep DEF JobIsRight, Untouched, diskVars, index
  <2>3. ASSUME NEW p, job' = [job EXCEPT ![t] = ToHash(p)], pc' = [pc EXCEPT ![t] = "hash"]
        PROVE  IInv'
    BY <1>c, <1>d, <2>1, <2>3
  <2> QED BY <1>1, <2>2, <2>3 DEF Visit
<1>2. CASE EndScan(t)
  <2>1. UNCHANGED <<diskVars, index, asked, job>> /\ pc' = [pc EXCEPT ![t] = "idle"]
    BY <1>2 DEF EndScan
  <2> QED BY <1>c, <2>1
<1>3. ASSUME GoOn(t), UNCHANGED <<diskVars, index, asked>> PROVE IInv'
  <2>1. CASE pc' = [pc EXCEPT ![t] = "scan"]
    BY <1>3, <1>c, <1>d, <2>1 DEF GoOn
  <2>2. CASE pc' = [pc EXCEPT ![t] = "idle"]
    BY <1>3, <1>c, <1>d, <2>2 DEF GoOn
  <2> QED BY <1>3, <2>1, <2>2 DEF GoOn
<1>4. CASE HashFile(t)
  <2> DEFINE p == job[t].path
             j == [path |-> p, hash |-> disk[p], size |-> 0, at |-> changed[p]]
  <2>1. pc[t] = "hash" /\ UNCHANGED <<diskVars, index, asked>> /\ p \in Paths
    BY <1>4 DEF HashFile, TypeOK
  <2>2. CASE GoOn(t)
    BY <1>3, <2>1, <2>2
  <2>3. CASE job' = [job EXCEPT ![t] = j] /\ pc' = [pc EXCEPT ![t] = "measure"]
    <3>1. j.path = p /\ j.hash = disk[p] /\ j.at = changed[p]
      OBVIOUS
    <3> HIDE DEF j
    <3>2. /\ pc'[t] = "measure" /\ job'[t] = j
          /\ \A s \in Threads \ {t} : pc'[s] = pc[s] /\ job'[s] = job[s]
      BY <2>3 DEF TypeOK
    <3>3. job'[t].at <= clock /\ JobIsRight(t)'
      BY <1>a, <2>1, <3>1, <3>2 DEF JobIsRight, Untouched, diskVars
    <3> QED BY <2>1, <3>2, <3>3, QuietStep DEF index
  <2> QED BY <1>4, <2>2, <2>3 DEF HashFile
<1>5. CASE Measure(t)
  <2> DEFINE p == job[t].path
             j == [path |-> p, hash |-> job[t].hash, size |-> Size[disk[p]], at |-> job[t].at]
  <2>1. pc[t] = "measure" /\ UNCHANGED <<diskVars, index, asked>> /\ p \in Paths
    BY <1>5 DEF Measure, TypeOK
  <2>2. CASE GoOn(t)
    BY <1>3, <2>1, <2>2
  <2>3. CASE job' = [job EXCEPT ![t] = j] /\ pc' = [pc EXCEPT ![t] = "register"]
    <3>1. j.path = p /\ j.hash = job[t].hash /\ j.at = job[t].at /\ j.size = Size[disk[p]]
      OBVIOUS
    <3> HIDE DEF j
    <3>2. /\ pc'[t] = "register" /\ job'[t] = j
          /\ \A s \in Threads \ {t} : pc'[s] = pc[s] /\ job'[s] = job[s]
      BY <2>3 DEF TypeOK
    <3>3. Untouched(job[t]) => disk[p] = job[t].hash
      BY <1>b, <2>1 DEF JobIsRight
    <3>4. job'[t].at <= clock /\ JobIsRight(t)'
      BY <1>b, <2>1, <3>1, <3>2, <3>3 DEF JobIsRight, Untouched, diskVars
    <3> QED BY <2>1, <3>2, <3>4, QuietStep DEF index
  <2> QED BY <1>5, <2>2, <2>3 DEF Measure
<1>6. CASE Register(t)
  <2> DEFINE e == [path |-> job[t].path, size |-> job[t].size, at |-> job[t].at]
  <2>1. /\ pc[t] = "register" /\ GoOn(t) /\ UNCHANGED <<diskVars, asked>>
        /\ entries' = [entries EXCEPT ![job[t].hash] = e]
    BY <1>6 DEF Register
  <2>2. e.path = job[t].path /\ e.size = job[t].size /\ e.at = job[t].at
    OBVIOUS
  <2> HIDE DEF e
  <2>3. EntryIsRight(e, job[t].hash) /\ e.at <= clock
    BY <1>b, <2>1, <2>2 DEF JobIsRight, EntryIsRight, Untouched
  <2>4. job[t].hash \in Contents /\ entries'[job[t].hash] = e
        /\ \A h \in Contents \ {job[t].hash} : entries'[h] = entries[h]
    BY <2>1 DEF TypeOK
  <2>5. /\ job'[t] = NoJob /\ pc'[t] \in {"scan", "idle"}
        /\ \A s \in Threads \ {t} : pc'[s] = pc[s] /\ job'[s] = job[s]
    BY <2>1 DEF GoOn, TypeOK
  <2>6. job'[t].at <= clock /\ JobIsRight(t)'
    BY <1>a, <1>d, <2>5 DEF JobIsRight
  <2> QED BY <2>1, <2>3, <2>4, <2>5, <2>6, QuietStep
<1> QED BY <1>0, <1>1, <1>2, <1>4, <1>5, <1>6

LEMMA NextRight == IInv /\ [Next]_vars => IInv'
<1> SUFFICES ASSUME IInv, [Next]_vars PROVE IInv'
  OBVIOUS
<1>0. TypeOK'
  BY NextTyped DEF IInv
<1> USE DEF Goto
<1>1. CASE Edit
  <2>1. PICK p \in Paths, c \in Contents \cup {NoFile} : Change(p, c)
    BY <1>1 DEF Edit
  <2>2. UNCHANGED <<index, pc, job, asked>>
    BY <1>1 DEF Edit
  <2>3. InThePast'
    BY <2>1, <2>2, ChangeKeeps DEF InThePast, index
  <2>4. RecordsAreRight'
    BY <2>1, <2>2, ChangeKeeps DEF RecordsAreRight, index
  <2> QED BY <1>0, <2>3, <2>4 DEF IInv
<1>2. ASSUME NEW t \in Scanners, BeginScan(t) PROVE IInv'
  <2>1. /\ t \in Threads /\ pc' = [pc EXCEPT ![t] = "scan"]
        /\ UNCHANGED <<diskVars, index, job, asked>>
    BY <1>2 DEF BeginScan, Threads
  <2>2. pc'[t] = "scan" /\ \A s \in Threads \ {t} : pc'[s] = pc[s]
    BY <2>1 DEF IInv, TypeOK
  <2>3. job'[t].at <= clock /\ JobIsRight(t)'
    BY <2>1, <2>2 DEF IInv, InThePast, JobIsRight
  <2> QED BY <1>0, <2>1, <2>2, <2>3, QuietStep DEF index
<1>3. ASSUME NEW t \in Sharers, Share(t) PROVE IInv'
  <2>1. PICK p \in Paths : job' = [job EXCEPT ![t] = ToHash(p)]
    BY <1>3 DEF Share
  <2>2. /\ t \in Threads /\ pc' = [pc EXCEPT ![t] = "hash"]
        /\ UNCHANGED <<diskVars, index, asked>>
    BY <1>3 DEF Share, Threads
  <2>3. /\ pc'[t] = "hash" /\ job'[t] = ToHash(p)
        /\ \A s \in Threads \ {t} : pc'[s] = pc[s] /\ job'[s] = job[s]
    BY <2>1, <2>2 DEF IInv, TypeOK
  <2>4. job'[t].at <= clock /\ JobIsRight(t)'
    BY <2>3, ToHashIsAJob DEF IInv, TypeOK, JobIsRight
  <2> QED BY <1>0, <2>2, <2>3, <2>4, QuietStep DEF index
<1>4. ASSUME NEW t \in Downloaders, Deliver(t) PROVE IInv'
  <2>1. PICK p \in Paths, c \in Contents :
          /\ Change(p, c)
          /\ job' = [job EXCEPT ![t] =
                       [path |-> p, hash |-> c, size |-> Size[c], at |-> clock + 1]]
    BY <1>4 DEF Deliver
  <2> DEFINE j == [path |-> p, hash |-> c, size |-> Size[c], at |-> clock + 1]
  <2>2. t \in Threads /\ pc' = [pc EXCEPT ![t] = "register"] /\ UNCHANGED <<index, asked>>
    BY <1>4 DEF Deliver, Threads
  <2>3. j.path = p /\ j.hash = c /\ j.size = Size[c] /\ j.at = clock + 1
    OBVIOUS
  <2>4. job' = [job EXCEPT ![t] = j]
    BY <2>1
  <2> HIDE DEF j
  <2>5. /\ pc'[t] = "register" /\ job'[t] = j
        /\ \A s \in Threads \ {t} : pc'[s] = pc[s] /\ job'[s] = job[s]
    BY <2>2, <2>4 DEF IInv, TypeOK
  <2>6. disk'[p] = c /\ clock' = clock + 1 /\ clock \in Nat
    BY <2>1, ChangeTypes DEF IInv, TypeOK
  <2>7. job'[t].at <= clock' /\ JobIsRight(t)'
    BY <2>3, <2>5, <2>6 DEF JobIsRight
  <2>8. \A s \in Threads : job'[s].at <= clock' /\ JobIsRight(s)'
    BY <2>1, <2>2, <2>5, <2>7, ChangeKeeps
  <2>9. InThePast'
    BY <2>1, <2>2, <2>8, ChangeKeeps DEF InThePast, index
  <2>10. RecordsAreRight'
    BY <2>1, <2>2, <2>8, ChangeKeeps DEF RecordsAreRight, index
  <2> QED BY <1>0, <2>9, <2>10 DEF IInv
<1>5. ASSUME NEW t \in Threads, Step(t) PROVE IInv'
  BY <1>0, <1>5, StepRight
<1>6. CASE Ask
  <2>1. PICK h \in Contents : entries[h] # NoEntry /\ asked' = [hash |-> h, entry |-> entries[h]]
    BY <1>6 DEF Ask
  <2>2. pc' = [pc EXCEPT !["io"] = "read"] /\ UNCHANGED <<diskVars, index, job>>
    BY <1>6 DEF Ask
  <2>3. pc'["io"] = "read" /\ \A s \in Threads \ {"io"} : pc'[s] = pc[s]
    BY <2>2, IoIsAThread DEF IInv, TypeOK
  <2>4. job'["io"].at <= clock /\ JobIsRight("io")'
    BY <2>2, <2>3, IoIsAThread DEF IInv, InThePast, JobIsRight
  <2>5. asked'.entry.at <= clock /\ EntryIsRight(asked'.entry, asked'.hash)
    BY <2>1 DEF IInv, InThePast, RecordsAreRight
  <2> QED BY <1>0, <2>2, <2>3, <2>4, <2>5, IoIsAThread, QuietStep DEF index
<1>7. CASE Respond
  <2>1. /\ pc' = [pc EXCEPT !["io"] = "idle"] /\ asked' = NoEntry
        /\ UNCHANGED <<diskVars, index, job>>
    BY <1>7 DEF Respond
  <2>2. pc'["io"] = "idle" /\ \A s \in Threads \ {"io"} : pc'[s] = pc[s]
    BY <2>1, IoIsAThread DEF IInv, TypeOK
  <2>3. job'["io"].at <= clock /\ JobIsRight("io")'
    BY <2>1, <2>2, IoIsAThread DEF IInv, InThePast, JobIsRight
  <2> QED BY <1>0, <2>1, <2>2, <2>3, IoIsAThread, QuietStep DEF index
<1>8. CASE UNCHANGED vars
  BY <1>0, <1>8 DEF vars, diskVars, index, IInv, InThePast, RecordsAreRight, JobIsRight,
                    EntryIsRight, Untouched
<1> QED BY <1>1, <1>2, <1>3, <1>4, <1>5, <1>6, <1>7, <1>8 DEF Next

LEMMA RightIsServed == IInv => ServedAsAsked
<1> SUFFICES ASSUME IInv PROVE ServedAsAsked
  OBVIOUS
<1>1. \A h \in Contents : entries[h] # NoEntry /\ Untouched(entries[h]) =>
        entries[h].size = Size[h]
  BY DEF IInv, RecordsAreRight, EntryIsRight
<1>2. ASSUME asked # NoEntry, Untouched(asked.entry), NEW i \in 0 .. Size[asked.hash] - 1
      PROVE  Reply(asked.entry, i) = asked.hash
  <2>1. disk[asked.entry.path] = asked.hash
    BY <1>2 DEF IInv, RecordsAreRight, EntryIsRight
  <2>2. asked.hash \in Contents
    BY <1>2, RequestTypes DEF IInv
  <2>3. asked.hash # NoFile /\ ~(i >= Size[asked.hash])
    BY <1>2, <2>2
  <2> QED BY <2>1, <2>3 DEF Reply
<1> QED BY <1>1, <1>2 DEF ServedAsAsked

\* Whatever scans, shares and downloads register, and wherever they overtake
\* each other, a file left alone is served as the content it is indexed under.
THEOREM AskedIsServed == Spec => []ServedAsAsked
<1> QED BY InitRight, NextRight, RightIsServed, PTL DEF Spec

-----------------------------------------------------------------------------
\* Threads that are about to record what a file was before its last change.
Stale(p) == {t \in Threads : /\ pc[t] \in {"measure", "register"} /\ job[t].path = p
                             /\ ~Untouched(job[t])}

\* While a file is left alone nobody begins to record an older state of it, and once
\* those under way are through, the index goes on to know it and to list its content,
\* whatever is registered for other paths with that content or another.
RightStaysRight ==
  [][\A p \in Paths : changed'[p] = changed[p] =>
       /\ Stale(p)' \subseteq Stale(p)
       /\ Stale(p) = {} /\ disk[p] # NoFile /\ hashAt[p] = disk[p] =>
            /\ hashAt'[p] = disk'[p]
            /\ \E q \in Paths : disk'[p] \in ListedAt(q)']_vars

\* A step that registers nothing and takes no older state of p into its hands.
LEMMA RightKept ==
  ASSUME TypeOK, TypeOK', NEW p \in Paths, disk'[p] = disk[p], changed'[p] = changed[p],
         NEW t \in Threads, \A s \in Threads \ {t} : pc'[s] = pc[s] /\ job'[s] = job[s],
         t \in Stale(p)' => t \in Stale(p),
         hashAt'[p] = hashAt[p] \/ (disk[p] # NoFile /\ hashAt'[p] = disk[p]) \/ t \in Stale(p)
  PROVE  /\ Stale(p)' \subseteq Stale(p)
         /\ Stale(p) = {} /\ disk[p] # NoFile /\ hashAt[p] = disk[p] =>
              /\ hashAt'[p] = disk'[p]
              /\ \E q \in Paths : disk'[p] \in ListedAt(q)'
<1>1. Stale(p)' \subseteq Stale(p)
  BY DEF Stale, Untouched
<1>2. ASSUME Stale(p) = {}, disk[p] # NoFile, hashAt[p] = disk[p]
      PROVE  /\ hashAt'[p] = disk'[p]
             /\ \E q \in Paths : disk'[p] \in ListedAt(q)'
  <2>1. hashAt'[p] = disk'[p]
    BY <1>2
  <2>2. disk'[p] \in Contents /\ entries'[disk'[p]] # NoEntry
    BY <1>2, <2>1 DEF TypeOK
  <2>3. entries'[disk'[p]] \in Entry
    BY <2>2 DEF TypeOK
  <2>4. entries'[disk'[p]].path \in Paths
    BY <2>3 DEF Entry
  <2> QED BY <2>1, <2>2, <2>4 DEF ListedAt
<1> QED BY <1>1, <1>2

LEMMA RightStep ==
  ASSUME IInv, TypeOK', [Next]_vars, NEW p \in Paths, changed'[p] = changed[p]
  PROVE  /\ Stale(p)' \subseteq Stale(p)
         /\ Stale(p) = {} /\ disk[p] # NoFile /\ hashAt[p] = disk[p] =>
              /\ hashAt'[p] = disk'[p]
              /\ \E q \in Paths : disk'[p] \in ListedAt(q)'
<1> DEFINE Goal == /\ Stale(p)' \subseteq Stale(p)
                   /\ Stale(p) = {} /\ disk[p] # NoFile /\ hashAt[p] = disk[p] =>
                        /\ hashAt'[p] = disk'[p]
                        /\ \E q \in Paths : disk'[p] \in ListedAt(q)'
<1>0. TypeOK /\ InThePast /\ RecordsAreRight
  BY DEF IInv
<1> USE DEF Goto
<1>c. ASSUME NEW q \in Paths, NEW c \in Contents \cup {NoFile}, Change(q, c)
      PROVE  q # p /\ disk'[p] = disk[p]
  <2>1. changed'[q] = clock + 1 /\ clock \in Nat /\ changed[p] \in Nat /\ changed[p] <= clock
    BY <1>0, <1>c, ChangeTypes DEF TypeOK, InThePast
  <2>2. q # p
    BY <2>1
  <2> QED BY <1>0, <1>c, <2>2, ChangeTypes
\* Steps that leave a thread with nothing in its hands.
<1>q. ASSUME NEW t \in Threads, NEW l \in {"idle", "scan", "hash", "read"},
             pc' = [pc EXCEPT ![t] = l], disk'[p] = disk[p], hashAt' = hashAt,
             \A s \in Threads \ {t} : job'[s] = job[s]
      PROVE  Goal
  <2>1. pc'[t] = l /\ \A s \in Threads \ {t} : pc'[s] = pc[s]
    BY <1>0, <1>q DEF TypeOK
  <2>2. t \notin Stale(p)'
    BY <2>1 DEF Stale
  <2> QED BY <1>0, <1>q, <2>1, <2>2, RightKept
<1>g. ASSUME NEW t \in Threads, GoOn(t), disk'[p] = disk[p], hashAt' = hashAt PROVE Goal
  <2>1. \A s \in Threads \ {t} : job'[s] = job[s]
    BY <1>0, <1>g DEF GoOn, TypeOK
  <2> QED BY <1>g, <1>q, <2>1 DEF GoOn
<1>1. CASE UNCHANGED <<pc, job, hashAt>> /\ disk'[p] = disk[p]
  <2>1. "io" \in Stale(p)' => "io" \in Stale(p)
    BY <1>1 DEF Stale, Untouched
  <2> QED BY <1>0, <1>1, <2>1, IoIsAThread, RightKept
<1>2. CASE UNCHANGED vars
  BY <1>1, <1>2 DEF vars, diskVars, index
<1>3. CASE Edit
  <2>1. PICK q \in Paths, c \in Contents \cup {NoFile} : Change(q, c)
    BY <1>3 DEF Edit
  <2> QED BY <1>1, <1>3, <1>c, <2>1 DEF Edit, index
<1>4. ASSUME NEW t \in Threads, BeginScan(t) \/ Share(t) \/ Visit(t) \/ EndScan(t) PROVE Goal
  <2>1. UNCHANGED <<diskVars, index>>
    BY <1>4 DEF BeginScan, Share, Visit, EndScan
  <2>2. \A s \in Threads \ {t} : job'[s] = job[s]
    BY <1>0, <1>4 DEF BeginScan, Share, Visit, EndScan, TypeOK
  <2>3. \/ \E l \in {"idle", "scan", "hash", "read"} : pc' = [pc EXCEPT ![t] = l]
        \/ UNCHANGED <<pc, job>>
    BY <1>4 DEF BeginScan, Share, Visit, EndScan
  <2> QED BY <1>1, <1>q, <2>1, <2>2, <2>3 DEF diskVars, index
<1>5. ASSUME NEW t \in Threads, Deliver(t) PROVE Goal
  <2>1. PICK q \in Paths, c \in Contents :
          /\ Change(q, c)
          /\ job' = [job EXCEPT ![t] = [path |-> q, hash |-> c, size |-> Size[c], at |-> clock + 1]]
    BY <1>5 DEF Deliver
  <2> DEFINE j == [path |-> q, hash |-> c, size |-> Size[c], at |-> clock + 1]
  <2>2. j.path = q
    OBVIOUS
  <2>3. job' = [job EXCEPT ![t] = j] /\ pc' = [pc EXCEPT ![t] = "register"] /\ hashAt' = hashAt
    BY <1>5, <2>1 DEF Deliver, index
  <2>4. q # p /\ disk'[p] = disk[p]
    BY <1>c, <2>1
  <2> HIDE DEF j
  <2>5. job'[t] = j /\ \A s \in Threads \ {t} : pc'[s] = pc[s] /\ job'[s] = job[s]
    BY <1>0, <2>3 DEF TypeOK
  <2>6. t \notin Stale(p)'
    BY <2>2, <2>4, <2>5 DEF Stale
  <2> QED BY <1>0, <2>3, <2>4, <2>5, <2>6, RightKept
<1>6. ASSUME NEW t \in Threads, HashFile(t) PROVE Goal
  <2> DEFINE q == job[t].path
             j == [path |-> q, hash |-> disk[q], size |-> 0, at |-> changed[q]]
  <2>1. UNCHANGED <<disk, changed, hashAt>>
    BY <1>6 DEF HashFile, diskVars, index
  <2>2. CASE GoOn(t)
    BY <1>g, <2>1, <2>2
  <2>3. CASE job' = [job EXCEPT ![t] = j] /\ pc' = [pc EXCEPT ![t] = "measure"]
    <3>1. j.path = q /\ j.at = changed[q]
      OBVIOUS
    <3> HIDE DEF j
    <3>2. job'[t] = j /\ \A s \in Threads \ {t} : pc'[s] = pc[s] /\ job'[s] = job[s]
      BY <1>0, <2>3 DEF TypeOK
    <3>3. t \notin Stale(p)'
      BY <2>1, <3>1, <3>2 DEF Stale, Untouched
    <3> QED BY <1>0, <2>1, <3>2, <3>3, RightKept
  <2> QED BY <1>6, <2>2, <2>3 DEF HashFile
<1>7. ASSUME NEW t \in Threads, Measure(t) PROVE Goal
  <2> DEFINE q == job[t].path
             j == [path |-> q, hash |-> job[t].hash, size |-> Size[disk[q]], at |-> job[t].at]
  <2>1. pc[t] = "measure" /\ UNCHANGED <<disk, changed, hashAt>>
    BY <1>7 DEF Measure, diskVars, index
  <2>2. CASE GoOn(t)
    BY <1>g, <2>1, <2>2
  <2>3. CASE job' = [job EXCEPT ![t] = j] /\ pc' = [pc EXCEPT ![t] = "register"]
    <3>1. j.path = q /\ j.at = job[t].at
      OBVIOUS
    <3> HIDE DEF j
    <3>2. job'[t] = j /\ \A s \in Threads \ {t} : pc'[s] = pc[s] /\ job'[s] = job[s]
      BY <1>0, <2>3 DEF TypeOK
    <3>3. t \in Stale(p)' => t \in Stale(p)
      BY <2>1, <3>1, <3>2 DEF Stale, Untouched
    <3> QED BY <1>0, <2>1, <3>2, <3>3, RightKept
  <2> QED BY <1>7, <2>2, <2>3 DEF Measure
<1>8. ASSUME NEW t \in Threads, Register(t) PROVE Goal
  <2>1. /\ pc[t] = "register" /\ UNCHANGED <<disk, changed>> /\ GoOn(t)
        /\ hashAt' = [hashAt EXCEPT ![job[t].path] = job[t].hash]
    BY <1>8 DEF Register, diskVars
  <2>2. /\ pc'[t] \in {"scan", "idle"}
        /\ \A s \in Threads \ {t} : pc'[s] = pc[s] /\ job'[s] = job[s]
    BY <1>0, <2>1 DEF GoOn, TypeOK
  <2>3. t \notin Stale(p)'
    BY <2>2 DEF Stale
  <2>4. job[t].path \in Paths /\ job[t].hash \in Contents
    BY <1>0, <2>1 DEF TypeOK
  <2>5. hashAt'[p] = hashAt[p] \/ (disk[p] # NoFile /\ hashAt'[p] = disk[p]) \/ t \in Stale(p)
    <3>1. CASE job[t].path # p
      BY <1>0, <2>1, <3>1 DEF TypeOK
    <3>2. CASE job[t].path = p /\ ~Untouched(job[t])
      BY <2>1, <3>2 DEF Stale
    <3>3. CASE job[t].path = p /\ Untouched(job[t])
      <4>1. disk[p] = job[t].hash
        BY <1>0, <2>1, <3>3 DEF RecordsAreRight, JobIsRight
      <4>2. hashAt'[p] = job[t].hash
        BY <1>0, <2>1, <3>3 DEF TypeOK
      <4> QED BY <2>4, <4>1, <4>2
    <3> QED BY <3>1, <3>2, <3>3
  <2> QED BY <1>0, <2>1, <2>2, <2>3, <2>5, RightKept
<1>9. CASE Ask \/ Respond
  <2>1. UNCHANGED <<diskVars, index, job>>
    BY <1>9 DEF Ask, Respond
  <2>2. \E l \in {"idle", "read"} : pc' = [pc EXCEPT !["io"] = l]
    BY <1>9 DEF Ask, Respond
  <2> QED BY <1>q, <2>1, <2>2, IoIsAThread DEF diskVars, index
<1>10. Goal
  BY <1>2, <1>3, <1>4, <1>5, <1>6, <1>7, <1>8, <1>9 DEF Next, Step, Threads
<1> QED BY <1>10

\* The index of a file that is left alone only gets better.
THEOREM IndexOnlyImproves == Spec => RightStaysRight
<1>1. Spec => []IInv
  BY InitRight, NextRight, PTL DEF Spec
<1>2. IInv /\ IInv' /\ [Next]_vars =>
        [\A p \in Paths : changed'[p] = changed[p] =>
           /\ Stale(p)' \subseteq Stale(p)
           /\ Stale(p) = {} /\ disk[p] # NoFile /\ hashAt[p] = disk[p] =>
                /\ hashAt'[p] = disk'[p]
                /\ \E q \in Paths : disk'[p] \in ListedAt(q)']_vars
  BY RightStep DEF IInv
<1> QED BY <1>1, <1>2, PTL DEF Spec, RightStaysRight

-----------------------------------------------------------------------------
\* How many steps a thread has left at most until it is idle: up to four for each
\* file its scan has still to come to, and those for the file in its hands.
Scanning(scans, S) == IF scans THEN 4 * Cardinality(S) + 1 ELSE 0
Handling(l) == CASE l \in {"idle", "scan"} -> 0
                 [] l \in {"register", "read"} -> 1
                 [] l = "measure" -> 2
                 [] l = "hash" -> 3
Rank(t) == Scanning(owner = t, todo[t]) + Handling(pc[t])

\* No step of another thread or of the user sets a thread back, and each step of its
\* own brings it nearer to its end, whatever happens to the files it is at.
ThreadsGetThrough ==
  [][\A t \in Threads : \/ pc[t] = "idle"
                        \/ UNCHANGED <<pc[t], job[t], todo[t], Rank(t)>>
                        \/ Rank(t)' < Rank(t)]_vars

LEMMA ScanningValues ==
  /\ \A S \in SUBSET Paths :
       /\ Cardinality(S) \in Nat /\ Cardinality(S) <= Cardinality(Paths)
       /\ Scanning(TRUE, S) = 4 * Cardinality(S) + 1
       /\ \A p \in S : Scanning(TRUE, S \ {p}) = Scanning(TRUE, S) - 4
  /\ \A S : Scanning(FALSE, S) = 0
<1>1. ASSUME NEW S \in SUBSET Paths
      PROVE  /\ Cardinality(S) \in Nat /\ Cardinality(S) <= Cardinality(Paths)
             /\ \A p \in S : Cardinality(S \ {p}) = Cardinality(S) - 1
  <2>1. IsFiniteSet(S) /\ Cardinality(S) <= Cardinality(Paths)
    BY FS_Subset
  <2> QED BY <2>1, FS_CardinalityType, FS_RemoveElement
<1>2. ASSUME NEW S \in SUBSET Paths, NEW p \in S
      PROVE  Scanning(TRUE, S \ {p}) = Scanning(TRUE, S) - 4
  <2>1. S \ {p} \in SUBSET Paths
    OBVIOUS
  <2>2. Cardinality(S \ {p}) = Cardinality(S) - 1 /\ Cardinality(S) \in Nat
    BY <1>1
  <2> QED BY <2>2 DEF Scanning
<1> QED BY <1>1, <1>2 DEF Scanning

LEMMA HandlingValues ==
  /\ Handling("idle") = 0 /\ Handling("scan") = 0 /\ Handling("register") = 1
  /\ Handling("read") = 1 /\ Handling("measure") = 2 /\ Handling("hash") = 3
BY DEF Handling

LEMMA StepLowersRank ==
  ASSUME TypeOK, TypeOK', NEW t \in Threads, Step(t) \/ (t = "io" /\ Respond)
  PROVE  Rank(t)' < Rank(t)
<1> DEFINE scans == Scanning(owner = t, todo[t])
           then == Scanning(owner' = t, todo'[t])
           doing == Handling(pc[t])
           next == Handling(pc'[t])
<1>0. Rank(t) = scans + doing /\ Rank(t)' = then + next
  BY DEF Rank
<1>1. /\ scans \in Nat /\ then \in Nat
      /\ doing \in 0..3 /\ next \in 0..3
  <2>1. todo[t] \in SUBSET Paths /\ todo'[t] \in SUBSET Paths
    BY DEF TypeOK
  <2>2. /\ pc[t] \in {"idle", "scan", "hash", "measure", "register", "read"}
        /\ pc'[t] \in {"idle", "scan", "hash", "measure", "register", "read"}
    BY DEF TypeOK
  <2>3. Cardinality(todo[t]) \in Nat /\ Cardinality(todo'[t]) \in Nat
    BY <2>1, ScanningValues
  <2>4. scans \in Nat /\ then \in Nat
    BY <2>3 DEF Scanning
  <2>5. doing \in 0..3 /\ next \in 0..3
    BY <2>2, HandlingValues
  <2> QED BY <2>4, <2>5
<1>d. /\ pc[t] = "scan" => doing = 0
      /\ pc[t] = "hash" => doing = 3
      /\ pc[t] = "measure" => doing = 2
      /\ pc[t] \in {"register", "read"} => doing = 1
  BY HandlingValues
<1>n. /\ pc'[t] \in {"idle", "scan"} => next = 0
      /\ pc'[t] = "measure" => next = 2
      /\ pc'[t] = "register" => next = 1
  BY HandlingValues
<1> USE DEF TypeOK, Goto
<1>g. ASSUME GoOn(t), UNCHANGED <<owner, todo>>, doing > 0 PROVE then + next < scans + doing
  <2>1. pc'[t] \in {"idle", "scan"} /\ then = scans
    BY <1>g DEF GoOn
  <2> HIDE DEF scans, then, doing, next
  <2> QED BY <1>1, <1>n, <1>g, <2>1
<1>2. CASE Visit(t)
  <2>1. PICK p \in todo[t] : todo'[t] = todo[t] \ {p}
    BY <1>2 DEF Visit
  <2>2. (owner = t) = TRUE /\ (owner' = t) = TRUE /\ todo[t] \in SUBSET Paths
    BY <1>2 DEF Visit
  <2>3. scans = Scanning(TRUE, todo[t]) /\ then = Scanning(TRUE, todo[t] \ {p})
    BY <2>1, <2>2
  <2>6. then = scans - 4
    BY <2>1, <2>2, <2>3, ScanningValues
  <2>4. doing = 0
    BY <1>2, <1>d DEF Visit
  <2> HIDE DEF scans, then, doing, next
  <2>5. then + next < scans + doing
    BY <1>1, <2>6, <2>4
  <2> QED BY <1>0, <2>5
<1>3. CASE EndScan(t)
  <2>1. owner = t /\ owner' # t /\ pc'[t] = "idle" /\ pc[t] = "scan" /\ todo[t] \in SUBSET Paths
    BY <1>3 DEF EndScan
  <2>2. scans > 0 /\ then = 0
    BY <2>1, ScanningValues DEF Scanning
  <2>3. doing = 0 /\ next = 0
    BY <2>1, <1>d, <1>n
  <2> HIDE DEF scans, then, doing, next
  <2>4. then + next < scans + doing
    BY <1>1, <2>2, <2>3
  <2> QED BY <1>0, <2>4
<1>4. CASE HashFile(t)
  <2>1. pc[t] = "hash" /\ UNCHANGED <<owner, todo>> /\ then = scans
    BY <1>4 DEF HashFile
  <2>2. CASE GoOn(t)
    BY <1>0, <1>d, <1>g, <2>1, <2>2
  <2>3. CASE pc'[t] = "measure"
    <3>1. doing = 3 /\ next = 2
      BY <1>d, <1>n, <2>1, <2>3
    <3> HIDE DEF scans, then, doing, next
    <3>2. then + next < scans + doing
      BY <1>1, <2>1, <3>1
    <3> QED BY <1>0, <3>2
  <2> QED BY <1>4, <2>2, <2>3 DEF HashFile
<1>5. CASE Measure(t)
  <2>1. pc[t] = "measure" /\ UNCHANGED <<owner, todo>> /\ then = scans
    BY <1>5 DEF Measure
  <2>2. CASE GoOn(t)
    BY <1>0, <1>d, <1>g, <2>1, <2>2
  <2>3. CASE pc'[t] = "register"
    <3>1. doing = 2 /\ next = 1
      BY <1>d, <1>n, <2>1, <2>3
    <3> HIDE DEF scans, then, doing, next
    <3>2. then + next < scans + doing
      BY <1>1, <2>1, <3>1
    <3> QED BY <1>0, <3>2
  <2> QED BY <1>5, <2>2, <2>3 DEF Measure
<1>6. CASE Register(t)
  <2>1. pc[t] = "register" /\ GoOn(t) /\ UNCHANGED <<owner, todo>>
    BY <1>6 DEF Register
  <2> QED BY <1>0, <1>d, <1>g, <2>1
<1>7. CASE t = "io" /\ Respond
  <2>1. pc[t] = "read" /\ pc'[t] = "idle" /\ then = scans
    BY <1>7 DEF Respond
  <2>2. doing = 1 /\ next = 0
    BY <1>d, <1>n, <2>1
  <2> HIDE DEF scans, then, doing, next
  <2>3. then + next < scans + doing
    BY <1>1, <2>1, <2>2
  <2> QED BY <1>0, <2>3
<1> QED BY <1>2, <1>3, <1>4, <1>5, <1>6, <1>7 DEF Step

\* The steps of the others.
LEMMA OthersKeepRank ==
  ASSUME TypeOK, [Next]_vars, NEW t \in Threads, pc[t] # "idle",
         ~Step(t), ~(t = "io" /\ Respond)
  PROVE  UNCHANGED <<pc[t], job[t], todo[t], Rank(t)>>
<1> USE DEF TypeOK, Goto
<1>1. \/ UNCHANGED <<owner, pc, job, todo>>
      \/ \E u \in Threads \ {t} :
           \/ BeginScan(u) \/ Share(u) \/ Deliver(u) \/ Step(u)
           \/ u = "io" /\ (Ask \/ Respond)
  BY IoIsAThread DEF Next, Edit, vars, BeginScan, Share, Deliver, Ask, Threads
<1>2. ASSUME NEW u \in Threads \ {t},
             \/ BeginScan(u) \/ Share(u) \/ Deliver(u) \/ Step(u)
             \/ u = "io" /\ (Ask \/ Respond)
      PROVE  /\ UNCHANGED <<pc[t], job[t], todo[t]>>
             /\ (owner' = t) = (owner = t)
  <2>0. ASSUME GoOn(u) PROVE UNCHANGED <<pc[t], job[t]>>
    BY <2>0 DEF GoOn
  <2>1. CASE BeginScan(u) \/ Share(u) \/ Deliver(u) \/ Visit(u) \/ EndScan(u)
    BY <2>1 DEF BeginScan, Share, Deliver, Visit, EndScan
  <2>2. CASE HashFile(u) \/ Measure(u) \/ Register(u)
    BY <2>0, <2>2 DEF HashFile, Measure, Register
  <2>3. CASE u = "io" /\ (Ask \/ Respond)
    BY <2>3 DEF Ask, Respond
  <2> QED BY <1>2, <2>1, <2>2, <2>3 DEF Step
<1> QED BY <1>1, <1>2 DEF Rank

\* Scans, registrations and responses take boundedly many steps once they have begun.
THEOREM ThreadsTakeBoundedlyManySteps ==
  Spec => /\ ThreadsGetThrough
          /\ [](\A t \in Threads : Rank(t) \in 0..(4 * Cardinality(Paths) + 4))
<1>1. TypeOK /\ TypeOK' /\ [Next]_vars =>
        [\A t \in Threads : \/ pc[t] = "idle"
                            \/ UNCHANGED <<pc[t], job[t], todo[t], Rank(t)>>
                            \/ Rank(t)' < Rank(t)]_vars
  BY StepLowersRank, OthersKeepRank
<1>2. ASSUME TypeOK, NEW t \in Threads PROVE Rank(t) \in 0..(4 * Cardinality(Paths) + 4)
  <2> DEFINE scans == Scanning(owner = t, todo[t])
             doing == Handling(pc[t])
             n == Cardinality(todo[t])
             m == Cardinality(Paths)
  <2>1. /\ todo[t] \in SUBSET Paths
        /\ pc[t] \in {"idle", "scan", "hash", "measure", "register", "read"}
    BY <1>2 DEF TypeOK
  <2>2. n \in Nat /\ m \in Nat /\ n <= m /\ scans \in {0, 4 * n + 1} /\ doing \in 0..3
    BY <2>1, ScanningValues, HandlingValues DEF Scanning
  <2>3. Rank(t) = scans + doing
    BY DEF Rank
  <2> HIDE DEF scans, doing, n, m
  <2>4. Rank(t) \in 0..(4 * m + 4)
    BY <2>2, <2>3
  <2> QED BY <2>4 DEF m
<1>3. TypeOK => \A t \in Threads : Rank(t) \in 0..(4 * Cardinality(Paths) + 4)
  BY <1>2
<1> QED BY <1>1, <1>3, TypeCorrect, PTL DEF Spec, ThreadsGetThrough
=============================================================================
