------------------------ MODULE SwarmDownloadProofs ------------------------
(***************************************************************************)
(* Safety of SwarmDownload for every number of chunks, workers and peers.  *)
(***************************************************************************)
EXTENDS SwarmDownload, FiniteSetTheorems, SequenceTheorems, WellFoundedInduction, TLAPS

\* An order of a finite set is a sequence of its elements.
LEMMA OrdersAreSequences ==
  ASSUME NEW S, IsFiniteSet(S), S # {}, NEW q \in Orders(S)
  PROVE  /\ q \in Seq(S)
         /\ Len(q) = Cardinality(S)
         /\ Len(q) > 0
         /\ \A i, j \in 1..Len(q) : q[i] = q[j] => i = j
<1>1. Cardinality(S) \in Nat /\ Cardinality(S) # 0
  BY FS_CardinalityType, FS_EmptySet
<1>2. q \in [1..Cardinality(S) -> S]
  BY DEF Orders
<1>3. q \in Seq(S) /\ Len(q) = Cardinality(S)
  BY <1>1, <1>2, SeqDef
<1>4. QED
  BY <1>1, <1>2, <1>3 DEF Orders

LEMMA WorkerCountType == WorkerCount \in Nat /\ WorkerCount > 0
<1>1. Cardinality(InitialProviders) \in Nat /\ Cardinality(InitialProviders) # 0
  BY SwarmAssumption, FS_CardinalityType, FS_EmptySet
<1>2. QED
  BY <1>1, SwarmAssumption DEF WorkerCount, AtLeast

LEMMA LimitType == PerPeerLimit \in Nat /\ PerPeerLimit > 0
  BY SwarmAssumption DEF PerPeerLimit, AtLeast

-----------------------------------------------------------------------------
\* What notify_all does to a worker: it moves sleepers to the test they were
\* waiting on, and nobody else.
LEMMA WakeEffect ==
  ASSUME NEW pcs \in [Workers -> Locations]
  PROVE  /\ NotifyBoth(pcs) \in [Workers -> Locations]
         /\ NotifyCapacity(pcs) \in [Workers -> Locations]
         /\ \A v \in Workers :
              /\ NotifyCapacity(pcs)[v] = IF pcs[v] = "capacityWait" THEN "acquire" ELSE pcs[v]
              /\ NotifyBoth(pcs)[v] = IF pcs[v] = "capacityWait" THEN "acquire"
                                      ELSE IF pcs[v] = "jobWait" THEN "take" ELSE pcs[v]
  BY DEF NotifyBoth, NotifyCapacity, NotifyJobs, Wake, Locations

\* The effect of requeue_job, expanded once for the three places that call it.
LEMMA RequeueEffect ==
  ASSUME TypeOK, NEW w \in Workers, NEW reason \in Reasons, NEW fatal \in BOOLEAN,
         NEW to \in {"take", "done"}, RequeueJob(w, reason, fatal, to)
  PROVE  /\ jobQueue' \in Seq(Chunks)
         /\ activeJobs' \in Nat /\ completedJobs' = completedJobs
         /\ failure' \in BOOLEAN /\ shuttingDown' \in BOOLEAN /\ failureReason' \in Reasons
         /\ failure' = (failure \/ fatal)
         /\ shuttingDown' = (shuttingDown \/ fatal)
         /\ pc' \in [Workers -> Locations]
         /\ pc'[w] = to
         /\ \A v \in Workers \ {w} :
              pc'[v] = IF pc[v] = "capacityWait" THEN "acquire"
                       ELSE IF pc[v] = "jobWait" THEN "take" ELSE pc[v]
<1> DEFINE p1 == [pc EXCEPT ![w] = to]
<1>1. p1 \in [Workers -> Locations] /\ p1[w] = to /\ \A v \in Workers \ {w} : p1[v] = pc[v]
  BY DEF TypeOK, Locations
<1>2. pc' = NotifyBoth(p1)
  BY DEF RequeueJob
<1>3. /\ pc' \in [Workers -> Locations]
      /\ pc'[w] = to
      /\ \A v \in Workers \ {w} :
           pc'[v] = IF pc[v] = "capacityWait" THEN "acquire"
                    ELSE IF pc[v] = "jobWait" THEN "take" ELSE pc[v]
  <2> HIDE DEF p1
  <2> QED BY <1>1, <1>2, WakeEffect
<1>4. job[w] \in Chunks /\ jobQueue \in Seq(Chunks)
  BY DEF TypeOK
<1>5. jobQueue' \in Seq(Chunks)
  <2>1. Append(jobQueue, job[w]) \in Seq(Chunks) /\ <<>> \in Seq(Chunks)
    BY <1>4, EmptySeq
  <2>2. jobQueue' = <<>> \/ jobQueue' = Append(jobQueue, job[w])
    BY DEF RequeueJob
  <2> QED
    BY <2>1, <2>2
<1>6. failureReason' \in Reasons
  BY DEF RequeueJob, TypeOK
<1>7. activeJobs' \in Nat
  <2>1. activeJobs \in Nat /\ activeJobs' = IF activeJobs > 0 THEN activeJobs - 1 ELSE 0
    BY DEF RequeueJob, TypeOK
  <2> QED
    BY <2>1
<1> QED
  BY <1>3, <1>5, <1>6, <1>7 DEF RequeueJob, TypeOK

-----------------------------------------------------------------------------
LEMMA InitType == Init => TypeOK
<1> SUFFICES ASSUME Init PROVE TypeOK
  OBVIOUS
<1>1. jobQueue \in Seq(Chunks)
  BY SwarmAssumption, OrdersAreSequences DEF Init
<1>2. peerStates \in Seq(InitialProviders) /\ Len(peerStates) > 0
  BY SwarmAssumption, OrdersAreSequences DEF Init
<1>3. peerStates \in Seq(Peers) /\ peerStates # <<>>
  BY <1>2, SeqMonotonic, EmptySeq DEF Peers
<1>4. job \in [Workers -> Chunks] /\ peer \in [Workers -> Peers]
  BY SwarmAssumption DEF Init, Peers
<1>5. nextPeerIndex \in 0..(Len(peerStates) - 1)
  <2>1. Len(peerStates) \in Nat /\ nextPeerIndex = 0
    BY <1>2, LenProperties DEF Init
  <2> QED
    BY <1>2, <2>1
<1>6. /\ activeJobs \in Nat /\ completedJobs \in Nat
      /\ shuttingDown \in BOOLEAN /\ failure \in BOOLEAN
      /\ failureReason \in Reasons /\ verdict \in {"running", "succeeded", "failed"}
  BY DEF Init, Reasons
<1>7. /\ attempts \in [Chunks -> Nat] /\ chunkStates \in [Chunks -> {0, 1}]
      /\ outstanding \in [Peers -> Nat]
  BY DEF Init
<1>8. pc \in [Workers -> Locations]
  BY DEF Init, Locations
<1> QED
  BY <1>1, <1>3, <1>4, <1>5, <1>6, <1>7, <1>8 DEF TypeOK

LEMMA StepType == TypeOK /\ [Next]_vars => TypeOK'
<1> SUFFICES ASSUME TypeOK, [Next]_vars PROVE TypeOK'
  OBVIOUS
<1> USE DEF jobVars, peerVars
<1>1. ASSUME NEW w \in Workers, TakeJob(w) PROVE TypeOK'
  <2>1. pc' \in [Workers -> Locations]
    BY <1>1 DEF TakeJob, TypeOK, Locations
  <2>2. jobQueue' \in Seq(Chunks) /\ job' \in [Workers -> Chunks]
    <3>1. CASE UNCHANGED <<jobQueue, job>>
      BY <3>1 DEF TypeOK
    <3>2. CASE /\ jobQueue # <<>>
               /\ jobQueue' = Tail(jobQueue)
               /\ job' = [job EXCEPT ![w] = Head(jobQueue)]
      <4>1. Head(jobQueue) \in Chunks /\ Tail(jobQueue) \in Seq(Chunks)
        BY <3>2, HeadTailProperties DEF TypeOK
      <4> QED
        BY <3>2, <4>1 DEF TypeOK
    <3> QED
      BY <1>1, <3>1, <3>2 DEF TakeJob
  <2>3. activeJobs' \in Nat
    BY <1>1 DEF TakeJob, TypeOK
  <2> QED
    BY <1>1, <2>1, <2>2, <2>3 DEF TakeJob, TypeOK
<1>2. ASSUME NEW w \in Workers, AcquirePeer(w) PROVE TypeOK'
  <2>1. CASE Stopping /\ UNCHANGED <<outstanding, nextPeerIndex, peer>>
    BY <1>2, <2>1 DEF AcquirePeer, TakeSlot, TakeSlotUnchecked, TypeOK, Locations
  <2>2. CASE \E i \in 0..(Len(peerStates) - 1) :
               /\ LET p == peerStates[Probe(i) + 1] IN
                    /\ peer' = [peer EXCEPT ![w] = p]
                    /\ outstanding' = [outstanding EXCEPT ![p] = @ + 1]
               /\ nextPeerIndex' = Advance(Probe(i))
               /\ pc' = [pc EXCEPT ![w] = "fetch"]
    <3>1. PICK i \in 0..(Len(peerStates) - 1) :
             /\ peer' = [peer EXCEPT ![w] = peerStates[Probe(i) + 1]]
             /\ outstanding' = [outstanding EXCEPT ![peerStates[Probe(i) + 1]] = @ + 1]
             /\ nextPeerIndex' = Advance(Probe(i))
             /\ pc' = [pc EXCEPT ![w] = "fetch"]
      BY <2>2
    <3>2. Len(peerStates) \in Nat /\ Len(peerStates) > 0
      BY EmptySeq DEF TypeOK
    <3>3. Probe(i) \in 0..(Len(peerStates) - 1)
      BY <3>2 DEF Probe, TypeOK
    <3>4. Advance(Probe(i)) \in 0..(Len(peerStates) - 1)
      BY <3>2, <3>3 DEF Advance
    <3>5. peerStates[Probe(i) + 1] \in Peers
      BY <3>2, <3>3, ElementOfSeq DEF TypeOK
    <3>6. outstanding' \in [Peers -> Nat] /\ peer' \in [Workers -> Peers]
      BY <3>1, <3>5 DEF TypeOK
    <3>7. pc' \in [Workers -> Locations]
      BY <3>1 DEF TypeOK, Locations
    <3> QED
      BY <1>2, <3>1, <3>4, <3>6, <3>7 DEF AcquirePeer, TakeSlot, TakeSlotUnchecked, TypeOK
  <2>3. CASE pc' = [pc EXCEPT ![w] = "block"] /\ UNCHANGED <<outstanding, nextPeerIndex, peer>>
    BY <1>2, <2>3 DEF AcquirePeer, TakeSlot, TakeSlotUnchecked, TypeOK, Locations
  <2> QED
    BY <1>2, <2>1, <2>2, <2>3 DEF AcquirePeer, TakeSlot, TakeSlotUnchecked
<1>3. ASSUME NEW w \in Workers, Block(w) PROVE TypeOK'
  BY <1>3 DEF Block, TypeOK, Locations
<1>4. ASSUME NEW w \in Workers, GiveUp(w) PROVE TypeOK'
  <2>1. RequeueJob(w, "shutdown", TRUE, "done") /\ "shutdown" \in Reasons
    BY <1>4 DEF GiveUp, Reasons
  <2> QED
    BY <1>4, <2>1, RequeueEffect DEF GiveUp, TypeOK
<1>5. ASSUME NEW w \in Workers, FetchChunk(w) PROVE TypeOK'
  <2>1. PICK l \in {"received", "missing", "corrupt"} : pc' = NotifyCapacity([pc EXCEPT ![w] = l])
    <3>1. peer[w] \in Peers
      BY DEF TypeOK
    <3>2. Replies[peer[w]] \subseteq ReplyKinds
      BY <3>1, SwarmAssumption
    <3> QED
      BY <1>5, <3>2 DEF FetchChunk, ReplyKinds
  <2>2. pc' \in [Workers -> Locations]
    <3>1. [pc EXCEPT ![w] = l] \in [Workers -> Locations]
      BY DEF TypeOK, Locations
    <3> QED
      BY <2>1, <3>1, WakeEffect
  <2>3. outstanding' \in [Peers -> Nat]
    BY <1>5 DEF FetchChunk, TypeOK, ReleaseSlot
  <2> QED
    BY <1>5, <2>2, <2>3 DEF FetchChunk, TypeOK
<1>6. ASSUME NEW w \in Workers, RejectChunk(w) PROVE TypeOK'
  <2> DEFINE reason == IF pc[w] = "missing" THEN "downloadFailed"
                                             ELSE "checksumMismatch"
             fatal == BudgetSpent(attempts'[job[w]])
  <2>1. reason \in Reasons /\ fatal \in BOOLEAN
    BY DEF Reasons, BudgetSpent
  <2>2. RequeueJob(w, reason, fatal, "take")
    BY <1>6 DEF RejectChunk
  <2>3. attempts' \in [Chunks -> Nat]
    <3>1. attempts \in [Chunks -> Nat] /\ job[w] \in Chunks
      BY DEF TypeOK
    <3>2. attempts' = [attempts EXCEPT ![job[w]] = @ + 1]
      BY <1>6 DEF RejectChunk
    <3> QED
      BY <3>1, <3>2
  <2>4. UNCHANGED <<chunkStates, peerVars, job, peer, verdict>>
    BY <1>6 DEF RejectChunk
  <2> HIDE DEF reason, fatal
  <2> QED
    BY <2>1, <2>2, <2>3, <2>4, RequeueEffect DEF TypeOK
<1>7. ASSUME NEW w \in Workers, WriteChunk(w) PROVE TypeOK'
  <2>1. CASE UNCHANGED jobVars /\ pc' = [pc EXCEPT ![w] = "commit"]
             /\ chunkStates' = [chunkStates EXCEPT ![job[w]] = 1]
    <3>1. pc' \in [Workers -> Locations] /\ chunkStates' \in [Chunks -> {0, 1}]
      BY <2>1 DEF TypeOK, Locations
    <3> QED
      BY <1>7, <2>1, <3>1 DEF WriteChunk, TypeOK
  <2>2. CASE RequeueJob(w, "writeFailed", TRUE, "done") /\ UNCHANGED chunkStates
    <3>1. "writeFailed" \in Reasons
      BY DEF Reasons
    <3> QED
      BY <1>7, <2>2, <3>1, RequeueEffect DEF WriteChunk, TypeOK
  <2> QED
    BY <1>7, <2>1, <2>2 DEF WriteChunk
<1>8. ASSUME NEW w \in Workers, CompleteJob(w) PROVE TypeOK'
  <2> DEFINE n == [pc EXCEPT ![w] = "take"]
  <2>1. n \in [Workers -> Locations]
    BY DEF TypeOK, Locations
  <2>2. pc' = NotifyBoth(n) \/ pc' = n
    BY <1>8 DEF CompleteJob
  <2>3. pc' \in [Workers -> Locations]
    <3> HIDE DEF n
    <3> QED BY <2>1, <2>2, WakeEffect
  <2>4. shuttingDown' \in BOOLEAN
    BY <1>8 DEF CompleteJob, TypeOK
  <2>5. completedJobs' \in Nat /\ activeJobs' \in Nat
    BY <1>8 DEF CompleteJob, TypeOK
  <2> QED
    BY <1>8, <2>3, <2>4, <2>5 DEF CompleteJob, TypeOK
<1>9. ASSUME NEW w \in Workers, SpuriousWakeup(w) PROVE TypeOK'
  BY <1>9 DEF SpuriousWakeup, TypeOK, Locations
<1>10. ASSUME NEW p \in LateProviders, AddPeerState(p) PROVE TypeOK'
  <2>1. p \in Peers
    BY DEF Peers
  <2>2. peerStates' \in Seq(Peers) /\ peerStates' # <<>> /\ Len(peerStates') = Len(peerStates) + 1
    BY <1>10, <2>1 DEF AddPeerState, TypeOK
  <2>3. pc' \in [Workers -> Locations]
    BY <1>10, WakeEffect DEF AddPeerState, TypeOK
  <2>4. nextPeerIndex' \in 0..(Len(peerStates') - 1)
    BY <1>10, <2>2 DEF AddPeerState, TypeOK
  <2> QED
    BY <1>10, <2>2, <2>3, <2>4 DEF AddPeerState, TypeOK
<1>11. CASE Return
  BY <1>11 DEF Return, TypeOK
<1>12. CASE UNCHANGED vars
  BY <1>12 DEF vars, TypeOK
<1> QED
  BY <1>1, <1>2, <1>3, <1>4, <1>5, <1>6, <1>7, <1>8, <1>9, <1>10, <1>11, <1>12
     DEF Next, WorkerStep

\* Every variable keeps its type, and the round-robin cursor stays inside the
\* peer list while the refresh thread extends that list.
THEOREM TypeCorrect == Spec => []TypeOK
<1>1. QED
  BY InitType, StepType, PTL DEF Spec
-----------------------------------------------------------------------------
\* Everybody but worker w stays where it is or is woken.
OthersOnlyWake(w) ==
  \A v \in Workers \ {w} :
    \/ pc'[v] = pc[v]
    \/ pc[v] = "capacityWait" /\ pc'[v] = "acquire"
    \/ pc[v] = "jobWait" /\ pc'[v] = "take"

LEMMA OthersHold ==
  ASSUME NEW w \in Workers, OthersOnlyWake(w)
  PROVE  \A v \in Workers \ {w} :
           /\ pc'[v] \in Holding <=> pc[v] \in Holding
           /\ \A l \in {"fetch", "commit", "giveUp", "done", "block"} : pc'[v] = l <=> pc[v] = l
           /\ pc'[v] = "jobWait" => pc[v] = "jobWait"
           /\ pc'[v] = "capacityWait" => pc[v] = "capacityWait"
  BY DEF OthersOnlyWake, Holding, Locations

LEMMA Counting ==
  ASSUME TypeOK
  PROVE  /\ IsFiniteSet(Done) /\ Cardinality(Done) \in Nat /\ Cardinality(Chunks) \in Nat
         /\ Cardinality(Done) <= Cardinality(Chunks)
         /\ Cardinality(Done) = Cardinality(Chunks) <=> Done = Chunks
<1>1. Done \subseteq Chunks /\ IsFiniteSet(Chunks)
  BY SwarmAssumption DEF Done
<1>2. QED
  BY <1>1, FS_Subset, FS_CardinalityType

\* The three callers of requeue_job preserve the part of the invariant that is
\* about jobs: the job goes back to the queue, or the whole download fails and
\* this very chunk is the one left behind.
LEMMA RequeueKeepsJobs ==
  ASSUME TypeOK, IInv,
         NEW w \in Workers, NEW reason \in Reasons, NEW fatal \in BOOLEAN,
         NEW to \in {"take", "done"}, RequeueJob(w, reason, fatal, to),
         UNCHANGED <<chunkStates, job, verdict>>,
         pc[w] \in {"giveUp", "missing", "corrupt", "received"},
         reason # "none" /\ (reason = "shutdown" => failure),
         to = "done" => fatal
  PROVE  /\ JobsApart' /\ NoneLost' /\ CompletionCounted' /\ StopsForAReason'
         /\ VerdictFollowsFlags'
<1>1. /\ pc[w] \in Holding /\ pc[w] # "commit" /\ job[w] \in Chunks
      /\ chunkStates[job[w]] = 0
  BY DEF IInv, JobsApart, Holding, Locations, TypeOK
<1>2. /\ pc'[w] = to /\ pc'[w] \notin Holding
      /\ OthersOnlyWake(w)
      /\ failure' = (failure \/ fatal) /\ shuttingDown' = (shuttingDown \/ fatal)
      /\ completedJobs' = completedJobs
      /\ failure' \in BOOLEAN /\ shuttingDown' \in BOOLEAN
      /\ \A v \in Workers : pc'[v] # "jobWait"
  BY RequeueEffect DEF OthersOnlyWake, Holding, Locations
<1>3. \A v \in Workers \ {w} :
        /\ pc'[v] \in Holding <=> pc[v] \in Holding
        /\ pc'[v] = "commit" <=> pc[v] = "commit"
        /\ pc'[v] = "giveUp" <=> pc[v] = "giveUp"
        /\ pc'[v] = "done" <=> pc[v] = "done"
  BY <1>2, OthersHold
<1>4. /\ \A c \in Chunks \ {job[w]}, v \in Workers :
           pc'[v] \in Holding /\ job'[v] = c <=> pc[v] \in Holding /\ job[v] = c
      /\ \A v \in Workers : ~(pc'[v] \in Holding /\ job'[v] = job[w])
  <2>1. \A v \in Workers : pc[v] \in Holding /\ job[v] = job[w] => v = w
    BY <1>1 DEF IInv, JobsApart
  <2>2. job' = job
    OBVIOUS
  <2>3. ASSUME NEW c \in Chunks \ {job[w]}, NEW v \in Workers
        PROVE  pc'[v] \in Holding /\ job'[v] = c <=> pc[v] \in Holding /\ job[v] = c
    BY <1>2, <1>3, <2>2, <2>3
  <2> QED
    BY <1>2, <1>3, <2>1, <2>2, <2>3
<1>5. Done' = Done
  <2>1. chunkStates' = chunkStates
    OBVIOUS
  <2>2. ASSUME NEW c \in Chunks \ {job[w]} PROVE Completed(c)' <=> Completed(c)
    BY <1>4, <2>1, <2>2 DEF Completed, Holders
  <2>3. ASSUME NEW c \in Chunks, c = job[w] PROVE ~Completed(c) /\ ~Completed(c)'
    BY <1>1, <2>1, <2>3 DEF Completed
  <2> QED
    BY <2>2, <2>3 DEF Done
<1>6. Done # Chunks
  <2>1. job[w] \in Chunks /\ job[w] \notin Done
    BY <1>1 DEF Done, Completed, Holders
  <2> QED
    BY <2>1
<1>7. shuttingDown => failure
  BY <1>6 DEF IInv, StopsForAReason
<1>8. CASE failure'
  <2>1. jobQueue' = <<>> /\ Len(jobQueue') = 0
    BY <1>8 DEF RequeueJob
  <2>2. JobsApart'
    <3>1. \A i \in 1..Len(jobQueue') : FALSE
      <4>1. \A i \in 1..0 : FALSE
        OBVIOUS
      <4>2. Len(jobQueue') = 0
        BY <2>1
      <4> QED
        BY ONLY <4>1, <4>2
    <3>2. JobsApart /\ job' = job /\ chunkStates' = chunkStates
      BY DEF IInv
    <3> QED
      BY <1>2, <1>3, <3>1, <3>2 DEF JobsApart
  <2>3. NoneLost'
    BY <1>8 DEF NoneLost
  <2>4. shuttingDown'
    BY <1>2, <1>8 DEF IInv, StopsForAReason
  <2>5. CompletionCounted'
    BY <1>2, <1>5, <2>4 DEF CompletionCounted, IInv
  <2>6. \E c \in Chunks : Abandoned(c)'
    <3>1. Holders(job[w])' = {} /\ chunkStates' = chunkStates
      BY <1>4 DEF Holders
    <3> QED
      BY <1>1, <3>1 DEF Abandoned
  <2>7. failureReason' \notin {"none", "shutdown"}
    <3>1. failureReason' = IF fatal /\ failureReason = "none" THEN reason ELSE failureReason
      BY DEF RequeueJob
    <3>2. CASE failure
      BY <3>1, <3>2 DEF IInv, StopsForAReason
    <3>3. CASE ~failure
      <4>1. fatal /\ failureReason = "none"
        BY <1>2, <1>8, <3>3 DEF IInv, StopsForAReason
      <4> QED
        BY <3>1, <3>3, <4>1
    <3> QED
      BY <3>2, <3>3
  <2>8. StopsForAReason'
    BY <1>1, <1>2, <1>8, <2>1, <2>4, <2>6, <2>7 DEF StopsForAReason
  <2>9. verdict = "running"
    BY <1>1, <1>7 DEF IInv, VerdictFollowsFlags, StopsForAReason
  <2> QED
    BY <2>2, <2>3, <2>5, <2>8, <2>9 DEF VerdictFollowsFlags
<1>9. CASE ~failure'
  <2>1. ~failure /\ ~shuttingDown /\ ~shuttingDown' /\ ~fatal /\ to = "take"
    BY <1>2, <1>7, <1>9 DEF TypeOK
  <2>2. jobQueue' = Append(jobQueue, job[w]) /\ jobQueue \in Seq(Chunks)
    BY <1>9, <2>1 DEF RequeueJob, TypeOK
  <2>3. /\ Len(jobQueue) \in Nat /\ Len(jobQueue') = Len(jobQueue) + 1
        /\ jobQueue'[Len(jobQueue) + 1] = job[w]
        /\ \A i \in 1..Len(jobQueue) : jobQueue'[i] = jobQueue[i]
    BY <1>1, <2>2, AppendProperties, LenProperties
  <2>4. JobsApart'
    <3>1. \A i \in 1..Len(jobQueue') : i \in 1..Len(jobQueue) \/ i = Len(jobQueue) + 1
      BY <2>3
    <3>2. JobsApart /\ job' = job /\ chunkStates' = chunkStates
      BY DEF IInv
    <3> QED
      BY <1>1, <1>2, <1>3, <2>3, <3>1, <3>2 DEF JobsApart
  <2>5. NoneLost'
    <3>1. \A c \in Chunks : Places(c) # {} \/ c = job[w] => Places(c)' # {}
      BY <2>3 DEF Places
    <3>2. \A c \in Chunks \ {job[w]} : Holders(c) # {} => Holders(c)' # {}
      BY <1>4 DEF Holders
    <3> QED
      BY <2>1, <3>1, <3>2 DEF NoneLost, IInv
  <2>6. CompletionCounted'
    BY <1>2, <1>5, <2>1 DEF CompletionCounted, IInv
  <2>7. StopsForAReason'
    <3>1. failureReason' = failureReason
      BY <2>1 DEF RequeueJob
    <3>2. \A v \in Workers : pc'[v] # "giveUp" /\ pc'[v] # "done" /\ pc'[v] # "jobWait"
      BY <1>2, <1>3, <2>1 DEF StopsForAReason, IInv
    <3> QED
      BY <1>9, <2>1, <3>1, <3>2 DEF StopsForAReason, IInv
  <2> QED
    BY <2>1, <2>4, <2>5, <2>6, <2>7 DEF VerdictFollowsFlags, IInv
<1> QED
  BY <1>8, <1>9
-----------------------------------------------------------------------------
LEMMA InitInv == Init => IInv
<1> SUFFICES ASSUME Init PROVE IInv
  OBVIOUS
<1>1. \A w \in Workers : pc[w] = "take" /\ pc[w] \notin Holding
  BY DEF Init, Holding, Locations
<1>2. /\ jobQueue \in [1..Cardinality(Chunks) -> Chunks] /\ Len(jobQueue) = Cardinality(Chunks)
      /\ \A i, j \in 1..Len(jobQueue) : jobQueue[i] = jobQueue[j] => i = j
  BY SwarmAssumption, OrdersAreSequences DEF Init, Orders
<1>3. \A c \in Chunks : chunkStates[c] = 0
  BY DEF Init
<1>4. JobsApart
  BY <1>1, <1>2, <1>3 DEF JobsApart
<1>5. NoneLost
  <2>1. IsFiniteSet(Chunks) /\ IsFiniteSet(1..Len(jobQueue)) /\ Cardinality(1..Len(jobQueue)) = Cardinality(Chunks)
    <3>1. Cardinality(Chunks) \in Nat
      BY SwarmAssumption, FS_CardinalityType
    <3> QED
      BY <1>2, <3>1, SwarmAssumption, FS_Interval
  <2>2. jobQueue \in Injection(1..Len(jobQueue), Chunks)
    BY <1>2 DEF Injection, IsInjective
  <2>3. jobQueue \in Surjection(1..Len(jobQueue), Chunks)
    BY <2>1, <2>2, FS_Injection
  <2>4. \A c \in Chunks : \E i \in 1..Len(jobQueue) : jobQueue[i] = c
    BY <2>3 DEF Surjection
  <2> QED
    BY <2>4 DEF NoneLost, Places
<1>6. Done = {} /\ completedJobs = 0
  BY <1>3 DEF Done, Completed, Init
<1>7. Cardinality(Done) = 0 /\ Cardinality(Chunks) # 0
  BY <1>6, SwarmAssumption, FS_EmptySet
<1>8. CompletionCounted
  BY <1>6, <1>7 DEF CompletionCounted
<1>9. StopsForAReason
  BY <1>1 DEF StopsForAReason, Init
<1>10. SlotsAccounted
  <2>1. ASSUME NEW p \in Peers PROVE Fetchers(p) = {} /\ outstanding[p] = 0
    BY <1>1 DEF Fetchers, Init
  <2>2. Cardinality({}) = 0
    BY FS_EmptySet
  <2> QED
    BY <2>1, <2>2, LimitType DEF SlotsAccounted
<1>11. SleepersSeeNoSlot
  BY <1>1 DEF SleepersSeeNoSlot
<1>12. VerdictFollowsFlags
  BY DEF VerdictFollowsFlags, Init
<1> QED
  BY <1>4, <1>5, <1>8, <1>9, <1>10, <1>11, <1>12 DEF IInv

-----------------------------------------------------------------------------
\* Steps that leave the jobs where they are.
LEMMA SameJobs ==
  ASSUME TypeOK, IInv, NEW w \in Workers, OthersOnlyWake(w),
         UNCHANGED <<jobVars, chunkStates, job, verdict>>,
         pc[w] \in Holding \ {"commit"}, pc'[w] \in Holding \ {"commit"},
         pc'[w] = "giveUp" => failure
  PROVE  JobsApart' /\ NoneLost' /\ CompletionCounted' /\ StopsForAReason' /\ VerdictFollowsFlags'
<1> USE DEF jobVars
<1>1. \A v \in Workers : /\ pc'[v] \in Holding <=> pc[v] \in Holding
                         /\ pc'[v] = "commit" <=> pc[v] = "commit"
                         /\ pc'[v] = "done" <=> pc[v] = "done"
                         /\ pc'[v] = "jobWait" => pc[v] = "jobWait"
                         /\ pc'[v] = "giveUp" => failure
  <2>1. pc'[w] # "done" /\ pc[w] # "done" /\ pc'[w] # "jobWait"
    BY DEF Holding, Locations
  <2>2. \A v \in Workers : pc[v] = "giveUp" => failure
    BY DEF IInv, StopsForAReason
  <2> QED
    BY <2>1, <2>2, OthersHold
<1>2. \A c : Holders(c)' = Holders(c) /\ Places(c)' = Places(c)
  BY <1>1 DEF Holders, Places
<1>3. JobsApart'
  BY <1>1 DEF JobsApart, IInv
<1>4. NoneLost'
  BY <1>2 DEF NoneLost, IInv
<1>5. Done' = Done
  BY <1>2 DEF Done, Completed
<1>6. CompletionCounted'
  BY <1>5 DEF CompletionCounted, IInv
<1>7. StopsForAReason'
  BY <1>1, <1>2, <1>5 DEF StopsForAReason, Abandoned, IInv
<1>8. VerdictFollowsFlags'
  BY <1>1 DEF VerdictFollowsFlags, IInv
<1> QED
  BY <1>3, <1>4, <1>6, <1>7, <1>8

\* Steps that neither take nor give back a slot.
LEMMA SameSlots ==
  ASSUME TypeOK, IInv, NEW w \in Workers, OthersOnlyWake(w), UNCHANGED <<outstanding, peer, peerStates>>,
         pc[w] # "fetch", pc'[w] # "fetch",
         pc'[w] \in {"block", "capacityWait"} =>
           \/ pc[w] \in {"block", "capacityWait"}
           \/ \A i \in 1..Len(peerStates) : ~HasCapacity(peerStates[i])
  PROVE  SlotsAccounted' /\ SleepersSeeNoSlot'
<1>1. \A v \in Workers \ {w} :
        /\ pc'[v] = "fetch" <=> pc[v] = "fetch"
        /\ pc'[v] \in {"block", "capacityWait"} => pc[v] \in {"block", "capacityWait"}
  BY OthersHold
<1>2. \A p : Fetchers(p)' = Fetchers(p)
  BY <1>1 DEF Fetchers
<1>3. SlotsAccounted'
  BY <1>2 DEF SlotsAccounted, IInv
<1>4. SleepersSeeNoSlot'
  BY <1>1 DEF SleepersSeeNoSlot, HasCapacity, IInv
<1> QED
  BY <1>3, <1>4

-----------------------------------------------------------------------------
LEMMA TakeJobInv ==
  ASSUME TypeOK, IInv, NEW w \in Workers, TakeJob(w)
  PROVE  IInv'
<1>1. pc[w] = "take" /\ pc[w] \notin Holding
  BY DEF TakeJob, Holding, Locations
<1>2. OthersOnlyWake(w) /\ pc'[w] \in {"done", "jobWait", "acquire"}
  BY DEF TakeJob, OthersOnlyWake, TypeOK
<1>3. SlotsAccounted' /\ SleepersSeeNoSlot'
  BY <1>1, <1>2, SameSlots DEF TakeJob, peerVars
<1>4. verdict = "running" /\ verdict' = verdict
  BY <1>1 DEF TakeJob, IInv, VerdictFollowsFlags
<1>5. CASE UNCHANGED <<jobQueue, job>> /\ pc'[w] \in {"done", "jobWait"}
  <2>1. \A v \in Workers : /\ pc'[v] \in Holding <=> pc[v] \in Holding
                           /\ pc'[v] = "commit" <=> pc[v] = "commit"
                           /\ pc'[v] = "giveUp" <=> pc[v] = "giveUp"
    BY <1>1, <1>2, <1>5, OthersHold DEF Holding, Locations
  <2>2. \A c : Holders(c)' = Holders(c) /\ Places(c)' = Places(c)
    BY <1>5, <2>1 DEF Holders, Places
  <2>3. Done' = Done
    BY <2>2 DEF Done, Completed, TakeJob
  <2>4. JobsApart'
    BY <1>5, <2>1 DEF JobsApart, IInv, TakeJob
  <2>5. NoneLost' /\ CompletionCounted'
    BY <2>2, <2>3 DEF NoneLost, CompletionCounted, IInv, TakeJob
  <2>6. /\ pc'[w] = "done" => shuttingDown
        /\ pc'[w] = "jobWait" => ~shuttingDown /\ jobQueue = <<>>
    BY <1>2, <1>5 DEF TakeJob, Stopping, IInv, StopsForAReason, TypeOK
  <2>7. \A v \in Workers : /\ pc'[v] = "giveUp" => failure
                           /\ pc'[v] = "done" => shuttingDown
                           /\ pc'[v] = "jobWait" => ~shuttingDown /\ jobQueue = <<>>
    BY <1>2, <2>1, <2>6, OthersHold DEF IInv, StopsForAReason
  <2>8. StopsForAReason'
    BY <1>5, <2>2, <2>3, <2>7 DEF StopsForAReason, Abandoned, IInv, TakeJob
  <2> QED
    BY <1>3, <1>4, <2>4, <2>5, <2>8 DEF IInv, VerdictFollowsFlags
<1>6. CASE /\ ~Stopping /\ jobQueue # <<>>
           /\ job' = [job EXCEPT ![w] = Head(jobQueue)]
           /\ jobQueue' = Tail(jobQueue)
           /\ pc'[w] = "acquire"
  <2>0. PICK c0 \in Chunks : c0 = jobQueue[1]
    BY <1>6, EmptySeq, ElementOfSeq DEF TypeOK
  <2>1. /\ jobQueue \in Seq(Chunks) /\ Len(jobQueue) \in Nat \ {0}
        /\ Len(jobQueue') = Len(jobQueue) - 1
        /\ \A i \in 1..Len(jobQueue') : jobQueue'[i] = jobQueue[i + 1]
        /\ job'[w] = c0 /\ c0 \in Chunks
        /\ \A v \in Workers \ {w} : job'[v] = job[v]
    BY <1>6, <2>0, HeadTailProperties, EmptySeq DEF TypeOK
  <2>2. /\ \A v \in Workers \ {w} : /\ pc'[v] \in Holding <=> pc[v] \in Holding
                                    /\ pc'[v] = "commit" <=> pc[v] = "commit"
                                    /\ pc'[v] = "giveUp" <=> pc[v] = "giveUp"
                                    /\ pc'[v] = "done" <=> pc[v] = "done"
                                    /\ pc'[v] = "jobWait" => pc[v] = "jobWait"
        /\ pc'[w] \in Holding
    BY <1>2, <1>6, OthersHold DEF Holding, Locations
  <2>3. /\ chunkStates[c0] = 0
        /\ \A v \in Workers : pc[v] \in Holding => job[v] # c0
        /\ \A i \in 1..Len(jobQueue') : i + 1 \in 1..Len(jobQueue) /\ jobQueue'[i] # c0
    BY <2>0, <2>1 DEF JobsApart, IInv
  <2>4. chunkStates' = chunkStates /\ failure' = failure /\ shuttingDown' = shuttingDown
        /\ completedJobs' = completedJobs /\ failureReason' = failureReason
    BY DEF TakeJob
  <2>5. JobsApart'
    <3>1. \A v, u \in Workers : pc'[v] \in Holding /\ pc'[u] \in Holding /\ job'[v] = job'[u] => v = u
      BY <2>1, <2>2, <2>3 DEF JobsApart, IInv
    <3>2. \A v \in Workers : pc'[v] \in Holding =>
            /\ \A i \in 1..Len(jobQueue') : jobQueue'[i] # job'[v]
            /\ chunkStates'[job'[v]] = IF pc'[v] = "commit" THEN 1 ELSE 0
      BY <1>6, <2>1, <2>2, <2>3, <2>4 DEF JobsApart, IInv
    <3>3. \A i \in 1..Len(jobQueue') :
            /\ chunkStates'[jobQueue'[i]] = 0
            /\ \A j \in 1..Len(jobQueue') : jobQueue'[i] = jobQueue'[j] => i = j
      <4>1. \A i, j \in 1..Len(jobQueue) : jobQueue[i] = jobQueue[j] => i = j
        BY DEF JobsApart, IInv
      <4>2. \A i \in 1..Len(jobQueue) : chunkStates[jobQueue[i]] = 0
        BY DEF JobsApart, IInv
      <4>3. \A i \in 1..Len(jobQueue') : i + 1 \in 1..Len(jobQueue) /\ i \in Int
        BY <2>1
      <4>4. TAKE i \in 1..Len(jobQueue')
      <4>5. chunkStates'[jobQueue'[i]] = 0
        BY <2>1, <2>4, <4>2, <4>3
      <4>6. ASSUME NEW j \in 1..Len(jobQueue'), jobQueue'[i] = jobQueue'[j] PROVE i = j
        <5>1. i + 1 = j + 1
          BY <2>1, <4>1, <4>3, <4>6
        <5> QED
          BY <4>3, <5>1
      <4> QED
        BY <4>5, <4>6
    <3> QED
      BY <3>1, <3>2, <3>3 DEF JobsApart
  <2>6. ASSUME NEW c \in Chunks, c # c0
        PROVE  Holders(c)' = Holders(c) /\ (Places(c) # {} => Places(c)' # {})
    <3>1. Holders(c)' = Holders(c)
      BY <1>1, <2>1, <2>2, <2>6 DEF Holders
    <3>2. ASSUME NEW i \in 1..Len(jobQueue), jobQueue[i] = c
          PROVE  i - 1 \in 1..Len(jobQueue') /\ jobQueue'[i - 1] = c
      BY <2>0, <2>1, <2>6, <3>2
    <3> QED
      BY <3>1, <3>2 DEF Places
  <2>7. w \in Holders(c0)'
    BY <2>1, <2>2 DEF Holders
  <2>8. NoneLost'
    BY <2>4, <2>6, <2>7 DEF NoneLost, IInv
  <2>9. Done' = Done
    <3>1. \A c \in Chunks : c # c0 => (Completed(c)' <=> Completed(c))
      BY <2>4, <2>6 DEF Completed
    <3>2. \A c \in Chunks : c = c0 => ~Completed(c)' /\ ~Completed(c)
      BY <2>3, <2>4 DEF Completed
    <3> QED
      BY <3>1, <3>2 DEF Done
  <2>10. CompletionCounted'
    BY <2>4, <2>9 DEF CompletionCounted, IInv
  <2>11. ~failure /\ ~shuttingDown
    BY <1>6 DEF Stopping
  <2>12. StopsForAReason'
    BY <1>6, <2>2, <2>4, <2>9, <2>11 DEF StopsForAReason, IInv
  <2> QED
    BY <1>3, <1>4, <2>5, <2>8, <2>10, <2>12 DEF IInv, VerdictFollowsFlags
<1> QED
  BY <1>5, <1>6 DEF TakeJob, TypeOK

LEMMA AcquirePeerInv ==
  ASSUME TypeOK, IInv, NEW w \in Workers, AcquirePeer(w)
  PROVE  IInv'
<1>1. /\ pc[w] = "acquire" /\ pc[w] \in Holding \ {"commit"}
      /\ OthersOnlyWake(w)
      /\ pc'[w] \in {"giveUp", "fetch", "block"} /\ pc'[w] \in Holding \ {"commit"}
      /\ \A v \in Workers : pc[v] # "block"
      /\ \A v \in Workers \ {w} : pc'[v] = pc[v]
  BY DEF AcquirePeer, TakeSlot, TakeSlotUnchecked, OthersOnlyWake, TypeOK, Holding, Locations, CapacityMutexFree
<1>2. pc'[w] = "giveUp" => failure
  <2>1. SUFFICES ASSUME pc'[w] = "giveUp" PROVE failure
    OBVIOUS
  <2>2. Stopping
    BY <2>1 DEF AcquirePeer, TakeSlot, TakeSlotUnchecked, TypeOK
  <2>3. job[w] \in Chunks /\ w \in Holders(job[w])
    BY <1>1 DEF Holders, TypeOK
  <2>4. Done # Chunks
    BY <2>3 DEF Done, Completed
  <2> QED
    BY <2>2, <2>4 DEF Stopping, IInv, StopsForAReason
<1>3. JobsApart' /\ NoneLost' /\ CompletionCounted' /\ StopsForAReason' /\ VerdictFollowsFlags'
  BY <1>1, <1>2, SameJobs DEF AcquirePeer, TakeSlot, TakeSlotUnchecked
<1>4. SlotsAccounted' /\ SleepersSeeNoSlot'
  <2>1. CASE UNCHANGED <<outstanding, nextPeerIndex, peer>> /\ pc'[w] # "fetch"
    <3>1. pc'[w] = "block" => \A i \in 1..Len(peerStates) : ~HasCapacity(peerStates[i])
      BY <2>1 DEF AcquirePeer, TakeSlot, TakeSlotUnchecked, TypeOK
    <3> QED
      BY <1>1, <2>1, <3>1, SameSlots DEF AcquirePeer, TakeSlot, TakeSlotUnchecked
  <2>2. CASE \E i \in 0..(Len(peerStates) - 1) :
               /\ FirstFree(i)
               /\ peer' = [peer EXCEPT ![w] = peerStates[Probe(i) + 1]]
               /\ outstanding' = [outstanding EXCEPT ![peerStates[Probe(i) + 1]] = @ + 1]
               /\ pc' = [pc EXCEPT ![w] = "fetch"]
    <3>1. PICK i \in 0..(Len(peerStates) - 1) :
               /\ FirstFree(i)
               /\ peer' = [peer EXCEPT ![w] = peerStates[Probe(i) + 1]]
               /\ outstanding' = [outstanding EXCEPT ![peerStates[Probe(i) + 1]] = @ + 1]
               /\ pc' = [pc EXCEPT ![w] = "fetch"]
      BY <2>2
    <3>2. Len(peerStates) \in Nat /\ Len(peerStates) > 0
      BY EmptySeq DEF TypeOK
    <3>3. Probe(i) + 1 \in 1..Len(peerStates)
      BY <3>2 DEF Probe, TypeOK
    <3>4. PICK p0 \in Peers : p0 = peerStates[Probe(i) + 1]
      BY <3>2, <3>3, ElementOfSeq DEF TypeOK
    <3>5. /\ outstanding[p0] \in Nat /\ outstanding[p0] < PerPeerLimit
          /\ outstanding'[p0] = outstanding[p0] + 1
          /\ \A p \in Peers \ {p0} : outstanding'[p] = outstanding[p]
          /\ peer'[w] = p0 /\ \A v \in Workers \ {w} : peer'[v] = peer[v]
          /\ pc'[w] = "fetch"
      BY <3>1, <3>4 DEF FirstFree, HasCapacity, TypeOK
    <3>6. Fetchers(p0)' = Fetchers(p0) \cup {w} /\ w \notin Fetchers(p0)
      BY <1>1, <3>5 DEF Fetchers
    <3>7. \A p \in Peers \ {p0} : Fetchers(p)' = Fetchers(p)
      BY <1>1, <3>5 DEF Fetchers
    <3>8. \A p \in Peers : IsFiniteSet(Fetchers(p))
      <4>1. IsFiniteSet(Workers)
        BY WorkerCountType, FS_Interval DEF Workers
      <4> QED
        BY <4>1, FS_Subset DEF Fetchers
    <3>9. Cardinality(Fetchers(p0)') = Cardinality(Fetchers(p0)) + 1
      BY <3>6, <3>8, FS_AddElement
    <3>10. SlotsAccounted'
      BY <3>5, <3>7, <3>9, LimitType DEF SlotsAccounted, IInv
    <3>11. ~ \E v \in Workers : pc'[v] \in {"block", "capacityWait"}
      <4>1. HasCapacity(peerStates[Probe(i) + 1])
        BY <3>1 DEF FirstFree
      <4>2. ~ \E v \in Workers : pc[v] \in {"block", "capacityWait"}
        BY <3>3, <4>1 DEF SleepersSeeNoSlot, IInv
      <4> QED
        BY <1>1, <3>5, <4>2
    <3> QED
      BY <3>10, <3>11 DEF SleepersSeeNoSlot
  <2> QED
    BY <1>1, <2>1, <2>2 DEF AcquirePeer, TakeSlot, TakeSlotUnchecked, TypeOK
<1> QED
  BY <1>3, <1>4 DEF IInv

LEMMA FetchChunkInv ==
  ASSUME TypeOK, IInv, NEW w \in Workers, FetchChunk(w)
  PROVE  IInv'
<1>1. PICK l \in {"received", "missing", "corrupt"} : pc' = NotifyCapacity([pc EXCEPT ![w] = l])
  <2>1. Replies[peer[w]] \subseteq ReplyKinds
    BY SwarmAssumption DEF TypeOK
  <2> QED
    BY <2>1 DEF FetchChunk, ReplyKinds
<1>2. /\ pc[w] = "fetch" /\ pc[w] \in Holding \ {"commit"}
      /\ pc'[w] = l /\ l \in Holding \ {"commit"}
      /\ OthersOnlyWake(w)
      /\ \A v \in Workers : pc'[v] # "block" /\ pc'[v] # "capacityWait"
  <2>1. [pc EXCEPT ![w] = l] \in [Workers -> Locations]
    BY DEF TypeOK, Locations
  <2>2. \A v \in Workers : pc'[v] = IF [pc EXCEPT ![w] = l][v] = "capacityWait" THEN "acquire"
                                                                ELSE [pc EXCEPT ![w] = l][v]
    BY <1>1, <2>1, WakeEffect
  <2> QED
    BY <2>2 DEF FetchChunk, OthersOnlyWake, TypeOK, Holding, Locations, CapacityMutexFree
<1>3. JobsApart' /\ NoneLost' /\ CompletionCounted' /\ StopsForAReason' /\ VerdictFollowsFlags'
  BY <1>2, SameJobs DEF FetchChunk
<1>4. SlotsAccounted'
  <2>0. PICK p0 \in Peers : p0 = peer[w]
    BY DEF TypeOK
  <2>1. /\ outstanding[p0] \in Nat /\ peer' = peer
        /\ outstanding'[p0] = IF outstanding[p0] > 0 THEN outstanding[p0] - 1 ELSE 0
        /\ \A p \in Peers \ {p0} : outstanding'[p] = outstanding[p]
    BY <2>0 DEF FetchChunk, ReleaseSlot, TypeOK
  <2>2. \A v \in Workers \ {w} : pc'[v] = "fetch" <=> pc[v] = "fetch"
    BY <1>2, OthersHold
  <2>3. Fetchers(p0)' = Fetchers(p0) \ {w} /\ w \in Fetchers(p0)
    BY <1>2, <2>0, <2>1, <2>2 DEF Fetchers
  <2>4. \A p \in Peers \ {p0} : Fetchers(p)' = Fetchers(p)
    BY <1>2, <2>0, <2>1, <2>2 DEF Fetchers
  <2>5. IsFiniteSet(Fetchers(p0))
    <3>1. IsFiniteSet(Workers)
      BY WorkerCountType, FS_Interval DEF Workers
    <3> QED
      BY <3>1, FS_Subset DEF Fetchers
  <2>6. Cardinality(Fetchers(p0)') = Cardinality(Fetchers(p0)) - 1 /\ Cardinality(Fetchers(p0)) # 0
    BY <2>3, <2>5, FS_RemoveElement, FS_EmptySet
  <2> QED
    BY <2>1, <2>4, <2>6, LimitType DEF SlotsAccounted, IInv
<1> QED
  BY <1>2, <1>3, <1>4 DEF IInv, SleepersSeeNoSlot

LEMMA RequeueInv ==
  ASSUME TypeOK, IInv,
         NEW w \in Workers, NEW reason \in Reasons, NEW fatal \in BOOLEAN,
         NEW to \in {"take", "done"}, RequeueJob(w, reason, fatal, to),
         UNCHANGED <<chunkStates, job, verdict, peer, outstanding, peerStates>>,
         pc[w] \in {"giveUp", "missing", "corrupt", "received"},
         reason # "none" /\ (reason = "shutdown" => failure),
         to = "done" => fatal
  PROVE  IInv'
<1>1. OthersOnlyWake(w) /\ pc'[w] = to
  BY RequeueEffect DEF OthersOnlyWake
<1>2. SlotsAccounted' /\ SleepersSeeNoSlot'
  BY <1>1, SameSlots
<1>3. JobsApart' /\ NoneLost' /\ CompletionCounted' /\ StopsForAReason' /\ VerdictFollowsFlags'
  BY RequeueKeepsJobs
<1> QED
  BY <1>2, <1>3 DEF IInv

\* Marking a chunk moves it from "received" to "commit" in its worker's hands.
LEMMA WriteChunkInv ==
  ASSUME TypeOK, IInv, NEW w \in Workers, WriteChunk(w)
  PROVE  IInv'
<1>1. CASE /\ chunkStates' = [chunkStates EXCEPT ![job[w]] = 1]
           /\ pc' = [pc EXCEPT ![w] = "commit"]
           /\ UNCHANGED jobVars
  <2>0. PICK c0 \in Chunks : c0 = job[w]
    BY DEF TypeOK
  <2>1. /\ pc[w] = "received" /\ pc[w] \in Holding /\ pc'[w] = "commit" /\ pc'[w] \in Holding
        /\ \A v \in Workers \ {w} : pc'[v] = pc[v]
        /\ chunkStates'[c0] = 1 /\ \A c \in Chunks \ {c0} : chunkStates'[c] = chunkStates[c]
        /\ job' = job /\ verdict' = verdict
    BY <1>1, <2>0 DEF WriteChunk, TypeOK, Holding, Locations
  <2>2. /\ jobQueue' = jobQueue /\ failure' = failure /\ shuttingDown' = shuttingDown
        /\ completedJobs' = completedJobs /\ failureReason' = failureReason
    BY <1>1 DEF jobVars
  <2>3. OthersOnlyWake(w)
    BY <2>1 DEF OthersOnlyWake
  <2>4. SlotsAccounted' /\ SleepersSeeNoSlot'
    BY <2>1, <2>3, SameSlots DEF WriteChunk, peerVars
  <2>5. \A v \in Workers : pc'[v] \in Holding <=> pc[v] \in Holding
    BY <2>1
  <2>6. \A c : Holders(c)' = Holders(c) /\ Places(c)' = Places(c)
    BY <2>1, <2>2, <2>5 DEF Holders, Places
  <2>7. \A v \in Workers : pc[v] \in Holding /\ v # w => job[v] # c0 /\ job[v] \in Chunks
    BY <2>0, <2>1 DEF JobsApart, IInv, TypeOK
  <2>8. \A i \in 1..Len(jobQueue) : jobQueue[i] # c0 /\ jobQueue[i] \in Chunks
    BY <2>0, <2>1, ElementOfSeq DEF JobsApart, IInv, TypeOK
  <2>9. JobsApart'
    BY <2>0, <2>1, <2>2, <2>5, <2>7, <2>8 DEF JobsApart, IInv
  <2>10. NoneLost'
    BY <2>1, <2>2, <2>6 DEF NoneLost, IInv
  <2>11. w \in Holders(c0)
    BY <2>0, <2>1 DEF Holders
  <2>12. \A c \in Chunks : Completed(c)' <=> Completed(c)
    BY <2>1, <2>6, <2>11 DEF Completed
  <2>13. Done' = Done
    BY <2>12 DEF Done
  <2>14. CompletionCounted'
    BY <2>2, <2>13 DEF CompletionCounted, IInv
  <2>15. \A c \in Chunks : Abandoned(c) => Abandoned(c)'
    BY <2>1, <2>6, <2>11 DEF Abandoned
  <2>16. StopsForAReason'
    BY <2>1, <2>2, <2>13, <2>15 DEF StopsForAReason, IInv
  <2>17. VerdictFollowsFlags'
    BY <2>1, <2>2 DEF VerdictFollowsFlags, IInv
  <2> QED
    BY <2>4, <2>9, <2>10, <2>14, <2>16, <2>17 DEF IInv
<1>2. CASE RequeueJob(w, "writeFailed", TRUE, "done") /\ UNCHANGED chunkStates
  <2>1. "writeFailed" \in Reasons
    BY DEF Reasons
  <2>2. /\ pc[w] = "received"
        /\ UNCHANGED <<chunkStates, job, verdict, peer, outstanding, peerStates>>
    BY <1>2 DEF WriteChunk, peerVars
  <2> QED
    BY <1>2, <2>1, <2>2, RequeueInv
<1> QED
  BY <1>1, <1>2 DEF WriteChunk

\* The chunk counts as completed, and the worker that completes the last one
\* raises shutting_down: from then on Done is the whole file.
LEMMA CompleteJobInv ==
  ASSUME TypeOK, TypeOK', IInv, NEW w \in Workers, CompleteJob(w)
  PROVE  IInv'
<1>0. PICK c0 \in Chunks : c0 = job[w]
  BY DEF TypeOK
<1>1. /\ pc[w] = "commit" /\ pc[w] \in Holding /\ pc'[w] = "take" /\ pc'[w] \notin Holding
      /\ OthersOnlyWake(w)
      /\ (shuttingDown' /\ ~shuttingDown) => \A v \in Workers : pc'[v] # "jobWait"
  <2> DEFINE n == [pc EXCEPT ![w] = "take"]
  <2>1. n \in [Workers -> Locations] /\ n[w] = "take" /\ \A v \in Workers \ {w} : n[v] = pc[v]
    BY DEF TypeOK, Locations
  <2>2. \/ pc' = NotifyBoth(n)
        \/ pc' = n /\ ~(shuttingDown' /\ ~shuttingDown)
    BY DEF CompleteJob
  <2>3. pc[w] = "commit"
    BY DEF CompleteJob
  <2> HIDE DEF n
  <2>4. CASE pc' = NotifyBoth(n)
    <3>1. \A v \in Workers : pc'[v] = IF n[v] = "capacityWait" THEN "acquire"
                                      ELSE IF n[v] = "jobWait" THEN "take" ELSE n[v]
      BY <2>1, <2>4, WakeEffect
    <3> QED
      BY <2>1, <2>3, <3>1 DEF OthersOnlyWake, Holding, Locations
  <2>5. CASE pc' = n /\ ~(shuttingDown' /\ ~shuttingDown)
    BY <2>1, <2>3, <2>5 DEF OthersOnlyWake, Holding, Locations
  <2> QED
    BY <2>2, <2>4, <2>5
<1>2. /\ jobQueue' = jobQueue /\ failure' = failure /\ failureReason' = failureReason
      /\ chunkStates' = chunkStates /\ job' = job /\ verdict' = verdict
      /\ UNCHANGED <<outstanding, peer, peerStates>>
  BY DEF CompleteJob, peerVars
<1>3. SlotsAccounted' /\ SleepersSeeNoSlot'
  BY <1>1, <1>2, SameSlots
<1>4. \A v \in Workers \ {w} : /\ pc'[v] \in Holding <=> pc[v] \in Holding
                               /\ pc'[v] = "commit" <=> pc[v] = "commit"
                               /\ pc'[v] = "giveUp" <=> pc[v] = "giveUp"
                               /\ pc'[v] = "done" <=> pc[v] = "done"
                               /\ pc'[v] = "jobWait" => pc[v] = "jobWait"
  BY <1>1, OthersHold
<1>5. chunkStates[c0] = 1 /\ \A v \in Workers \ {w} : pc[v] \in Holding => job[v] # c0
  BY <1>0, <1>1 DEF JobsApart, IInv
<1>6. Holders(c0)' = {} /\ w \in Holders(c0)
  BY <1>0, <1>1, <1>2, <1>4, <1>5 DEF Holders
<1>7. ASSUME NEW c \in Chunks, c # c0 PROVE Holders(c)' = Holders(c)
  BY <1>0, <1>1, <1>2, <1>4, <1>7 DEF Holders
<1>8. JobsApart'
  BY <1>1, <1>2, <1>4 DEF JobsApart, IInv
<1>9. NoneLost'
  <2>1. \A c : Places(c)' = Places(c)
    BY <1>2 DEF Places
  <2> QED
    BY <1>2, <1>5, <1>7, <2>1 DEF NoneLost, IInv
<1>10. Done' = Done \cup {c0} /\ c0 \notin Done
  <2>1. Completed(c0)' /\ ~Completed(c0)
    BY <1>2, <1>5, <1>6 DEF Completed
  <2>2. \A c \in Chunks \ {c0} : Completed(c)' <=> Completed(c)
    BY <1>2, <1>7 DEF Completed
  <2> QED
    BY <2>1, <2>2 DEF Done
<1>11. /\ Cardinality(Done') = Cardinality(Done) + 1
       /\ Cardinality(Done) \in Nat /\ Cardinality(Chunks) \in Nat
       /\ Cardinality(Done) < Cardinality(Chunks)
       /\ Cardinality(Done') = Cardinality(Chunks) => Done' = Chunks
  <2>1. Cardinality(Done') = Cardinality(Done) + 1
    BY <1>10, Counting, FS_AddElement
  <2>2. Done' \subseteq Chunks /\ Done # Chunks
    BY <1>10 DEF Done
  <2> QED
    BY <2>1, <2>2, SwarmAssumption, Counting, FS_Subset
<1>12. completedJobs' = completedJobs + 1 /\ completedJobs = Cardinality(Done)
  BY <1>11 DEF CompleteJob, AllCompleted, CompletionCounted, IInv
<1>13. /\ shuttingDown' => shuttingDown \/ completedJobs' = Cardinality(Chunks)
       /\ completedJobs' = Cardinality(Chunks) => shuttingDown'
       /\ shuttingDown => shuttingDown'
  <2>1. shuttingDown' <=> (shuttingDown \/ AllCompleted(completedJobs'))
    BY DEF CompleteJob
  <2>2. AllCompleted(completedJobs') <=> completedJobs' = Cardinality(Chunks)
    BY <1>11, <1>12 DEF AllCompleted
  <2> QED
    BY <2>1, <2>2
<1>14. CompletionCounted'
  BY <1>11, <1>12, <1>13 DEF CompletionCounted
<1>15. shuttingDown /\ ~failure => FALSE
  BY <1>10 DEF StopsForAReason, IInv
<1>16. StopsForAReason'
  <2>1. \A c \in Chunks : Abandoned(c) => Abandoned(c)'
    <3>1. ~Abandoned(c0)
      BY <1>6 DEF Abandoned
    <3> QED
      BY <1>2, <1>7, <3>1 DEF Abandoned
  <2>2. failure' => /\ shuttingDown' /\ jobQueue' = <<>>
                    /\ failureReason' \notin {"none", "shutdown"}
                    /\ \E c \in Chunks : Abandoned(c)'
    BY <1>2, <1>13, <2>1 DEF StopsForAReason, IInv
  <2>3. ~failure' => failureReason' = "none"
    BY <1>2 DEF StopsForAReason, IInv
  <2>4. shuttingDown' /\ ~failure' => Done' = Chunks
    BY <1>2, <1>11, <1>12, <1>13, <1>15
  <2>5. \A v \in Workers : /\ pc'[v] = "giveUp" => failure'
                           /\ pc'[v] = "done" => shuttingDown'
                           /\ pc'[v] = "jobWait" => ~shuttingDown' /\ jobQueue' = <<>>
    <3>1. \A v \in Workers : /\ pc[v] = "giveUp" => failure
                             /\ pc[v] = "done" => shuttingDown
                             /\ pc[v] = "jobWait" => ~shuttingDown /\ jobQueue = <<>>
      BY DEF StopsForAReason, IInv
    <3>2. pc'[w] # "giveUp" /\ pc'[w] # "done" /\ pc'[w] # "jobWait"
      BY <1>1
    <3> QED
      BY <1>1, <1>2, <1>4, <1>13, <3>1, <3>2 DEF TypeOK
  <2> QED
    BY <2>2, <2>3, <2>4, <2>5 DEF StopsForAReason
<1>17. VerdictFollowsFlags'
  <2>1. verdict = "running"
    BY <1>1 DEF VerdictFollowsFlags, IInv
  <2> QED
    BY <1>2, <2>1 DEF VerdictFollowsFlags
<1> QED
  BY <1>3, <1>8, <1>9, <1>14, <1>16, <1>17 DEF IInv

LEMMA StepInv == TypeOK /\ TypeOK' /\ IInv /\ [Next]_vars => IInv'
<1> SUFFICES ASSUME TypeOK, TypeOK', IInv, [Next]_vars PROVE IInv'
  OBVIOUS
<1>1. ASSUME NEW w \in Workers, TakeJob(w) PROVE IInv'
  BY <1>1, TakeJobInv
<1>2. ASSUME NEW w \in Workers, AcquirePeer(w) PROVE IInv'
  BY <1>2, AcquirePeerInv
<1>3. ASSUME NEW w \in Workers, Block(w) PROVE IInv'
  <2>1. /\ pc[w] = "block" /\ pc'[w] = "capacityWait" /\ OthersOnlyWake(w)
        /\ pc[w] \in Holding \ {"commit"} /\ pc'[w] \in Holding \ {"commit"}
    BY <1>3 DEF Block, TypeOK, OthersOnlyWake, Holding, Locations
  <2> QED
    BY <1>3, <2>1, SameJobs, SameSlots DEF Block, peerVars, IInv
<1>4. ASSUME NEW w \in Workers, GiveUp(w) PROVE IInv'
  <2>1. "shutdown" \in Reasons /\ pc[w] = "giveUp" /\ failure
    BY <1>4 DEF Reasons, GiveUp, IInv, StopsForAReason
  <2> QED
    BY <1>4, <2>1, RequeueInv DEF GiveUp, peerVars
<1>5. ASSUME NEW w \in Workers, FetchChunk(w) PROVE IInv'
  BY <1>5, FetchChunkInv
<1>6. ASSUME NEW w \in Workers, RejectChunk(w) PROVE IInv'
  <2> DEFINE reason == IF pc[w] = "missing" THEN "downloadFailed" ELSE "checksumMismatch"
             fatal == BudgetSpent(attempts'[job[w]])
  <2>1. reason \in Reasons /\ reason # "none" /\ reason # "shutdown" /\ fatal \in BOOLEAN
    BY DEF Reasons, BudgetSpent
  <2>2. RequeueJob(w, reason, fatal, "take") /\ pc[w] \in {"missing", "corrupt"}
    BY <1>6 DEF RejectChunk
  <2>3. UNCHANGED <<chunkStates, job, verdict, peer, outstanding, peerStates>>
    BY <1>6 DEF RejectChunk, peerVars
  <2> HIDE DEF reason, fatal
  <2> QED
    BY <2>1, <2>2, <2>3, RequeueInv
<1>7. ASSUME NEW w \in Workers, WriteChunk(w) PROVE IInv'
  BY <1>7, WriteChunkInv
<1>8. ASSUME NEW w \in Workers, CompleteJob(w) PROVE IInv'
  BY <1>8, CompleteJobInv
<1>9. ASSUME NEW w \in Workers, SpuriousWakeup(w) PROVE IInv'
  <2>1. CASE pc[w] = "capacityWait" /\ pc' = [pc EXCEPT ![w] = "acquire"]
    <3>1. /\ OthersOnlyWake(w) /\ pc'[w] = "acquire"
          /\ pc[w] \in Holding \ {"commit"} /\ pc'[w] \in Holding \ {"commit"}
      BY <2>1 DEF TypeOK, OthersOnlyWake, Holding, Locations
    <3> QED
      BY <1>9, <2>1, <3>1, SameJobs, SameSlots DEF SpuriousWakeup, peerVars, IInv
  <2>2. CASE pc[w] = "jobWait" /\ pc' = [pc EXCEPT ![w] = "take"]
    <3>1. /\ OthersOnlyWake(w) /\ pc'[w] = "take"
          /\ \A v \in Workers : /\ pc'[v] \in Holding <=> pc[v] \in Holding
                                /\ pc'[v] = "commit" <=> pc[v] = "commit"
                                /\ pc'[v] = "giveUp" <=> pc[v] = "giveUp"
                                /\ pc'[v] = "done" <=> pc[v] = "done"
                                /\ pc'[v] = "jobWait" => pc[v] = "jobWait"
      BY <2>2 DEF TypeOK, OthersOnlyWake, Holding, Locations
    <3>2. SlotsAccounted' /\ SleepersSeeNoSlot'
      BY <1>9, <2>2, <3>1, SameSlots DEF SpuriousWakeup, peerVars
    <3>3. UNCHANGED <<jobVars, chunkStates, job, verdict>>
      BY <1>9 DEF SpuriousWakeup
    <3>4. \A c : Holders(c)' = Holders(c) /\ Places(c)' = Places(c)
      BY <3>1, <3>3 DEF Holders, Places, jobVars
    <3>5. Done' = Done
      BY <3>3, <3>4 DEF Done, Completed
    <3>6. JobsApart'
      BY <3>1, <3>3 DEF JobsApart, IInv, jobVars
    <3>7. NoneLost' /\ CompletionCounted'
      BY <3>3, <3>4, <3>5 DEF NoneLost, CompletionCounted, IInv, jobVars
    <3>8. StopsForAReason'
      BY <3>1, <3>3, <3>4, <3>5 DEF StopsForAReason, Abandoned, IInv, jobVars
    <3>9. VerdictFollowsFlags'
      BY <3>1, <3>3 DEF VerdictFollowsFlags, IInv, jobVars
    <3> QED
      BY <3>2, <3>6, <3>7, <3>8, <3>9 DEF IInv
  <2> QED
    BY <1>9, <2>1, <2>2 DEF SpuriousWakeup
<1>10. ASSUME NEW p \in LateProviders, AddPeerState(p) PROVE IInv'
  <2>1. \A v \in Workers : pc'[v] = IF pc[v] = "capacityWait" THEN "acquire" ELSE pc[v]
    BY <1>10, WakeEffect DEF AddPeerState, TypeOK
  <2>2. \A v \in Workers : /\ pc'[v] \in Holding <=> pc[v] \in Holding
                           /\ \A l \in {"fetch", "commit", "giveUp", "done", "jobWait"} :
                                pc'[v] = l <=> pc[v] = l
                           /\ pc'[v] \notin {"block", "capacityWait"}
    BY <1>10, <2>1 DEF AddPeerState, CapacityMutexFree, Holding, Locations
  <2>3. UNCHANGED <<jobVars, chunkStates, job, verdict, outstanding, peer>>
    BY <1>10 DEF AddPeerState
  <2>4. /\ \A c : Holders(c)' = Holders(c) /\ Places(c)' = Places(c)
        /\ \A q : Fetchers(q)' = Fetchers(q)
    BY <2>2, <2>3 DEF Holders, Places, Fetchers, jobVars
  <2>5. Done' = Done
    BY <2>3, <2>4 DEF Done, Completed
  <2>6. JobsApart'
    BY <2>2, <2>3 DEF JobsApart, IInv, jobVars
  <2>7. NoneLost' /\ CompletionCounted' /\ SlotsAccounted'
    BY <2>3, <2>4, <2>5 DEF NoneLost, CompletionCounted, SlotsAccounted, IInv, jobVars
  <2>8. StopsForAReason'
    BY <2>2, <2>3, <2>4, <2>5 DEF StopsForAReason, Abandoned, IInv, jobVars
  <2>9. SleepersSeeNoSlot'
    BY <2>2 DEF SleepersSeeNoSlot
  <2>10. VerdictFollowsFlags'
    BY <2>2, <2>3 DEF VerdictFollowsFlags, IInv, jobVars
  <2> QED
    BY <2>6, <2>7, <2>8, <2>9, <2>10 DEF IInv
<1>11. CASE Return \/ UNCHANGED vars
  <2>1. UNCHANGED <<jobVars, chunkStates, peerVars, pc, job, peer>>
    BY <1>11 DEF Return, vars
  <2>2. JobsApart' /\ NoneLost' /\ SlotsAccounted' /\ SleepersSeeNoSlot'
    BY <2>1 DEF JobsApart, NoneLost, SlotsAccounted, SleepersSeeNoSlot, HasCapacity,
                Places, Holders, Fetchers, IInv, jobVars, peerVars
  <2>3. CompletionCounted' /\ StopsForAReason'
    BY <2>1 DEF CompletionCounted, StopsForAReason, Done, Completed, Abandoned, Holders,
                IInv, jobVars
  <2>4. VerdictFollowsFlags'
    <3>1. CASE verdict' = verdict
      BY <2>1, <3>1 DEF VerdictFollowsFlags, IInv, jobVars
    <3>2. CASE Return
      <4>1. \A w \in Workers : pc[w] = "done"
        BY <3>2 DEF Return
      <4>2. shuttingDown
        <5>1. 1 \in Workers
          BY WorkerCountType DEF Workers
        <5> QED
          BY <4>1, <5>1 DEF StopsForAReason, IInv
      <4>3. ~failure => completedJobs = Cardinality(Chunks)
        BY <4>2 DEF StopsForAReason, CompletionCounted, IInv
      <4>4. verdict' = IF failure THEN "failed" ELSE "succeeded"
        BY <3>2, <4>3 DEF Return
      <4> QED
        BY <2>1, <4>1, <4>2, <4>4 DEF VerdictFollowsFlags, jobVars
    <3> QED
      BY <1>11, <3>1, <3>2 DEF vars
  <2> QED
    BY <2>2, <2>3, <2>4 DEF IInv
<1> QED
  BY <1>1, <1>2, <1>3, <1>4, <1>5, <1>6, <1>7, <1>8, <1>9, <1>10, <1>11
     DEF Next, WorkerStep

\* The inductive invariant: a chunk is in one place, completions are counted
\* exactly, and every raised flag has its reason.
THEOREM Invariance == Spec => []IInv
<1>1. QED
  BY InitType, StepType, InitInv, StepInv, PTL DEF Spec

\* The invariant reads off every safety property of the worker pool.
LEMMA InvImplies ==
  TypeOK /\ IInv => SlotsAccounted /\ NoStuckWaiter /\ FailureIsGenuine /\ VerdictIsRight
<1> SUFFICES ASSUME TypeOK, IInv
             PROVE  SlotsAccounted /\ NoStuckWaiter /\ FailureIsGenuine /\ VerdictIsRight
  OBVIOUS
<1>1. FailureIsGenuine
  BY DEF FailureIsGenuine, IInv, StopsForAReason, Abandoned
<1>2. VerdictIsRight
  <2>1. ASSUME verdict = "succeeded" PROVE \A c \in Chunks : chunkStates[c] = 1
    <3>1. ~failure /\ shuttingDown
      BY <2>1 DEF IInv, VerdictFollowsFlags
    <3>2. Done = Chunks
      BY <3>1 DEF IInv, StopsForAReason
    <3> QED
      BY <3>2 DEF Done, Completed
  <2>2. ASSUME verdict = "failed" PROVE \E c \in Chunks : chunkStates[c] = 0
    BY <1>1, <2>2 DEF IInv, VerdictFollowsFlags, FailureIsGenuine
  <2> QED
    BY <2>1, <2>2 DEF VerdictIsRight
<1>3. ASSUME NEW w \in Workers, pc[w] = "capacityWait"
      PROVE  \E v \in Workers : pc[v] = "fetch"
  <2>1. 1 \in 1..Len(peerStates)
    <3>1. Len(peerStates) \in Nat /\ Len(peerStates) > 0
      BY EmptySeq DEF TypeOK
    <3> QED
      BY <3>1
  <2>2. PICK p \in Peers : p = peerStates[1]
    BY <2>1, ElementOfSeq DEF TypeOK
  <2>3. ~HasCapacity(p)
    BY <1>3, <2>1, <2>2 DEF IInv, SleepersSeeNoSlot
  <2>4. Cardinality(Fetchers(p)) # 0
    BY <2>3, LimitType DEF HasCapacity, IInv, SlotsAccounted, TypeOK
  <2>5. Fetchers(p) # {}
    BY <2>4, FS_EmptySet
  <2> QED
    BY <2>5 DEF Fetchers
<1>4. ASSUME NEW w \in Workers, pc[w] = "jobWait"
      PROVE  ~Stopping /\ \E v \in Workers : pc[v] \in Holding
  <2>1. ~shuttingDown /\ jobQueue = <<>> /\ ~failure
    BY <1>4 DEF IInv, StopsForAReason
  <2>2. Done # Chunks
    BY <2>1, Counting DEF IInv, CompletionCounted
  <2>3. PICK c \in Chunks : ~Completed(c)
    BY <2>2 DEF Done
  <2>4. \A i \in 1..Len(jobQueue) : FALSE
    <3>1. Len(jobQueue) = 0
      BY <2>1
    <3> QED
      BY <3>1
  <2>5. Holders(c) # {}
    BY <2>1, <2>3, <2>4 DEF Completed, IInv, NoneLost, Places, TypeOK
  <2> QED
    BY <2>1, <2>5 DEF Holders, Stopping
<1> QED
  BY <1>1, <1>2, <1>3, <1>4 DEF NoStuckWaiter, IInv

\* Every peer is asked for at most per_peer_limit chunks at a time, and its
\* outstanding count is exactly the number of workers fetching from it.
THEOREM SlotsNeverLeak == Spec => []SlotsAccounted
  BY TypeCorrect, Invariance, InvImplies, PTL

\* A worker that slept through the notification of the flags is still woken:
\* another worker is fetching, and its release notifies the sleepers.
THEOREM LostWakeupIsHarmless == Spec => []NoStuckWaiter
  BY TypeCorrect, Invariance, InvImplies, PTL

\* A download is declared failed only while one of its chunks is missing and
\* never with the shutdown message in place of the cause.
THEOREM FailuresAreGenuine == Spec => []FailureIsGenuine
  BY TypeCorrect, Invariance, InvImplies, PTL

\* The call returns true exactly when all chunks were written.
THEOREM VerdictsAreRight == Spec => []VerdictIsRight
  BY TypeCorrect, Invariance, InvImplies, PTL

\* Only AcquirePeer starts a fetch, and only before the flags are up.
LEMMA StepAfterStop ==
  TypeOK /\ [Next]_vars => [Stopping => \A w \in Workers : pc'[w] = "fetch" => pc[w] = "fetch"]_vars
<1> SUFFICES ASSUME TypeOK, [Next]_vars, Stopping, NEW v \in Workers, pc'[v] = "fetch"
             PROVE  pc[v] = "fetch"
  OBVIOUS
<1>1. ASSUME NEW w \in Workers, OthersOnlyWake(w), pc'[w] # "fetch"
      PROVE  pc[v] = "fetch"
  BY <1>1, OthersHold
<1>2. ASSUME NEW w \in Workers, TakeJob(w) \/ AcquirePeer(w) \/ Block(w) \/ SpuriousWakeup(w)
      PROVE  pc[v] = "fetch"
  BY <1>1, <1>2 DEF TakeJob, AcquirePeer, TakeSlot, Block, SpuriousWakeup, OthersOnlyWake, TypeOK
<1>3. ASSUME NEW w \in Workers, GiveUp(w) \/ RejectChunk(w) \/ WriteChunk(w) \/ FetchChunk(w)
                                \/ CompleteJob(w)
      PROVE  pc[v] = "fetch"
  <2>1. PICK l \in Locations \ {"fetch"}, pcs \in [Workers -> Locations] :
           /\ pcs = [pc EXCEPT ![w] = l]
           /\ pc' = pcs \/ pc' = NotifyCapacity(pcs) \/ pc' = NotifyBoth(pcs)
    <3>1. \A l \in Locations : [pc EXCEPT ![w] = l] \in [Workers -> Locations]
      BY DEF TypeOK
    <3>2. CASE GiveUp(w) \/ RejectChunk(w)
      BY <3>1, <3>2 DEF GiveUp, RejectChunk, RequeueJob, Locations
    <3>3. CASE WriteChunk(w) \/ CompleteJob(w)
      BY <3>1, <3>3 DEF WriteChunk, CompleteJob, RequeueJob, Locations
    <3>4. CASE FetchChunk(w)
      <4>1. Replies[peer[w]] \subseteq ReplyKinds
        BY SwarmAssumption DEF TypeOK
      <4> QED
        BY <3>1, <3>4, <4>1 DEF FetchChunk, ReplyKinds, Locations
    <3> QED
      BY <1>3, <3>2, <3>3, <3>4
  <2>2. pcs[v] = "fetch"
    BY <2>1, WakeEffect
  <2> QED
    BY <2>1, <2>2 DEF TypeOK
<1>4. ASSUME NEW p \in LateProviders, AddPeerState(p) PROVE pc[v] = "fetch"
  BY <1>4, WakeEffect DEF AddPeerState, TypeOK
<1>5. CASE Return \/ UNCHANGED vars
  BY <1>5 DEF Return, vars
<1> QED
  BY <1>2, <1>3, <1>4, <1>5 DEF Next, WorkerStep

\* No fetch starts once the download failed or finished.
THEOREM NothingStartsAfterStop == Spec => NoFetchAfterStop
  BY TypeCorrect, StepAfterStop, PTL DEF Spec, NoFetchAfterStop

-----------------------------------------------------------------------------
Written == {c \in Chunks : chunkStates[c] = 1}

\* Each step of the pool writes one chunk, returns, or is invisible to the caller.
LEMMA StepRefines == TypeOK /\ IInv /\ [Next]_vars => [Transfer!Next]_(Transfer!vars)
<1> SUFFICES ASSUME TypeOK, IInv, [Next]_vars PROVE [Transfer!Next]_(Transfer!vars)
  OBVIOUS
<1> USE DEF Transfer!vars
<1>1. ASSUME UNCHANGED <<chunkStates, verdict>> PROVE UNCHANGED Transfer!vars
  BY <1>1
<1>2. ASSUME NEW w \in Workers, WriteChunk(w) PROVE [Transfer!Next]_(Transfer!vars)
  <2>1. CASE UNCHANGED chunkStates
    BY <1>1, <1>2, <2>1 DEF WriteChunk
  <2>2. CASE chunkStates' = [chunkStates EXCEPT ![job[w]] = 1]
    <3>0. pc[w] = "received" /\ pc[w] \in Holding /\ pc[w] # "done" /\ job[w] \in Chunks
      BY <1>2 DEF WriteChunk, TypeOK, Holding, Locations
    <3>1. job[w] \in Chunks /\ job[w] \notin Written /\ verdict = "running"
      BY <3>0 DEF IInv, JobsApart, VerdictFollowsFlags, Written
    <3>2. Written' = Written \cup {job[w]} /\ verdict' = verdict
      BY <1>2, <2>2, <3>1 DEF Written, TypeOK, WriteChunk
    <3>3. PICK c \in Chunks : c = job[w]
      BY <3>1
    <3>4. Transfer!Write(c)
      BY <3>1, <3>2, <3>3 DEF Transfer!Write, Written
    <3> QED
      BY <3>4 DEF Transfer!Next
  <2> QED
    BY <1>2, <2>1, <2>2 DEF WriteChunk
<1>3. CASE Return
  <2>1. TypeOK' /\ IInv'
    BY StepType, StepInv, <1>3 DEF Next
  <2>2. VerdictIsRight' /\ verdict = "running" /\ verdict' \in {"succeeded", "failed"}
        /\ Written' = Written /\ chunkStates' = chunkStates
    <3>1. VerdictIsRight'
      BY <2>1, InvImplies, PTL
    <3> QED
      BY <1>3, <3>1 DEF Return, Written
  <2>3. CASE verdict' = "succeeded"
    <3>1. Written = Chunks
      BY <2>2, <2>3 DEF VerdictIsRight, Written
    <3>2. Transfer!Succeed
      BY <2>2, <2>3, <3>1 DEF Transfer!Succeed, Written
    <3> QED
      BY <3>2 DEF Transfer!Next
  <2>4. CASE verdict' = "failed"
    <3>1. Written # Chunks
      BY <2>2, <2>4 DEF VerdictIsRight, Written, TypeOK
    <3>2. Transfer!Fail
      BY <2>2, <2>4, <3>1 DEF Transfer!Fail, Written
    <3> QED
      BY <3>2 DEF Transfer!Next
  <2> QED
    BY <2>2, <2>3, <2>4
<1>4. ASSUME NEW w \in Workers,
             \/ TakeJob(w) \/ AcquirePeer(w) \/ Block(w) \/ GiveUp(w) \/ FetchChunk(w)
             \/ RejectChunk(w) \/ CompleteJob(w) \/ SpuriousWakeup(w)
      PROVE  UNCHANGED <<chunkStates, verdict>>
  BY <1>4 DEF TakeJob, AcquirePeer, Block, GiveUp, FetchChunk, RejectChunk, CompleteJob, SpuriousWakeup
<1>5. ASSUME NEW p \in LateProviders, AddPeerState(p) PROVE UNCHANGED <<chunkStates, verdict>>
  BY <1>5 DEF AddPeerState
<1> QED
  BY <1>1, <1>2, <1>3, <1>4, <1>5 DEF Next, WorkerStep, vars

\* The worker pool implements the one-call abstraction: chunks appear one at a
\* time, and the call returns the right answer once.
THEOREM PoolImplementsTransfer == Spec => Transfer!SafeSpec
<1>1. Init => Transfer!Init
  BY DEF Init, Transfer!Init
<1>2. QED
  BY <1>1, TypeCorrect, Invariance, StepRefines, PTL DEF Spec, Transfer!SafeSpec

-----------------------------------------------------------------------------
\* The workers that hold a job, which active_jobs counts.
Busy == {w \in Workers : pc[w] \in Holding}
ActiveCounted == activeJobs = Cardinality(Busy)

LEMMA BusyFinite == IsFiniteSet(Busy)
<1>1. IsFiniteSet(Workers)
  BY WorkerCountType, FS_Interval DEF Workers
<1> QED
  BY <1>1, FS_Subset DEF Busy

\* The same workers hold a job.
LEMMA BusyKept ==
  ASSUME ActiveCounted, activeJobs' = activeJobs,
         \A v \in Workers : pc'[v] \in Holding <=> pc[v] \in Holding
  PROVE  ActiveCounted'
<1>1. Busy' = Busy
  BY DEF Busy
<1> QED
  BY <1>1 DEF ActiveCounted

\* Worker w gives its job up.
LEMMA BusyLeft ==
  ASSUME ActiveCounted, NEW w \in Workers, pc[w] \in Holding, pc'[w] \notin Holding,
         activeJobs' = IF activeJobs > 0 THEN activeJobs - 1 ELSE 0,
         \A v \in Workers \ {w} : pc'[v] \in Holding <=> pc[v] \in Holding
  PROVE  ActiveCounted'
<1>1. Busy' = Busy \ {w} /\ w \in Busy
  BY DEF Busy
<1>2. Cardinality(Busy') = Cardinality(Busy) - 1 /\ Cardinality(Busy) # 0
      /\ Cardinality(Busy) \in Nat
  BY <1>1, BusyFinite, FS_RemoveElement, FS_EmptySet, FS_CardinalityType
<1> QED
  BY <1>2 DEF ActiveCounted

\* Notifications move sleepers between places of the same kind.
LEMMA WakingKeepsHolding ==
  ASSUME NEW pcs \in [Workers -> Locations], NEW v \in Workers
  PROVE  /\ NotifyCapacity(pcs)[v] \in Holding <=> pcs[v] \in Holding
         /\ NotifyBoth(pcs)[v] \in Holding <=> pcs[v] \in Holding
BY WakeEffect DEF Holding, Locations

\* The three callers of requeue_job.
LEMMA BusyRequeue ==
  ASSUME TypeOK, ActiveCounted, NEW w \in Workers, pc[w] \in Holding,
         NEW reason \in Reasons, NEW fatal \in BOOLEAN,
         NEW to \in {"take", "done"}, RequeueJob(w, reason, fatal, to)
  PROVE  ActiveCounted'
<1>1. pc'[w] = to /\ \A v \in Workers \ {w} :
        pc'[v] = IF pc[v] = "capacityWait" THEN "acquire"
                 ELSE IF pc[v] = "jobWait" THEN "take" ELSE pc[v]
  BY RequeueEffect
<1>2. pc'[w] \notin Holding /\ \A v \in Workers \ {w} : pc'[v] \in Holding <=> pc[v] \in Holding
  BY <1>1 DEF Holding, Locations
<1>3. activeJobs' = IF activeJobs > 0 THEN activeJobs - 1 ELSE 0
  BY DEF RequeueJob
<1> QED
  BY <1>2, <1>3, BusyLeft

LEMMA ActiveStep == TypeOK /\ ActiveCounted /\ [Next]_vars => ActiveCounted'
<1> SUFFICES ASSUME TypeOK, ActiveCounted, [Next]_vars PROVE ActiveCounted'
  OBVIOUS
<1>t. pc \in [Workers -> Locations]
  BY DEF TypeOK
<1>1. ASSUME NEW w \in Workers, WorkerStep(w) PROVE ActiveCounted'
  <2>1. CASE TakeJob(w)
    <3>1. CASE activeJobs' = activeJobs
      <4>1. \A v \in Workers : pc'[v] \in Holding <=> pc[v] \in Holding
        <5>1. activeJobs \in Nat
          BY DEF TypeOK
        <5>2. pc[w] = "take" /\ (pc' = [pc EXCEPT ![w] = "done"] \/ pc' = [pc EXCEPT ![w] = "jobWait"])
          BY <2>1, <3>1, <5>1 DEF TakeJob
        <5> QED
          BY <1>t, <5>2 DEF Holding
      <4> QED
        BY <3>1, <4>1, BusyKept
    <3>2. CASE activeJobs' # activeJobs
      <4>1. /\ pc[w] = "take" /\ pc' = [pc EXCEPT ![w] = "acquire"]
            /\ activeJobs' = activeJobs + 1
        BY <2>1, <3>2 DEF TakeJob
      <4>2. Busy' = Busy \cup {w} /\ w \notin Busy
        BY <1>t, <4>1 DEF Busy, Holding, Locations
      <4>3. Cardinality(Busy') = Cardinality(Busy) + 1
        BY <4>2, BusyFinite, FS_AddElement
      <4> QED
        BY <4>1, <4>3 DEF ActiveCounted
    <3> QED
      BY <3>1, <3>2
  <2>2. CASE AcquirePeer(w) \/ Block(w)
    <3>1. activeJobs' = activeJobs /\ pc[w] \in {"acquire", "block"}
      BY <2>2 DEF AcquirePeer, Block, jobVars
    <3>2. PICK l \in {"giveUp", "fetch", "block", "capacityWait"} : pc' = [pc EXCEPT ![w] = l]
      BY <2>2 DEF AcquirePeer, Block, TakeSlot, TakeSlotUnchecked
    <3>3. \A v \in Workers : pc'[v] \in Holding <=> pc[v] \in Holding
      BY <1>t, <3>1, <3>2 DEF Holding, Locations
    <3> QED
      BY <3>1, <3>3, BusyKept
  <2>3. CASE GiveUp(w)
    BY <2>3, BusyRequeue DEF GiveUp, Holding, Locations, Reasons
  <2>4. CASE FetchChunk(w)
    <3>1. PICK l \in {"received", "missing", "corrupt"} : pc' = NotifyCapacity([pc EXCEPT ![w] = l])
      <4>1. Replies[peer[w]] \subseteq ReplyKinds
        BY SwarmAssumption DEF TypeOK
      <4> QED
        BY <2>4, <4>1 DEF FetchChunk, ReplyKinds
    <3>2. activeJobs' = activeJobs /\ pc[w] = "fetch"
      BY <2>4 DEF FetchChunk, jobVars
    <3> DEFINE p1 == [pc EXCEPT ![w] = l]
    <3>3. p1 \in [Workers -> Locations]
      BY <1>t DEF Locations
    <3>4. \A v \in Workers : p1[v] \in Holding <=> pc[v] \in Holding
      BY <1>t, <3>2 DEF Holding, Locations
    <3>5. pc' = NotifyCapacity(p1)
      BY <3>1
    <3> HIDE DEF p1
    <3>6. \A v \in Workers : pc'[v] \in Holding <=> pc[v] \in Holding
      BY <3>3, <3>4, <3>5, WakingKeepsHolding
    <3> QED
      BY <3>2, <3>6, BusyKept
  <2>5. CASE RejectChunk(w)
    <3>1. pc[w] \in Holding
      BY <2>5 DEF RejectChunk, Holding, Locations
    <3> DEFINE reason == IF pc[w] = "missing" THEN "downloadFailed"
                                               ELSE "checksumMismatch"
               fatal == BudgetSpent(attempts'[job[w]])
    <3>2. reason \in Reasons /\ fatal \in BOOLEAN
      BY DEF Reasons, BudgetSpent
    <3>3. RequeueJob(w, reason, fatal, "take")
      BY <2>5 DEF RejectChunk
    <3> HIDE DEF reason, fatal
    <3> QED
      BY <3>1, <3>2, <3>3, BusyRequeue
  <2>6. CASE WriteChunk(w)
    <3>1. CASE RequeueJob(w, "writeFailed", TRUE, "done")
      <4>1. pc[w] \in Holding
        BY <2>6 DEF WriteChunk, Holding, Locations
      <4> QED
        BY <3>1, <4>1, BusyRequeue DEF Reasons
    <3>2. CASE pc' = [pc EXCEPT ![w] = "commit"] /\ UNCHANGED jobVars
      <4>1. activeJobs' = activeJobs
        BY <3>2 DEF jobVars
      <4>2. \A v \in Workers : pc'[v] \in Holding <=> pc[v] \in Holding
        BY <1>t, <2>6, <3>2 DEF WriteChunk, Holding, Locations
      <4> QED
        BY <4>1, <4>2, BusyKept
    <3> QED
      BY <2>6, <3>1, <3>2 DEF WriteChunk
  <2>7. CASE CompleteJob(w)
    <3> DEFINE n == [pc EXCEPT ![w] = "take"]
    <3>1. n \in [Workers -> Locations] /\ n[w] = "take" /\ \A v \in Workers \ {w} : n[v] = pc[v]
      BY <1>t DEF Locations
    <3>2. pc' = NotifyBoth(n) \/ pc' = n
      BY <2>7 DEF CompleteJob
    <3>3. /\ pc[w] = "commit"
          /\ activeJobs' = IF activeJobs > 0 THEN activeJobs - 1 ELSE 0
      BY <2>7 DEF CompleteJob
    <3> HIDE DEF n
    <3>4. \A v \in Workers : pc'[v] \in Holding <=> n[v] \in Holding
      BY <3>1, <3>2, WakingKeepsHolding
    <3>5. pc[w] \in Holding /\ pc'[w] \notin Holding
      BY <3>1, <3>3, <3>4 DEF Holding, Locations
    <3> QED
      BY <3>1, <3>3, <3>4, <3>5, BusyLeft
  <2> QED
    BY <1>1, <2>1, <2>2, <2>3, <2>4, <2>5, <2>6, <2>7 DEF WorkerStep
<1>2. ASSUME NEW w \in Workers, SpuriousWakeup(w) PROVE ActiveCounted'
  <2>1. activeJobs' = activeJobs
    BY <1>2 DEF SpuriousWakeup, jobVars
  <2>2. \A v \in Workers : pc'[v] \in Holding <=> pc[v] \in Holding
    BY <1>2, <1>t DEF SpuriousWakeup, Holding, Locations
  <2> QED
    BY <2>1, <2>2, BusyKept
<1>3. ASSUME NEW p \in LateProviders, AddPeerState(p) PROVE ActiveCounted'
  <2>1. activeJobs' = activeJobs /\ pc' = NotifyCapacity(pc)
    BY <1>3 DEF AddPeerState, jobVars
  <2> QED
    BY <1>t, <2>1, WakingKeepsHolding, BusyKept
<1>4. CASE Return \/ UNCHANGED vars
  BY <1>4, BusyKept DEF Return, vars, jobVars
<1> QED
  BY <1>1, <1>2, <1>3, <1>4 DEF Next

LEMMA AtMostOne ==
  ASSUME NEW S, \A x, y \in S : x = y
  PROVE  /\ Cardinality(S) \in {0, 1}
         /\ Cardinality(S) = 0 <=> S = {}
<1>1. CASE S = {}
  BY <1>1, FS_EmptySet
<1>2. CASE S # {}
  <2>1. PICK x \in S : S = {x}
    BY <1>2
  <2> QED
    BY <2>1, FS_Singleton
<1> QED
  BY <1>1, <1>2

\* A chunk is queued once, held by one worker or complete, until the download
\* fails, and the counters agree: nothing is lost, done twice or miscounted.
THEOREM JobsAreAccounted == Spec => []JobsAccounted
<1>1. Init => ActiveCounted
  <2>1. ASSUME Init PROVE Busy = {} /\ activeJobs = 0
    BY <2>1 DEF Init, Busy, Holding
  <2> QED
    BY <2>1, FS_EmptySet DEF ActiveCounted
<1>2. ASSUME TypeOK, IInv, ActiveCounted PROVE JobsAccounted
  <2>1. ASSUME NEW c \in Chunks
        PROVE  LET n == Cardinality(Places(c)) + Cardinality(Holders(c)) IN
                 /\ n <= 1
                 /\ chunkStates[c] = 1 => Places(c) = {} /\ \A w \in Holders(c) : pc[w] = "commit"
                 /\ ~failure => n = 1 \/ Completed(c)
    <3>1. /\ Cardinality(Places(c)) \in {0, 1}
          /\ Cardinality(Places(c)) = 0 <=> Places(c) = {}
      <4>1. \A i, j \in Places(c) : i = j
        BY <1>2 DEF Places, IInv, JobsApart
      <4> QED
        BY <4>1, AtMostOne
    <3>2. /\ Cardinality(Holders(c)) \in {0, 1}
          /\ Cardinality(Holders(c)) = 0 <=> Holders(c) = {}
      <4>1. \A v, w \in Holders(c) : v = w
        BY <1>2 DEF Holders, IInv, JobsApart
      <4> QED
        BY <4>1, AtMostOne
    <3>3. Places(c) = {} \/ Holders(c) = {}
      BY <1>2 DEF Places, Holders, IInv, JobsApart
    <3>4. chunkStates[c] = 1 => Places(c) = {} /\ \A w \in Holders(c) : pc[w] = "commit"
      BY <1>2 DEF Places, Holders, IInv, JobsApart
    <3>5. ~failure => Places(c) # {} \/ Holders(c) # {} \/ Completed(c)
      BY <1>2 DEF IInv, NoneLost, Completed, TypeOK
    <3> QED
      BY <3>1, <3>2, <3>3, <3>4, <3>5
  <2>2. completedJobs = Cardinality(Done)
    BY <1>2 DEF IInv, CompletionCounted
  <2> QED
    BY <1>2, <2>1, <2>2 DEF JobsAccounted, ActiveCounted, Busy
<1> QED
  BY <1>1, <1>2, ActiveStep, TypeCorrect, Invariance, PTL DEF Spec

-----------------------------------------------------------------------------
LEMMA BudgetGrows ==
  \A m, n \in Nat : /\ AtLeast(3, 2 * n) \in Nat /\ AtLeast(3, 2 * n) >= 3
                    /\ m <= n => AtLeast(3, 2 * m) <= AtLeast(3, 2 * n)
BY DEF AtLeast

\* Without a new refusal: nobody takes a chunk up, and no peer leaves.
LEMMA BudgetKept ==
  ASSUME TypeOK, TypeOK', BudgetInv, attempts' = attempts, failure => failure',
         Len(peerStates) <= Len(peerStates'),
         failureReason' = failureReason \/ failureReason' \notin {"downloadFailed", "checksumMismatch"},
         \A v \in Workers : pc'[v] \in Holding => pc[v] \in Holding /\ job'[v] = job[v],
         \A c \in Chunks : Abandoned(c) => chunkStates'[c] = chunkStates[c]
  PROVE  BudgetInv'
<1>1. \A c \in Chunks : Holders(c) = {} => Holders(c)' = {}
  BY DEF Holders
<1>2. \A c \in Chunks : Abandoned(c) => Abandoned(c)'
  BY <1>1 DEF Abandoned
<1>3. /\ RetryBudget \in Nat /\ RetryBudget' \in Nat /\ RetryBudget <= RetryBudget'
      /\ Len(peerStates) \in Nat /\ Len(peerStates') \in Nat
      /\ \A c \in Chunks : attempts[c] \in Nat
  <2>1. Len(peerStates) \in Nat /\ Len(peerStates') \in Nat
    BY LenProperties DEF TypeOK
  <2> QED BY <2>1, BudgetGrows DEF TypeOK, RetryBudget
<1>4. Cardinality(InitialProviders) \in Nat
  BY SwarmAssumption, FS_CardinalityType
<1>5. \A c \in Chunks : \/ attempts'[c] < RetryBudget'
                        \/ attempts'[c] = RetryBudget' /\ failure' /\ Holders(c)' = {}
  BY <1>1, <1>3 DEF BudgetInv
<1>6. RetriesBounded'
  <2>1. \A c \in Chunks : attempts'[c] <= RetryBudget'
    BY <1>3, <1>5
  <2>2. ASSUME failureReason' \in {"downloadFailed", "checksumMismatch"}
        PROVE  \E c \in Chunks : Abandoned(c)' /\ attempts'[c] >= AtLeast(3, 2 * Cardinality(InitialProviders))
    BY <2>2, <1>2 DEF BudgetInv, RetriesBounded
  <2> QED BY <2>1, <2>2 DEF RetriesBounded
<1> QED BY <1>3, <1>4, <1>5, <1>6 DEF BudgetInv

\* A refusal is counted for a chunk that one worker holds, and the one that
\* spends the budget stops the download with this chunk missing.
LEMMA BudgetReject ==
  ASSUME TypeOK, TypeOK', IInv, BudgetInv, NEW w \in Workers, RejectChunk(w)
  PROVE  BudgetInv'
<1> DEFINE reason == IF pc[w] = "missing" THEN "downloadFailed" ELSE "checksumMismatch"
           fatal == BudgetSpent(attempts'[job[w]])
<1>1. /\ reason \in Reasons \ {"none", "shutdown"} /\ fatal \in BOOLEAN
      /\ fatal <=> attempts'[job[w]] >= RetryBudget
  BY DEF Reasons, BudgetSpent
<1>2. /\ RequeueJob(w, reason, fatal, "take") /\ pc[w] \in {"missing", "corrupt"}
      /\ failureReason' = IF fatal /\ failureReason = "none" THEN reason ELSE failureReason
      /\ attempts' = [attempts EXCEPT ![job[w]] = @ + 1]
      /\ UNCHANGED <<chunkStates, job, peerStates>>
  BY DEF RejectChunk, peerVars, RequeueJob
<1> HIDE DEF reason, fatal
<1>3. PICK d \in Chunks : d = job[w]
  BY DEF TypeOK
<1>4. pc[w] \in Holding /\ chunkStates[d] = 0 /\ w \in Holders(d)
  BY <1>2, <1>3 DEF IInv, JobsApart, Holding, Locations, Holders
<1>5. /\ pc'[w] = "take" /\ failure' = (failure \/ fatal)
      /\ \A v \in Workers \ {w} : pc'[v] \in Holding <=> pc[v] \in Holding
  BY <1>1, <1>2, RequeueEffect DEF Holding, Locations
<1>6. Holders(d)' = {} /\ \A c \in Chunks \ {d} : Holders(c)' = Holders(c)
  BY <1>2, <1>3, <1>4, <1>5 DEF Holders, IInv, JobsApart, Holding
<1>7. /\ RetryBudget \in Nat /\ RetryBudget' = RetryBudget
      /\ Len(peerStates) \in Nat /\ Len(peerStates') = Len(peerStates)
      /\ \A c \in Chunks : attempts[c] \in Nat
  <2>1. Len(peerStates) \in Nat /\ Len(peerStates') = Len(peerStates)
    BY <1>2, LenProperties DEF TypeOK
  <2> QED BY <1>2, <2>1, BudgetGrows DEF TypeOK, RetryBudget
<1>8. attempts[d] < RetryBudget /\ attempts'[d] = attempts[d] + 1
      /\ \A c \in Chunks \ {d} : attempts'[c] = attempts[c]
  BY <1>2, <1>3, <1>4 DEF BudgetInv, TypeOK
<1>9. \A c \in Chunks : \/ attempts'[c] < RetryBudget'
                        \/ attempts'[c] = RetryBudget' /\ failure' /\ Holders(c)' = {}
  <2>1. attempts'[d] < RetryBudget \/ (attempts'[d] = RetryBudget /\ fatal)
    BY <1>1, <1>3, <1>7, <1>8
  <2>2. ASSUME NEW c \in Chunks \ {d}
        PROVE  \/ attempts'[c] < RetryBudget'
               \/ attempts'[c] = RetryBudget' /\ failure' /\ Holders(c)' = {}
    BY <1>5, <1>6, <1>7, <1>8 DEF BudgetInv
  <2> QED BY <2>1, <2>2, <1>5, <1>6, <1>7
<1>10. ASSUME failureReason' \in {"downloadFailed", "checksumMismatch"}
       PROVE  \E c \in Chunks : Abandoned(c)' /\ attempts'[c] >= AtLeast(3, 2 * Cardinality(InitialProviders))
  <2>1. CASE failureReason' = failureReason
    <3>1. PICK c \in Chunks : Abandoned(c) /\ attempts[c] >= AtLeast(3, 2 * Cardinality(InitialProviders))
      BY <1>10, <2>1 DEF BudgetInv, RetriesBounded
    <3>2. c # d
      BY <1>4, <3>1 DEF Abandoned
    <3> QED BY <1>2, <1>6, <1>8, <3>1, <3>2 DEF Abandoned
  <2>2. CASE failureReason' # failureReason
    <3>1. attempts'[d] >= RetryBudget
      BY <1>1, <1>2, <1>3, <2>2
    <3>2. RetryBudget >= AtLeast(3, 2 * Cardinality(InitialProviders))
      BY <1>7, SwarmAssumption, FS_CardinalityType DEF RetryBudget, AtLeast, BudgetInv
    <3>3. AtLeast(3, 2 * Cardinality(InitialProviders)) \in Nat /\ attempts'[d] \in Nat
      BY <1>7, <1>8, SwarmAssumption, FS_CardinalityType DEF AtLeast
    <3>4. attempts'[d] >= AtLeast(3, 2 * Cardinality(InitialProviders))
      BY <3>1, <3>2, <3>3, <1>7
    <3> QED BY <1>2, <1>4, <1>6, <3>4 DEF Abandoned
  <2> QED BY <2>1, <2>2
<1>11. RetriesBounded'
  <2>1. \A c \in Chunks : attempts'[c] <= RetryBudget'
    BY <1>7, <1>8, <1>9
  <2> QED BY <2>1, <1>10 DEF RetriesBounded
<1> QED BY <1>7, <1>9, <1>11 DEF BudgetInv

\* The other requeues keep the chunk's attempts.
LEMMA BudgetRequeue ==
  ASSUME TypeOK, TypeOK', BudgetInv, NEW w \in Workers, NEW reason \in Reasons, NEW fatal \in BOOLEAN,
         RequeueJob(w, reason, fatal, "done"),
         failureReason = "none" => reason \notin {"downloadFailed", "checksumMismatch"},
         UNCHANGED <<attempts, chunkStates, job, peerStates>>
  PROVE  BudgetInv'
<1>1. /\ pc'[w] = "done" /\ (failure => failure')
      /\ \A v \in Workers \ {w} : pc'[v] \in Holding <=> pc[v] \in Holding
  BY RequeueEffect DEF Holding, Locations
<1>2. failureReason' = failureReason \/ failureReason' \notin {"downloadFailed", "checksumMismatch"}
  BY DEF RequeueJob
<1>3. \A v \in Workers : pc'[v] \in Holding => pc[v] \in Holding /\ job'[v] = job[v]
  BY <1>1 DEF Holding
<1>4. Len(peerStates) <= Len(peerStates')
  BY LenProperties DEF TypeOK
<1> QED BY <1>1, <1>2, <1>3, <1>4, BudgetKept

LEMMA BudgetStep ==
  ASSUME TypeOK, TypeOK', IInv, BudgetInv, [Next]_vars
  PROVE  BudgetInv'
<1>t. pc \in [Workers -> Locations] /\ Len(peerStates) \in Nat
  BY LenProperties DEF TypeOK
<1>k. ASSUME UNCHANGED <<attempts, failure, failureReason, chunkStates, job>>,
             Len(peerStates) <= Len(peerStates'),
             \A v \in Workers : pc'[v] \in Holding => pc[v] \in Holding
      PROVE  BudgetInv'
  BY <1>k, BudgetKept
<1>1. ASSUME NEW w \in Workers, TakeJob(w) PROVE BudgetInv'
  <2>1. UNCHANGED <<attempts, failure, failureReason, chunkStates, peerStates>>
    BY <1>1 DEF TakeJob, peerVars
  <2>2. CASE UNCHANGED job /\ pc'[w] \in {"done", "jobWait"} /\ OthersOnlyWake(w)
    <3>1. \A v \in Workers : pc'[v] \in Holding => pc[v] \in Holding
      BY <2>2, OthersHold DEF Holding
    <3> QED BY <1>t, <2>1, <2>2, <3>1, <1>k
  <2>3. CASE ~failure
    <3>1. \A c \in Chunks : attempts'[c] < RetryBudget'
      BY <2>1, <2>3 DEF BudgetInv, RetryBudget
    <3>2. failureReason' = "none"
      BY <2>1, <2>3 DEF IInv, StopsForAReason
    <3>3. RetryBudget' \in Nat /\ \A c \in Chunks : attempts'[c] \in Nat
      <4>1. Len(peerStates') \in Nat
        BY LenProperties DEF TypeOK
      <4> QED BY <4>1, BudgetGrows DEF TypeOK, RetryBudget
    <3>4. RetriesBounded'
      BY <3>1, <3>2, <3>3 DEF RetriesBounded
    <3> QED BY <2>1, <3>1, <3>4 DEF BudgetInv
  <2> QED BY <1>t, <1>1, <2>2, <2>3 DEF TakeJob, Stopping, OthersOnlyWake
<1>2. ASSUME NEW w \in Workers, AcquirePeer(w) \/ Block(w) PROVE BudgetInv'
  <2>1. UNCHANGED <<attempts, failure, failureReason, chunkStates, job, peerStates>>
    BY <1>2 DEF AcquirePeer, Block, jobVars, peerVars
  <2>2. PICK l \in Locations : pc[w] \in {"acquire", "block"} /\ pc' = [pc EXCEPT ![w] = l]
    BY <1>2 DEF AcquirePeer, Block, TakeSlot, TakeSlotUnchecked, Locations
  <2>3. \A v \in Workers : pc'[v] \in Holding => pc[v] \in Holding
    BY <1>t, <2>2 DEF Holding, Locations
  <2> QED BY <1>t, <2>1, <2>3, <1>k
<1>3. ASSUME NEW w \in Workers, GiveUp(w) PROVE BudgetInv'
  <2>1. failureReason # "none" /\ "shutdown" \in Reasons
    BY <1>3 DEF GiveUp, IInv, StopsForAReason, Reasons
  <2> QED BY <1>3, <2>1, BudgetRequeue DEF GiveUp, peerVars
<1>4. ASSUME NEW w \in Workers, FetchChunk(w) PROVE BudgetInv'
  <2>1. UNCHANGED <<attempts, failure, failureReason, chunkStates, job, peerStates>>
    BY <1>4 DEF FetchChunk, jobVars
  <2>2. Replies[peer[w]] \subseteq ReplyKinds
    BY SwarmAssumption DEF TypeOK
  <2>3. PICK l \in {"received", "missing", "corrupt"} : pc' = NotifyCapacity([pc EXCEPT ![w] = l])
    BY <1>4, <2>2 DEF FetchChunk, ReplyKinds
  <2> DEFINE p1 == [pc EXCEPT ![w] = l]
  <2>4. /\ p1 \in [Workers -> Locations] /\ pc' = NotifyCapacity(p1)
        /\ \A v \in Workers : p1[v] \in Holding => pc[v] \in Holding
    BY <1>t, <1>4, <2>3 DEF FetchChunk, Holding, Locations
  <2> HIDE DEF p1
  <2>5. \A v \in Workers : pc'[v] \in Holding => pc[v] \in Holding
    BY <2>4, WakingKeepsHolding
  <2> QED BY <1>t, <2>1, <2>5, <1>k
<1>5. ASSUME NEW w \in Workers, RejectChunk(w) PROVE BudgetInv'
  BY <1>5, BudgetReject
<1>6. ASSUME NEW w \in Workers, WriteChunk(w) PROVE BudgetInv'
  <2>1. CASE RequeueJob(w, "writeFailed", TRUE, "done") /\ UNCHANGED chunkStates
    BY <1>6, <2>1, BudgetRequeue DEF WriteChunk, Reasons, peerVars
  <2>2. CASE /\ chunkStates' = [chunkStates EXCEPT ![job[w]] = 1]
             /\ pc' = [pc EXCEPT ![w] = "commit"] /\ UNCHANGED jobVars
    <3>1. pc[w] \in Holding
      BY <1>6 DEF WriteChunk, Holding, Locations
    <3>2. \A v \in Workers : pc'[v] \in Holding => pc[v] \in Holding
      BY <1>t, <2>2, <3>1
    <3>3. \A c \in Chunks : Abandoned(c) => chunkStates'[c] = chunkStates[c]
      BY <2>2, <3>1 DEF Abandoned, Holders, TypeOK
    <3>4. UNCHANGED <<attempts, failure, failureReason, job, peerStates>>
      BY <1>6, <2>2 DEF WriteChunk, jobVars, peerVars
    <3> QED BY <1>t, <3>2, <3>3, <3>4, BudgetKept
  <2> QED BY <1>6, <2>1, <2>2 DEF WriteChunk
<1>7. ASSUME NEW w \in Workers, CompleteJob(w) PROVE BudgetInv'
  <2>1. UNCHANGED <<attempts, failure, failureReason, chunkStates, job, peerStates>>
    BY <1>7 DEF CompleteJob, peerVars
  <2> DEFINE p1 == [pc EXCEPT ![w] = "take"]
  <2>2. p1 \in [Workers -> Locations] /\ \A v \in Workers : p1[v] \in Holding => pc[v] \in Holding
    BY <1>t DEF Holding, Locations
  <2>3. pc' = NotifyBoth(p1) \/ pc' = p1
    BY <1>7 DEF CompleteJob
  <2> HIDE DEF p1
  <2>4. \A v \in Workers : pc'[v] \in Holding => pc[v] \in Holding
    BY <2>2, <2>3, WakingKeepsHolding
  <2> QED BY <1>t, <2>1, <2>4, <1>k
<1>8. ASSUME NEW w \in Workers, SpuriousWakeup(w) PROVE BudgetInv'
  <2>1. UNCHANGED <<attempts, failure, failureReason, chunkStates, job, peerStates>>
    BY <1>8 DEF SpuriousWakeup, jobVars, peerVars
  <2>2. \A v \in Workers : pc'[v] \in Holding => pc[v] \in Holding
    BY <1>8, <1>t DEF SpuriousWakeup, Holding, Locations
  <2> QED BY <1>t, <2>1, <2>2, <1>k
<1>9. ASSUME NEW p \in LateProviders, AddPeerState(p) PROVE BudgetInv'
  <2>1. /\ UNCHANGED <<attempts, failure, failureReason, chunkStates, job>>
        /\ pc' = NotifyCapacity(pc) /\ peerStates' = Append(peerStates, p)
    BY <1>9 DEF AddPeerState, jobVars
  <2>2. Len(peerStates) <= Len(peerStates')
    BY <1>t, <2>1, AppendProperties DEF TypeOK, Peers
  <2>3. \A v \in Workers : pc'[v] \in Holding => pc[v] \in Holding
    BY <1>t, <2>1, WakingKeepsHolding
  <2> QED BY <2>1, <2>2, <2>3, <1>k
<1>10. CASE Return \/ UNCHANGED vars
  <2>1. UNCHANGED <<attempts, failure, failureReason, chunkStates, job, peerStates, pc>>
    BY <1>10 DEF Return, vars, jobVars, peerVars
  <2> QED BY <1>t, <2>1, <1>k
<1> QED
  BY <1>1, <1>2, <1>3, <1>4, <1>5, <1>6, <1>7, <1>8, <1>9, <1>10 DEF Next, WorkerStep

\* No chunk is asked for more often than the retry budget allows, although peers
\* that join raise it, and the sources are blamed only after a missing chunk was
\* refused as often as the code promises.
THEOREM RetriesAreBounded == Spec => []RetriesBounded
<1>1. Init => BudgetInv
  <2>1. SUFFICES ASSUME Init PROVE BudgetInv
    OBVIOUS
  <2>2. Len(peerStates) = Cardinality(InitialProviders) /\ Len(peerStates) \in Nat
    BY <2>1, SwarmAssumption, OrdersAreSequences, FS_CardinalityType DEF Init
  <2>3. RetryBudget \in Nat /\ RetryBudget >= 3
    BY <2>2 DEF RetryBudget, AtLeast
  <2>4. \A c \in Chunks : attempts[c] = 0
    BY <2>1 DEF Init
  <2>5. failureReason = "none"
    BY <2>1 DEF Init
  <2> QED BY <2>2, <2>3, <2>4, <2>5 DEF BudgetInv, RetriesBounded
<1>2. BudgetInv => RetriesBounded
  BY DEF BudgetInv
<1> QED BY <1>1, <1>2, BudgetStep, TypeCorrect, Invariance, PTL DEF Spec

-----------------------------------------------------------------------------
\* A number below the modulus is its own remainder, and so is it one turn further.
LEMMA OneTurn ==
  ASSUME NEW n \in Nat \ {0}, NEW x \in 0..(n - 1)
  PROVE  x % n = x /\ (x + n) % n = x
OBVIOUS

\* The round robin comes by every peer within one turn, wherever its cursor stands.
LEMMA ProbesReachEveryPeer ==
  ASSUME TypeOK, NEW j \in 1..Len(peerStates)
  PROVE  \E i \in 0..(Len(peerStates) - 1) : Probe(i) + 1 = j
<1> DEFINE n == Len(peerStates)
           i == IF j - 1 >= nextPeerIndex THEN j - 1 - nextPeerIndex
                                          ELSE j - 1 - nextPeerIndex + n
<1>1. n \in Nat \ {0} /\ nextPeerIndex \in 0..(n - 1) /\ j - 1 \in 0..(n - 1)
  BY LenProperties, EmptySeq DEF TypeOK
<1> HIDE DEF n
<1>2. i \in 0..(n - 1) /\ nextPeerIndex + i \in {j - 1, j - 1 + n}
  BY <1>1 DEF n
<1>3. (j - 1) % n = j - 1 /\ (j - 1 + n) % n = j - 1
  BY <1>1, OneTurn
<1> HIDE DEF i
<1>4. Probe(i) = j - 1
  BY <1>1, <1>2, <1>3 DEF Probe, n
<1> QED BY <1>2, <1>4 DEF n

\* Every non-empty set of natural numbers has a least element.
LEMMA LeastNatural ==
  ASSUME NEW S, S \subseteq Nat, S # {}
  PROVE  \E m \in S : \A k \in S : m <= k
<1>1. PICK m \in S : \A k \in S : ~(<<k, m>> \in OpToRel(<, Nat))
  BY NatLessThanWellFounded, WFMin, Zenon
<1>2. \A k \in S : ~(k < m)
  BY <1>1 DEF OpToRel
<1> QED BY <1>2

\* acquire_peer_state finds a slot whenever its wait ended because there was one:
\* the loop does not run off the end and return null.
SlotIsFound ==
  (\E j \in 1..Len(peerStates) : HasCapacity(peerStates[j]))
     => \E i \in 0..(Len(peerStates) - 1) : FirstFree(i)

\* For any number of peers, at any place of the cursor and whatever slots are taken.
THEOREM RoundRobinFindsTheSlot == Spec => []SlotIsFound
<1>1. ASSUME TypeOK PROVE SlotIsFound
  <2> SUFFICES ASSUME NEW j \in 1..Len(peerStates), HasCapacity(peerStates[j])
               PROVE  \E i \in 0..(Len(peerStates) - 1) : FirstFree(i)
    BY DEF SlotIsFound
  <2> DEFINE S == {i \in 0..(Len(peerStates) - 1) : HasCapacity(peerStates[Probe(i) + 1])}
  <2>1. Len(peerStates) \in Nat
    BY <1>1, LenProperties DEF TypeOK
  <2>2. S \subseteq Nat /\ S # {}
    <3>1. PICK i \in 0..(Len(peerStates) - 1) : Probe(i) + 1 = j
      BY <1>1, ProbesReachEveryPeer
    <3>2. i \in S
      BY <3>1
    <3> QED BY <2>1, <3>2
  <2>3. PICK m \in S : \A k \in S : m <= k
    BY <2>2, LeastNatural
  <2>4. \A k \in 0..(m - 1) : k \notin S /\ k \in 0..(Len(peerStates) - 1)
    BY <2>1, <2>3
  <2> QED BY <2>3, <2>4 DEF FirstFree
<1> QED BY <1>1, TypeCorrect, PTL
=============================================================================
