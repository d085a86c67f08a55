--------------------------- MODULE SwarmDownload ---------------------------
(***************************************************************************)
(* run_swarm_download (src/swarm_downloader.cpp): one file is fetched      *)
(* chunk by chunk from several peers by a pool of worker threads.          *)
(*                                                                         *)
(* Every action is one critical section of a worker (or of the refresh     *)
(* thread), or the local work between two of them.  Two mutexes guard the  *)
(* state: job_mutex (queue, counters, flags) and peer_capacity_mutex (peer *)
(* list and outstanding counts).  The wait of acquire_peer_state reads the *)
(* flags of the *other* mutex, so its test and its going to sleep are two  *)
(* steps here (pc "acquire", then "block"): a flag raised between the two  *)
(* is not seen.  notify_all follows the unlock at once in the code and is  *)
(* part of the same step here.                                             *)
(***************************************************************************)
EXTENDS Naturals, Sequences, FiniteSets

CONSTANTS Chunks,            \* chunk indices of the file
          InitialProviders,  \* distinct non-empty peer ids of "providers"
          LateProviders,     \* peers refresh_providers may report later
          MaxParallel,       \* SwarmConfig::max_parallel
          ChunkBuffers,      \* SwarmConfig::chunk_buffers
          Replies,           \* what fetching from a peer can give
          DiskOutcomes       \* what write_chunk can return

Peers == InitialProviders \cup LateProviders

\* "chunk": data accepted; "missing": no success, no data or the 10 s timeout of
\* the fetch callback; "corrupt": data whose SHA-256 is not the announced one.
ReplyKinds == {"chunk", "missing", "corrupt"}

\* Lines 40-85 return false before any thread starts unless this holds.
ASSUME SwarmAssumption ==
  /\ IsFiniteSet(Chunks) /\ Chunks # {}
  /\ IsFiniteSet(InitialProviders) /\ InitialProviders # {}
  /\ InitialProviders \cap LateProviders = {}
  /\ MaxParallel \in Nat /\ ChunkBuffers \in Nat
  /\ Replies \in [Peers -> (SUBSET ReplyKinds) \ {{}}]
  /\ DiskOutcomes \in (SUBSET BOOLEAN) \ {{}}

AtLeast(a, b) == IF a < b THEN b ELSE a    \* std::max

PerPeerLimit == AtLeast(1, ChunkBuffers)
WorkerCount  == IF MaxParallel = 0 THEN Cardinality(InitialProviders)
                                   ELSE AtLeast(1, MaxParallel)
Workers      == 1..WorkerCount

VARIABLES
  jobQueue,       \* job_queue
  activeJobs, completedJobs, shuttingDown, failure,
  failureReason,  \* failure_reason, "none" while empty
  attempts,       \* job_states[c].attempts
  chunkStates,    \* chunk_states, the caller's vector
  peerStates,     \* peer ids of peer_states, in order of arrival
  outstanding,    \* PeerState::outstanding, 0 before the peer arrives
  nextPeerIndex,  \* next_peer_index
  pc,             \* where each worker is
  job, peer,      \* the job_index and peer_state a worker holds
  verdict         \* "running", then what the call returns

jobVars  == <<jobQueue, activeJobs, completedJobs, shuttingDown, failure, failureReason>>
peerVars == <<peerStates, outstanding, nextPeerIndex>>
vars == <<jobVars, attempts, chunkStates, peerVars, pc, job, peer, verdict>>

Locations == {"take", "jobWait", "acquire", "block", "capacityWait", "giveUp",
              "fetch", "missing", "corrupt", "received", "commit", "done"}
\* A worker at one of these holds a job it took off the queue.
Holding == Locations \ {"take", "jobWait", "done"}
Reasons == {"none", "shutdown", "downloadFailed",
            "checksumMismatch", "writeFailed"}

Orders(S) == {q \in [1..Cardinality(S) -> S] : \A i, j \in DOMAIN q : q[i] = q[j] => i = j}

\* chunk_order is shuffled; providers come in the order the caller found them.
\* job[w] and peer[w] mean nothing until the worker takes a job and a peer.
Init ==
  /\ jobQueue \in Orders(Chunks)
  /\ activeJobs = 0 /\ completedJobs = 0
  /\ shuttingDown = FALSE /\ failure = FALSE /\ failureReason = "none"
  /\ attempts = [c \in Chunks |-> 0]
  /\ chunkStates = [c \in Chunks |-> 0]
  /\ peerStates \in Orders(InitialProviders)
  /\ outstanding = [p \in Peers |-> 0]
  /\ nextPeerIndex = 0
  /\ pc = [w \in Workers |-> "take"]
  /\ job = [w \in Workers |-> CHOOSE c \in Chunks : TRUE]
  /\ peer = [w \in Workers |-> CHOOSE p \in InitialProviders : TRUE]
  /\ verdict = "running"

Stopping == shuttingDown \/ failure

\* peer_capacity_mutex is held by a worker between its test and its sleep.
CapacityMutexFree == \A w \in Workers : pc[w] # "block"

Wake(pcs, from, to) == [w \in Workers |-> IF pcs[w] = from THEN to ELSE pcs[w]]
NotifyNobody(pcs)   == pcs                               \* mutant of the two below
NotifyJobs(pcs)     == Wake(pcs, "jobWait", "take")
NotifyCapacity(pcs) == Wake(pcs, "capacityWait", "acquire")
NotifyBoth(pcs)     == NotifyCapacity(NotifyJobs(pcs))

-----------------------------------------------------------------------------
\* take_job, and the test of failure before it.
TakeJob(w) ==
  /\ pc[w] = "take"
  /\ \/ /\ Stopping
        /\ pc' = [pc EXCEPT ![w] = "done"]
        /\ UNCHANGED <<jobQueue, activeJobs, job>>
     \/ /\ ~Stopping /\ jobQueue = <<>>
        /\ pc' = [pc EXCEPT ![w] = "jobWait"]
        /\ UNCHANGED <<jobQueue, activeJobs, job>>
     \/ /\ ~Stopping /\ jobQueue # <<>>
        /\ job' = [job EXCEPT ![w] = Head(jobQueue)]
        /\ jobQueue' = Tail(jobQueue)
        /\ activeJobs' = activeJobs + 1
        /\ pc' = [pc EXCEPT ![w] = "acquire"]
  /\ UNCHANGED <<completedJobs, shuttingDown, failure, failureReason, attempts,
                 chunkStates, peerVars, peer, verdict>>

HasCapacity(p) == outstanding[p] < PerPeerLimit

\* The index (from 0) the round robin reaches i steps after its cursor.
Probe(i) == (nextPeerIndex + i) % Len(peerStates)
\* The first probe that finds a peer with a free slot.
FirstFree(i) == /\ HasCapacity(peerStates[Probe(i) + 1])
                /\ \A k \in 0..(i - 1) : ~HasCapacity(peerStates[Probe(k) + 1])

AdvanceUnwrapped(idx) == idx + 1                         \* mutant
Advance(idx) == (idx + 1) % Len(peerStates)

\* Round robin: worker w takes a slot of the first peer with room.
TakeSlotUnchecked(w) ==
  /\ \E i \in 0..(Len(peerStates) - 1) :
       /\ FirstFree(i)
       /\ LET p == peerStates[Probe(i) + 1] IN
            /\ peer' = [peer EXCEPT ![w] = p]
            /\ outstanding' = [outstanding EXCEPT ![p] = @ + 1]
       /\ nextPeerIndex' = Advance(Probe(i))
  /\ pc' = [pc EXCEPT ![w] = "fetch"]

TakeSlot(w) == ~Stopping /\ TakeSlotUnchecked(w)

\* acquire_peer_state up to the point where it returns or is about to sleep.
AcquirePeer(w) ==
  /\ pc[w] = "acquire"
  /\ CapacityMutexFree
  /\ \/ /\ Stopping
        /\ pc' = [pc EXCEPT ![w] = "giveUp"]
        /\ UNCHANGED <<outstanding, nextPeerIndex, peer>>
     \/ TakeSlot(w)
     \/ /\ ~Stopping
        /\ \A i \in 1..Len(peerStates) : ~HasCapacity(peerStates[i])
        /\ pc' = [pc EXCEPT ![w] = "block"]
        /\ UNCHANGED <<outstanding, nextPeerIndex, peer>>
  /\ UNCHANGED <<jobVars, attempts, chunkStates, peerStates, job, verdict>>

\* peer_capacity_cv.wait releases the mutex and sleeps.
Block(w) ==
  /\ pc[w] = "block"
  /\ pc' = [pc EXCEPT ![w] = "capacityWait"]
  /\ UNCHANGED <<jobVars, attempts, chunkStates, peerVars, job, peer, verdict>>

\* A condition variable may wake a thread that nobody notified.
SpuriousWakeup(w) ==
  /\ \/ pc[w] = "jobWait" /\ pc' = [pc EXCEPT ![w] = "take"]
     \/ pc[w] = "capacityWait" /\ pc' = [pc EXCEPT ![w] = "acquire"]
  /\ UNCHANGED <<jobVars, attempts, chunkStates, peerVars, job, peer, verdict>>

\* Mutant of RequeueJob: a job that may be retried is not put back.
DropJob(w, reason, fatal, to) ==
  /\ failure' = (failure \/ fatal)
  /\ shuttingDown' = (shuttingDown \/ fatal)
  /\ failureReason' = IF fatal /\ failureReason = "none" THEN reason ELSE failureReason
  /\ jobQueue' = IF shuttingDown' \/ failure' THEN <<>> ELSE jobQueue
  /\ activeJobs' = IF activeJobs > 0 THEN activeJobs - 1 ELSE 0
  /\ pc' = NotifyBoth([pc EXCEPT ![w] = to])
  /\ UNCHANGED completedJobs

\* requeue_job: worker w gives its job back and goes on at "to".
RequeueJob(w, reason, fatal, to) ==
  /\ failure' = (failure \/ fatal)
  /\ shuttingDown' = (shuttingDown \/ fatal)
  /\ failureReason' = IF fatal /\ failureReason = "none" THEN reason ELSE failureReason
  /\ jobQueue' = IF shuttingDown' \/ failure' THEN <<>> ELSE Append(jobQueue, job[w])
  /\ activeJobs' = IF activeJobs > 0 THEN activeJobs - 1 ELSE 0
  /\ pc' = NotifyBoth([pc EXCEPT ![w] = to])
  /\ UNCHANGED completedJobs

\* acquire_peer_state returned null.
GiveUp(w) ==
  /\ pc[w] = "giveUp"
  /\ RequeueJob(w, "shutdown", TRUE, "done")
  /\ UNCHANGED <<attempts, chunkStates, peerVars, job, peer, verdict>>

KeepSlot(p)    == outstanding                            \* mutant
ReleaseSlot(p) == [outstanding EXCEPT ![p] = IF @ > 0 THEN @ - 1 ELSE 0]

\* fetch_chunk returns and release_peer_state runs.
FetchChunk(w) ==
  /\ pc[w] = "fetch"
  /\ CapacityMutexFree
  /\ outstanding' = ReleaseSlot(peer[w])
  /\ \E reply \in Replies[peer[w]] :
       pc' = NotifyCapacity([pc EXCEPT ![w] = IF reply = "chunk" THEN "received" ELSE reply])
  /\ UNCHANGED <<jobVars, attempts, chunkStates, peerStates, nextPeerIndex, job, peer, verdict>>

\* The budget grows with the peers that join.
RetryBudget == AtLeast(3, 2 * Len(peerStates))

BudgetExceeded(n) == n > RetryBudget                     \* mutant
BudgetSpent(n) == n >= RetryBudget

\* The reply was no use: count the attempt, requeue or give the file up.
RejectChunk(w) ==
  /\ pc[w] \in {"missing", "corrupt"}
  /\ attempts' = [attempts EXCEPT ![job[w]] = @ + 1]
  /\ RequeueJob(w, IF pc[w] = "missing" THEN "downloadFailed"
                                        ELSE "checksumMismatch",
                BudgetSpent(attempts'[job[w]]), "take")
  /\ UNCHANGED <<chunkStates, peerVars, job, peer, verdict>>

\* Mutant of WriteChunk: the result of write_chunk is ignored.
WriteUnchecked(w) ==
  /\ pc[w] = "received"
  /\ \E written \in DiskOutcomes :
       chunkStates' = IF written THEN [chunkStates EXCEPT ![job[w]] = 1] ELSE chunkStates
  /\ pc' = [pc EXCEPT ![w] = "commit"]
  /\ UNCHANGED <<jobVars, attempts, peerVars, job, peer, verdict>>

\* write_chunk, and the marking of the chunk under progress_mutex.
WriteChunk(w) ==
  /\ pc[w] = "received"
  /\ \/ /\ TRUE \in DiskOutcomes
        /\ chunkStates' = [chunkStates EXCEPT ![job[w]] = 1]
        /\ pc' = [pc EXCEPT ![w] = "commit"]
        /\ UNCHANGED jobVars
     \/ /\ FALSE \in DiskOutcomes
        /\ RequeueJob(w, "writeFailed", TRUE, "done")
        /\ UNCHANGED chunkStates
  /\ UNCHANGED <<attempts, peerVars, job, peer, verdict>>

AllButOneCompleted(n) == n + 1 >= Cardinality(Chunks)    \* mutant
AllCompleted(n) == n >= Cardinality(Chunks)

\* The last critical section of an iteration; the worker that completes the
\* file raises shutting_down and wakes everybody.
CompleteJob(w) ==
  /\ pc[w] = "commit"
  /\ completedJobs' = IF AllCompleted(completedJobs) THEN completedJobs ELSE completedJobs + 1
  /\ activeJobs' = IF activeJobs > 0 THEN activeJobs - 1 ELSE 0
  /\ LET finished == AllCompleted(completedJobs') /\ ~shuttingDown IN
       /\ shuttingDown' = (shuttingDown \/ finished)
       /\ LET next == [pc EXCEPT ![w] = "take"] IN
            pc' = IF finished THEN NotifyBoth(next) ELSE next
  /\ UNCHANGED <<jobQueue, failure, failureReason, attempts, chunkStates,
                 peerVars, job, peer, verdict>>

\* add_peer_state in the refresh thread, which runs until the workers are joined.
AddPeerState(p) ==
  /\ verdict = "running"
  /\ CapacityMutexFree
  /\ \A i \in DOMAIN peerStates : peerStates[i] # p
  /\ peerStates' = Append(peerStates, p)
  /\ pc' = NotifyCapacity(pc)
  /\ UNCHANGED <<jobVars, attempts, chunkStates, outstanding, nextPeerIndex, job, peer, verdict>>

\* The caller joins the workers and returns.
Return ==
  /\ verdict = "running"
  /\ \A w \in Workers : pc[w] = "done"
  /\ verdict' = IF ~failure /\ completedJobs = Cardinality(Chunks) THEN "succeeded" ELSE "failed"
  /\ UNCHANGED <<jobVars, attempts, chunkStates, peerVars, pc, job, peer>>

WorkerStep(w) == \/ TakeJob(w)
                 \/ AcquirePeer(w)
                 \/ Block(w)
                 \/ GiveUp(w)
                 \/ FetchChunk(w)
                 \/ RejectChunk(w)
                 \/ WriteChunk(w)
                 \/ CompleteJob(w)

Next == \/ \E w \in Workers : WorkerStep(w) \/ SpuriousWakeup(w)
        \/ \E p \in LateProviders : AddPeerState(p)
        \/ Return

Spec == Init /\ [][Next]_vars

\* The scheduler runs every runnable thread, and a thread waiting for
\* peer_capacity_mutex gets it in the end even if others keep taking it (strong
\* fairness of the two steps that lock it).  A fetch returns because its callback
\* times out.  Spurious wakeups and late providers may come or not.
FairSpec == /\ Spec
            /\ \A w \in Workers : /\ WF_vars(WorkerStep(w))
                                  /\ SF_vars(AcquirePeer(w))
                                  /\ SF_vars(FetchChunk(w))
            /\ WF_vars(Return)
-----------------------------------------------------------------------------
TypeOK ==
  /\ jobQueue \in Seq(Chunks)
  /\ activeJobs \in Nat /\ completedJobs \in Nat
  /\ shuttingDown \in BOOLEAN /\ failure \in BOOLEAN
  /\ failureReason \in Reasons
  /\ attempts \in [Chunks -> Nat]
  /\ chunkStates \in [Chunks -> {0, 1}]
  /\ peerStates \in Seq(Peers) /\ peerStates # <<>>
  /\ outstanding \in [Peers -> Nat]
  /\ nextPeerIndex \in 0..(Len(peerStates) - 1)
  /\ pc \in [Workers -> Locations]
  /\ job \in [Workers -> Chunks]
  /\ peer \in [Workers -> Peers]
  /\ verdict \in {"running", "succeeded", "failed"}

Holders(c)   == {w \in Workers : pc[w] \in Holding /\ job[w] = c}
Places(c)    == {i \in 1..Len(jobQueue) : jobQueue[i] = c}
Completed(c) == chunkStates[c] = 1 /\ Holders(c) = {}
Done         == {c \in Chunks : Completed(c)}
Fetchers(p)  == {w \in Workers : pc[w] = "fetch" /\ peer[w] = p}

\* A chunk is in one place: waiting in the queue once, in the hands of one
\* worker, or completed.  None is ever fetched twice at a time, queued twice or
\* fetched again after completion, and until the download fails none is lost.
\* The counters agree with the places.
JobsAccounted ==
  /\ \A c \in Chunks :
       LET n == Cardinality(Places(c)) + Cardinality(Holders(c)) IN
         /\ n <= 1
         /\ chunkStates[c] = 1 => Places(c) = {} /\ \A w \in Holders(c) : pc[w] = "commit"
         /\ ~failure => n = 1 \/ Completed(c)
  /\ completedJobs = Cardinality(Done)
  /\ activeJobs = Cardinality({w \in Workers : pc[w] \in Holding})

\* outstanding counts exactly the workers fetching from the peer, so no peer
\* is ever asked for more than per_peer_limit chunks at a time and no slot leaks.
SlotsAccounted ==
  \A p \in Peers : outstanding[p] = Cardinality(Fetchers(p)) /\ outstanding[p] <= PerPeerLimit

\* The wait for a peer slot tests flags that another mutex guards, and can
\* sleep through their notification.  It never matters: a sleeping worker
\* always leaves some other worker awake whose next steps notify it.
NoStuckWaiter ==
  /\ (\E w \in Workers : pc[w] = "capacityWait") => \E v \in Workers : pc[v] = "fetch"
  /\ (\E w \in Workers : pc[w] = "jobWait") =>
        ~Stopping /\ \E v \in Workers : pc[v] \in Holding

\* A worker told to shut down while it holds a job declares the whole download
\* failed ("shutdown", fatal).  That must not spoil a download that
\* has every chunk, nor hide the reason of the failure that came first.
FailureIsGenuine ==
  failure => /\ \E c \in Chunks : chunkStates[c] = 0
             /\ failureReason \notin {"none", "shutdown"}

\* The verdict a caller gets (with ImplementsTransfer).
VerdictIsRight ==
  /\ verdict = "succeeded" => \A c \in Chunks : chunkStates[c] = 1
  /\ verdict = "failed" => \E c \in Chunks : chunkStates[c] = 0

Abandoned(c) == chunkStates[c] = 0 /\ Holders(c) = {}

\* Attempts are counted per chunk, whichever peer refused, while peers join and
\* raise the budget: no chunk is asked for more often than that, and the download
\* is given up for its sources only when a chunk that is missing was refused at
\* least three times and twice per provider it started with.
RetriesBounded ==
  /\ \A c \in Chunks : attempts[c] <= RetryBudget
  /\ failureReason \in {"downloadFailed", "checksumMismatch"} =>
       \E c \in Chunks : /\ Abandoned(c)
                         /\ attempts[c] >= AtLeast(3, 2 * Cardinality(InitialProviders))

\* The strengthening that makes the safety properties inductive.
JobsApart ==
  /\ \A w \in Workers : pc[w] \in Holding =>
       /\ \A v \in Workers : pc[v] \in Holding /\ job[v] = job[w] => v = w
       /\ \A i \in 1..Len(jobQueue) : jobQueue[i] # job[w]
       /\ chunkStates[job[w]] = IF pc[w] = "commit" THEN 1 ELSE 0
  /\ \A i \in 1..Len(jobQueue) :
       /\ chunkStates[jobQueue[i]] = 0
       /\ \A j \in 1..Len(jobQueue) : jobQueue[i] = jobQueue[j] => i = j

NoneLost ==
  ~failure => \A c \in Chunks : chunkStates[c] = 0 => Places(c) # {} \/ Holders(c) # {}

CompletionCounted ==
  /\ completedJobs = Cardinality(Done)
  /\ completedJobs = Cardinality(Chunks) => shuttingDown

StopsForAReason ==
  /\ failure => /\ shuttingDown /\ jobQueue = <<>>
                /\ failureReason \notin {"none", "shutdown"}
                /\ \E c \in Chunks : Abandoned(c)
  /\ ~failure => failureReason = "none"
  /\ shuttingDown /\ ~failure => Done = Chunks
  /\ \A w \in Workers : /\ pc[w] = "giveUp" => failure
                        /\ pc[w] = "done" => shuttingDown
                        /\ pc[w] = "jobWait" => ~shuttingDown /\ jobQueue = <<>>

SleepersSeeNoSlot ==
  (\E w \in Workers : pc[w] \in {"block", "capacityWait"})
     => \A i \in 1..Len(peerStates) : ~HasCapacity(peerStates[i])

VerdictFollowsFlags ==
  verdict # "running" => /\ shuttingDown
                         /\ \A w \in Workers : pc[w] = "done"
                         /\ verdict = "failed" <=> failure

IInv == /\ JobsApart
        /\ NoneLost
        /\ CompletionCounted
        /\ StopsForAReason
        /\ SlotsAccounted
        /\ SleepersSeeNoSlot
        /\ VerdictFollowsFlags

\* What makes RetriesBounded inductive: a chunk that has spent the budget stopped
\* the download, and nobody works on it any more.
BudgetInv ==
  /\ Len(peerStates) >= Cardinality(InitialProviders)
  /\ \A c \in Chunks : \/ attempts[c] < RetryBudget
                       \/ attempts[c] = RetryBudget /\ failure /\ Holders(c) = {}
  /\ RetriesBounded

\* Once the download failed or finished no worker passes the test of
\* acquire_peer_state (the test and the taking of the slot are one step here) and
\* starts another fetch, even one that holds a job or was asleep waiting for a slot.
NoFetchAfterStop ==
  [][Stopping => \A w \in Workers : pc'[w] = "fetch" => pc[w] = "fetch"]_vars

\* A call always returns: no deadlock, no endless retry and no worker left asleep.
DownloadReturns == <>(verdict # "running")

\* The caller's view of this module.
Transfer == INSTANCE ChunkTransfer
              WITH written <- {c \in Chunks : chunkStates[c] = 1}, outcome <- verdict

\* The worker pool implements the one-call abstraction of ChunkTransfer.
ImplementsTransfer == Transfer!Spec
=============================================================================
