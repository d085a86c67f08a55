------------------------------- MODULE Requests -------------------------------
(***************************************************************************)
(* Requests for chunks and listings over the connections of a peer:        *)
(* request_file_chunk, request_peer_listing and request_hash_listing_all   *)
(* of peer_manager.cpp, and the callers in MeshCLI.hpp that wait for the   *)
(* answer with a timeout.                                                  *)
(*                                                                         *)
(* Callers run on threads of their own, so the lookup of the connection,   *)
(* the sending and the wait are separate steps, between which the handlers *)
(* of PeerConnections run.  A request or an answer whose connection is     *)
(* lost is never made up for; the caller's timeout is all there is.        *)
(***************************************************************************)
EXTENDS PeerConnections

CONSTANTS ChunkCalls, ListCalls, HashCalls   \* bound: calls made, each of them once

Calls == ChunkCalls \cup ListCalls \cup HashCalls

ASSUME RequestsAssumption ==
  /\ ChunkCalls \cap (ListCalls \cup HashCalls) = {} /\ ListCalls \cap HashCalls = {}

VARIABLES
  at,      \* where the caller is
  toAsk,   \* peers the call has still to ask
  now,     \* the peer it is asking: the handler is registered, nothing is sent
  pending, \* pending_chunk_requests_, pending_list_requests_
  asked,   \* requests on their way or being answered by the peer
  left,    \* AggregateContext::pending; 1 for a call to one peer
  fired    \* how often the call's handler ran

calls == <<at, toAsk, now, pending, left, fired>>
allVars == <<vars, calls, asked>>

RequestsInit ==
  /\ Init
  /\ at = [k \in Calls |-> "idle"]
  /\ toAsk = [k \in Calls |-> {}] /\ now = [k \in Calls |-> NoPeer]
  /\ pending = {} /\ asked = {}
  /\ left = [k \in Calls |-> 0] /\ fired = [k \in Calls |-> 0]

-----------------------------------------------------------------------------
\* Mutant of Notify: the handler runs at every answer.
NotifyEachTime(k) ==
  /\ left' = [left EXCEPT ![k] = IF @ = 0 THEN 0 ELSE @ - 1]
  /\ fired' = [fired EXCEPT ![k] = @ + 1]

\* notify, or the handler of a call to one peer.
Notify(k) ==
  /\ left' = [left EXCEPT ![k] = IF @ = 0 THEN 0 ELSE @ - 1]
  /\ fired' = [fired EXCEPT ![k] = IF left[k] = 1 THEN @ + 1 ELSE @]

\* A peer could not be asked: the aggregate counts it as an answer without items,
\* a call to one peer returns at once.
FailQuietly(k) ==                                          \* mutant of Fail
  /\ at' = [at EXCEPT ![k] = IF k \in HashCalls THEN @ ELSE "unavailable"]
  /\ UNCHANGED <<left, fired>>

Fail(k) ==
  IF k \in HashCalls THEN Notify(k) /\ UNCHANGED at
  ELSE at' = [at EXCEPT ![k] = "unavailable"] /\ UNCHANGED <<left, fired>>

\* The call names a peer, connected or not; the aggregate asks all that are
\* connected now, and without one it runs the handler with the local entries.
Begin(k) ==
  /\ at[k] = "idle"
  /\ \E S \in IF k \in HashCalls THEN {Connected(connections)} ELSE {{p} : p \in Peers} :
       /\ at' = [at EXCEPT ![k] = "asking"]
       /\ toAsk' = [toAsk EXCEPT ![k] = S]
       /\ left' = [left EXCEPT ![k] = Cardinality(S)]
       /\ fired' = [fired EXCEPT ![k] = IF S = {} THEN 1 ELSE 0]
  /\ UNCHANGED <<now, pending>>

\* The first half of request_peer_listing and request_file_chunk.
Register(k, p) ==
  /\ at[k] = "asking" /\ now[k] = NoPeer /\ p \in toAsk[k]
  /\ toAsk' = [toAsk EXCEPT ![k] = @ \ {p}]
  /\ IF connections[p] # NoConn
     THEN /\ pending' = pending \cup {<<k, p>>}
          /\ now' = [now EXCEPT ![k] = p]
          /\ UNCHANGED <<at, left, fired>>
     ELSE Fail(k) /\ UNCHANGED <<now, pending>>

\* The second half: send_json_to_peer looks the connection up again.
Send(k) ==
  /\ at[k] = "asking" /\ now[k] # NoPeer
  /\ now' = [now EXCEPT ![k] = NoPeer]
  /\ LET p == now[k]  c == connections[p]
     IN IF c # NoConn
        THEN /\ asked' = asked \cup {[call |-> k, peer |-> p, conn |-> c]}
             /\ UNCHANGED <<at, pending, left, fired>>
        ELSE pending' = pending \ {<<k, p>>} /\ Fail(k) /\ UNCHANGED asked
  /\ UNCHANGED toAsk

\* The caller waits for its future.
Wait(k) ==
  /\ at[k] = "asking" /\ now[k] = NoPeer /\ toAsk[k] = {}
  /\ at' = [at EXCEPT ![k] = "waiting"]
  /\ UNCHANGED <<toAsk, now, pending, left, fired>>

\* The future is ready; or wait_for times out, and a chunk request is cancelled.
Return(k) ==
  /\ at[k] = "waiting" /\ fired[k] > 0
  /\ at' = [at EXCEPT ![k] = "answered"]
  /\ UNCHANGED <<toAsk, now, pending, left, fired>>

TimeOut(k) ==
  /\ at[k] = "waiting" /\ fired[k] = 0
  /\ at' = [at EXCEPT ![k] = IF k \in ChunkCalls THEN "cancelling" ELSE "timeout"]
  /\ UNCHANGED <<toAsk, now, pending, left, fired>>

CancelNothing(k) ==                                         \* mutant of Cancel
  /\ at[k] = "cancelling"
  /\ at' = [at EXCEPT ![k] = "timeout"]
  /\ UNCHANGED <<toAsk, now, pending, left, fired>>

Cancel(k) ==
  /\ at[k] = "cancelling"
  /\ at' = [at EXCEPT ![k] = "timeout"]
  /\ pending' = {w \in pending : w[1] # k}
  /\ UNCHANGED <<toAsk, now, left, fired>>

-----------------------------------------------------------------------------
\* The peer reads a request.  Its answer to a chunk request goes back over the
\* same connection, a listing over whichever connection it has to us then.
PeerReads(r) ==
  /\ r.conn # NoConn /\ r.call \notin ChunkCalls /\ life[r.conn] = "open"
  /\ asked' = (asked \ {r}) \cup {[r EXCEPT !.conn = NoConn]}
  /\ UNCHANGED calls

\* handle_list_response, handle_file_chunk_response: the first answer takes the
\* handler out of the table; without an entry the answer is dropped.
Answer(c, r) ==
  /\ Reading(c) /\ r.peer = remote[c]
  /\ IF r.call \in ChunkCalls THEN r.conn = c ELSE r.conn = NoConn
  /\ asked' = asked \ {r}
  /\ IF <<r.call, r.peer>> \in pending
     THEN pending' = pending \ {<<r.call, r.peer>>} /\ Notify(r.call)
     ELSE UNCHANGED <<pending, left, fired>>
  /\ UNCHANGED <<at, toAsk, now>>

\* What PeerConnections does; what was under way on a lost connection is lost.
ConnectionStep ==
  /\ Next
  /\ asked' = {r \in asked : r.conn = NoConn \/ Reading(r.conn)'}
  /\ UNCHANGED calls

CallStep(k) ==
  \/ Begin(k) /\ UNCHANGED asked
  \/ \E p \in Peers : Register(k, p) /\ UNCHANGED asked
  \/ Send(k)
  \/ Wait(k) /\ UNCHANGED asked
  \/ Return(k) /\ UNCHANGED asked
  \/ TimeOut(k) /\ UNCHANGED asked
  \/ Cancel(k) /\ UNCHANGED asked

RequestsNext ==
  \/ ConnectionStep
  \/ /\ \/ \E k \in Calls : CallStep(k)
        \/ \E r \in asked : PeerReads(r) \/ \E c \in Conns : Answer(c, r)
     /\ UNCHANGED vars

RequestsSpec == RequestsInit /\ [][RequestsNext]_allVars
-----------------------------------------------------------------------------
States == {"idle", "asking", "waiting", "cancelling", "answered", "timeout", "unavailable"}

\* Peers whose answer, or failure, the call has not had yet.
Outstanding(k) == toAsk[k] \cup {p \in Peers : now[k] = p \/ <<k, p>> \in pending}

RequestsTypeOK ==
  /\ TypeOK
  /\ at \in [Calls -> States]
  /\ toAsk \in [Calls -> SUBSET Peers] /\ now \in [Calls -> Peers \cup {NoPeer}]
  /\ pending \subseteq Calls \X Peers
  /\ asked \subseteq [call : Calls, peer : Peers, conn : Conns \cup {NoConn}]
  /\ left \in [Calls -> Nat]
  /\ fired \in [Calls -> {0, 1}]

\* A call's handler runs exactly when the last of the peers asked has answered or
\* could not be asked: a listing of all peers is neither cut short nor stuck, when
\* connections come and go between looking them up, registering and sending; and
\* it never runs twice, which would throw out of the io thread (set_value).
HandlerRunsOnTime ==
  \A k \in Calls : at[k] \in {"asking", "waiting", "answered"} =>
    fired[k] = IF Outstanding(k) = {} THEN 1 ELSE 0

\* fetch_chunk returns: no handler of it is left behind to be run or to pile up.
ChunksLeaveNothing ==
  \A k \in ChunkCalls : at[k] \in {"answered", "timeout", "unavailable"} =>
    Outstanding(k) = {}

\* A request under way is on a connection that leads to the peer it is meant for,
\* however often that peer's registered connection changed since.
RequestsReachThePeerMeant ==
  \A r \in asked : r.conn # NoConn => Reading(r.conn) /\ remote[r.conn] = r.peer
=============================================================================
