--------------------------- MODULE PeerConnections ---------------------------
(***************************************************************************)
(* How one peer keeps its connections (peer_manager.cpp, connection.cpp,   *)
(* mesh_engine.cpp).  All of it runs on the one thread of the io_context,  *)
(* so a step is one handler; what interleaves are the handlers of several  *)
(* sockets, the timer and the remote peers, which run the same code.       *)
(*                                                                         *)
(* A Connection tells the peer manager on_disconnected(peer id) from       *)
(* close() and again from its destructor, which runs when the last pending *)
(* handler drops it.  The peer manager keeps one connection per peer id,   *)
(* but two peers that dial each other have two.                            *)
(***************************************************************************)
EXTENDS Naturals, FiniteSets

CONSTANTS Peers,         \* the other peers
          Conns,         \* Connection objects; one that is gone may be used again
          NoPeer, NoConn,
          MaxPeers,      \* max_peers_
          DefaultTTL,    \* kPeerAnnounceDefaultTTL
          DialOutcomes,  \* subset of {"connected", "failed"}
          MaxDials       \* bound: dials to one peer under way at a time

ASSUME ConnectionsAssumption ==
  /\ NoPeer \notin Peers /\ NoConn \notin Conns
  /\ IsFiniteSet(Peers) /\ MaxPeers \in Nat
  /\ DefaultTTL \in Nat /\ DefaultTTL > 3
  /\ DialOutcomes \subseteq {"connected", "failed"} /\ MaxDials \in Nat

VARIABLES
  status,      \* peers_[p].state, "unknown" before p is discovered
  connections, \* connections_
  inProgress,  \* in_progress_connects_
  dials,       \* calls of connect_outgoing under way
  remote,      \* the peer at the other end of a connection
  bound,       \* peer_id_ of a connection
  life         \* where a Connection object is in its life

tables == <<status, connections, inProgress>>
vars == <<tables, dials, remote, bound, life>>

\* "open": the socket is open and a read is pending; "broken": a write failed and
\* closed the socket, the read handler has still to run; "closing": the read loop
\* ended, a write handler has still to run; "closed": only posted sends keep it.
Lives == {"gone", "open", "broken", "closing", "closed"}

Init ==
  /\ status = [p \in Peers |-> "unknown"]
  /\ connections = [p \in Peers |-> NoConn]
  /\ inProgress = {}
  /\ dials = [p \in Peers |-> 0]
  /\ remote = [c \in Conns |-> NoPeer] /\ bound = [c \in Conns |-> NoPeer]
  /\ life = [c \in Conns |-> "gone"]

-----------------------------------------------------------------------------
\* add_peer_discovered for each peer of S.
Discovered(S) == [p \in Peers |-> IF p \in S /\ status[p] = "unknown" THEN "disconnected"
                                  ELSE status[p]]

\* on_connected, after the peer was discovered.
OnConnected(c, p) ==
  IF connections[p] = c THEN status' = Discovered({p}) /\ UNCHANGED <<connections, inProgress>>
  ELSE /\ connections' = [connections EXCEPT ![p] = c]
       /\ status' = [status EXCEPT ![p] = "connected"]
       /\ inProgress' = inProgress \ {p}

StaysInProgress(p) ==                                     \* mutant of OnDisconnected
  IF p = NoPeer THEN UNCHANGED tables
  ELSE /\ connections' = [connections EXCEPT ![p] = NoConn]
       /\ status' = [status EXCEPT ![p] = IF @ = "unknown" THEN @ ELSE "disconnected"]
       /\ UNCHANGED inProgress

\* on_disconnected of the id a connection is bound to, if it is bound.
OnDisconnected(p) ==
  IF p = NoPeer THEN UNCHANGED tables
  ELSE /\ connections' = [connections EXCEPT ![p] = NoConn]
       /\ status' = [status EXCEPT ![p] = IF @ = "unknown" THEN @ ELSE "disconnected"]
       /\ inProgress' = inProgress \ {p}

\* attempt_connect_more visits the discovered peers in hash-table order.
Connected(conns) == {p \in Peers : conns[p] # NoConn}
Candidates(st) == {p \in Peers \ inProgress : st[p] = "disconnected" /\ connections[p] = NoConn}
RoomUnchecked == MaxPeers - Cardinality(Connected(connections))   \* mutant
Room == IF MaxPeers > Cardinality(Connected(connections))
        THEN MaxPeers - Cardinality(Connected(connections)) ELSE 0

AttemptConnectMore(st) ==
  \E S \in SUBSET Candidates(st) :
    /\ Cardinality(S) <= Room
    /\ S = Candidates(st) \/ Cardinality(S) = Room
    /\ \A p \in S : dials[p] < MaxDials
    /\ status' = [p \in Peers |-> IF p \in S THEN "connecting" ELSE st[p]]
    /\ inProgress' = inProgress \cup S
    /\ dials' = [p \in Peers |-> IF p \in S THEN dials[p] + 1 ELSE dials[p]]

-----------------------------------------------------------------------------
\* A new Connection starts to read and sends its announce.
Start(c, p) ==
  /\ life[c] = "gone"
  /\ life' = [life EXCEPT ![c] = "open"]
  /\ remote' = [remote EXCEPT ![c] = p]
  /\ bound' = [bound EXCEPT ![c] = NoPeer]

\* A peer dials in, or the bootstrap peer given at start answers.
Accept(c, p) ==
  /\ Start(c, p)
  /\ UNCHANGED <<tables, dials>>

\* connect_outgoing; when resolving or connecting fails it only logs.
DialReturns(c, p) ==
  /\ dials[p] > 0
  /\ dials' = [dials EXCEPT ![p] = @ - 1]
  /\ \/ "connected" \in DialOutcomes /\ Start(c, p)
     \/ "failed" \in DialOutcomes /\ UNCHANGED <<remote, bound, life>>
  /\ UNCHANGED tables

Reading(c) == life[c] \in {"open", "broken"}

\* What a remote peer sends: Connection::start sends its own announce with the
\* default TTL before anything else; what it forwards later is one less or comes
\* from a list with 3.
Announces(c) == IF bound[c] = NoPeer THEN {<<remote[c], DefaultTTL>>}
                ELSE Peers \X {DefaultTTL - 1, 3}

\* Mutant of BindTo: a forwarded announce binds the connection, too.
BindToAny(c, p, ttl) ==
  IF bound[c] # p
  THEN bound' = [bound EXCEPT ![c] = p] /\ OnConnected(c, p)
  ELSE status' = Discovered({p}) /\ UNCHANGED <<bound, connections, inProgress>>

BindTo(c, p, ttl) ==
  IF bound[c] = NoPeer \/ (bound[c] # p /\ ttl >= DefaultTTL)
  THEN bound' = [bound EXCEPT ![c] = p] /\ OnConnected(c, p)
  ELSE status' = Discovered({p}) /\ UNCHANGED <<bound, connections, inProgress>>

\* handle_message of a peer_announce.
ReceiveAnnounce(c) ==
  /\ Reading(c)
  /\ \E a \in Announces(c) : BindTo(c, a[1], a[2])
  /\ UNCHANGED <<dials, remote, life>>

\* handle_message of a peer_list.
ReceiveList(c) ==
  /\ Reading(c) /\ bound[c] # NoPeer
  /\ \E S \in SUBSET Peers : AttemptConnectMore(Discovered(S))
  /\ UNCHANGED <<connections, remote, bound, life>>

\* The connect timer.
Tick ==
  /\ AttemptConnectMore(status)
  /\ UNCHANGED <<connections, remote, bound, life>>

-----------------------------------------------------------------------------
\* Mutant of Close: the peer manager is not told.
CloseQuietly(c, l) ==
  /\ life' = [life EXCEPT ![c] = l]
  /\ UNCHANGED <<tables, dials, remote, bound>>

\* Connection::close
Close(c, l) ==
  /\ life' = [life EXCEPT ![c] = l]
  /\ OnDisconnected(bound[c])
  /\ UNCHANGED <<dials, remote, bound>>

WriteFails(c) == life[c] = "open" /\ Close(c, "broken")

\* The read handler gets an error; a write may be pending.
ReadFails(c) ==
  \/ life[c] = "open" /\ \E l \in {"closing", "closed"} : Close(c, l)
  \/ life[c] = "broken" /\ Close(c, "closed")

WriteAborted(c) == life[c] = "closing" /\ Close(c, "closed")

\* ~Connection
Destroy(c) ==
  /\ life[c] = "closed"
  /\ life' = [life EXCEPT ![c] = "gone"]
  /\ OnDisconnected(bound[c])
  /\ remote' = [remote EXCEPT ![c] = NoPeer] /\ bound' = [bound EXCEPT ![c] = NoPeer]
  /\ UNCHANGED dials

Handle(c) == \/ ReceiveAnnounce(c) \/ ReceiveList(c)
             \/ WriteFails(c) \/ ReadFails(c) \/ WriteAborted(c) \/ Destroy(c)

Next == \/ \E c \in Conns : Handle(c) \/ \E p \in Peers : Accept(c, p) \/ DialReturns(c, p)
        \/ Tick

Spec == Init /\ [][Next]_vars

\* The timer ticks as long as the engine runs, and a dial returns.
FairSpec == /\ Spec /\ WF_vars(Tick)
            /\ \A p \in Peers : WF_vars(\E c \in Conns : DialReturns(c, p))
-----------------------------------------------------------------------------
TypeOK ==
  /\ status \in [Peers -> {"unknown", "disconnected", "connecting", "connected"}]
  /\ connections \in [Peers -> Conns \cup {NoConn}]
  /\ inProgress \subseteq Peers
  /\ dials \in [Peers -> Nat]
  /\ remote \in [Conns -> Peers \cup {NoPeer}] /\ bound \in [Conns -> Peers \cup {NoPeer}]
  /\ life \in [Conns -> Lives]
  /\ \A c \in Conns : life[c] = "gone" <=> remote[c] = NoPeer
  /\ Room \in 0..MaxPeers

\* A connection is bound to the peer at its other end and to no peer whose
\* announce merely travelled over it, so requests and answers go to the peer meant.
BoundToTheOtherEnd == \A c \in Conns : bound[c] \in {NoPeer, remote[c]}

\* The three tables that say how we stand with a peer never disagree, although
\* each handler updates them one by one and a peer may have several connections.
TablesAgree ==
  \A p \in Peers : /\ status[p] = "connected" <=> connections[p] # NoConn
                   /\ status[p] = "connecting" <=> p \in inProgress

\* A registered connection is still being read, and bound to the peer it is
\* registered for: messages are not queued on a dead object, and dropping the
\* entry under m_ never runs the destructor, which locks m_ again.
RegisteredIsAlive ==
  \A p \in Peers : connections[p] # NoConn =>
    Reading(connections[p]) /\ bound[connections[p]] = p

\* peer_manager.hpp:101 "Attempt connections until we reach max_peers": while
\* there is room, a known peer that is not connected is dialed again.
AttemptsGoOn ==
  \A p \in Peers : status[p] \in {"disconnected", "connecting"} /\ dials[p] = 0
    ~> dials[p] > 0 \/ status[p] = "connected"
                    \/ Cardinality(Connected(connections)) >= MaxPeers
=============================================================================
