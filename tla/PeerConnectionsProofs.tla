------------------------ MODULE PeerConnectionsProofs ------------------------
(***************************************************************************)
(* The tables of the connection manager agree with each other and with the *)
(* Connection objects, for any number of peers and connections.            *)
(***************************************************************************)
EXTENDS PeerConnections, FiniteSetTheorems, TLAPS

USE ConnectionsAssumption

\* A connection is bound only while it exists, and then has a remote end.
BoundWhileAlive == \A c \in Conns : life[c] = "gone" => bound[c] = NoPeer

\* TypeOK without the claim on Room, which follows from the rest.
Typed ==
  /\ status \in [Peers -> {"unknown", "disconnected", "connecting", "connected"}]
  /\ connections \in [Peers -> Conns \cup {NoConn}]
  /\ inProgress \subseteq Peers
  /\ dials \in [Peers -> Nat]
  /\ remote \in [Conns -> Peers \cup {NoPeer}] /\ bound \in [Conns -> Peers \cup {NoPeer}]
  /\ life \in [Conns -> Lives]
  /\ \A c \in Conns : life[c] = "gone" <=> remote[c] = NoPeer

CInv == Typed /\ BoundToTheOtherEnd /\ TablesAgree /\ RegisteredIsAlive /\ BoundWhileAlive

LEMMA RoomFits == Room \in 0..MaxPeers
<1>1. Cardinality(Connected(connections)) \in Nat
  BY FS_Subset, FS_CardinalityType DEF Connected
<1> QED BY <1>1 DEF Room

-----------------------------------------------------------------------------
\* Discovering peers moves no peer in or out of "connecting" and "connected".
LEMMA DiscoveredKeeps ==
  ASSUME Typed, NEW S
  PROVE  /\ Discovered(S) \in [Peers -> {"unknown", "disconnected", "connecting", "connected"}]
         /\ \A p \in Peers : \A s \in {"connecting", "connected"} :
              Discovered(S)[p] = s <=> status[p] = s
BY DEF Discovered, Typed

LEMMA AttemptKeeps ==
  ASSUME Typed, TablesAgree, NEW S, AttemptConnectMore(Discovered(S)), UNCHANGED connections
  PROVE  /\ status' \in [Peers -> {"unknown", "disconnected", "connecting", "connected"}]
         /\ inProgress' \subseteq Peers /\ dials' \in [Peers -> Nat]
         /\ TablesAgree'
<1> DEFINE st == Discovered(S)
<1>1. PICK K \in SUBSET Candidates(st) :
        /\ status' = [p \in Peers |-> IF p \in K THEN "connecting" ELSE st[p]]
        /\ inProgress' = inProgress \cup K
        /\ dials' = [p \in Peers |-> IF p \in K THEN dials[p] + 1 ELSE dials[p]]
  BY DEF AttemptConnectMore
<1>2. \A p \in K : p \in Peers /\ connections[p] = NoConn
  BY DEF Candidates
<1>3. /\ st \in [Peers -> {"unknown", "disconnected", "connecting", "connected"}]
      /\ \A p \in Peers : \A s \in {"connecting", "connected"} : st[p] = s <=> status[p] = s
  BY DiscoveredKeeps
<1> HIDE DEF st
<1>4. \A p \in Peers : /\ status'[p] = "connected" <=> connections'[p] # NoConn
                       /\ status'[p] = "connecting" <=> p \in inProgress'
  BY <1>1, <1>2, <1>3 DEF TablesAgree
<1> QED BY <1>1, <1>2, <1>3, <1>4 DEF Typed, TablesAgree

LEMMA DiscoveredNothing == ASSUME Typed PROVE Discovered({}) = status
BY DEF Discovered, Typed

\* on_disconnected leaves no entry for p and touches no other peer's.
LEMMA OnDisconnectedKeeps ==
  ASSUME CInv, NEW c \in Conns, OnDisconnected(bound[c])
  PROVE  /\ status' \in [Peers -> {"unknown", "disconnected", "connecting", "connected"}]
         /\ connections' \in [Peers -> Conns \cup {NoConn}] /\ inProgress' \subseteq Peers
         /\ TablesAgree'
         /\ \A p \in Peers : connections'[p] # NoConn =>
              /\ connections'[p] = connections[p] /\ connections[p] # c
<1>1. CASE bound[c] = NoPeer
  <2>1. UNCHANGED tables
    BY <1>1 DEF OnDisconnected
  <2>2. \A p \in Peers : connections[p] # c
    BY <1>1 DEF CInv, RegisteredIsAlive
  <2> QED BY <2>1, <2>2 DEF tables, CInv, Typed, TablesAgree
<1>2. CASE bound[c] # NoPeer
  <2>1. bound[c] \in Peers
    BY <1>2 DEF CInv, Typed
  <2>2. /\ connections' = [connections EXCEPT ![bound[c]] = NoConn]
        /\ status' = [status EXCEPT ![bound[c]] = IF @ = "unknown" THEN @ ELSE "disconnected"]
        /\ inProgress' = inProgress \ {bound[c]}
    BY <1>2 DEF OnDisconnected
  <2>3. \A p \in Peers : connections'[p] # NoConn =>
          connections'[p] = connections[p] /\ connections[p] # c
    BY <2>1, <2>2 DEF CInv, Typed, RegisteredIsAlive
  <2>4. TablesAgree'
    BY <2>1, <2>2 DEF CInv, Typed, TablesAgree
  <2> QED BY <2>1, <2>2, <2>3, <2>4 DEF CInv, Typed
<1> QED BY <1>1, <1>2

LEMMA CloseKeeps ==
  ASSUME CInv, NEW c \in Conns, life[c] # "gone", NEW l \in Lives \ {"gone"}, Close(c, l)
  PROVE  CInv'
<1>1. /\ OnDisconnected(bound[c]) /\ UNCHANGED <<dials, remote, bound>>
      /\ life' = [life EXCEPT ![c] = l]
  BY DEF Close
<1>2. /\ status' \in [Peers -> {"unknown", "disconnected", "connecting", "connected"}]
      /\ connections' \in [Peers -> Conns \cup {NoConn}] /\ inProgress' \subseteq Peers
      /\ TablesAgree'
      /\ \A p \in Peers : connections'[p] # NoConn =>
           /\ connections'[p] = connections[p] /\ connections[p] # c
  BY <1>1, OnDisconnectedKeeps
<1>3. Typed'
  BY <1>1, <1>2 DEF CInv, Typed
<1>4. RegisteredIsAlive'
  BY <1>1, <1>2 DEF CInv, Typed, RegisteredIsAlive, Reading
<1>5. BoundToTheOtherEnd' /\ BoundWhileAlive'
  BY <1>1 DEF CInv, Typed, BoundToTheOtherEnd, BoundWhileAlive
<1> QED BY <1>2, <1>3, <1>4, <1>5 DEF CInv

LEMMA StartKeeps ==
  ASSUME CInv, NEW c \in Conns, NEW p \in Peers, Start(c, p), UNCHANGED tables,
         dials' \in [Peers -> Nat]
  PROVE  CInv'
<1>1. /\ life[c] = "gone" /\ life' = [life EXCEPT ![c] = "open"]
      /\ remote' = [remote EXCEPT ![c] = p] /\ bound' = [bound EXCEPT ![c] = NoPeer]
      /\ UNCHANGED <<status, connections, inProgress>>
  BY DEF Start, tables
<1>2. \A q \in Peers : connections[q] # c
  BY <1>1 DEF CInv, RegisteredIsAlive, Reading
<1>3. Typed'
  BY <1>1 DEF CInv, Typed, Lives
<1>4. RegisteredIsAlive'
  BY <1>1, <1>2 DEF CInv, Typed, RegisteredIsAlive, Reading
<1>5. BoundToTheOtherEnd' /\ BoundWhileAlive' /\ TablesAgree'
  BY <1>1 DEF CInv, Typed, BoundToTheOtherEnd, BoundWhileAlive, TablesAgree
<1> QED BY <1>3, <1>4, <1>5 DEF CInv

\* An announce binds a connection only to the peer that announces itself.
LEMMA AnnounceKeeps ==
  ASSUME CInv, NEW c \in Conns, ReceiveAnnounce(c)
  PROVE  CInv'
<1>1. Reading(c) /\ UNCHANGED <<dials, remote, life>>
  BY DEF ReceiveAnnounce
<1>2. PICK a \in Announces(c) : BindTo(c, a[1], a[2])
  BY DEF ReceiveAnnounce
<1>3. life[c] # "gone" /\ remote[c] \in Peers
  BY <1>1 DEF Reading, CInv, Typed
<1>4. CASE bound[c] = NoPeer
  <2>1. a[1] = remote[c]
    BY <1>2, <1>4 DEF Announces
  <2>2. bound' = [bound EXCEPT ![c] = remote[c]] /\ OnConnected(c, remote[c])
    BY <1>2, <1>4, <2>1 DEF BindTo
  <2>3. connections[remote[c]] # c
    BY <1>3, <1>4 DEF CInv, RegisteredIsAlive
  <2>4. /\ connections' = [connections EXCEPT ![remote[c]] = c]
        /\ status' = [status EXCEPT ![remote[c]] = "connected"]
        /\ inProgress' = inProgress \ {remote[c]}
    BY <2>2, <2>3 DEF OnConnected
  <2>5. Typed'
    BY <1>1, <1>3, <2>2, <2>4 DEF CInv, Typed
  <2>6. TablesAgree'
    BY <1>3, <2>4 DEF CInv, Typed, TablesAgree
  <2>7. RegisteredIsAlive'
    <3> SUFFICES ASSUME NEW p \in Peers, connections'[p] # NoConn
                 PROVE  (Reading(connections[p]) /\ bound[connections[p]] = p)'
      BY DEF RegisteredIsAlive
    <3>1. CASE p = remote[c]
      <4>1. connections'[p] = c
        BY <3>1, <1>3, <2>4 DEF CInv, Typed
      <4> QED BY <4>1, <3>1, <1>1, <2>2 DEF CInv, Typed, Reading
    <3>2. CASE p # remote[c]
      <4>1. connections'[p] = connections[p]
        BY <3>2, <1>3, <2>4 DEF CInv, Typed
      <4>2. Reading(connections[p]) /\ bound[connections[p]] = p /\ connections[p] \in Conns
        BY <4>1 DEF CInv, Typed, RegisteredIsAlive
      <4>3. connections[p] # c
        BY <4>2, <1>4
      <4> QED BY <4>1, <4>2, <4>3, <1>1, <2>2 DEF CInv, Typed, Reading
    <3> QED BY <3>1, <3>2
  <2>8. BoundToTheOtherEnd' /\ BoundWhileAlive'
    BY <1>1, <1>3, <2>2 DEF CInv, Typed, BoundToTheOtherEnd, BoundWhileAlive
  <2> QED BY <2>5, <2>6, <2>7, <2>8 DEF CInv
<1>5. CASE bound[c] # NoPeer
  <2>1. a[2] \in Nat /\ a[2] < DefaultTTL
    BY <1>2, <1>5 DEF Announces
  <2>2. status' = Discovered({a[1]}) /\ UNCHANGED <<bound, connections, inProgress>>
    BY <1>2, <1>5, <2>1 DEF BindTo
  <2>3. /\ status' \in [Peers -> {"unknown", "disconnected", "connecting", "connected"}]
        /\ \A p \in Peers : \A s \in {"connecting", "connected"} : status'[p] = s <=> status[p] = s
    BY <2>2, DiscoveredKeeps DEF CInv
  <2>4. TablesAgree'
    BY <2>2, <2>3 DEF CInv, TablesAgree
  <2> QED BY <1>1, <2>2, <2>3, <2>4
          DEF CInv, Typed, BoundToTheOtherEnd, BoundWhileAlive, RegisteredIsAlive, Reading
<1> QED BY <1>4, <1>5

LEMMA DestroyKeeps ==
  ASSUME CInv, NEW c \in Conns, Destroy(c)
  PROVE  CInv'
<1>1. /\ life[c] = "closed" /\ life' = [life EXCEPT ![c] = "gone"] /\ OnDisconnected(bound[c])
      /\ remote' = [remote EXCEPT ![c] = NoPeer] /\ bound' = [bound EXCEPT ![c] = NoPeer]
      /\ UNCHANGED dials
  BY DEF Destroy
<1>2. /\ status' \in [Peers -> {"unknown", "disconnected", "connecting", "connected"}]
      /\ connections' \in [Peers -> Conns \cup {NoConn}] /\ inProgress' \subseteq Peers
      /\ TablesAgree'
      /\ \A p \in Peers : connections'[p] # NoConn =>
           /\ connections'[p] = connections[p] /\ connections[p] # c
  BY <1>1, OnDisconnectedKeeps
<1>3. Typed'
  BY <1>1, <1>2 DEF CInv, Typed, Lives
<1>4. RegisteredIsAlive'
  BY <1>1, <1>2 DEF CInv, Typed, RegisteredIsAlive, Reading
<1>5. BoundToTheOtherEnd' /\ BoundWhileAlive'
  BY <1>1 DEF CInv, Typed, BoundToTheOtherEnd, BoundWhileAlive
<1> QED BY <1>2, <1>3, <1>4, <1>5 DEF CInv

-----------------------------------------------------------------------------
THEOREM Invariance == Spec => []CInv
<1>1. Init => CInv
  BY DEF Init, CInv, Typed, BoundToTheOtherEnd, TablesAgree, RegisteredIsAlive, BoundWhileAlive,
         Lives
<1>2. CInv /\ [Next]_vars => CInv'
  <2> SUFFICES ASSUME CInv, [Next]_vars PROVE CInv'
    OBVIOUS
  <2>1. ASSUME NEW c \in Conns, ReceiveList(c) PROVE CInv'
    <3>1. PICK S \in SUBSET Peers : AttemptConnectMore(Discovered(S))
      BY <2>1 DEF ReceiveList
    <3>2. UNCHANGED <<connections, remote, bound, life>>
      BY <2>1 DEF ReceiveList
    <3>3. /\ status' \in [Peers -> {"unknown", "disconnected", "connecting", "connected"}]
          /\ inProgress' \subseteq Peers /\ dials' \in [Peers -> Nat] /\ TablesAgree'
      BY <3>1, <3>2, AttemptKeeps DEF CInv
    <3> QED BY <3>2, <3>3
            DEF CInv, Typed, BoundToTheOtherEnd, BoundWhileAlive, RegisteredIsAlive, Reading
  <2>2. CASE Tick
    <3>1. AttemptConnectMore(Discovered({}))
      BY <2>2, DiscoveredNothing DEF Tick, CInv
    <3>2. UNCHANGED <<connections, remote, bound, life>>
      BY <2>2 DEF Tick
    <3>3. /\ status' \in [Peers -> {"unknown", "disconnected", "connecting", "connected"}]
          /\ inProgress' \subseteq Peers /\ dials' \in [Peers -> Nat] /\ TablesAgree'
      BY <3>1, <3>2, AttemptKeeps DEF CInv
    <3> QED BY <3>2, <3>3
            DEF CInv, Typed, BoundToTheOtherEnd, BoundWhileAlive, RegisteredIsAlive, Reading
  <2>3. ASSUME NEW c \in Conns, WriteFails(c) \/ ReadFails(c) \/ WriteAborted(c) PROVE CInv'
    <3>1. PICK l \in {"broken", "closing", "closed"} : life[c] # "gone" /\ Close(c, l)
      BY <2>3 DEF WriteFails, ReadFails, WriteAborted
    <3> QED BY <3>1, CloseKeeps DEF Lives
  <2>4. ASSUME NEW c \in Conns, NEW p \in Peers, Accept(c, p) PROVE CInv'
    BY <2>4, StartKeeps DEF Accept, CInv, Typed
  <2>5. ASSUME NEW c \in Conns, NEW p \in Peers, DialReturns(c, p) PROVE CInv'
    <3>1. /\ dials[p] > 0 /\ dials' = [dials EXCEPT ![p] = @ - 1] /\ UNCHANGED tables
          /\ Start(c, p) \/ UNCHANGED <<remote, bound, life>>
      BY <2>5 DEF DialReturns
    <3>2. dials' \in [Peers -> Nat]
      BY <3>1 DEF CInv, Typed
    <3>3. CASE Start(c, p)
      BY <3>1, <3>2, <3>3, StartKeeps
    <3>4. CASE UNCHANGED <<remote, bound, life>>
      BY <3>1, <3>2, <3>4 DEF CInv, Typed, BoundToTheOtherEnd, BoundWhileAlive, TablesAgree,
                              RegisteredIsAlive, Reading, tables
    <3> QED BY <3>1, <3>3, <3>4
  <2>6. CASE UNCHANGED vars
    BY <2>6 DEF vars, tables, CInv, Typed, BoundToTheOtherEnd, BoundWhileAlive, TablesAgree,
                RegisteredIsAlive, Reading
  <2> QED BY <2>1, <2>2, <2>3, <2>4, <2>5, <2>6, AnnounceKeeps, DestroyKeeps DEF Next, Handle
<1> QED BY <1>1, <1>2, PTL DEF Spec

\* Every variable keeps its type, and the room left never underflows.
THEOREM TypeCorrect == Spec => []TypeOK
<1>1. CInv => TypeOK
  BY RoomFits DEF CInv, Typed, TypeOK
<1> QED BY <1>1, Invariance, PTL

\* No announce that merely travels over a connection binds it.
THEOREM BindsToTheOtherEnd == Spec => []BoundToTheOtherEnd
BY Invariance, PTL DEF CInv

\* The three tables agree after every handler.
THEOREM TablesStayInAgreement == Spec => []TablesAgree
BY Invariance, PTL DEF CInv

\* No entry of connections_ outlives the read loop of its connection.
THEOREM NoDeadRegistration == Spec => []RegisteredIsAlive
BY Invariance, PTL DEF CInv

-----------------------------------------------------------------------------
\* What one remote peer sends, forwards or loses may make us discover and dial other
\* peers, and never changes how we stand with one we are connected to or dialing,
\* although lists and announces name any peers and close() reports an id, not a
\* connection.
PeersDoNotDisturbEachOther ==
  [][\A c \in Conns, p \in Peers : Handle(c) /\ p # remote[c] =>
       /\ connections'[p] = connections[p]
       /\ status[p] \in {"connected", "connecting"} => status'[p] = status[p]
       /\ p \in inProgress => p \in inProgress']_vars

\* After a dial has failed nothing on our side ends the wait, neither the timer nor
\* a list that names the peer: only a connection of that peer does, which it has to
\* make itself (the safety half of what refutes AttemptsGoOn).
OnlyThePeerEndsTheWait ==
  [][\A p \in Peers : p \in inProgress /\ dials[p] = 0 =>
       \/ p \in inProgress' /\ dials'[p] = 0
       \/ \E c \in Conns : Handle(c) /\ remote[c] = p]_vars

\* A peer being dialed is not dialed a second time, a connected one not at all.
LEMMA AttemptSpares ==
  ASSUME CInv, NEW S, AttemptConnectMore(Discovered(S)), NEW p \in Peers
  PROVE  /\ status[p] \in {"connected", "connecting"} => status'[p] = status[p]
         /\ p \in inProgress => p \in inProgress' /\ dials'[p] = dials[p]
<1> DEFINE st == Discovered(S)
<1>1. PICK K \in SUBSET Candidates(st) :
        /\ status' = [q \in Peers |-> IF q \in K THEN "connecting" ELSE st[q]]
        /\ inProgress' = inProgress \cup K
        /\ dials' = [q \in Peers |-> IF q \in K THEN dials[q] + 1 ELSE dials[q]]
  BY DEF AttemptConnectMore
<1>2. \A s \in {"connecting", "connected"} : st[p] = s <=> status[p] = s
  BY DiscoveredKeeps DEF CInv
<1>3. \A q \in K : st[q] = "disconnected" /\ q \notin inProgress
  BY DEF Candidates
<1> HIDE DEF st
<1> QED BY <1>1, <1>2, <1>3

\* A handler of one peer's connection updates the entries of that peer only.
LEMMA HandlerSparesOthers ==
  ASSUME CInv, NEW c \in Conns, Handle(c), NEW p \in Peers, p # remote[c]
  PROVE  /\ connections'[p] = connections[p]
         /\ status[p] \in {"connected", "connecting"} => status'[p] = status[p]
         /\ p \in inProgress => p \in inProgress' /\ dials'[p] = dials[p]
<1>t. Typed /\ bound[c] \in {NoPeer, remote[c]}
  BY DEF CInv, BoundToTheOtherEnd
<1>1. CASE ReceiveAnnounce(c)
  <2>1. PICK a \in Announces(c) : BindTo(c, a[1], a[2])
    BY <1>1 DEF ReceiveAnnounce
  <2>2. Reading(c) /\ remote[c] \in Peers /\ UNCHANGED dials
    BY <1>1, <1>t DEF ReceiveAnnounce, Reading, Typed
  <2>3. CASE bound[c] = NoPeer
    <3>1. a[1] = remote[c] /\ OnConnected(c, a[1])
      BY <2>1, <2>3 DEF Announces, BindTo
    <3> QED BY <1>t, <2>2, <3>1, DiscoveredKeeps DEF OnConnected, Typed
  <2>4. CASE bound[c] # NoPeer
    <3>1. a[2] \in {DefaultTTL - 1, 3}
      BY <2>4 DEF Announces
    <3>2. ~ (a[2] >= DefaultTTL)
      BY <3>1
    <3>3. status' = Discovered({a[1]}) /\ UNCHANGED <<connections, inProgress>>
      BY <2>1, <2>4, <3>2 DEF BindTo
    <3> QED BY <1>t, <2>2, <3>3, DiscoveredKeeps
  <2> QED BY <2>3, <2>4
<1>2. CASE ReceiveList(c)
  <2>1. PICK S \in SUBSET Peers : AttemptConnectMore(Discovered(S))
    BY <1>2 DEF ReceiveList
  <2> QED BY <1>2, <2>1, AttemptSpares DEF ReceiveList
<1>3. CASE WriteFails(c) \/ ReadFails(c) \/ WriteAborted(c) \/ Destroy(c)
  <2>1. OnDisconnected(bound[c]) /\ UNCHANGED dials
    BY <1>3 DEF WriteFails, ReadFails, WriteAborted, Destroy, Close
  <2> QED BY <1>t, <2>1 DEF OnDisconnected, Typed, tables
<1> QED BY <1>1, <1>2, <1>3 DEF Handle

\* One peer cannot make us lose or give up another.
THEOREM PeersAreApart == Spec => PeersDoNotDisturbEachOther
<1>1. CInv /\ [Next]_vars =>
        [\A c \in Conns, p \in Peers : Handle(c) /\ p # remote[c] =>
           /\ connections'[p] = connections[p]
           /\ status[p] \in {"connected", "connecting"} => status'[p] = status[p]
           /\ p \in inProgress => p \in inProgress']_vars
  BY HandlerSparesOthers
<1> QED BY <1>1, Invariance, PTL DEF Spec, PeersDoNotDisturbEachOther

\* A failed dial stays without a successor until the peer itself connects.
THEOREM FailedDialsStay == Spec => OnlyThePeerEndsTheWait
<1>1. ASSUME CInv, [Next]_vars, NEW p \in Peers, p \in inProgress, dials[p] = 0
      PROVE  \/ p \in inProgress' /\ dials'[p] = 0
             \/ \E c \in Conns : Handle(c) /\ remote[c] = p
  <2>1. ASSUME NEW c \in Conns, Handle(c), remote[c] # p
        PROVE  p \in inProgress' /\ dials'[p] = 0
    BY <1>1, <2>1, HandlerSparesOthers
  <2>2. CASE Tick
    BY <1>1, <2>2, DiscoveredNothing, AttemptSpares DEF Tick, CInv
  <2>3. ASSUME NEW c \in Conns, NEW q \in Peers, Accept(c, q) \/ DialReturns(c, q)
        PROVE  p \in inProgress' /\ dials'[p] = 0
    BY <1>1, <2>3 DEF Accept, DialReturns, tables, CInv, Typed
  <2>4. CASE UNCHANGED vars
    BY <1>1, <2>4 DEF vars, tables
  <2> QED BY <1>1, <2>1, <2>2, <2>3, <2>4 DEF Next
<1>2. CInv /\ [Next]_vars =>
        [\A p \in Peers : p \in inProgress /\ dials[p] = 0 =>
           \/ p \in inProgress' /\ dials'[p] = 0
           \/ \E c \in Conns : Handle(c) /\ remote[c] = p]_vars
  BY <1>1
<1> QED BY <1>2, Invariance, PTL DEF Spec, OnlyThePeerEndsTheWait
=============================================================================
