---------------------------- MODULE RequestsProofs ----------------------------
(***************************************************************************)
(* Every call for chunks or listings is answered once, and when it should  *)
(* be, for any number of calls, peers and connections.                     *)
(*                                                                         *)
(* The argument counts: AggregateContext::pending is the number of peers   *)
(* the call has still to hear from (CallInv), whatever the connections do. *)
(***************************************************************************)
EXTENDS Requests, PeerConnectionsProofs

USE ConnectionsAssumption, RequestsAssumption

RTyped ==
  /\ at \in [Calls -> States]
  /\ toAsk \in [Calls -> SUBSET Peers] /\ now \in [Calls -> Peers \cup {NoPeer}]
  /\ pending \subseteq Calls \X Peers
  /\ asked \subseteq [call : Calls, peer : Peers, conn : Conns \cup {NoConn}]
  /\ left \in [Calls -> Nat] /\ fired \in [Calls -> Nat]

\* Where a call stands agrees with what it has still to do.
Stages(k) ==
  /\ toAsk[k] # {} \/ now[k] # NoPeer => at[k] = "asking"
  /\ now[k] # NoPeer => <<k, now[k]>> \in pending
  /\ \A p \in toAsk[k] : <<k, p>> \notin pending
  /\ k \in HashCalls => at[k] # "unavailable"
  /\ at[k] = "cancelling" => k \in ChunkCalls
  /\ k \in ChunkCalls /\ at[k] \in {"answered", "timeout", "unavailable"}
       => Outstanding(k) = {}

Counts(k) ==
  /\ at[k] = "idle" => Outstanding(k) = {} /\ left[k] = 0 /\ fired[k] = 0
  /\ at[k] # "idle" => fired[k] = IF left[k] = 0 THEN 1 ELSE 0
  /\ at[k] # "idle" => \/ left[k] = Cardinality(Outstanding(k))
                       \/ /\ at[k] \in {"timeout", "unavailable"}
                          /\ left[k] = 1 /\ Outstanding(k) = {}
  /\ k \notin HashCalls => left[k] <= 1

CallInv(k) == Stages(k) /\ Counts(k)

AskedInv ==
  \A r \in asked : /\ at[r.call] # "idle"
                   /\ r.peer \notin toAsk[r.call] /\ now[r.call] # r.peer

RInv == RTyped /\ (\A k \in Calls : CallInv(k)) /\ AskedInv /\ RequestsReachThePeerMeant
-----------------------------------------------------------------------------
LEMMA OutstandingIsFinite ==
  ASSUME NEW k \in Calls, RTyped
  PROVE  /\ IsFiniteSet(Outstanding(k)) /\ Cardinality(Outstanding(k)) \in Nat
         /\ \A p : Cardinality(Outstanding(k) \ {p}) =
                IF p \in Outstanding(k) THEN Cardinality(Outstanding(k)) - 1
                ELSE Cardinality(Outstanding(k))
         /\ Cardinality(Outstanding(k)) = 0 <=> Outstanding(k) = {}
         /\ Cardinality(Outstanding(k)) = 1 => \E p : Outstanding(k) = {p}
<1>1. Outstanding(k) \in SUBSET Peers
  BY DEF Outstanding, RTyped
<1>2. IsFiniteSet(Outstanding(k))
  BY <1>1, FS_Subset
<1>3. Cardinality(Outstanding(k)) \in Nat
  BY <1>2, FS_CardinalityType
<1>4. \A p : Cardinality(Outstanding(k) \ {p}) =
             IF p \in Outstanding(k) THEN Cardinality(Outstanding(k)) - 1
             ELSE Cardinality(Outstanding(k))
  BY <1>2, FS_RemoveElement
<1>5. Cardinality(Outstanding(k)) = 0 <=> Outstanding(k) = {}
  BY <1>2, FS_EmptySet
<1>6. Cardinality(Outstanding(k)) = 1 => \E p : Outstanding(k) = {p}
  BY <1>2, FS_Singleton
<1> QED BY <1>2, <1>3, <1>4, <1>5, <1>6

\* A step of one call leaves the others as they are.
LEMMA OthersKeep ==
  ASSUME NEW j \in Calls, CallInv(j),
         at'[j] = at[j], toAsk'[j] = toAsk[j], now'[j] = now[j], left'[j] = left[j],
         fired'[j] = fired[j], \A p : <<j, p>> \in pending' <=> <<j, p>> \in pending
  PROVE  CallInv(j)'
<1>1. Outstanding(j)' = Outstanding(j)
  BY DEF Outstanding
<1>2. Stages(j)'
  BY <1>1 DEF CallInv, Stages
<1>3. Counts(j)'
  BY <1>1 DEF CallInv, Counts
<1> QED BY <1>2, <1>3 DEF CallInv

\* An answer, or a failure counted as one, takes one peer off the count.
LEMMA NotifyCounts ==
  ASSUME NEW k \in Calls, RTyped, CallInv(k), NEW p \in Outstanding(k),
         Outstanding(k)' = Outstanding(k) \ {p}, Notify(k), at'[k] = at[k]
  PROVE  Counts(k)'
<1>1. at[k] # "idle" /\ left[k] = Cardinality(Outstanding(k)) /\ left[k] > 0
  BY OutstandingIsFinite DEF CallInv, Counts
<1>2. left'[k] = left[k] - 1 /\ fired'[k] = IF left[k] = 1 THEN fired[k] + 1 ELSE fired[k]
  BY <1>1 DEF Notify, RTyped
<1>3. left'[k] = Cardinality(Outstanding(k)')
  BY <1>1, <1>2, OutstandingIsFinite
<1>4. fired'[k] = IF left'[k] = 0 THEN 1 ELSE 0
  BY <1>1, <1>2 DEF CallInv, Counts, RTyped
<1> QED BY <1>1, <1>2, <1>3, <1>4 DEF CallInv, Counts, RTyped

LEMMA FailCounts ==
  ASSUME NEW k \in Calls, RTyped, CallInv(k), NEW p \in Outstanding(k),
         Outstanding(k)' = Outstanding(k) \ {p}, Fail(k), at[k] = "asking"
  PROVE  /\ Counts(k)'
         /\ k \in HashCalls => at' = at
         /\ k \notin HashCalls => at'[k] = "unavailable" /\ Outstanding(k)' = {}
<1>1. CASE k \in HashCalls
  <2>1. Notify(k) /\ at' = at
    BY <1>1 DEF Fail
  <2> QED BY <1>1, <2>1, NotifyCounts
<1>2. CASE k \notin HashCalls
  <2>1. at'[k] = "unavailable" /\ UNCHANGED <<left, fired>>
    BY <1>2 DEF Fail, RTyped
  <2>2. left[k] = Cardinality(Outstanding(k)) /\ left[k] = 1
    BY <1>2, OutstandingIsFinite DEF CallInv, Counts
  <2>3. Outstanding(k)' = {}
    BY <2>2, OutstandingIsFinite
  <2> QED BY <1>2, <2>1, <2>2, <2>3 DEF CallInv, Counts
<1> QED BY <1>1, <1>2

\* Notify and Fail keep the types and change no other call.
LEMMA NotifyKeepsOthers ==
  ASSUME RTyped, NEW k \in Calls, Notify(k)
  PROVE  /\ left' \in [Calls -> Nat] /\ fired' \in [Calls -> Nat]
         /\ \A j \in Calls \ {k} : left'[j] = left[j] /\ fired'[j] = fired[j]
BY DEF Notify, RTyped

LEMMA FailKeepsOthers ==
  ASSUME RTyped, NEW k \in Calls, Fail(k)
  PROVE  /\ left' \in [Calls -> Nat] /\ fired' \in [Calls -> Nat] /\ at' \in [Calls -> States]
         /\ \A j \in Calls \ {k} : left'[j] = left[j] /\ fired'[j] = fired[j] /\ at'[j] = at[j]
         /\ \A j \in Calls : at[j] # "idle" => at'[j] # "idle"
<1>1. CASE k \in HashCalls
  BY <1>1, NotifyKeepsOthers DEF Fail, RTyped
<1>2. CASE k \notin HashCalls
  BY <1>2 DEF Fail, RTyped, States
<1> QED BY <1>1, <1>2

-----------------------------------------------------------------------------
\* CallKeeps: what each step of a call does to the invariant.
LEMMA BeginKeeps ==
  ASSUME RInv, CInv, NEW k \in Calls, Begin(k), UNCHANGED asked
  PROVE  RTyped' /\ (\A j \in Calls : CallInv(j)') /\ AskedInv'
<1>1. PICK S \in IF k \in HashCalls THEN {Connected(connections)} ELSE {{p} : p \in Peers} :
        /\ at' = [at EXCEPT ![k] = "asking"]
        /\ toAsk' = [toAsk EXCEPT ![k] = S]
        /\ left' = [left EXCEPT ![k] = Cardinality(S)]
        /\ fired' = [fired EXCEPT ![k] = IF S = {} THEN 1 ELSE 0]
  BY DEF Begin
<1>2. at[k] = "idle" /\ UNCHANGED <<now, pending>>
  BY DEF Begin
<1>3. S \in SUBSET Peers
  <2>1. CASE k \in HashCalls
    BY <1>1, <2>1 DEF Connected
  <2>2. CASE k \notin HashCalls
    BY <1>1, <2>2
  <2> QED BY <2>1, <2>2
<1>4. IsFiniteSet(S) /\ Cardinality(S) \in Nat /\ (Cardinality(S) = 0 <=> S = {})
  BY <1>3, FS_Subset, FS_CardinalityType, FS_EmptySet
<1>5. k \notin HashCalls => Cardinality(S) = 1
  <2>1. k \notin HashCalls => S \in {{p} : p \in Peers}
    BY <1>1
  <2>2. \A p : Cardinality({p}) = 1
    BY FS_Singleton
  <2> QED BY <2>1, <2>2
<1>6. RTyped'
  BY <1>1, <1>2, <1>3, <1>4 DEF RInv, RTyped, States
<1>7. toAsk'[k] = S /\ at'[k] = "asking" /\ left'[k] = Cardinality(S)
      /\ fired'[k] = IF S = {} THEN 1 ELSE 0
  BY <1>1 DEF RInv, RTyped
<1>8. CallInv(k)
  BY DEF RInv
<1>9. toAsk[k] = {} /\ now[k] = NoPeer /\ \A p \in Peers : <<k, p>> \notin pending
  BY <1>2, <1>8 DEF CallInv, Stages, Counts, Outstanding
<1>10. Outstanding(k)' = S
  BY <1>2, <1>3, <1>7, <1>9 DEF Outstanding
<1>11. Stages(k)'
  BY <1>2, <1>3, <1>7, <1>9 DEF Stages
<1>12. Counts(k)'
  BY <1>4, <1>5, <1>7, <1>10 DEF Counts
<1>13. ASSUME NEW j \in Calls, j # k PROVE CallInv(j)'
  BY <1>1, <1>2, <1>13, OthersKeep DEF RInv, RTyped
<1>14. AskedInv'
  BY <1>1, <1>2 DEF RInv, RTyped, AskedInv
<1> QED BY <1>6, <1>11, <1>12, <1>13, <1>14 DEF CallInv

LEMMA RegisterKeeps ==
  ASSUME RInv, CInv, NEW k \in Calls, NEW p \in Peers, Register(k, p), UNCHANGED asked
  PROVE  RTyped' /\ (\A j \in Calls : CallInv(j)') /\ AskedInv'
<1>1. /\ at[k] = "asking" /\ now[k] = NoPeer /\ p \in toAsk[k]
      /\ toAsk' = [toAsk EXCEPT ![k] = @ \ {p}]
  BY DEF Register
<1>2. CallInv(k) /\ RTyped
  BY DEF RInv
<1>3. <<k, p>> \notin pending /\ p \in Outstanding(k)
  BY <1>1, <1>2 DEF CallInv, Stages, Outstanding
<1>4. toAsk'[k] = toAsk[k] \ {p} /\ \A j \in Calls \ {k} : toAsk'[j] = toAsk[j]
  BY <1>1, <1>2 DEF RTyped
<1>5. CASE connections[p] # NoConn
  <2>1. /\ pending' = pending \cup {<<k, p>>} /\ now' = [now EXCEPT ![k] = p]
        /\ UNCHANGED <<at, left, fired>>
    BY <1>5 DEF Register
  <2>2. RTyped'
    BY <1>1, <1>2, <2>1 DEF RTyped
  <2>3. now'[k] = p
    BY <1>2, <2>1 DEF RTyped
  <2>4. Outstanding(k)' = Outstanding(k)
    BY <1>1, <1>2, <1>4, <2>1, <2>3 DEF Outstanding, RTyped
  <2>5. Stages(k)'
    BY <1>1, <1>2, <1>4, <2>1, <2>3 DEF CallInv, Stages
  <2>6. Counts(k)'
    BY <1>2, <2>1, <2>4 DEF CallInv, Counts
  <2>7. ASSUME NEW j \in Calls, j # k PROVE CallInv(j)'
    BY <1>2, <1>4, <2>1, <2>7, OthersKeep DEF RInv, RTyped
  <2>8. AskedInv'
    BY <1>1, <1>4, <2>1, <1>2 DEF RInv, RTyped, AskedInv
  <2> QED BY <2>2, <2>5, <2>6, <2>7, <2>8 DEF CallInv
<1>6. CASE connections[p] = NoConn
  <2>1. Fail(k) /\ UNCHANGED <<now, pending>>
    BY <1>6 DEF Register
  <2>2. Outstanding(k)' = Outstanding(k) \ {p}
    BY <1>1, <1>3, <1>4, <2>1 DEF Outstanding
  <2>3. /\ Counts(k)'
        /\ k \in HashCalls => at' = at
        /\ k \notin HashCalls => at'[k] = "unavailable" /\ Outstanding(k)' = {}
    BY <1>1, <1>2, <1>3, <2>1, <2>2, FailCounts
  <2>4. /\ left' \in [Calls -> Nat] /\ fired' \in [Calls -> Nat] /\ at' \in [Calls -> States]
        /\ \A j \in Calls \ {k} : left'[j] = left[j] /\ fired'[j] = fired[j] /\ at'[j] = at[j]
        /\ \A j \in Calls : at[j] # "idle" => at'[j] # "idle"
    BY <1>2, <2>1, FailKeepsOthers
  <2>5. RTyped'
    BY <1>1, <1>2, <2>1, <2>4 DEF RTyped
  <2>6. Stages(k)'
    BY <1>1, <1>2, <1>4, <2>1, <2>3 DEF CallInv, Stages, Outstanding
  <2>7. ASSUME NEW j \in Calls, j # k PROVE CallInv(j)'
    BY <1>4, <2>1, <2>4, <2>7, OthersKeep DEF RInv
  <2>8. AskedInv'
    BY <1>4, <2>1, <2>4, <1>2 DEF RInv, RTyped, AskedInv
  <2> QED BY <2>3, <2>5, <2>6, <2>7, <2>8 DEF CallInv
<1> QED BY <1>5, <1>6

LEMMA SendKeeps ==
  ASSUME RInv, CInv, NEW k \in Calls, Send(k)
  PROVE  /\ RTyped' /\ (\A j \in Calls : CallInv(j)') /\ AskedInv'
         /\ UNCHANGED vars => RequestsReachThePeerMeant'
<1> DEFINE p == now[k]
<1>1. /\ at[k] = "asking" /\ p # NoPeer /\ UNCHANGED toAsk
      /\ now' = [now EXCEPT ![k] = NoPeer]
  BY DEF Send
<1>2. CallInv(k) /\ RTyped
  BY DEF RInv
<1>3. p \in Peers /\ <<k, p>> \in pending /\ p \notin toAsk[k] /\ p \in Outstanding(k)
  BY <1>1, <1>2 DEF CallInv, Stages, Outstanding, RTyped
<1>4. now'[k] = NoPeer /\ \A j \in Calls \ {k} : now'[j] = now[j]
  BY <1>1, <1>2 DEF RTyped
<1>5. CASE connections[p] # NoConn
  <2>1. /\ asked' = asked \cup {[call |-> k, peer |-> p, conn |-> connections[p]]}
        /\ UNCHANGED <<at, pending, left, fired>>
    BY <1>5 DEF Send
  <2>2. connections[p] \in Conns /\ Reading(connections[p]) /\ remote[connections[p]] = p
    BY <1>3, <1>5 DEF CInv, Typed, RegisteredIsAlive, BoundToTheOtherEnd
  <2>3. RTyped'
    BY <1>1, <1>2, <1>3, <2>1, <2>2 DEF RTyped
  <2>4. Outstanding(k)' = Outstanding(k)
    BY <1>1, <1>3, <1>4, <2>1 DEF Outstanding
  <2>5. Stages(k)'
    BY <1>1, <1>2, <1>4, <2>1 DEF CallInv, Stages
  <2>6. Counts(k)'
    BY <1>2, <2>1, <2>4 DEF CallInv, Counts
  <2>7. ASSUME NEW j \in Calls, j # k PROVE CallInv(j)'
    BY <1>1, <1>4, <2>1, <2>7, OthersKeep DEF RInv
  <2>8. AskedInv'
    <3> SUFFICES ASSUME NEW r \in asked'
                 PROVE  at'[r.call] # "idle" /\ r.peer \notin toAsk'[r.call] /\ now'[r.call] # r.peer
      BY DEF AskedInv
    <3>1. CASE r \in asked
      <4>1. r.peer \in Peers /\ r.call \in Calls
        BY <3>1, <1>2 DEF RTyped
      <4> QED BY <3>1, <4>1, <1>1, <1>4, <2>1 DEF RInv, AskedInv
    <3>2. CASE r = [call |-> k, peer |-> p, conn |-> connections[p]]
      BY <3>2, <1>1, <1>3, <1>4, <2>1
    <3> QED BY <3>1, <3>2, <2>1
  <2>9. UNCHANGED vars => RequestsReachThePeerMeant'
    BY <2>1, <2>2 DEF RInv, RequestsReachThePeerMeant, vars, Reading
  <2> QED BY <2>3, <2>5, <2>6, <2>7, <2>8, <2>9 DEF CallInv
<1>6. CASE connections[p] = NoConn
  <2>1. pending' = pending \ {<<k, p>>} /\ Fail(k) /\ UNCHANGED asked
    BY <1>6 DEF Send
  <2>2. Outstanding(k)' = Outstanding(k) \ {p}
    BY <1>1, <1>3, <1>4, <2>1 DEF Outstanding
  <2>3. /\ Counts(k)'
        /\ k \in HashCalls => at' = at
        /\ k \notin HashCalls => at'[k] = "unavailable" /\ Outstanding(k)' = {}
    BY <1>1, <1>2, <1>3, <2>1, <2>2, FailCounts
  <2>4. /\ left' \in [Calls -> Nat] /\ fired' \in [Calls -> Nat] /\ at' \in [Calls -> States]
        /\ \A j \in Calls \ {k} : left'[j] = left[j] /\ fired'[j] = fired[j] /\ at'[j] = at[j]
        /\ \A j \in Calls : at[j] # "idle" => at'[j] # "idle"
    BY <1>2, <2>1, FailKeepsOthers
  <2>5. RTyped'
    BY <1>1, <1>2, <2>1, <2>4 DEF RTyped
  <2>6. Stages(k)'
    BY <1>1, <1>2, <1>4, <2>1, <2>3 DEF CallInv, Stages, Outstanding
  <2>7. ASSUME NEW j \in Calls, j # k PROVE CallInv(j)'
    BY <1>1, <1>4, <2>1, <2>4, <2>7, OthersKeep DEF RInv
  <2>8. AskedInv'
    BY <1>1, <1>4, <2>1, <2>4, <1>2 DEF RInv, RTyped, AskedInv
  <2>9. UNCHANGED vars => RequestsReachThePeerMeant'
    BY <2>1 DEF RInv, RequestsReachThePeerMeant, vars, Reading
  <2> QED BY <2>3, <2>5, <2>6, <2>7, <2>8, <2>9 DEF CallInv
<1> QED BY <1>5, <1>6

LEMMA WaitingKeeps ==
  ASSUME RInv, NEW k \in Calls, Wait(k) \/ Return(k) \/ TimeOut(k) \/ Cancel(k), UNCHANGED asked
  PROVE  RTyped' /\ (\A j \in Calls : CallInv(j)') /\ AskedInv'
<1>1. CallInv(k) /\ RTyped
  BY DEF RInv
<1>2. UNCHANGED <<toAsk, now, left, fired>>
  BY DEF Wait, Return, TimeOut, Cancel
<1>3. PICK s \in States \ {"idle", "asking", "unavailable"} : at' = [at EXCEPT ![k] = s]
  BY DEF Wait, Return, TimeOut, Cancel, States
<1>4. \A j \in Calls \ {k} : at'[j] = at[j] /\ \A p : <<j, p>> \in pending' <=> <<j, p>> \in pending
  BY <1>1, <1>3 DEF Wait, Return, TimeOut, Cancel, RTyped
<1>5. RTyped'
  BY <1>1, <1>2, <1>3 DEF Wait, Return, TimeOut, Cancel, RTyped
<1>6. AskedInv'
  BY <1>1, <1>2, <1>3 DEF RInv, RTyped, AskedInv
<1>7. ASSUME NEW j \in Calls, j # k PROVE CallInv(j)'
  BY <1>2, <1>4, <1>7, OthersKeep DEF RInv
<1>8. CallInv(k)'
  <2>1. CASE Wait(k) \/ Return(k) \/ TimeOut(k)
    <3>1. UNCHANGED pending /\ toAsk[k] = {} /\ now[k] = NoPeer
      BY <2>1, <1>1 DEF Wait, Return, TimeOut, CallInv, Stages
    <3>2. Outstanding(k)' = Outstanding(k)
      BY <1>2, <3>1 DEF Outstanding
    <3>3. at[k] \in {"asking", "waiting"} /\ at'[k] \in {"waiting", "answered", "cancelling", "timeout"}
      BY <2>1, <1>1 DEF Wait, Return, TimeOut, RTyped
    <3>4. left[k] = Cardinality(Outstanding(k))
      BY <1>1, <3>3 DEF CallInv, Counts
    <3>5. k \in ChunkCalls /\ at'[k] \in {"answered", "timeout"} => Outstanding(k) = {}
      BY <2>1, <1>1, <3>4, OutstandingIsFinite
         DEF Wait, Return, TimeOut, RTyped, CallInv, Counts
    <3>6. at'[k] = "cancelling" => k \in ChunkCalls
      BY <1>1, <2>1 DEF Wait, Return, TimeOut, RTyped
    <3>7. Stages(k)'
      BY <1>2, <3>1, <3>2, <3>3, <3>5, <3>6 DEF Stages
    <3>8. Counts(k)'
      BY <1>1, <1>2, <3>2, <3>3, <3>4 DEF CallInv, Counts
    <3> QED BY <3>7, <3>8 DEF CallInv
  <2>2. CASE Cancel(k)
    <3>1. at[k] = "cancelling" /\ at'[k] = "timeout" /\ pending' = {w \in pending : w[1] # k}
      BY <2>2, <1>1 DEF Cancel, RTyped
    <3>2. toAsk[k] = {} /\ now[k] = NoPeer
      BY <1>1, <3>1 DEF CallInv, Stages
    <3>3. \A p : <<k, p>> \notin pending'
      BY <3>1
    <3>4. Outstanding(k)' = {}
      BY <1>2, <3>2, <3>3 DEF Outstanding
    <3>5. k \in ChunkCalls
      BY <1>1, <3>1 DEF CallInv, Stages
    <3>6. left[k] = 0 \/ left[k] = 1
      BY <1>1, <3>5 DEF CallInv, Counts, RTyped
    <3>7. Stages(k)'
      BY <1>2, <3>1, <3>2, <3>4, <3>5 DEF Stages
    <3>8. Counts(k)'
      BY <1>1, <1>2, <3>1, <3>4, <3>6, FS_EmptySet DEF CallInv, Counts
    <3> QED BY <3>7, <3>8 DEF CallInv
  <2> QED BY <2>1, <2>2
<1> QED BY <1>5, <1>6, <1>7, <1>8

LEMMA AnswerKeeps ==
  ASSUME RInv, NEW c \in Conns, NEW r \in asked, Answer(c, r)
  PROVE  RTyped' /\ (\A j \in Calls : CallInv(j)') /\ AskedInv'
<1> DEFINE k == r.call  p == r.peer
<1>1. k \in Calls /\ p \in Peers /\ CallInv(k) /\ RTyped
  BY DEF RInv, RTyped
<1>2. asked' = asked \ {r} /\ UNCHANGED <<at, toAsk, now>>
  BY DEF Answer
<1>3. p \notin toAsk[k] /\ now[k] # p
  BY DEF RInv, AskedInv
<1>4. AskedInv'
  BY <1>2 DEF RInv, AskedInv
<1>5. CASE <<k, p>> \in pending
  <2>1. pending' = pending \ {<<k, p>>} /\ Notify(k)
    BY <1>5 DEF Answer
  <2>2. p \in Outstanding(k) /\ Outstanding(k)' = Outstanding(k) \ {p}
    BY <1>1, <1>2, <1>3, <1>5, <2>1 DEF Outstanding
  <2>3. Counts(k)'
    BY <1>1, <1>2, <2>1, <2>2, NotifyCounts
  <2>4. Stages(k)'
    BY <1>1, <1>2, <1>3, <2>1, <2>2 DEF CallInv, Stages
  <2>5. /\ left' \in [Calls -> Nat] /\ fired' \in [Calls -> Nat]
        /\ \A j \in Calls \ {k} : left'[j] = left[j] /\ fired'[j] = fired[j]
    BY <1>1, <2>1, NotifyKeepsOthers
  <2>6. RTyped'
    BY <1>1, <1>2, <2>1, <2>5 DEF RTyped
  <2>7. ASSUME NEW j \in Calls, j # k PROVE CallInv(j)'
    BY <1>2, <2>1, <2>5, <2>7, OthersKeep DEF RInv
  <2> QED BY <1>4, <2>3, <2>4, <2>6, <2>7 DEF CallInv
<1>6. CASE <<k, p>> \notin pending
  <2>1. UNCHANGED <<pending, left, fired>>
    BY <1>6 DEF Answer
  <2>2. RTyped'
    BY <1>1, <1>2, <2>1 DEF RTyped
  <2>3. \A j \in Calls : CallInv(j)'
    BY <1>2, <2>1, OthersKeep DEF RInv
  <2> QED BY <1>4, <2>2, <2>3
<1> QED BY <1>5, <1>6

\* A connection keeps its remote end for as long as it is read.
LEMMA RemoteStays ==
  ASSUME CInv, Next, NEW c \in Conns, Reading(c), Reading(c)'
  PROVE  remote'[c] = remote[c]
<1>1. ASSUME NEW d \in Conns, NEW p \in Peers, Start(d, p) PROVE remote'[c] = remote[c]
  BY <1>1 DEF Start, Reading, CInv, Typed
<1>2. ASSUME NEW d \in Conns, Destroy(d) PROVE remote'[c] = remote[c]
  BY <1>2 DEF Destroy, Reading, CInv, Typed
<1>3. ASSUME NEW d \in Conns, NEW p \in Peers, Accept(d, p) \/ DialReturns(d, p)
      PROVE  remote'[c] = remote[c]
  BY <1>1, <1>3 DEF Accept, DialReturns
<1>4. CASE Tick
  BY <1>4 DEF Tick
<1>5. ASSUME NEW d \in Conns, Handle(d) PROVE remote'[c] = remote[c]
  BY <1>2, <1>5 DEF Handle, ReceiveAnnounce, ReceiveList, WriteFails, ReadFails, WriteAborted, Close
<1> QED BY <1>3, <1>4, <1>5 DEF Next

LEMMA ConnectionStepKeeps ==
  ASSUME RInv, CInv, ConnectionStep
  PROVE  RInv'
<1>1. /\ Next /\ UNCHANGED calls
      /\ asked' = {r \in asked : r.conn = NoConn \/ Reading(r.conn)'}
  BY DEF ConnectionStep
<1>2. UNCHANGED <<at, toAsk, now, pending, left, fired>>
  BY <1>1 DEF calls
<1>3. RTyped' /\ AskedInv'
  BY <1>1, <1>2 DEF RInv, RTyped, AskedInv
<1>4. \A j \in Calls : CallInv(j)'
  BY <1>2, OthersKeep DEF RInv
<1>5. RequestsReachThePeerMeant'
  <2> SUFFICES ASSUME NEW r \in asked', r.conn # NoConn
               PROVE  Reading(r.conn)' /\ remote'[r.conn] = r.peer
    BY DEF RequestsReachThePeerMeant
  <2>1. r \in asked /\ Reading(r.conn)'
    BY <1>1
  <2>2. r.conn \in Conns /\ Reading(r.conn) /\ remote[r.conn] = r.peer
    BY <2>1 DEF RInv, RTyped, RequestsReachThePeerMeant
  <2> QED BY <1>1, <2>1, <2>2, RemoteStays
<1> QED BY <1>3, <1>4, <1>5 DEF RInv

LEMMA PeerReadsKeeps ==
  ASSUME RInv, NEW r \in asked, PeerReads(r), UNCHANGED vars
  PROVE  RInv'
<1>1. /\ UNCHANGED <<at, toAsk, now, pending, left, fired>>
      /\ asked' = (asked \ {r}) \cup {[r EXCEPT !.conn = NoConn]}
  BY DEF PeerReads, calls
<1>2. /\ [r EXCEPT !.conn = NoConn] \in [call : Calls, peer : Peers, conn : Conns \cup {NoConn}]
      /\ [r EXCEPT !.conn = NoConn].call = r.call /\ [r EXCEPT !.conn = NoConn].peer = r.peer
      /\ [r EXCEPT !.conn = NoConn].conn = NoConn
  BY DEF RInv, RTyped
<1>3. RTyped'
  BY <1>1, <1>2 DEF RInv, RTyped
<1>4. \A j \in Calls : CallInv(j)'
  BY <1>1, OthersKeep DEF RInv
<1>5. AskedInv'
  BY <1>1, <1>2 DEF RInv, AskedInv
<1>6. RequestsReachThePeerMeant'
  BY <1>1, <1>2 DEF RInv, RequestsReachThePeerMeant, vars, Reading
<1> QED BY <1>3, <1>4, <1>5, <1>6 DEF RInv

-----------------------------------------------------------------------------
\* The connections below the requests are those of PeerConnections.
THEOREM ConnectionsImplemented == RequestsSpec => Spec
<1>1. [RequestsNext]_allVars => [Next]_vars
  <2>1. UNCHANGED allVars => UNCHANGED vars
    BY DEF allVars
  <2>2. RequestsNext => Next \/ UNCHANGED vars
    BY DEF RequestsNext, ConnectionStep
  <2> QED BY <2>1, <2>2
<1>2. RequestsInit => Init
  BY DEF RequestsInit
<1> QED BY <1>1, <1>2, PTL DEF RequestsSpec, Spec

THEOREM RequestsInvariance == RequestsSpec => []RInv
<1>1. RequestsInit => RInv
  <2> SUFFICES ASSUME RequestsInit PROVE RInv
    OBVIOUS
  <2>1. RTyped /\ AskedInv /\ RequestsReachThePeerMeant
    BY DEF RequestsInit, RTyped, AskedInv, RequestsReachThePeerMeant, States
  <2>2. ASSUME NEW k \in Calls PROVE CallInv(k)
    <3>1. Outstanding(k) = {}
      BY DEF RequestsInit, Outstanding
    <3> QED BY <3>1 DEF RequestsInit, CallInv, Stages, Counts
  <2> QED BY <2>1, <2>2 DEF RInv
<1>2. RInv /\ CInv /\ [RequestsNext]_allVars => RInv'
  <2> SUFFICES ASSUME RInv, CInv, [RequestsNext]_allVars PROVE RInv'
    OBVIOUS
  <2>1. ASSUME NEW k \in Calls, CallStep(k), UNCHANGED vars PROVE RInv'
    <3>1. CASE Send(k)
      BY <2>1, <3>1, SendKeeps DEF RInv
    <3>2. CASE ~ Send(k)
      <4>1. UNCHANGED asked
        BY <2>1, <3>2 DEF CallStep
      <4>2. RTyped' /\ (\A j \in Calls : CallInv(j)') /\ AskedInv'
        BY <2>1, <3>2, <4>1, BeginKeeps, RegisterKeeps, WaitingKeeps DEF CallStep
      <4>3. RequestsReachThePeerMeant'
        BY <2>1, <4>1 DEF RInv, RequestsReachThePeerMeant, vars, Reading
      <4> QED BY <4>2, <4>3 DEF RInv
    <3> QED BY <3>1, <3>2
  <2>2. ASSUME NEW r \in asked, NEW c \in Conns, Answer(c, r), UNCHANGED vars PROVE RInv'
    <3>1. RequestsReachThePeerMeant'
      BY <2>2 DEF Answer, RInv, RequestsReachThePeerMeant, vars, Reading
    <3> QED BY <2>2, <3>1, AnswerKeeps DEF RInv
  <2>3. CASE UNCHANGED allVars
    <3>1. UNCHANGED <<at, toAsk, now, pending, left, fired, asked, vars>>
      BY <2>3 DEF allVars, calls
    <3>2. RTyped' /\ AskedInv' /\ RequestsReachThePeerMeant'
      BY <3>1 DEF RInv, RTyped, AskedInv, RequestsReachThePeerMeant, vars, Reading
    <3>3. \A j \in Calls : CallInv(j)'
      BY <3>1, OthersKeep DEF RInv
    <3> QED BY <3>2, <3>3 DEF RInv
  <2> QED BY <2>1, <2>2, <2>3, ConnectionStepKeeps, PeerReadsKeeps DEF RequestsNext
<1> QED BY <1>1, <1>2, ConnectionsImplemented, Invariance, PTL DEF RequestsSpec

\* The handler of a call runs once, and exactly when nothing is outstanding.
THEOREM HandlersRunOnTime == RequestsSpec => []HandlerRunsOnTime
<1>1. RInv => HandlerRunsOnTime
  <2> SUFFICES ASSUME RInv, NEW k \in Calls, at[k] \in {"asking", "waiting", "answered"}
               PROVE  fired[k] = IF Outstanding(k) = {} THEN 1 ELSE 0
    BY DEF HandlerRunsOnTime
  <2>1. /\ fired[k] = IF left[k] = 0 THEN 1 ELSE 0
        /\ left[k] = Cardinality(Outstanding(k))
    BY DEF RInv, CallInv, Counts
  <2> QED BY <2>1, OutstandingIsFinite DEF RInv
<1> QED BY <1>1, RequestsInvariance, PTL

\* No handler of a chunk request outlives the call.
THEOREM ChunksLeaveNoHandler == RequestsSpec => []ChunksLeaveNothing
<1>1. RInv => ChunksLeaveNothing
  BY DEF RInv, CallInv, Stages, ChunksLeaveNothing, Calls
<1> QED BY <1>1, RequestsInvariance, PTL

\* A request goes to the peer it names, over a connection that is still read.
THEOREM RequestsGoToThePeer == RequestsSpec => []RequestsReachThePeerMeant
BY RequestsInvariance, PTL DEF RInv

\* Every variable of the calls and of the connections under them keeps its type,
\* and no handler runs a second time.
THEOREM RequestsTypeCorrect == RequestsSpec => []RequestsTypeOK
<1>1. RInv /\ TypeOK => RequestsTypeOK
  <2> SUFFICES ASSUME RInv PROVE fired \in [Calls -> {0, 1}]
    BY DEF RInv, RTyped, RequestsTypeOK
  <2>1. \A k \in Calls : fired[k] \in {0, 1}
    BY DEF RInv, CallInv, Counts
  <2> QED BY <2>1 DEF RInv, RTyped
<1> QED BY <1>1, RequestsInvariance, ConnectionsImplemented, TypeCorrect, PTL

-----------------------------------------------------------------------------
\* How many steps a call has left at most: asking a peer is registering the handler
\* and sending, then it waits, and a chunk request that timed out is cancelled.
RankAt(s, S, p) == CASE s = "idle"       -> 4 + 2 * Cardinality(Peers)
                     [] s = "asking"     -> 3 + 2 * Cardinality(S) + IF p = NoPeer THEN 0 ELSE 1
                     [] s = "waiting"    -> 2
                     [] s = "cancelling" -> 1
                     [] s \in {"answered", "timeout", "unavailable"} -> 0
Rank(k) == RankAt(at[k], toAsk[k], now[k])

\* A call comes nearer to its end with each step of its own, and nothing else moves
\* it: neither the other calls, nor answers that come in any order or not at all, nor
\* connections that are lost and made meanwhile.
CallsGetShorter ==
  [][\A k \in Calls : \/ UNCHANGED <<at[k], toAsk[k], now[k]>>
                      \/ Rank(k)' < Rank(k)]_allVars

LEMMA RankValues ==
  \A S, p : /\ RankAt("idle", S, p) = 4 + 2 * Cardinality(Peers)
            /\ RankAt("asking", S, p) = 3 + 2 * Cardinality(S) + IF p = NoPeer THEN 0 ELSE 1
            /\ RankAt("waiting", S, p) = 2
            /\ RankAt("cancelling", S, p) = 1
            /\ \A s \in {"answered", "timeout", "unavailable"} : RankAt(s, S, p) = 0
BY DEF RankAt

LEMMA PeersToAsk ==
  ASSUME NEW S \in SUBSET Peers
  PROVE  /\ IsFiniteSet(S) /\ Cardinality(S) \in Nat
         /\ Cardinality(Peers) \in Nat /\ Cardinality(S) <= Cardinality(Peers)
         /\ S = {} => Cardinality(S) = 0
         /\ \A p \in S : Cardinality(S \ {p}) = Cardinality(S) - 1
<1>1. IsFiniteSet(S)
  BY FS_Subset
<1>2. Cardinality(S) \in Nat /\ Cardinality(Peers) \in Nat
  BY <1>1, FS_CardinalityType
<1> QED BY <1>1, <1>2, FS_Subset, FS_EmptySet, FS_RemoveElement

LEMMA StepLowersRank ==
  ASSUME RInv, NEW k \in Calls, CallStep(k), TypeOK
  PROVE  Rank(k)' < Rank(k)
<1>t. /\ at \in [Calls -> States] /\ toAsk \in [Calls -> SUBSET Peers]
      /\ now \in [Calls -> Peers \cup {NoPeer}]
      /\ (now[k] # NoPeer => at[k] = "asking")
  BY DEF RInv, RTyped, CallInv, Stages
<1> DEFINE s == Cardinality(toAsk[k])
           n == Cardinality(Peers)
<1>s. s \in Nat /\ n \in Nat /\ s <= n
  BY <1>t, PeersToAsk
<1>1. CASE Begin(k)
  <2>1. PICK S \in SUBSET Peers : toAsk' = [toAsk EXCEPT ![k] = S]
    <3>1. \A S \in IF k \in HashCalls THEN {Connected(connections)} ELSE {{p} : p \in Peers} :
            S \in SUBSET Peers
      <4>1. CASE k \in HashCalls
        BY <4>1 DEF Connected
      <4>2. CASE k \notin HashCalls
        BY <4>2
      <4> QED BY <4>1, <4>2
    <3> QED BY <1>1, <3>1, Zenon DEF Begin
  <2>2. at[k] = "idle" /\ at'[k] = "asking" /\ toAsk'[k] = S /\ now'[k] = NoPeer
    BY <1>1, <1>t, <2>1 DEF Begin
  <2> DEFINE m == Cardinality(S)
  <2>3. m \in Nat /\ m <= n
    BY PeersToAsk
  <2>4. Rank(k) = 4 + 2 * n /\ Rank(k)' = 3 + 2 * m + 0
    BY <2>2, RankValues DEF Rank
  <2> HIDE DEF m, n
  <2> QED BY <1>s, <2>3, <2>4
<1>2. ASSUME NEW p \in Peers, Register(k, p) PROVE Rank(k)' < Rank(k)
  <2>1. /\ at[k] = "asking" /\ now[k] = NoPeer /\ p \in toAsk[k]
        /\ toAsk'[k] = toAsk[k] \ {p} /\ at'[k] \in {"asking", "unavailable"}
    BY <1>2, <1>t DEF Register, Fail
  <2> DEFINE m == Cardinality(toAsk'[k])
             r == IF now'[k] = NoPeer THEN 0 ELSE 1
  <2>2. toAsk[k] \in SUBSET Peers
    BY <1>t
  <2>3. m = s - 1 /\ s \in Nat /\ s - 1 >= 0
    <3>1. toAsk[k] \ {p} \in SUBSET Peers
      BY <2>2
    <3>2. m \in Nat
      BY <2>1, <3>1, PeersToAsk
    <3> QED BY <2>1, <2>2, <3>2, PeersToAsk
  <2>4. r \in {0, 1}
    OBVIOUS
  <2>5. Rank(k) = 3 + 2 * s + 0 /\ Rank(k)' \in {0, 3 + 2 * m + r}
    BY <2>1, RankValues DEF Rank
  <2> HIDE DEF m, r, s
  <2> QED BY <2>3, <2>4, <2>5
<1>3. CASE Send(k)
  <2>1. /\ at[k] = "asking" /\ now[k] # NoPeer /\ now'[k] = NoPeer
        /\ toAsk'[k] = toAsk[k] /\ at'[k] \in {"asking", "unavailable"}
    BY <1>3, <1>t DEF Send, Fail
  <2>2. Rank(k) = 3 + 2 * s + 1 /\ Rank(k)' \in {0, 3 + 2 * s + 0}
    BY <2>1, RankValues DEF Rank
  <2> HIDE DEF s
  <2> QED BY <1>s, <2>2
<1>4. CASE Wait(k)
  <2>1. at[k] = "asking" /\ at'[k] = "waiting" /\ now[k] = NoPeer
    BY <1>4, <1>t DEF Wait
  <2>2. Rank(k) = 3 + 2 * s + 0 /\ Rank(k)' = 2
    BY <2>1, RankValues DEF Rank
  <2> HIDE DEF s
  <2> QED BY <1>s, <2>2
<1>5. CASE Return(k) \/ TimeOut(k) \/ Cancel(k)
  <2>1. \/ at[k] = "waiting" /\ at'[k] \in {"answered", "timeout", "cancelling"}
        \/ at[k] = "cancelling" /\ at'[k] = "timeout"
    BY <1>5, <1>t DEF Return, TimeOut, Cancel
  <2>2. \/ Rank(k) = 2 /\ Rank(k)' \in {0, 1}
        \/ Rank(k) = 1 /\ Rank(k)' = 0
    BY <2>1, RankValues DEF Rank
  <2> QED BY <2>2
<1> QED BY <1>1, <1>2, <1>3, <1>4, <1>5 DEF CallStep

\* Another call's steps, answers and connections leave a call where it is.
LEMMA OthersKeepPlace ==
  ASSUME RInv, [RequestsNext]_allVars, NEW k \in Calls, ~CallStep(k)
  PROVE  UNCHANGED <<at[k], toAsk[k], now[k]>>
<1>t. /\ at \in [Calls -> States] /\ toAsk \in [Calls -> SUBSET Peers]
      /\ now \in [Calls -> Peers \cup {NoPeer}]
  BY DEF RInv, RTyped
<1>1. ASSUME NEW j \in Calls \ {k}, CallStep(j) PROVE UNCHANGED <<at[k], toAsk[k], now[k]>>
  <2>1. /\ at' = at \/ \E l : at' = [at EXCEPT ![j] = l]
        /\ toAsk' = toAsk \/ \E S : toAsk' = [toAsk EXCEPT ![j] = S]
        /\ now' = now \/ \E p : now' = [now EXCEPT ![j] = p]
    <3>1. CASE Begin(j)
      BY <3>1 DEF Begin
    <3>2. ASSUME NEW p \in Peers, Register(j, p)
          PROVE  /\ at' = at \/ \E l : at' = [at EXCEPT ![j] = l]
                 /\ toAsk' = toAsk \/ \E S : toAsk' = [toAsk EXCEPT ![j] = S]
                 /\ now' = now \/ \E q : now' = [now EXCEPT ![j] = q]
      BY <3>2 DEF Register, Fail
    <3>3. CASE Send(j)
      BY <3>3 DEF Send, Fail
    <3>4. CASE Wait(j) \/ Return(j) \/ TimeOut(j) \/ Cancel(j)
      BY <3>4 DEF Wait, Return, TimeOut, Cancel
    <3> QED BY <1>1, <3>1, <3>2, <3>3, <3>4 DEF CallStep
  <2> QED BY <1>1, <1>t, <2>1
<1>2. CASE UNCHANGED calls
  BY <1>2 DEF calls
<1>3. ASSUME NEW r \in asked, NEW c \in Conns, Answer(c, r)
      PROVE  UNCHANGED <<at[k], toAsk[k], now[k]>>
  BY <1>3 DEF Answer
<1>4. CASE UNCHANGED allVars
  BY <1>4 DEF allVars, calls
<1> QED BY <1>1, <1>2, <1>3, <1>4 DEF RequestsNext, ConnectionStep, PeerReads

\* A caller is kept by nobody: whatever happens to the connections and the answers,
\* a call takes at most 2 |Peers| + 4 steps, each its own.
THEOREM CallsTakeBoundedlyManySteps ==
  RequestsSpec => /\ CallsGetShorter
                  /\ [](\A k \in Calls : Rank(k) \in 0..(2 * Cardinality(Peers) + 4))
<1>1. RInv /\ TypeOK /\ [RequestsNext]_allVars =>
        [\A k \in Calls : \/ UNCHANGED <<at[k], toAsk[k], now[k]>>
                          \/ Rank(k)' < Rank(k)]_allVars
  BY StepLowersRank, OthersKeepPlace
<1>2. ASSUME RInv, NEW k \in Calls
      PROVE  Rank(k) \in 0..(2 * Cardinality(Peers) + 4)
  <2> DEFINE s == Cardinality(toAsk[k])
             n == Cardinality(Peers)
             r == IF now[k] = NoPeer THEN 0 ELSE 1
  <2>1. s \in Nat /\ n \in Nat /\ s <= n /\ r \in {0, 1}
    BY <1>2, PeersToAsk DEF RInv, RTyped
  <2>2. at[k] \in States
    BY <1>2 DEF RInv, RTyped
  <2>3. Rank(k) \in {0, 1, 2, 3 + 2 * s + r, 4 + 2 * n}
    BY <2>2, RankValues DEF Rank, States
  <2> HIDE DEF s, n, r
  <2>4. Rank(k) \in 0..(2 * n + 4)
    BY <2>1, <2>3
  <2> QED BY <2>4 DEF n
<1>3. RInv => \A k \in Calls : Rank(k) \in 0..(2 * Cardinality(Peers) + 4)
  BY <1>2
<1> QED BY <1>1, <1>3, RequestsInvariance, ConnectionsImplemented, TypeCorrect, PTL
        DEF RequestsSpec, CallsGetShorter
=============================================================================
