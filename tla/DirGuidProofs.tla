--------------------------- MODULE DirGuidProofs ---------------------------
(***************************************************************************)
(* The GUID tables stay consistent for every tree of directories, every    *)
(* set of GUIDs and every interleaving of the activities that change them. *)
(***************************************************************************)
EXTENDS DirGuidRegistry, TLAPS

USE DirGuidsAssumption, DirGuidRegistryAssumption

Statuses == {"absent", "orphan", "active"}

-----------------------------------------------------------------------------
\* The operations on the peer manager's maps keep the two maps inverse.
LEMMA EmptyMapsOK == MapsType(EmptyMaps) /\ Agree(EmptyMaps)
BY DEF MapsType, Agree, EmptyMaps, AnyGuid

LEMMA HierarchyOK ==
  ASSUME NEW m, MapsType(m), Agree(m), NEW p \in Paths, NEW n \in Hierarchy(m, p)
  PROVE  MapsType(n) /\ Agree(n)
<1>1. PICK f \in Draws(m, p) : n = Named(m, f)
  BY DEF Hierarchy
<1> DEFINE U == Unnamed(m, p)
<1>2. U \subseteq Paths /\ \A q \in U : m.guid[q] = NoGuid
  BY DEF Unnamed
<1>3. f \in [U -> Undrawn(m)] /\ \A q, s \in U : f[q] = f[s] => q = s
  BY <1>1 DEF Draws
<1>4. \A q \in U : f[q] \in Own /\ m.path[f[q]] = NoPath /\ f[q] # NoGuid
  BY <1>3 DEF Undrawn, Guids
<1> HIDE DEF U
<1>5. DOMAIN f = U
  BY <1>3
<1>6. n.guid = [q \in Paths |-> IF q \in U THEN f[q] ELSE m.guid[q]]
  BY <1>1, <1>5 DEF Named
<1>7. n.path = [g \in Guids |-> IF \E q \in U : f[q] = g
                                THEN CHOOSE q \in U : f[q] = g ELSE m.path[g]]
  BY <1>1, <1>5 DEF Named
<1>8. \A q \in U : n.path[f[q]] = q
  <2> TAKE q \in U
  <2>1. f[q] \in Guids
    BY <1>4 DEF Guids
  <2>2. n.path[f[q]] = CHOOSE s \in U : f[s] = f[q]
    BY <1>7, <2>1
  <2>3. (CHOOSE s \in U : f[s] = f[q]) \in U /\ f[CHOOSE s \in U : f[s] = f[q]] = f[q]
    OBVIOUS
  <2> QED BY <2>2, <2>3, <1>3 DEF U
<1>9. \A g \in Guids : (\A q \in U : f[q] # g) => n.path[g] = m.path[g]
  BY <1>7
<1>10. MapsType(n)
  <2>1. n.guid \in [Paths -> AnyGuid]
    BY <1>6, <1>4 DEF MapsType, AnyGuid, Guids
  <2>2. n.path \in [Guids -> Paths \cup {NoPath}]
    <3>1. \A g \in Guids : n.path[g] \in Paths \cup {NoPath}
      <4> TAKE g \in Guids
      <4>1. CASE \E q \in U : f[q] = g
        BY <4>1, <1>8, <1>2
      <4>2. CASE \A q \in U : f[q] # g
        BY <4>2, <1>9 DEF MapsType
      <4> QED BY <4>1, <4>2
    <3> QED BY <3>1, <1>7
  <2>3. n.minted \subseteq Own
    BY <1>1, <1>4, <1>5 DEF Named, MapsType
  <2>4. n = [guid |-> n.guid, path |-> n.path, minted |-> n.minted]
    BY <1>1 DEF Named
  <2> QED BY <2>1, <2>2, <2>3, <2>4 DEF MapsType
<1>11. ASSUME NEW g \in Guids, n.path[g] # NoPath PROVE n.guid[n.path[g]] = g
  <2>1. CASE \E q \in U : f[q] = g
    BY <2>1, <1>8, <1>6, <1>2
  <2>2. CASE \A q \in U : f[q] # g
    <3>1. m.path[g] # NoPath /\ n.path[g] = m.path[g]
      BY <2>2, <1>9, <1>11
    <3>2. m.guid[m.path[g]] = g /\ m.path[g] \in Paths
      BY <3>1 DEF Agree, MapsType
    <3>3. m.path[g] \notin U
      BY <3>2, <1>2
    <3> QED BY <3>1, <3>2, <3>3, <1>6
  <2> QED BY <2>1, <2>2
<1>12. ASSUME NEW q \in Paths \ {Root}, n.guid[q] # NoGuid PROVE n.path[n.guid[q]] = q
  <2>1. CASE q \in U
    BY <2>1, <1>6, <1>8
  <2>2. CASE q \notin U
    <3>1. n.guid[q] = m.guid[q] /\ m.guid[q] \in Guids
      BY <2>2, <1>6, <1>12 DEF MapsType, AnyGuid
    <3>2. m.path[m.guid[q]] = q
      BY <3>1, <1>12 DEF Agree
    <3>3. \A s \in U : f[s] # m.guid[q]
      BY <3>2, <1>4
    <3> QED BY <3>1, <3>2, <3>3, <1>9
  <2> QED BY <2>1, <2>2
<1> QED BY <1>10, <1>11, <1>12 DEF Agree

LEMMA BoundOK ==
  ASSUME NEW m, MapsType(m), Agree(m), NEW p \in Paths \ {Root}, NEW g \in Guids
  PROVE  MapsType(Bound(m, p, g)) /\ Agree(Bound(m, p, g))
<1> DEFINE v == Vacated(m, p, g)
<1> DEFINE o == v.guid[p]
<1>1. /\ v.path = m.path /\ v.minted = m.minted
      /\ v = [guid |-> v.guid, path |-> v.path, minted |-> v.minted]
      /\ v.guid = IF m.path[g] \notin {NoPath, p} THEN [m.guid EXCEPT ![m.path[g]] = NoGuid]
                                                  ELSE m.guid
  BY DEF Vacated, MapsType
<1>2. v.guid \in [Paths -> AnyGuid] /\ v.path \in [Guids -> Paths \cup {NoPath}]
      /\ v.minted \subseteq Own
  BY <1>1 DEF MapsType, AnyGuid
<1>3. o = m.guid[p] /\ o \in AnyGuid
  BY <1>1, <1>2
<1>4. \A q \in Paths : v.guid[q] = IF q = m.path[g] /\ q # p THEN NoGuid ELSE m.guid[q]
  BY <1>1 DEF MapsType
<1> HIDE DEF v
<1>5. CASE o = g
  <2>1. Bound(m, p, g) = v
    BY <1>5 DEF Bound, v
  <2>2. m.path[g] = p
    BY <1>3, <1>5 DEF Agree
  <2>3. v.guid = m.guid
    BY <1>1, <2>2
  <2> QED BY <1>1, <1>2, <2>1, <2>3 DEF MapsType, Agree
<1>6. CASE o # g
  <2> DEFINE b == Bound(m, p, g)
  <2>1. /\ b = [guid |-> b.guid, path |-> b.path, minted |-> b.minted]
        /\ b.guid = [v.guid EXCEPT ![p] = g]
        /\ b.path = [IF o = NoGuid THEN v.path ELSE [v.path EXCEPT ![o] = NoPath] EXCEPT ![g] = p]
        /\ b.minted = v.minted
    <3>1. CASE o = NoGuid
      BY <1>6, <1>1, <3>1 DEF Bound, v
    <3>2. CASE o # NoGuid
      BY <1>6, <1>1, <3>2 DEF Bound, v
    <3> QED BY <3>1, <3>2
  <2> HIDE DEF b
  <2>2. MapsType(b)
    BY <1>2, <1>3, <2>1 DEF MapsType, AnyGuid
  <2>3. \A q \in Paths : b.guid[q] = IF q = p THEN g
                                     ELSE IF q = m.path[g] THEN NoGuid ELSE m.guid[q]
    BY <1>2, <1>4, <2>1
  <2>4. \A h \in Guids : b.path[h] = IF h = g THEN p ELSE IF h = o THEN NoPath ELSE m.path[h]
    BY <1>1, <1>2, <1>3, <2>1 DEF AnyGuid
  <2>5. ASSUME NEW h \in Guids, b.path[h] # NoPath PROVE b.guid[b.path[h]] = h
    <3>1. CASE h = g
      BY <3>1, <2>3, <2>4
    <3>2. CASE h # g
      <4>1. h # o /\ b.path[h] = m.path[h] /\ m.path[h] # NoPath
        BY <3>2, <2>4, <2>5
      <4>2. m.guid[m.path[h]] = h /\ m.path[h] \in Paths
        BY <4>1 DEF Agree, MapsType
      <4>3. m.path[h] # p
        BY <4>1, <4>2, <1>3
      <4>4. m.path[h] # m.path[g]
        BY <3>2, <4>1, <4>2 DEF Agree
      <4> QED BY <4>1, <4>2, <4>3, <4>4, <2>3
    <3> QED BY <3>1, <3>2
  <2>6. ASSUME NEW q \in Paths \ {Root}, b.guid[q] # NoGuid PROVE b.path[b.guid[q]] = q
    <3>1. CASE q = p
      BY <3>1, <2>3, <2>4
    <3>2. CASE q # p
      <4>1. q # m.path[g] /\ b.guid[q] = m.guid[q] /\ m.guid[q] \in Guids
        BY <3>2, <2>3, <2>6 DEF MapsType, AnyGuid
      <4>2. m.path[m.guid[q]] = q
        BY <4>1, <2>6 DEF Agree
      <4>3. m.guid[q] # g /\ m.guid[q] # o
        BY <3>2, <4>1, <4>2, <1>3 DEF Agree
      <4> QED BY <4>1, <4>2, <4>3, <2>4
    <3> QED BY <3>1, <3>2
  <2> QED BY <2>2, <2>5, <2>6 DEF Agree, b
<1> QED BY <1>5, <1>6

LEMMA WithGuidOK ==
  ASSUME NEW m, MapsType(m), Agree(m), NEW p \in Paths \ {Root}, NEW g \in Guids,
         NEW n \in WithGuid(m, p, g)
  PROVE  MapsType(n) /\ Agree(n)
<1>1. PICK k \in IF Parent[p] = Root THEN {m} ELSE Hierarchy(m, Parent[p]) : n = Bound(k, p, g)
  BY DEF WithGuid
<1>2. MapsType(k) /\ Agree(k)
  BY <1>1, HierarchyOK
<1> QED BY <1>1, <1>2, BoundOK

LEMMA UnboundOK ==
  ASSUME NEW m, MapsType(m), Agree(m), NEW g \in Guids
  PROVE  MapsType(Unbound(m, g)) /\ Agree(Unbound(m, g))
<1> DEFINE p == m.path[g]
<1> DEFINE u == Unbound(m, g)
<1>1. /\ u = [guid |-> u.guid, path |-> u.path, minted |-> u.minted]
      /\ u.guid = IF p \notin {NoPath, Root} /\ m.guid[p] = g THEN [m.guid EXCEPT ![p] = NoGuid]
                                                              ELSE m.guid
      /\ u.path = [m.path EXCEPT ![g] = NoPath] /\ u.minted = m.minted
  BY DEF Unbound, MapsType
<1> HIDE DEF u
<1>2. MapsType(u)
  BY <1>1 DEF MapsType, AnyGuid
<1>3. ASSUME NEW h \in Guids, u.path[h] # NoPath PROVE u.guid[u.path[h]] = h
  BY <1>1, <1>3 DEF MapsType, Agree
<1>4. ASSUME NEW q \in Paths \ {Root}, u.guid[q] # NoGuid PROVE u.path[u.guid[q]] = q
  <2>1. u.guid[q] = m.guid[q] /\ m.guid[q] \in Guids
    BY <1>1, <1>4 DEF MapsType, AnyGuid
  <2>2. m.path[m.guid[q]] = q
    BY <2>1, <1>4 DEF Agree
  <2>3. m.guid[q] # g
    <3> SUFFICES ASSUME m.guid[q] = g PROVE FALSE
      OBVIOUS
    <3>1. p = q
      BY <2>2
    <3>2. u.guid[q] = NoGuid
      BY <3>1, <1>1 DEF MapsType
    <3> QED BY <3>2, <1>4
  <2> QED BY <2>1, <2>2, <2>3, <1>1 DEF MapsType
<1> QED BY <1>2, <1>3, <1>4 DEF Agree, u

-----------------------------------------------------------------------------
\* The operations on the registry keep its cache backed by active records, and
\* leave it clean only if they changed no record.
Follows(r, n) == /\ RegistryType(n) /\ Backed(n)
                 /\ ~n.dirty => ~r.dirty /\ Tables(n) = Tables(r)

LEMMA EmptyRegistryOK ==
  RegistryType(EmptyRegistry) /\ Backed(EmptyRegistry) /\ ~EmptyRegistry.dirty
BY DEF RegistryType, Backed, EmptyRegistry, AnyGuid

LEMMA EvictEffect ==
  ASSUME NEW c \in [Paths -> AnyGuid], NEW p \in Paths
  PROVE  /\ Evict(c, p) \in [Paths -> AnyGuid]
         /\ \A q \in Paths : Evict(c, p)[q] = IF q = p /\ p # Root THEN NoGuid ELSE c[q]
BY DEF Evict, AnyGuid

LEMMA RememberedOK ==
  ASSUME NEW r, RegistryType(r), Backed(r), NEW p \in Paths \ {Root}, NEW g \in Guids
  PROVE  Follows(r, Remembered(r, p, g))
<1> DEFINE n == Remembered(r, p, g)
<1>1. CASE r.cache[p] = g
  <2>1. r.place[g] = p /\ r.status[g] = "active"
    BY <1>1 DEF Backed
  <2>2. n = [r EXCEPT !.place[g] = p, !.status[g] = "active"]
    BY <1>1 DEF Remembered
  <2>3. [r.place EXCEPT ![g] = p] = r.place /\ [r.status EXCEPT ![g] = "active"] = r.status
    BY <2>1 DEF RegistryType
  <2>4. n.place = r.place /\ n.status = r.status /\ n.cache = r.cache /\ n.dirty = r.dirty
        /\ n = [place |-> n.place, status |-> n.status, cache |-> n.cache, dirty |-> n.dirty]
    BY <2>2, <2>3 DEF RegistryType
  <2> QED BY <2>4 DEF Follows, RegistryType, Backed, Tables
<1>2. CASE r.cache[p] # g
  <2> DEFINE d == {r.cache[p]} \ {g, NoGuid}
  <2>1. /\ n = [place |-> n.place, status |-> n.status, cache |-> n.cache, dirty |-> n.dirty]
        /\ n.place = [h \in Guids |-> IF h = g THEN p ELSE IF h \in d THEN Root ELSE r.place[h]]
        /\ n.status = [h \in Guids |-> IF h = g THEN "active"
                                       ELSE IF h \in d THEN "absent" ELSE r.status[h]]
        /\ n.cache = [Evict(r.cache, r.place[g]) EXCEPT ![p] = g]
        /\ n.dirty = TRUE
    BY <1>2 DEF Remembered
  <2> HIDE DEF n
  <2>2. \A q \in Paths : n.cache[q] = IF q = p THEN g
                         ELSE IF q = r.place[g] /\ q # Root THEN NoGuid ELSE r.cache[q]
    BY <2>1, EvictEffect DEF RegistryType
  <2>3. RegistryType(n)
    <3>1. n.cache \in [Paths -> AnyGuid]
      BY <2>1, EvictEffect DEF RegistryType, AnyGuid
    <3>2. n.place \in [Guids -> Paths] /\ n.status \in [Guids -> Statuses]
      BY <2>1 DEF RegistryType, Statuses
    <3>3. \A h \in Guids : n.status[h] = "absent" => n.place[h] = Root
      BY <2>1 DEF RegistryType
    <3> QED BY <2>1, <3>1, <3>2, <3>3 DEF RegistryType, Statuses
  <2>4. ASSUME NEW q \in Paths, n.cache[q] # NoGuid
        PROVE  /\ q # Root /\ n.cache[q] \in Guids
               /\ n.place[n.cache[q]] = q /\ n.status[n.cache[q]] = "active"
    <3>1. CASE q = p
      BY <3>1, <2>1, <2>2
    <3>2. CASE q # p
      <4>1. n.cache[q] = r.cache[q]
        BY <3>2, <2>2, <2>4
      <4>2. /\ q # Root /\ r.cache[q] \in Guids
            /\ r.place[r.cache[q]] = q /\ r.status[r.cache[q]] = "active"
        BY <4>1, <2>4 DEF Backed
      <4>3. r.cache[q] # g
        BY <3>2, <4>1, <4>2, <2>2, <2>4
      <4>4. r.cache[q] \notin d
        BY <3>2, <4>2 DEF Backed
      <4> QED BY <4>1, <4>2, <4>3, <4>4, <2>1
    <3> QED BY <3>1, <3>2
  <2> QED BY <2>1, <2>3, <2>4 DEF Follows, Backed, n
<1> QED BY <1>1, <1>2

LEMMA AssignedOK ==
  ASSUME NEW r, RegistryType(r), Backed(r), NEW p \in Paths \ {Root}, NEW g \in Guids
  PROVE  Follows(r, Assigned(r, p, g))
<1> DEFINE n == Assigned(r, p, g)
<1> DEFINE d == {r.cache[p]} \ {g, NoGuid}
<1> DEFINE c1 == [r.cache EXCEPT ![p] = NoGuid]
<1>1. /\ n = [place |-> n.place, status |-> n.status, cache |-> n.cache, dirty |-> n.dirty]
      /\ n.place = [r.place EXCEPT ![g] = p]
      /\ n.status = [h \in Guids |-> IF h = g THEN "active"
                                     ELSE IF h \in d THEN "orphan" ELSE r.status[h]]
      /\ n.cache = [Evict(c1, r.place[g]) EXCEPT ![p] = g]
      /\ n.dirty = TRUE
  BY DEF Assigned
<1> HIDE DEF n
<1>0. r.place \in [Guids -> Paths] /\ r.cache \in [Paths -> AnyGuid]
  BY DEF RegistryType
<1>2. c1 \in [Paths -> AnyGuid]
  BY <1>0 DEF AnyGuid
<1>3. /\ Evict(c1, r.place[g]) \in [Paths -> AnyGuid]
      /\ \A q \in Paths : Evict(c1, r.place[g])[q] =
                            IF q = r.place[g] /\ r.place[g] # Root THEN NoGuid ELSE c1[q]
  <2>1. r.place[g] \in Paths
    BY <1>0
  <2> HIDE DEF c1
  <2> QED BY <2>1, <1>2, EvictEffect
<1>4. \A q \in Paths : n.cache[q] = IF q = p THEN g
                       ELSE IF q = r.place[g] /\ q # Root THEN NoGuid ELSE r.cache[q]
  BY <1>0, <1>1, <1>3
<1>5. RegistryType(n)
  <2>1. n.cache \in [Paths -> AnyGuid]
    BY <1>1, <1>3 DEF AnyGuid
  <2>2. n.place \in [Guids -> Paths] /\ n.status \in [Guids -> Statuses]
    BY <1>0, <1>1 DEF RegistryType, Statuses
  <2>3. \A h \in Guids : n.status[h] = "absent" => n.place[h] = Root
    BY <1>0, <1>1 DEF RegistryType
  <2> QED BY <1>1, <2>1, <2>2, <2>3 DEF RegistryType, Statuses
<1>6. ASSUME NEW q \in Paths, n.cache[q] # NoGuid
      PROVE  /\ q # Root /\ n.cache[q] \in Guids
             /\ n.place[n.cache[q]] = q /\ n.status[n.cache[q]] = "active"
  <2>1. CASE q = p
    BY <2>1, <1>0, <1>1, <1>4
  <2>2. CASE q # p
    <3>1. n.cache[q] = r.cache[q]
      BY <2>2, <1>4, <1>6
    <3>2. /\ q # Root /\ r.cache[q] \in Guids
          /\ r.place[r.cache[q]] = q /\ r.status[r.cache[q]] = "active"
      BY <3>1, <1>6 DEF Backed
    <3>3. r.cache[q] # g
      BY <2>2, <3>1, <3>2, <1>4, <1>6
    <3>4. r.cache[q] \notin d
      BY <2>2, <3>2 DEF Backed
    <3> QED BY <3>1, <3>2, <3>3, <3>4, <1>0, <1>1
  <2> QED BY <2>1, <2>2
<1> QED BY <1>1, <1>5, <1>6 DEF Follows, Backed, n

LEMMA ForgottenOK ==
  ASSUME NEW r, RegistryType(r), Backed(r), NEW g \in Guids
  PROVE  Follows(r, Forgotten(r, g))
<1> DEFINE n == Forgotten(r, g)
<1>0. r.place \in [Guids -> Paths] /\ r.cache \in [Paths -> AnyGuid] /\ r.status \in [Guids -> Statuses]
  BY DEF RegistryType, Statuses
<1>1. /\ n = [place |-> n.place, status |-> n.status, cache |-> n.cache, dirty |-> n.dirty]
      /\ n.place = [r.place EXCEPT ![g] = Root] /\ n.status = [r.status EXCEPT ![g] = "absent"]
      /\ n.cache = Evict(r.cache, r.place[g]) /\ n.dirty = TRUE
  BY DEF Forgotten
<1> HIDE DEF n
<1>2. /\ n.cache \in [Paths -> AnyGuid]
      /\ \A q \in Paths : n.cache[q] = IF q = r.place[g] /\ q # Root THEN NoGuid ELSE r.cache[q]
  BY <1>0, <1>1, EvictEffect
<1>3. RegistryType(n)
  <2>1. n.place \in [Guids -> Paths] /\ n.status \in [Guids -> Statuses]
    BY <1>0, <1>1 DEF Statuses
  <2>2. \A h \in Guids : n.status[h] = "absent" => n.place[h] = Root
    BY <1>0, <1>1 DEF RegistryType
  <2> QED BY <1>1, <1>2, <2>1, <2>2 DEF RegistryType, Statuses
<1>4. Backed(n)
  <2> SUFFICES ASSUME NEW q \in Paths, n.cache[q] # NoGuid
               PROVE  /\ q # Root /\ n.cache[q] \in Guids
                      /\ n.place[n.cache[q]] = q /\ n.status[n.cache[q]] = "active"
    BY DEF Backed
  <2>1. n.cache[q] = r.cache[q]
    BY <1>2
  <2>2. /\ q # Root /\ r.cache[q] \in Guids
        /\ r.place[r.cache[q]] = q /\ r.status[r.cache[q]] = "active"
    BY <2>1 DEF Backed
  <2>3. r.cache[q] # g
    BY <2>1, <2>2, <1>2
  <2> QED BY <2>1, <2>2, <2>3, <1>0, <1>1
<1> QED BY <1>1, <1>3, <1>4 DEF Follows, n

LEMMA ReconciledOK ==
  ASSUME NEW r, RegistryType(r), Backed(r), NEW present, NEW n \in Reconciled(r, present)
  PROVE  Follows(r, n)
<1> DEFINE st == [g \in Guids |-> IF g \notin Recorded(r) THEN "absent"
                                  ELSE IF g \in present THEN "active" ELSE "orphan"]
<1>1. PICK c \in Caches(r, present) :
        n = [r EXCEPT !.status = st, !.cache = c,
                      !.dirty = r.dirty \/ Misjudged(r, present) # {}]
  BY DEF Reconciled
<1>2. /\ n = [place |-> n.place, status |-> n.status, cache |-> n.cache, dirty |-> n.dirty]
      /\ n.place = r.place /\ n.status = st /\ n.cache = c
      /\ n.dirty = (r.dirty \/ Misjudged(r, present) # {})
  BY <1>1 DEF RegistryType
<1>3. c \in [Paths -> AnyGuid] /\ \A p \in Paths : c[p] \in Verdicts(r, present, p)
  BY <1>1 DEF Caches, AnyGuid
<1>4. \A g \in Guids : st[g] = "absent" => r.place[g] = Root
  BY DEF Recorded, RegistryType
<1>5. RegistryType(n)
  BY <1>2, <1>3, <1>4 DEF RegistryType
<1>6. Backed(n)
  <2> SUFFICES ASSUME NEW q \in Paths, c[q] # NoGuid
               PROVE  /\ q # Root /\ c[q] \in Guids
                      /\ r.place[c[q]] = q /\ st[c[q]] = "active"
    BY <1>2 DEF Backed
  <2>1. CASE q = Root \/ At(r, q) = {}
    <3>1. c[q] = r.cache[q]
      BY <2>1, <1>3 DEF Verdicts
    <3>2. q # Root /\ c[q] \in At(r, q)
      BY <3>1 DEF Backed, At, Recorded
    <3> QED BY <3>2, <2>1
  <2>2. CASE ~(q = Root \/ At(r, q) = {})
    <3>1. PICK g \in At(r, q) : c[q] = IF g \in present THEN g ELSE NoGuid
      BY <2>2, <1>3 DEF Verdicts
    <3>2. c[q] = g /\ g \in present
      BY <3>1
    <3> QED BY <2>2, <3>1, <3>2 DEF At, Recorded
  <2> QED BY <2>1, <2>2
<1>7. ASSUME ~n.dirty PROVE ~r.dirty /\ st = r.status
  <2>1. ~r.dirty /\ Misjudged(r, present) = {}
    BY <1>2, <1>7 DEF RegistryType
  <2>2. r.status \in [Guids -> {"absent", "orphan", "active"}]
    BY DEF RegistryType
  <2>3. \A g \in Guids : st[g] = r.status[g]
    BY <2>1, <2>2 DEF Misjudged, Recorded
  <2> QED BY <2>1, <2>2, <2>3
<1> QED BY <1>2, <1>5, <1>6, <1>7 DEF Follows, Tables

LEMMA LoadedOK ==
  ASSUME NEW f, TablesType(f), NEW n \in Loaded(f)
  PROVE  RegistryType(n) /\ Backed(n) /\ (~n.dirty => f = Tables(n))
<1> DEFINE all == {g \in Guids : f.status[g] # "absent"}
<1> DEFINE Fits(K, p) == {g \in K : f.place[g] = p /\ f.status[g] = "active"}
<1>1. PICK K \in SUBSET all :
        n = [place  |-> [g \in Guids |-> IF g \in K THEN f.place[g] ELSE Root],
             status |-> [g \in Guids |-> IF g \in K THEN f.status[g] ELSE "absent"],
             cache  |-> [p \in Paths |->
                      IF \E g \in K : f.place[g] = p /\ p # Root /\ f.status[g] = "active"
                      THEN CHOOSE g \in K : f.place[g] = p /\ f.status[g] = "active"
                      ELSE NoGuid],
             dirty  |-> K # all]
  BY DEF Loaded
<1>2. f.place \in [Guids -> Paths] /\ f.status \in [Guids -> Statuses]
      /\ f = [place |-> f.place, status |-> f.status]
      /\ \A g \in Guids : f.status[g] = "absent" => f.place[g] = Root
  BY DEF TablesType, Statuses
<1>3. ASSUME NEW p \in Paths, n.cache[p] # NoGuid
      PROVE  /\ p # Root /\ n.cache[p] \in K
             /\ f.place[n.cache[p]] = p /\ f.status[n.cache[p]] = "active"
  <2>1. (\E g \in K : f.place[g] = p /\ p # Root /\ f.status[g] = "active")
        /\ n.cache[p] = CHOOSE g \in K : f.place[g] = p /\ f.status[g] = "active"
    BY <1>1, <1>3
  <2> QED BY <2>1
<1>4. RegistryType(n)
  <2>1. n.cache \in [Paths -> AnyGuid]
    <3>1. \A p \in Paths : n.cache[p] \in AnyGuid
      BY <1>3 DEF AnyGuid
    <3>2. n.cache = [p \in Paths |-> n.cache[p]]
      BY <1>1
    <3> QED BY <3>1, <3>2
  <2>2. n.place \in [Guids -> Paths] /\ n.status \in [Guids -> Statuses] /\ n.dirty \in BOOLEAN
    BY <1>1, <1>2 DEF Statuses
  <2>3. \A g \in Guids : n.status[g] = "absent" => n.place[g] = Root
    BY <1>1, <1>2
  <2>4. n = [place |-> n.place, status |-> n.status, cache |-> n.cache, dirty |-> n.dirty]
    BY <1>1
  <2> QED BY <2>1, <2>2, <2>3, <2>4 DEF RegistryType, Statuses
<1>5. Backed(n)
  BY <1>1, <1>3 DEF Backed
<1>6. ASSUME ~n.dirty PROVE f = Tables(n)
  <2>1. K = all
    BY <1>1, <1>6
  <2>2. n.place = [g \in Guids |-> IF g \in K THEN f.place[g] ELSE Root]
        /\ n.status = [g \in Guids |-> IF g \in K THEN f.status[g] ELSE "absent"]
    BY <1>1
  <2>3. \A g \in Guids : n.place[g] = f.place[g] /\ n.status[g] = f.status[g]
    BY <2>1, <2>2, <1>2
  <2>4. n.place = f.place /\ n.status = f.status
    BY <2>2, <2>3, <1>2
  <2> QED BY <1>2, <2>4 DEF Tables
<1> QED BY <1>4, <1>5, <1>6

-----------------------------------------------------------------------------
\* The inductive invariant: each of the three properties needs OperandsKnown, which
\* TypeOK holds, and OperandsKnown needs to know that nothing runs while loading.
IInv == TypeOK /\ MapsAgree /\ CacheBacked /\ CleanMeansSaved

LEMMA ParentAbove ==
  ASSUME NEW p \in Paths \ {Root} PROVE Parent[p] \in Paths
OBVIOUS

LEMMA SaveOK ==
  ASSUME RegistryType(reg), Backed(reg), TablesType(file), CleanMeansSaved, Save
  PROVE  /\ RegistryType(reg)' /\ Backed(reg)' /\ TablesType(file)' /\ CleanMeansSaved'
         /\ reg'.place = reg.place
<1>1. /\ reg' = [place |-> reg.place, status |-> reg.status, cache |-> reg.cache, dirty |-> FALSE]
      /\ file' = IF reg.dirty THEN Tables(reg) ELSE file
  BY DEF Save, RegistryType
<1>2. RegistryType(reg)' /\ Backed(reg)'
  BY <1>1 DEF RegistryType, Backed
<1>3. file' = Tables(reg)
  BY <1>1 DEF CleanMeansSaved, RegistryType
<1>4. TablesType(file)'
  BY <1>3 DEF RegistryType, TablesType, Tables
<1> QED BY <1>1, <1>2, <1>3, <1>4 DEF CleanMeansSaved, Tables

\* Every step leaves the peer manager's two maps inverse of each other.
LEMMA MapsStep ==
  ASSUME IInv, [Next]_vars
  PROVE  MapsType(pm)' /\ MapsAgree'
<1> USE DEF MapsAgree
<1>0. MapsType(pm) /\ Agree(pm) /\ OperandsKnown
  BY DEF IInv, TypeOK
<1>1. CASE ScanBind
  <2>1. scan.dir \in Paths \ {Root} /\ scan.guid \in Guids
    BY <1>1 DEF IInv, TypeOK, OperandsKnown, ScanBind, AnyGuid
  <2>2. pm' \in WithGuid(pm, scan.dir, scan.guid)
    BY <1>1 DEF ScanBind
  <2> QED BY <1>0, <2>1, <2>2, WithGuidOK
<1>2. CASE ScanRegister
  <2>1. scan.dir \in Paths /\ pm' \in Hierarchy(pm, scan.dir)
    BY <1>2 DEF IInv, TypeOK, ScanRegister
  <2> QED BY <1>0, <2>1, HierarchyOK
<1>3. CASE CommandBind
  <2>1. cli.dir \in Paths /\ cli.guid \in Guids
    BY <1>3 DEF IInv, TypeOK, OperandsKnown, CommandBind, AnyGuid
  <2>2. CASE cli.at = "bind" /\ pm' \in WithGuid(pm, cli.dir, cli.guid)
    <3>1. cli.dir # Root
      BY <2>2 DEF IInv, TypeOK, OperandsKnown
    <3> QED BY <1>0, <2>1, <2>2, <3>1, WithGuidOK
  <2>3. CASE pm' = Unbound(pm, cli.guid)
    BY <1>0, <2>1, <2>3, UnboundOK
  <2> QED BY <1>3, <2>2, <2>3 DEF CommandBind
<1>4. CASE SyncBind
  <2>1. PICK p \in dirs \ {Root} :
          \/ \E g \in Foreign : pm' \in WithGuid(pm, p, g)
          \/ pm' \in Hierarchy(pm, p)
    BY <1>4 DEF SyncBind
  <2>2. p \in Paths \ {Root}
    BY DEF IInv, TypeOK
  <2>3. ASSUME NEW g \in Foreign, pm' \in WithGuid(pm, p, g) PROVE MapsType(pm)' /\ Agree(pm)'
    <3>1. g \in Guids
      BY DEF Guids
    <3> QED BY <1>0, <2>2, <2>3, <3>1, WithGuidOK
  <2>4. CASE pm' \in Hierarchy(pm, p)
    BY <1>0, <2>2, <2>4, HierarchyOK
  <2> QED BY <2>1, <2>3, <2>4
<1>5. CASE Load
  <2>1. pm' = [guid |-> EmptyMaps.guid, path |-> EmptyMaps.path, minted |-> pm.minted]
    BY <1>5 DEF Load, EmptyMaps
  <2>2. EmptyMaps.guid = [p \in Paths |-> NoGuid] /\ EmptyMaps.path = [g \in Guids |-> NoPath]
    BY DEF EmptyMaps
  <2> QED BY <1>0, <2>1, <2>2 DEF MapsType, Agree, AnyGuid
<1>6. CASE Apply
  <2>1. CASE UNCHANGED pm
    BY <1>0, <2>1
  <2>2. ASSUME NEW g \in todo, pm' \in WithGuid(pm, reg.place[g], g)
        PROVE  MapsType(pm)' /\ Agree(pm)'
    <3>1. g \in Guids /\ reg.place[g] \in Paths \ {Root}
      BY DEF IInv, TypeOK, OperandsKnown, RegistryType
    <3> QED BY <1>0, <2>2, <3>1, WithGuidOK
  <2> QED BY <1>6, <2>1, <2>2 DEF Apply
<1>7. CASE UNCHANGED pm
  BY <1>0, <1>7
<1>8. \/ ScanBind \/ ScanRegister \/ CommandBind \/ SyncBind \/ Load \/ Apply
      \/ UNCHANGED pm
  BY DEF Next, Scan, Command, Sync, Restart, vars, tables, StartScan, ScanNext, ScanLookup,
         ScanRemember, ScanReconcile, ScanSave, Assign, Forget, CommandSave, SyncRemember,
         ChangeDisk, Stop, Crash
<1> QED BY <1>1, <1>2, <1>3, <1>4, <1>5, <1>6, <1>7, <1>8

\* Every step leaves the registry's cache backed and its dirty mark honest.
LEMMA RegistryStep ==
  ASSUME IInv, [Next]_vars
  PROVE  RegistryType(reg)' /\ CacheBacked' /\ TablesType(file)' /\ CleanMeansSaved'
<1> USE DEF CacheBacked
<1>0. RegistryType(reg) /\ Backed(reg) /\ TablesType(file) /\ CleanMeansSaved /\ OperandsKnown
  BY DEF IInv, TypeOK
<1>1. ASSUME Follows(reg, reg'), UNCHANGED file
      PROVE  RegistryType(reg)' /\ Backed(reg)' /\ TablesType(file)' /\ CleanMeansSaved'
  BY <1>0, <1>1 DEF Follows, CleanMeansSaved
<1>2. CASE ScanRemember
  <2>1. scan.dir \in Paths \ {Root} /\ scan.guid \in Guids
    BY <1>2 DEF IInv, TypeOK, OperandsKnown, ScanRemember, AnyGuid
  <2>2. reg' = Remembered(reg, scan.dir, scan.guid) /\ UNCHANGED file
    BY <1>2 DEF ScanRemember
  <2> QED BY <1>0, <1>1, <2>1, <2>2, RememberedOK
<1>3. CASE SyncRemember
  <2>1. sync.dir \in Paths \ {Root} /\ sync.guid \in Guids
    BY <1>3 DEF IInv, TypeOK, OperandsKnown, SyncRemember, AnyGuid
  <2>2. reg' = Remembered(reg, sync.dir, sync.guid) /\ UNCHANGED file
    BY <1>3 DEF SyncRemember
  <2> QED BY <1>0, <1>1, <2>1, <2>2, RememberedOK
<1>4. CASE ScanReconcile
  <2>1. reg' \in Reconciled(reg, Present) /\ UNCHANGED file
    BY <1>4 DEF ScanReconcile
  <2> QED BY <1>0, <1>1, <2>1, ReconciledOK
<1>5. CASE Assign
  <2>1. PICK g \in Foreign \cup pm.minted, p \in dirs \ {Root} :
          reg' = Assigned(reg, p, g) /\ UNCHANGED file
    BY <1>5 DEF Assign
  <2>2. g \in Guids /\ p \in Paths \ {Root}
    BY DEF IInv, TypeOK, MapsType, Guids
  <2> QED BY <1>0, <1>1, <2>1, <2>2, AssignedOK
<1>6. CASE Forget
  <2>1. PICK g \in Guids : reg' = Forgotten(reg, g) /\ UNCHANGED file
    BY <1>6 DEF Forget, Recorded
  <2> QED BY <1>0, <1>1, <2>1, ForgottenOK
<1>7. CASE Save
  BY <1>0, <1>7, SaveOK
<1>8. CASE Load
  <2>1. reg' \in Loaded(file) /\ UNCHANGED file
    BY <1>8 DEF Load
  <2>2. RegistryType(reg)' /\ Backed(reg)' /\ (~reg'.dirty => file = Tables(reg'))
    BY <1>0, <2>1, LoadedOK
  <2> QED BY <1>0, <2>1, <2>2 DEF CleanMeansSaved
<1>9. CASE UNCHANGED <<reg, file>>
  BY <1>0, <1>9 DEF CleanMeansSaved
<1>10. \/ ScanRemember \/ SyncRemember \/ ScanReconcile \/ Assign \/ Forget \/ Save \/ Load
       \/ UNCHANGED <<reg, file>>
  BY DEF Next, Scan, Command, Sync, Restart, vars, tables, StartScan, ScanNext, ScanLookup,
         ScanBind, ScanRegister, ScanSave, CommandBind, CommandSave, SyncBind, ChangeDisk,
         Stop, Crash, Apply
<1> QED BY <1>2, <1>3, <1>4, <1>5, <1>6, <1>7, <1>8, <1>9, <1>10

\* Every step leaves the operands of every step under way known.
Control ==
  /\ Root \in dirs /\ dirs \subseteq Paths
  /\ scan \in [at : {"off", "next", "bindWatched", "bindCached", "register", "lookup",
                     "remember", "save"},
               seen : SUBSET (Paths \ {Root}), left : SUBSET (Paths \ {Root}),
               dir : Paths, guid : AnyGuid]
  /\ cli \in [at : {"idle", "bind", "unbind", "save", "down", "apply"}, dir : Paths, guid : AnyGuid]
  /\ sync \in [at : {"idle", "remember"}, dir : Paths, guid : AnyGuid]
  /\ todo \subseteq Guids
  /\ OperandsKnown

LEMMA ControlStep ==
  ASSUME IInv, [Next]_vars
  PROVE  Control'
<1> USE DEF IdleScan, IdleCall, AnyGuid
<1>0. Control /\ RegistryType(reg) /\ MapsType(pm)
  BY DEF IInv, TypeOK, Control
<1> USE <1>0 DEF Control, OperandsKnown
<1>1. CASE StartScan
  <2>1. scan' = [at |-> "next", seen |-> dirs \ {Root}, left |-> dirs \ {Root},
                 dir |-> Root, guid |-> NoGuid]
    BY <1>1 DEF StartScan
  <2>2. cli.at \notin {"down", "apply"} /\ UNCHANGED <<reg, dirs, cli, sync, todo>>
    BY <1>1 DEF StartScan, Up, tables
  <2> QED BY <2>1, <2>2
<1>2. CASE ScanNext
  <2>1. PICK d \in scan.left :
          scan' = [scan EXCEPT
            !.left = @ \ {d}, !.dir = d,
            !.guid = IF WatchGuid[d] # NoGuid THEN WatchGuid[d] ELSE reg.cache[d],
            !.at   = IF WatchGuid[d] # NoGuid THEN "bindWatched"
                     ELSE IF reg.cache[d] # NoGuid THEN "bindCached" ELSE "register"]
    BY <1>2 DEF ScanNext
  <2>2. d \in Paths \ {Root} /\ WatchGuid[d] \in AnyGuid /\ reg.cache[d] \in AnyGuid
    BY DEF RegistryType
  <2>3. scan.at = "next" /\ UNCHANGED <<reg, dirs, cli, sync, todo>>
    BY <1>2 DEF ScanNext, tables
  <2>4. scan' = [at |-> IF WatchGuid[d] # NoGuid THEN "bindWatched"
                        ELSE IF reg.cache[d] # NoGuid THEN "bindCached" ELSE "register",
                 seen |-> scan.seen, left |-> scan.left \ {d}, dir |-> d,
                 guid |-> IF WatchGuid[d] # NoGuid THEN WatchGuid[d] ELSE reg.cache[d]]
    BY <2>1
  <2> QED BY <2>2, <2>3, <2>4
<1>3. CASE ScanBind
  BY <1>3 DEF ScanBind
<1>4. CASE ScanRegister
  BY <1>4 DEF ScanRegister
<1>5. CASE ScanLookup
  <2>1. DirectoryGuidForPath(scan.dir) \in AnyGuid
    BY DEF DirectoryGuidForPath, MapsType
  <2>2. scan' = [at |-> IF DirectoryGuidForPath(scan.dir) = NoGuid THEN "next" ELSE "remember",
                 seen |-> scan.seen, left |-> scan.left, dir |-> scan.dir,
                 guid |-> DirectoryGuidForPath(scan.dir)]
    BY <1>5 DEF ScanLookup
  <2>3. scan.at = "lookup" /\ UNCHANGED <<reg, dirs, cli, sync, todo>>
    BY <1>5 DEF ScanLookup, tables
  <2> QED BY <2>1, <2>2, <2>3
<1>6. CASE ScanRemember
  <2>1. scan.at = "remember" /\ scan' = [scan EXCEPT !.at = "next"]
        /\ UNCHANGED <<dirs, cli, sync, todo>>
    BY <1>6 DEF ScanRemember
  <2>2. todo = {}
    BY <2>1
  <2> QED BY <2>1, <2>2
<1>7. CASE ScanReconcile
  <2>1. scan.at = "next" /\ (scan' = IdleScan \/ scan' = [IdleScan EXCEPT !.at = "save"])
        /\ UNCHANGED <<dirs, cli, sync, todo>>
    BY <1>7 DEF ScanReconcile
  <2>2. todo = {}
    BY <2>1
  <2> QED BY <2>1, <2>2
<1>8. CASE ScanSave
  <2>1. scan.at = "save" /\ scan' = IdleScan /\ UNCHANGED <<dirs, cli, sync, todo>>
    BY <1>8 DEF ScanSave
  <2>2. todo = {}
    BY <2>1
  <2> QED BY <2>1, <2>2
<1>9. CASE Assign
  <2>1. PICK g \in Foreign \cup pm.minted, p \in dirs \ {Root} :
          cli' = [at |-> "bind", dir |-> p, guid |-> g]
    BY <1>9 DEF Assign
  <2>2. cli.at = "idle" /\ UNCHANGED <<dirs, scan, sync, todo>>
    BY <1>9 DEF Assign
  <2>3. g \in Guids /\ p \in Paths \ {Root} /\ todo = {}
    BY <2>2 DEF MapsType, Guids
  <2> QED BY <2>1, <2>2, <2>3
<1>10. CASE Forget
  <2>1. PICK g \in Guids : cli' = [at |-> "unbind", dir |-> Root, guid |-> g]
    BY <1>10 DEF Forget, Recorded
  <2>2. cli.at = "idle" /\ UNCHANGED <<dirs, scan, sync, todo>>
    BY <1>10 DEF Forget
  <2>3. todo = {} /\ g # NoGuid
    BY <2>2
  <2> QED BY <2>1, <2>2, <2>3
<1>11. CASE CommandBind
  BY <1>11 DEF CommandBind
<1>12. CASE CommandSave
  <2>1. cli.at = "save" /\ cli' = IdleCall /\ UNCHANGED <<dirs, scan, sync, todo>>
    BY <1>12 DEF CommandSave
  <2> QED BY <2>1
<1>13. CASE SyncBind
  <2>1. cli.at \notin {"down", "apply"} /\ UNCHANGED <<reg, dirs, scan, cli, todo>>
    BY <1>13 DEF SyncBind, Up
  <2>2. PICK p \in dirs \ {Root} :
          \/ \E g \in Foreign : sync' = [at |-> "remember", dir |-> p, guid |-> g]
          \/ UNCHANGED sync
    BY <1>13 DEF SyncBind
  <2>3. CASE UNCHANGED sync
    BY <2>1, <2>3
  <2>4. ASSUME NEW g \in Foreign, sync' = [at |-> "remember", dir |-> p, guid |-> g]
        PROVE  Control'
    <3>1. g \in Guids /\ p \in Paths \ {Root}
      BY DEF Guids
    <3> QED BY <2>1, <2>4, <3>1
  <2> QED BY <2>2, <2>3, <2>4
<1>14. CASE SyncRemember
  <2>1. sync.at = "remember" /\ sync' = IdleCall /\ UNCHANGED <<dirs, scan, cli, todo>>
    BY <1>14 DEF SyncRemember
  <2>2. todo = {}
    BY <2>1
  <2> QED BY <2>1, <2>2
<1>15. CASE ChangeDisk
  <2>1. UNCHANGED <<reg, scan, cli, sync, todo>>
    BY <1>15 DEF ChangeDisk, tables
  <2>2. Root \in dirs' /\ dirs' \subseteq Paths
    BY <1>15 DEF ChangeDisk
  <2> QED BY <2>1, <2>2
<1>16. CASE Stop
  <2>1. /\ cli.at = "idle" /\ scan.at = "off" /\ sync.at = "idle"
        /\ cli' = [at |-> "down", dir |-> Root, guid |-> NoGuid]
        /\ UNCHANGED <<dirs, scan, sync, todo>>
    BY <1>16 DEF Stop
  <2>2. todo = {}
    BY <2>1
  <2> QED BY <2>1, <2>2
<1>17. CASE Crash
  <2>1. /\ cli' = [at |-> "down", dir |-> Root, guid |-> NoGuid]
        /\ scan' = IdleScan /\ sync' = IdleCall /\ todo' = {} /\ UNCHANGED dirs
    BY <1>17 DEF Crash
  <2> QED BY <2>1
<1>18. CASE Load
  <2>1. /\ cli.at = "down" /\ cli' = [at |-> "apply", dir |-> Root, guid |-> NoGuid]
        /\ todo' = {g \in Guids : reg'.status[g] = "active" /\ reg'.place[g] # Root}
        /\ UNCHANGED <<dirs, scan, sync>>
    BY <1>18 DEF Load
  <2>2. todo' \subseteq Guids /\ \A g \in todo' : reg'.place[g] # Root
    BY <2>1
  <2> QED BY <2>1, <2>2
<1>19. CASE Apply
  <2>1. cli.at = "apply" /\ UNCHANGED <<reg, dirs, scan, sync>>
        /\ todo' \subseteq todo /\ (cli' = cli \/ (todo' = {} /\ cli' = IdleCall))
    <3>1. ASSUME NEW g \in todo, todo' = todo \ {g}, UNCHANGED cli
          PROVE  todo' \subseteq todo /\ cli' = cli
      BY <3>1
    <3>2. ASSUME todo = {}, cli' = IdleCall, UNCHANGED todo
          PROVE  todo' \subseteq todo /\ todo' = {} /\ cli' = IdleCall
      BY <3>2
    <3> HIDE DEF Control, OperandsKnown, IdleCall
    <3> QED BY <1>19, <3>1, <3>2 DEF Apply
  <2>2. todo' \subseteq Guids /\ \A g \in todo' : reg'.place[g] # Root
    BY <2>1
  <2>3. cli'.at # "apply" => todo' = {}
    BY <2>1
  <2> HIDE DEF IdleCall
  <2>4. IdleCall \in [at : {"idle"}, dir : Paths, guid : AnyGuid]
    BY DEF IdleCall
  <2>5. cli' = cli \/ cli' = IdleCall
    BY <2>1
  <2>6. CASE cli' = cli
    BY <2>1, <2>2, <2>3, <2>6
  <2>7. CASE cli' = IdleCall
    <3>1. cli'.at = "idle" /\ cli' \in [at : {"idle"}, dir : Paths, guid : AnyGuid]
      BY <2>4, <2>7 DEF IdleCall
    <3> QED BY <2>1, <2>2, <2>3, <3>1
  <2> QED BY <2>5, <2>6, <2>7
<1>20. CASE UNCHANGED vars
  BY <1>20 DEF vars, tables
<1> HIDE DEF Control, OperandsKnown
<1> QED
  BY <1>1, <1>2, <1>3, <1>4, <1>5, <1>6, <1>7, <1>8, <1>9, <1>10, <1>11, <1>12, <1>13, <1>14,
     <1>15, <1>16, <1>17, <1>18, <1>19, <1>20 DEF Next, Scan, Command, Sync, Restart

-----------------------------------------------------------------------------
\* The invariant holds for every tree, every set of GUIDs and every bound: all three
\* activities, restarts and crashes keep the tables consistent.
THEOREM Invariance == Spec => []IInv
<1>1. Init => IInv
  <2> SUFFICES ASSUME Init PROVE IInv
    OBVIOUS
  <2>1. MapsType(pm) /\ MapsAgree
    BY EmptyMapsOK DEF Init, MapsAgree
  <2>2. RegistryType(reg) /\ CacheBacked /\ CleanMeansSaved
    BY EmptyRegistryOK DEF Init, CacheBacked, CleanMeansSaved
  <2>3. TablesType(file)
    BY EmptyRegistryOK DEF Init, TablesType, RegistryType, Tables
  <2>4. Control
    BY DEF Init, Control, OperandsKnown, IdleScan, IdleCall, AnyGuid
  <2> QED BY <2>1, <2>2, <2>3, <2>4 DEF IInv, TypeOK, Control
<1>2. IInv /\ [Next]_vars => IInv'
  <2> SUFFICES ASSUME IInv, [Next]_vars PROVE IInv'
    OBVIOUS
  <2> QED BY MapsStep, RegistryStep, ControlStep DEF IInv, TypeOK, Control
<1> QED BY <1>1, <1>2, PTL DEF Spec

\* Every variable keeps its type, and no step under way works on the empty path or the
\* empty GUID.
THEOREM TypeCorrect == Spec => []TypeOK
BY Invariance, PTL DEF IInv

\* A GUID that resolves, resolves to the one directory announced under it, however the
\* scan, the commands, the downloads and the restarts interleave.
THEOREM MapsStayInverse == Spec => []MapsAgree
BY Invariance, PTL DEF IInv

\* The GUID remembered for a path is that of an active record of that path.
THEOREM CacheStaysBacked == Spec => []CacheBacked
BY Invariance, PTL DEF IInv

\* Skipping the save of a registry not marked dirty loses nothing.
THEOREM SkippedSavesLoseNothing == Spec => []CleanMeansSaved
BY Invariance, PTL DEF IInv
=============================================================================
