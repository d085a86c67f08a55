------------------------------ MODULE DirGuids ------------------------------
(***************************************************************************)
(* The two tables of directory GUIDs, as values.  The peer manager keeps   *)
(* what it tells other peers (peer_manager.cpp): m.guid is                 *)
(* path_to_dir_guid_ and m.path is dir_guid_to_path_.  The command line    *)
(* keeps what it remembers between runs (MeshCLI.hpp): r.place and         *)
(* r.status are dir_guid_records_, r.cache is dir_guid_by_path_ and        *)
(* r.dirty is dir_guid_registry_dirty_.  Each operator gives the table     *)
(* after one call that holds the table's mutex throughout.                 *)
(***************************************************************************)
EXTENDS Naturals, FiniteSets

CONSTANTS Paths, Root,     \* directories of the share; Root is the empty path
          Parent,          \* [Paths \ {Root} -> Paths]
          Above,           \* [Paths -> a path with all its ancestors, Root included]
          Own, Foreign,    \* GUIDs this peer may draw, and other peers' GUIDs
          NoPath, NoGuid

Guids == Own \cup Foreign

ASSUME DirGuidsAssumption ==
  /\ Root \in Paths /\ NoPath \notin Paths /\ NoGuid \notin Guids
  /\ Parent \in [Paths \ {Root} -> Paths]
  /\ Above \in [Paths -> SUBSET Paths] /\ \A p \in Paths : {Root, p} \subseteq Above[p]
  /\ \A p \in Paths \ {Root} : Above[p] = {p} \cup Above[Parent[p]]

EmptyMaps == [guid   |-> [p \in Paths |-> NoGuid],
              path   |-> [g \in Guids |-> NoPath],
              minted |-> {}]

\* No record has the path Root: it stands for the empty path of an absent record.
EmptyRegistry == [place  |-> [g \in Guids |-> Root],
                  status |-> [g \in Guids |-> "absent"],
                  cache  |-> [p \in Paths |-> NoGuid],
                  dirty  |-> FALSE]

-----------------------------------------------------------------------------
\* register_directory_hierarchy draws a GUID for p and every ancestor without one.
\* generate_directory_guid draws 128 random bits: never the same twice.
Unnamed(m, p) == {q \in Above[p] : m.guid[q] = NoGuid}
Undrawn(m) == {g \in Own \ m.minted : m.path[g] = NoPath}
Draws(m, p) == {f \in [Unnamed(m, p) -> Undrawn(m)] :
                  \A q, s \in Unnamed(m, p) : f[q] = f[s] => q = s}

Named(m, f) ==
  [guid   |-> [q \in Paths |-> IF q \in DOMAIN f THEN f[q] ELSE m.guid[q]],
   path   |-> [g \in Guids |-> IF \E q \in DOMAIN f : f[q] = g
                               THEN CHOOSE q \in DOMAIN f : f[q] = g ELSE m.path[g]],
   minted |-> m.minted \cup {f[q] : q \in DOMAIN f}]

Hierarchy(m, p) == {Named(m, f) : f \in Draws(m, p)}

NotVacated(m, p, g) == m                                  \* mutant of Vacated

\* The bind of register_directory_with_guid: path p now has GUID g, and g no
\* other path.
Vacated(m, p, g) ==
  IF m.path[g] \notin {NoPath, p} THEN [m EXCEPT !.guid[m.path[g]] = NoGuid] ELSE m

Bound(m, p, g) ==
  LET v == Vacated(m, p, g)
      o == v.guid[p]
      u == IF o = NoGuid THEN v ELSE [v EXCEPT !.path[o] = NoPath]
  IN  IF o = g THEN v ELSE [u EXCEPT !.guid[p] = g, !.path[g] = p]

\* register_directory_with_guid: the parent's hierarchy first, if p is not at
\* the top, then the bind.
WithGuid(m, p, g) ==
  {Bound(n, p, g) : n \in IF Parent[p] = Root THEN {m} ELSE Hierarchy(m, Parent[p])}

\* unregister_directory_guid; the root path keeps its entry.
Unbound(m, g) ==
  LET p == m.path[g]
      n == IF p \notin {NoPath, Root} /\ m.guid[p] = g THEN [m EXCEPT !.guid[p] = NoGuid] ELSE m
  IN  [n EXCEPT !.path[g] = NoPath]

-----------------------------------------------------------------------------
KeepCached(c, p) == c                                     \* mutant of Evict
Evict(c, p) == IF p = Root THEN c ELSE [c EXCEPT ![p] = NoGuid]

\* remember_dir_guid_mapping: g moves to p, and the record p had is erased.
Remembered(r, p, g) ==
  LET d  == r.cache[p]
      displaced == {d} \ {g, NoGuid}
      old == r.place[g]
  IN  IF d = g
      THEN [r EXCEPT !.place[g] = p, !.status[g] = "active"]
      ELSE [place  |-> [h \in Guids |-> IF h = g THEN p
                                        ELSE IF h \in displaced THEN Root ELSE r.place[h]],
            status |-> [h \in Guids |-> IF h = g THEN "active"
                                        ELSE IF h \in displaced THEN "absent" ELSE r.status[h]],
            cache  |-> [Evict(r.cache, old) EXCEPT ![p] = g],
            dirty  |-> TRUE]

\* assign_dir_guid: the record p had stays, as an orphan that still names p.
Assigned(r, p, g) ==
  LET displaced == {r.cache[p]} \ {g, NoGuid}
      c1 == [r.cache EXCEPT ![p] = NoGuid]
  IN  [place  |-> [r.place EXCEPT ![g] = p],
       status |-> [h \in Guids |-> IF h = g THEN "active"
                                   ELSE IF h \in displaced THEN "orphan" ELSE r.status[h]],
       cache  |-> [Evict(c1, r.place[g]) EXCEPT ![p] = g],
       dirty  |-> TRUE]

\* forget_dir_guid
Forgotten(r, g) ==
  [place  |-> [r.place EXCEPT ![g] = Root],
   status |-> [r.status EXCEPT ![g] = "absent"],
   cache  |-> Evict(r.cache, r.place[g]),
   dirty  |-> TRUE]

\* reconcile_dir_guid_registry: a record is active if "present" holds of it.  The
\* records are visited in hash-table order, and of several with one path the last
\* decides what is cached for that path.
Recorded(r) == {g \in Guids : r.status[g] # "absent"}
At(r, p) == {g \in Recorded(r) : r.place[g] = p}
Misjudged(r, present) == {g \in Recorded(r) : (g \in present) # (r.status[g] = "active")}

Verdicts(r, present, p) ==
  IF p = Root \/ At(r, p) = {} THEN {r.cache[p]}
  ELSE {IF g \in present THEN g ELSE NoGuid : g \in At(r, p)}
Caches(r, present) ==
  {c \in [Paths -> Guids \cup {NoGuid}] : \A p \in Paths : c[p] \in Verdicts(r, present, p)}

QuietlyReconciled(r, present) ==                          \* mutant of Reconciled
  {[r EXCEPT !.status = [g \in Guids |-> IF g \notin Recorded(r) THEN "absent"
                                         ELSE IF g \in present THEN "active" ELSE "orphan"],
             !.cache = c] : c \in Caches(r, present)}

Reconciled(r, present) ==
  {[r EXCEPT !.status = [g \in Guids |-> IF g \notin Recorded(r) THEN "absent"
                                         ELSE IF g \in present THEN "active" ELSE "orphan"],
             !.cache = c,
             !.dirty = r.dirty \/ Misjudged(r, present) # {}] : c \in Caches(r, present)}

\* load_dir_guid_registry: of several records with one path the first in the
\* file is kept, and the file lists them in hash-table order.
Loaded(f) ==
  LET all == {g \in Guids : f.status[g] # "absent"}
      Kept == {K \in SUBSET all : /\ \A g \in all : f.place[g] = Root => g \in K
                                  /\ \A g \in all : \E h \in K : f.place[h] = f.place[g]
                                  /\ \A g, h \in K : f.place[g] = f.place[h] /\ f.place[g] # Root
                                                        => g = h}
  IN  {[place  |-> [g \in Guids |-> IF g \in K THEN f.place[g] ELSE Root],
        status |-> [g \in Guids |-> IF g \in K THEN f.status[g] ELSE "absent"],
        cache  |-> [p \in Paths |->
                      IF \E g \in K : f.place[g] = p /\ p # Root /\ f.status[g] = "active"
                      THEN CHOOSE g \in K : f.place[g] = p /\ f.status[g] = "active"
                      ELSE NoGuid],
        dirty  |-> K # all] : K \in Kept}
=============================================================================
