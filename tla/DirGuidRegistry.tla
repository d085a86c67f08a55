-------------------------- MODULE DirGuidRegistry --------------------------
(***************************************************************************)
(* How the directories of the share get and keep their GUIDs.  The tables  *)
(* of DirGuids are guarded by two mutexes, and most calls take them one    *)
(* after the other; three activities do so at the same time:               *)
(*   scan: index_share_root, run by whoever asks for a listing, one at a   *)
(*         time because it holds share_index_mutex_;                       *)
(*   cli:  guid assign, guid forget, start and stop;                       *)
(*   sync: the directories a download creates (watch loop or sync command).*)
(* One step is one critical section.                                       *)
(***************************************************************************)
EXTENDS DirGuids

CONSTANTS WatchGuid,     \* [Paths -> GUID of the watch that fills the path, or NoGuid]
          MaxDiskSteps,  \* bound: directories made, moved or removed
          MaxCommands,   \* bound: guid assign and guid forget commands
          MaxRestarts,   \* bound: stops and crashes
          Crashes        \* whether the process may be killed

ASSUME DirGuidRegistryAssumption ==
  /\ WatchGuid \in [Paths -> Guids \cup {NoGuid}] /\ WatchGuid[Root] = NoGuid
  /\ MaxDiskSteps \in Nat /\ MaxCommands \in Nat /\ MaxRestarts \in Nat
  /\ Crashes \in BOOLEAN

VARIABLES
  pm,        \* the peer manager's maps
  reg,       \* the registry
  file,      \* dir-guids.json: [place, status]
  dirs,      \* the directories on disk
  scan,      \* [at, seen, left, dir, guid]
  cli, sync, \* [at, dir, guid]
  todo,      \* records apply_dir_guid_registry has still to announce
  count      \* [disk, commands, restarts], for the bounds

tables == <<pm, reg, file>>
vars == <<tables, dirs, scan, cli, sync, todo, count>>

AnyGuid == Guids \cup {NoGuid}
Tables(r) == [place |-> r.place, status |-> r.status]
IdleScan == [at |-> "off", seen |-> {}, left |-> {}, dir |-> Root, guid |-> NoGuid]
IdleCall == [at |-> "idle", dir |-> Root, guid |-> NoGuid]
Up == cli.at \notin {"down", "apply"}

Init ==
  /\ pm = EmptyMaps /\ reg = EmptyRegistry /\ file = Tables(EmptyRegistry)
  /\ dirs \in {D \in SUBSET Paths : Root \in D /\ \A p \in D \ {Root} : Parent[p] \in D}
  /\ scan = IdleScan /\ cli = IdleCall /\ sync = IdleCall /\ todo = {}
  /\ count = [disk |-> 0, commands |-> 0, restarts |-> 0]

Bump(field) == count' = [count EXCEPT ![field] = @ + 1]

\* save_dir_guid_registry writes only a registry marked dirty.
Save ==
  /\ file' = IF reg.dirty THEN Tables(reg) ELSE file
  /\ reg' = [reg EXCEPT !.dirty = FALSE]

-----------------------------------------------------------------------------
\* index_share_root reads the tree once, parents before children.
StartScan ==
  /\ Up /\ scan.at = "off"
  /\ scan' = [IdleScan EXCEPT !.at = "next", !.seen = dirs \ {Root}, !.left = dirs \ {Root}]
  /\ UNCHANGED <<tables, dirs, cli, sync, todo, count>>

\* register_directory_path: the watch's GUID, else the remembered one, else the
\* one the peer manager has or draws.
ScanNext ==
  /\ scan.at = "next" /\ scan.left # {}
  /\ \E d \in scan.left :
       /\ Parent[d] \notin scan.left
       /\ scan' = [scan EXCEPT
            !.left = @ \ {d}, !.dir = d,
            !.guid = IF WatchGuid[d] # NoGuid THEN WatchGuid[d] ELSE reg.cache[d],
            !.at   = IF WatchGuid[d] # NoGuid THEN "bindWatched"
                     ELSE IF reg.cache[d] # NoGuid THEN "bindCached" ELSE "register"]
  /\ UNCHANGED <<tables, dirs, cli, sync, todo, count>>

ScanBind ==
  /\ scan.at \in {"bindWatched", "bindCached"}
  /\ pm' \in WithGuid(pm, scan.dir, scan.guid)
  /\ scan' = [scan EXCEPT !.at = IF @ = "bindCached" THEN "next" ELSE "remember"]
  /\ UNCHANGED <<reg, file, dirs, cli, sync, todo, count>>

ScanRegister ==
  /\ scan.at = "register"
  /\ pm' \in Hierarchy(pm, scan.dir)
  /\ scan' = [scan EXCEPT !.at = "lookup"]
  /\ UNCHANGED <<reg, file, dirs, cli, sync, todo, count>>

\* directory_guid_for_path takes the path for a file's and looks up its parent.
DirectoryGuidForPath(p) == pm.guid[IF p = Root THEN Root ELSE Parent[p]]

ScanLookupAny ==                                          \* mutant
  /\ scan.at = "lookup"
  /\ scan' = [scan EXCEPT !.guid = DirectoryGuidForPath(scan.dir), !.at = "remember"]
  /\ UNCHANGED <<tables, dirs, cli, sync, todo, count>>

ScanLookup ==
  /\ scan.at = "lookup"
  /\ scan' = [scan EXCEPT !.guid = DirectoryGuidForPath(scan.dir),
                          !.at = IF DirectoryGuidForPath(scan.dir) = NoGuid
                                 THEN "next" ELSE "remember"]
  /\ UNCHANGED <<tables, dirs, cli, sync, todo, count>>

ScanRemember ==
  /\ scan.at = "remember"
  /\ reg' = Remembered(reg, scan.dir, scan.guid)
  /\ scan' = [scan EXCEPT !.at = "next"]
  /\ UNCHANGED <<pm, file, dirs, cli, sync, todo, count>>

\* A record stays active while its directory was seen or exists, or a watch has
\* its GUID.
Present == {g \in Guids : \/ reg.place[g] \in (scan.seen \cup dirs) \ {Root}
                          \/ \E p \in Paths : WatchGuid[p] = g}

ScanReconcile ==
  /\ scan.at = "next" /\ scan.left = {}
  /\ reg' \in Reconciled(reg, Present)
  /\ scan' = IF Misjudged(reg, Present) = {} THEN IdleScan ELSE [IdleScan EXCEPT !.at = "save"]
  /\ UNCHANGED <<pm, file, dirs, cli, sync, todo, count>>

ScanSave ==
  /\ scan.at = "save"
  /\ Save
  /\ scan' = IdleScan
  /\ UNCHANGED <<pm, dirs, cli, sync, todo, count>>

-----------------------------------------------------------------------------
\* The user types a GUID known here or at a peer; one attached to a directory
\* that exists is not given away.
Assign ==
  /\ cli.at = "idle" /\ count.commands < MaxCommands
  /\ \E g \in Foreign \cup pm.minted, p \in dirs \ {Root} :
       /\ ~(reg.status[g] = "active" /\ reg.place[g] \in dirs \ {Root})
       /\ reg' = Assigned(reg, p, g)
       /\ cli' = [at |-> "bind", dir |-> p, guid |-> g]
  /\ Bump("commands")
  /\ UNCHANGED <<pm, file, dirs, scan, sync, todo>>

Forget ==
  /\ cli.at = "idle" /\ count.commands < MaxCommands
  /\ \E g \in Recorded(reg) :
       /\ reg' = Forgotten(reg, g)
       /\ cli' = [at |-> "unbind", dir |-> Root, guid |-> g]
  /\ Bump("commands")
  /\ UNCHANGED <<pm, file, dirs, scan, sync, todo>>

CommandBind ==
  /\ \/ cli.at = "bind" /\ pm' \in WithGuid(pm, cli.dir, cli.guid)
     \/ cli.at = "unbind" /\ pm' = Unbound(pm, cli.guid)
  /\ cli' = [cli EXCEPT !.at = "save"]
  /\ UNCHANGED <<reg, file, dirs, scan, sync, todo, count>>

CommandSave ==
  /\ cli.at = "save"
  /\ Save
  /\ cli' = IdleCall
  /\ UNCHANGED <<pm, dirs, scan, sync, todo, count>>

\* A download creates a directory whose GUID the remote listing gives, or not.
SyncBind ==
  /\ Up /\ sync.at = "idle"
  /\ \E p \in dirs \ {Root} :
       \/ \E g \in Foreign : /\ pm' \in WithGuid(pm, p, g)
                             /\ sync' = [at |-> "remember", dir |-> p, guid |-> g]
       \/ pm' \in Hierarchy(pm, p) /\ UNCHANGED sync
  /\ UNCHANGED <<reg, file, dirs, scan, cli, todo, count>>

SyncRemember ==
  /\ sync.at = "remember"
  /\ reg' = Remembered(reg, sync.dir, sync.guid)
  /\ sync' = IdleCall
  /\ UNCHANGED <<pm, file, dirs, scan, cli, todo, count>>

-----------------------------------------------------------------------------
\* The user, a download or another program changes the tree.
ChangeDisk ==
  /\ count.disk < MaxDiskSteps
  /\ \E p \in Paths \ {Root} :
       \/ p \notin dirs /\ Parent[p] \in dirs /\ dirs' = dirs \cup {p}
       \/ p \in dirs /\ (\A q \in dirs \ {p} : p \notin Above[q]) /\ dirs' = dirs \ {p}
  /\ Bump("disk")
  /\ UNCHANGED <<tables, scan, cli, sync, todo>>

\* ~MeshCLI saves; a crash does not.
Stop ==
  /\ count.restarts < MaxRestarts
  /\ cli.at = "idle" /\ scan.at = "off" /\ sync.at = "idle"
  /\ Save
  /\ cli' = [IdleCall EXCEPT !.at = "down"]
  /\ Bump("restarts")
  /\ UNCHANGED <<pm, dirs, scan, sync, todo>>

Crash ==
  /\ Crashes /\ count.restarts < MaxRestarts /\ cli.at # "down"
  /\ cli' = [IdleCall EXCEPT !.at = "down"]
  /\ scan' = IdleScan /\ sync' = IdleCall /\ todo' = {}
  /\ Bump("restarts")
  /\ UNCHANGED <<tables, dirs>>

\* load_dir_guid_registry, with no peer manager state left from before.
Load ==
  /\ cli.at = "down"
  /\ reg' \in Loaded(file)
  /\ pm' = [EmptyMaps EXCEPT !.minted = pm.minted]
  /\ todo' = {g \in Guids : reg'.status[g] = "active" /\ reg'.place[g] # Root}
  /\ cli' = [IdleCall EXCEPT !.at = "apply"]
  /\ UNCHANGED <<file, dirs, scan, sync, count>>

\* apply_dir_guid_registry announces each active record, in any order.
Apply ==
  /\ cli.at = "apply"
  /\ \/ \E g \in todo : /\ pm' \in WithGuid(pm, reg.place[g], g)
                        /\ todo' = todo \ {g}
                        /\ UNCHANGED cli
     \/ todo = {} /\ cli' = IdleCall /\ UNCHANGED <<pm, todo>>
  /\ UNCHANGED <<reg, file, dirs, scan, sync, count>>

Scan    == StartScan \/ ScanNext \/ ScanBind \/ ScanRegister \/ ScanLookup
             \/ ScanRemember \/ ScanReconcile \/ ScanSave
Command == Assign \/ Forget \/ CommandBind \/ CommandSave
Sync    == SyncBind \/ SyncRemember
Restart == Stop \/ Crash \/ Load \/ Apply
Next    == Scan \/ Command \/ Sync \/ ChangeDisk \/ Restart

Spec == Init /\ [][Next]_vars

-----------------------------------------------------------------------------
MapsType(m) ==
  /\ m \in [guid : [Paths -> AnyGuid], path : [Guids -> Paths \cup {NoPath}],
            minted : SUBSET Own]
\* An absent record has no path.
TablesType(t) ==
  /\ t \in [place : [Guids -> Paths], status : [Guids -> {"absent", "orphan", "active"}]]
  /\ \A g \in Guids : t.status[g] = "absent" => t.place[g] = Root
RegistryType(r) ==
  /\ r \in [place : [Guids -> Paths], status : [Guids -> {"absent", "orphan", "active"}],
            cache : [Paths -> AnyGuid], dirty : BOOLEAN]
  /\ \A g \in Guids : r.status[g] = "absent" => r.place[g] = Root

\* No step under way works on the empty path or the empty GUID.
OperandsKnown ==
  /\ scan.at \in {"bindWatched", "bindCached", "remember"} => scan.guid # NoGuid
  /\ scan.at \notin {"off", "next", "save"} => scan.dir # Root
  /\ cli.at \in {"bind", "unbind"} => cli.guid # NoGuid
  /\ cli.at = "bind" => cli.dir # Root
  /\ sync.at = "remember" => sync.guid # NoGuid /\ sync.dir # Root
  /\ \A g \in todo : reg.place[g] # Root
  /\ cli.at # "apply" => todo = {}
  /\ cli.at \in {"down", "apply"} => scan.at = "off" /\ sync.at = "idle"

TypeOK ==
  /\ MapsType(pm) /\ RegistryType(reg)
  /\ TablesType(file)
  /\ Root \in dirs /\ dirs \subseteq Paths
  /\ scan \in [at : {"off", "next", "bindWatched", "bindCached", "register", "lookup",
                     "remember", "save"},
               seen : SUBSET (Paths \ {Root}), left : SUBSET (Paths \ {Root}),
               dir : Paths, guid : AnyGuid]
  /\ cli \in [at : {"idle", "bind", "unbind", "save", "down", "apply"}, dir : Paths, guid : AnyGuid]
  /\ sync \in [at : {"idle", "remember"}, dir : Paths, guid : AnyGuid]
  /\ todo \subseteq Guids
  /\ OperandsKnown

\* The peer manager resolves a GUID to the directory it announces it for, and to
\* no other, however the three activities bind, move, take back and draw GUIDs.
Agree(m) ==
  /\ \A g \in Guids : m.path[g] # NoPath => m.guid[m.path[g]] = g
  /\ \A p \in Paths \ {Root} : m.guid[p] # NoGuid => m.path[m.guid[p]] = p
MapsAgree == Agree(pm)

\* What the registry remembers for a path is a record that is active and names
\* that path, across commands, scans, downloads and restarts.
Backed(r) ==
  \A p \in Paths : r.cache[p] # NoGuid =>
    /\ p # Root /\ r.cache[p] \in Guids
    /\ r.place[r.cache[p]] = p /\ r.status[r.cache[p]] = "active"
CacheBacked == Backed(reg)

\* A registry that is not marked dirty is the one on disk: a later save that is
\* skipped loses nothing.
CleanMeansSaved == ~reg.dirty => file = Tables(reg)

\* README.md:73: watches are keyed by directory GUIDs.  The GUID under which a
\* peer found a directory goes on resolving to it while it exists.
ResolvedGuidStays ==
  [][\A g \in Guids : pm.path[g] \in dirs /\ pm'.path[g] # pm.path[g]
       => \E p \in Paths : WatchGuid[p] = g]_vars
=============================================================================
