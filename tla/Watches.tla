-------------------------------- MODULE Watches --------------------------------
(***************************************************************************)
(* Watches of MeshCLI.hpp: directories followed by their GUID on one or    *)
(* more trusted peers.  The command thread changes the watches, saves them *)
(* and runs the one it changed; the watch thread runs whichever is due.    *)
(* Both run a copy, without watch_mutex_, while the other thread goes on.  *)
(*                                                                         *)
(* What a run does to files is FileSync; where a GUID is mapped locally    *)
(* (active_path_for_guid) is DirGuidRegistry, and any mapping here.        *)
(***************************************************************************)
EXTENDS Naturals, FiniteSets, Sequences, Functions

CONSTANTS
  Ids,          \* watch ids; drawn at random, so none is drawn twice
  Peers, Guids, Paths, NoPath,
  Targets,      \* what resolve_watch_resource makes of the resources one can name
  Origin,       \* Origin[g]: the peer a directory with GUID g comes from
  NoEntry,
  Saved,        \* the watches in watches.json at the start
  MaxCommands, MaxRestarts   \* bounds

Sources == [peer : Peers, path : Paths \cup {NoPath}]
Entries == {e \in [guid : Guids, sources : Seq(Sources), origin : Peers, dest : Paths \cup {NoPath}] :
              e.sources # << >>}
Copies == [id : Ids, entry : Entries, from : Peers \cup {NoEntry}]
NoWatches == [w \in {} |-> NoEntry]
Apart(ws) == \A v, w \in DOMAIN ws : v # w /\ ws[v].dest = ws[w].dest => ws[v].dest = NoPath

ASSUME WatchesAssumption ==
  /\ NoPath \notin Paths
  /\ Targets \subseteq [peer : Peers, path : Paths \cup {NoPath}, guid : Guids]
  /\ Origin \in [Guids -> Peers]
  /\ DOMAIN Saved \subseteq Ids /\ IsFiniteSet(DOMAIN Saved)
  /\ \A w \in DOMAIN Saved : Saved[w] \in Entries
  /\ Apart(Saved)
  /\ NoEntry \notin Copies
  /\ MaxCommands \in Nat /\ MaxRestarts \in Nat

VARIABLES
  watches,  \* watches_, by id
  due,      \* the watches with next_run <= now
  before,   \* <<v, w>> of them: next_run of v is before that of w
  file,     \* watches.json: what was last written to it, and whether all of it was
  pc,       \* where each thread is
  copy,     \* the copy of a watch that a thread runs
  issued,   \* ids ever drawn
  granted,  \* <<guid, peer>> a command ever named
  gone,     \* ids no longer in the file when it was last written
  commands, restarts

queue == <<due, before>>
memory == <<watches, queue, pc, copy>>
vars == <<memory, file, issued, granted, gone, commands, restarts>>
Threads == {"cli", "watch"}

Readable(f) == IF f.whole THEN f.doc ELSE NoWatches

\* The peers a watch trusts.
Trusted(e) == {s.peer : s \in Range(e.sources)}

\* load_watches takes the first source for the origin when the origin saved is none.
Loaded(e) == IF e.origin \in Trusted(e) THEN e ELSE [e EXCEPT !.origin = e.sources[1].peer]

\* next_run is now, for all at once, or for w, after those that are due already;
\* or it is not yet.
AllDue(S) == due' = S /\ before' = {}
Due(w) == /\ due' = due \cup {w}
          /\ before' = {b \in before : w \notin {b[1], b[2]}} \cup ((due \ {w}) \X {w})
NotDue(S) == /\ due' = due \ S
             /\ before' = {b \in before : {b[1], b[2]} \cap S = {}}

Init ==
  /\ file = [doc |-> Saved, whole |-> TRUE]
  /\ watches = [w \in DOMAIN Saved |-> Loaded(Saved[w])]
  /\ due = DOMAIN Saved /\ before = {}
  /\ pc = [t \in Threads |-> "idle"] /\ copy = [t \in Threads |-> NoEntry]
  /\ issued = DOMAIN Saved /\ gone = {}
  /\ granted = UNION {{Saved[w].guid} \X Trusted(Saved[w]) : w \in DOMAIN Saved}
  /\ commands = 0 /\ restarts = 0

-----------------------------------------------------------------------------
\* canonical_watch_destination and requested_watch_destination, with the local
\* path m[g] of each GUID.
FirstPath(e) == LET named == SelectSeq(e.sources, LAMBDA s : s.path # NoPath)
                IN IF named = << >> THEN NoPath ELSE named[1].path
Canonical(m, e) == IF e.dest # NoPath THEN e.dest
                   ELSE IF m[e.guid] # NoPath THEN m[e.guid] ELSE FirstPath(e)
Requested(m, r, d) == IF d # NoPath THEN d ELSE IF r.path # NoPath THEN r.path ELSE m[r.guid]
Mappings == [Guids -> Paths \cup {NoPath}]

\* The origin a target is resolved to: a listing names it, an explicit GUID does not.
Origins(r) == {r.peer} \cup IF r.path # NoPath THEN {Origin[r.guid]} ELSE {}
Source(r) == [peer |-> r.peer, path |-> r.path]

Without(ws, S) == [w \in DOMAIN ws \ S |-> ws[w]]
Command == /\ pc["cli"] = "idle" /\ commands < MaxCommands
           /\ commands' = commands + 1
           /\ UNCHANGED <<file, gone, restarts>>

\* The command ends without a change.
Refused == UNCHANGED <<memory, issued, granted>>

\* What a thread runs: a copy of the watch, and the peer that listed it in the end.
CopyOf(w, e) == [id |-> w, entry |-> e, from |-> NoEntry]

\* The watch w becomes e; the command goes on to save and to run a copy of it.
Change(w, e, r) ==
  /\ watches' = [v \in DOMAIN watches \cup {w} |-> IF v = w THEN e ELSE watches[v]]
  /\ granted' = granted \cup {<<r.guid, r.peer>>}
  /\ copy' = [copy EXCEPT !["cli"] = CopyOf(w, e)]
  /\ pc' = [pc EXCEPT !["cli"] = "save"]

Fresh(r, d, o) ==
  \E w \in Ids \ issued :
    /\ Change(w, [guid |-> r.guid, sources |-> <<Source(r)>>, origin |-> o, dest |-> d], r)
    /\ issued' = issued \cup {w}
    /\ UNCHANGED queue

\* Another peer for a watch, unless it is trusted already.
Trust(w, r, o) ==
  IF Source(r) \in Range(watches[w].sources) THEN Refused
  ELSE /\ Change(w, [watches[w] EXCEPT !.sources = Append(@, Source(r)), !.origin = o], r)
       /\ Due(w)
       /\ UNCHANGED issued

\* watch add: the entries are visited in order, so with a clash and a match either
\* may be met first.
Add(r, d) ==
  /\ Command
  /\ \E m \in Mappings, o \in Origins(r) :
       LET dest == Requested(m, r, d)
           clash == {w \in DOMAIN watches : dest # NoPath /\ Canonical(m, watches[w]) = dest
                                            /\ watches[w].guid # r.guid}
           same == {w \in DOMAIN watches : Canonical(m, watches[w]) = dest
                                           /\ watches[w].guid = r.guid}
       IN \/ clash # {} /\ Refused
          \/ \E w \in same : Trust(w, r, o)
          \/ clash = {} /\ same = {} /\ Fresh(r, d, o)

SetKeepsSources(w, r, d) ==                                 \* mutant of SetWatch
  /\ Command /\ w \in DOMAIN watches /\ d \in {NoPath, watches[w].dest}
  /\ \E o \in Origins(r) :
       Change(w, [watches[w] EXCEPT !.guid = r.guid, !.origin = o,
                                    !.sources = Append(@, Source(r))], r)
  /\ Due(w)
  /\ UNCHANGED issued

SetAnywhere(w, r, d) ==                                     \* mutant of SetWatch
  /\ Command /\ w \in DOMAIN watches
  /\ \E o \in Origins(r) :
       Change(w, [guid |-> r.guid, sources |-> <<Source(r)>>, origin |-> o,
                  dest |-> IF d = NoPath THEN watches[w].dest ELSE d], r)
  /\ Due(w)
  /\ UNCHANGED issued

\* watch set
SetWatch(w, r, d) ==
  /\ Command /\ w \in DOMAIN watches
  /\ \E m \in Mappings, o \in Origins(r) :
       IF d # NoPath /\ ( \/ watches[w].dest \notin {NoPath, d}
                          \/ \E v \in DOMAIN watches \ {w} : Canonical(m, watches[v]) = d )
       THEN Refused
       ELSE /\ Change(w, [guid |-> r.guid, sources |-> <<Source(r)>>, origin |-> o,
                          dest |-> IF d = NoPath THEN watches[w].dest ELSE d], r)
            /\ Due(w)
            /\ UNCHANGED issued

DropSources(S) ==                                           \* mutant of Drop
  /\ S # {}
  /\ watches' = [w \in DOMAIN watches |->
                   IF w \in S THEN [watches[w] EXCEPT !.sources = << >>] ELSE watches[w]]
  /\ UNCHANGED queue

Drop(S) ==
  /\ S # {}
  /\ watches' = Without(watches, S)
  /\ NotDue(S)

RemoveUnsaved(S) ==                                         \* mutant of Remove
  /\ Command
  /\ Drop(S)
  /\ UNCHANGED <<pc, copy, issued, granted>>

\* watch remove: drops the watches S.
Remove(S) ==
  /\ Command
  /\ Drop(S)
  /\ pc' = [pc EXCEPT !["cli"] = "save"]
  /\ UNCHANGED <<copy, issued, granted>>

\* By id, by GUID, or those of the GUID that trust the peer.
RemoveSome ==
  \/ \E w \in DOMAIN watches : Remove({w})
  \/ \E g \in Guids : Remove({w \in DOMAIN watches : watches[w].guid = g})
  \/ \E r \in Targets :
       Remove({w \in DOMAIN watches : watches[w].guid = r.guid
                 /\ r.peer \in Trusted(watches[w])})

\* sync, and watch interval, which saves; all are due.
SyncAll ==
  /\ Command
  /\ AllDue(DOMAIN watches)
  /\ pc' \in {pc, [pc EXCEPT !["cli"] = "save"]}
  /\ UNCHANGED <<watches, copy, issued, granted>>

\* sync of one watch by its id.
SyncWatch(w) ==
  /\ Command /\ w \in DOMAIN watches
  /\ copy' = [copy EXCEPT !["cli"] = CopyOf(w, watches[w])]
  /\ pc' = [pc EXCEPT !["cli"] = "list"]
  /\ UNCHANGED <<watches, queue, issued, granted>>

-----------------------------------------------------------------------------
\* save_watches: the watches are taken under the lock, the file is truncated and
\* then written.
Save ==
  /\ pc["cli"] = "save"
  /\ file' = [doc |-> watches, whole |-> FALSE]
  /\ pc' = [pc EXCEPT !["cli"] = "write"]
  /\ UNCHANGED <<watches, queue, copy, issued, granted, gone, commands, restarts>>

Write ==
  /\ pc["cli"] = "write"
  /\ file' = [file EXCEPT !.whole = TRUE]
  /\ gone' = issued \ DOMAIN file.doc
  /\ pc' = [pc EXCEPT !["cli"] = IF copy["cli"] = NoEntry THEN "idle" ELSE "list"]
  /\ UNCHANGED <<watches, queue, copy, issued, granted, commands, restarts>>

-----------------------------------------------------------------------------
\* watch_loop: a watch with the least next_run.
PickNewest ==                                               \* mutant of Pick
  /\ pc["watch"] = "idle"
  /\ \E w \in due :
       /\ \A v \in due : <<w, v>> \notin before
       /\ copy' = [copy EXCEPT !["watch"] = CopyOf(w, watches[w])]
       /\ NotDue({w})
  /\ pc' = [pc EXCEPT !["watch"] = "list"]
  /\ UNCHANGED <<watches, file, issued, granted, gone, commands, restarts>>

Pick ==
  /\ pc["watch"] = "idle"
  /\ \E w \in due :
       /\ \A v \in due : <<v, w>> \notin before
       /\ copy' = [copy EXCEPT !["watch"] = CopyOf(w, watches[w])]
       /\ NotDue({w})
  /\ pc' = [pc EXCEPT !["watch"] = "list"]
  /\ UNCHANGED <<watches, file, issued, granted, gone, commands, restarts>>

\* ordered_sources: the trusted peers, the origin first if it is one of them.
AskedWithOrigin(e) == Trusted(e) \cup {e.origin}             \* mutant of Asked
Asked(e) == Trusted(e)

\* run_single_watch up to the listing: one of the peers asked answers, and its root
\* entry names an origin; or none does.
List(t) ==
  /\ pc[t] = "list"
  /\ \/ \E p \in Asked(copy[t].entry) : \E o \in {p, Origin[copy[t].entry.guid]} :
          /\ copy' = [copy EXCEPT ![t].entry.origin = o, ![t].from = p]
          /\ pc' = [pc EXCEPT ![t] = "store"]
     \/ pc' = [pc EXCEPT ![t] = "sync"] /\ UNCHANGED copy
  /\ UNCHANGED <<watches, queue, file, issued, granted, gone, commands, restarts>>

\* Mutant of StoreOrigin: the copy is written back.
StoreCopy(t) ==
  /\ pc[t] = "store"
  /\ LET w == copy[t].id
     IN watches' = [v \in DOMAIN watches \cup {w} |-> IF v = w THEN copy[t].entry ELSE watches[v]]
  /\ pc' = [pc EXCEPT ![t] = "sync"]
  /\ UNCHANGED <<queue, copy, file, issued, granted, gone, commands, restarts>>

\* The watch may be gone or follow another directory by now.
StoreOrigin(t) ==
  /\ pc[t] = "store"
  /\ LET w == copy[t].id
     IN watches' = IF w \in DOMAIN watches
                   THEN [watches EXCEPT ![w].origin = copy[t].entry.origin] ELSE watches
  /\ pc' = [pc EXCEPT ![t] = "sync"]
  /\ UNCHANGED <<queue, copy, file, issued, granted, gone, commands, restarts>>

\* perform_sync returns.
Sync(t) ==
  /\ pc[t] = "sync"
  /\ pc' = [pc EXCEPT ![t] = "idle"]
  /\ copy' = [copy EXCEPT ![t] = NoEntry]
  /\ UNCHANGED <<watches, queue, file, issued, granted, gone, commands, restarts>>

RunStep(t) == List(t) \/ StoreOrigin(t) \/ Sync(t)

\* The interval of w has passed.
BecomesDue(w) ==
  /\ w \in DOMAIN watches \ due
  /\ Due(w)
  /\ UNCHANGED <<watches, pc, copy, file, issued, granted, gone, commands, restarts>>

\* The process stops or is killed anywhere, and starts again.
Restart ==
  /\ restarts < MaxRestarts
  /\ restarts' = restarts + 1
  /\ LET ws == Readable(file) IN
       /\ watches' = [w \in DOMAIN ws |-> Loaded(ws[w])]
       /\ AllDue(DOMAIN ws)
  /\ pc' = [t \in Threads |-> "idle"] /\ copy' = [t \in Threads |-> NoEntry]
  /\ UNCHANGED <<file, issued, granted, gone, commands>>

-----------------------------------------------------------------------------
Next ==
  \/ \E r \in Targets, d \in Paths \cup {NoPath} :
       Add(r, d) \/ \E w \in Ids : SetWatch(w, r, d)
  \/ RemoveSome \/ SyncAll \/ \E w \in Ids : SyncWatch(w)
  \/ Save \/ Write \/ Pick
  \/ \E t \in Threads : RunStep(t)
  \/ \E w \in Ids : BecomesDue(w)
  \/ Restart

Spec == Init /\ [][Next]_vars

\* Both threads run, intervals pass, and listings and downloads return, since they
\* wait with timeouts (Requests, SwarmDownload!DownloadReturns).
FairSpec ==
  /\ Spec /\ WF_vars(Save) /\ WF_vars(Write) /\ WF_vars(Pick)
  /\ \A t \in Threads : WF_vars(RunStep(t))
  /\ \A w \in Ids : WF_vars(BecomesDue(w))
-----------------------------------------------------------------------------
TypeOK ==
  /\ DOMAIN watches \subseteq issued /\ \A w \in DOMAIN watches : watches[w] \in Entries
  /\ due \subseteq DOMAIN watches /\ before \subseteq due \X due
  /\ file.whole \in BOOLEAN
  /\ DOMAIN file.doc \subseteq issued /\ \A w \in DOMAIN file.doc : file.doc[w] \in Entries
  /\ pc \in [Threads -> {"idle", "save", "write", "list", "store", "sync"}]
  /\ pc["watch"] \notin {"save", "write"}
  /\ copy \in [Threads -> Copies \cup {NoEntry}]
  /\ \A t \in Threads : pc[t] \in {"list", "store", "sync"} => copy[t] # NoEntry
  /\ issued \subseteq Ids /\ gone \subseteq issued /\ granted \subseteq Guids \X Peers
  /\ commands \in 0..MaxCommands /\ restarts \in 0..MaxRestarts

\* README.md:74, "SubaSync never auto-subscribes a new peer": a watch trusts, and a
\* run reads its listing from, only peers that some command named for that very
\* directory, through changed watches, runs of old copies, saves and restarts.
OnlyNamedPeersAreTrusted ==
  /\ \A w \in DOMAIN watches : \A p \in Trusted(watches[w]) : <<watches[w].guid, p>> \in granted
  /\ \A t \in Threads : copy[t] # NoEntry /\ copy[t].from # NoEntry =>
       <<copy[t].entry.guid, copy[t].from>> \in granted

\* A watch whose removal was saved does not come back, neither through a run that
\* still has a copy nor through a crash and the file.
RemovedStaysRemoved == gone \cap (DOMAIN watches \cup DOMAIN file.doc) = {}

\* Between commands the file holds the watches that are in memory, although the
\* watch thread changes them, too: a restart keeps directories, peers and
\* destinations.
Lasting(ws) == [w \in DOMAIN ws |-> [guid |-> ws[w].guid, sources |-> ws[w].sources, dest |-> ws[w].dest]]
FileHoldsTheWatches ==
  pc["cli"] \notin {"save", "write"} => Lasting(Readable(file)) = Lasting(watches)

\* MeshCLI.hpp:2946 and 3124: two watches never have one destination that was given
\* for both, whatever add, set and remove make of them.
DestinationsApart == Apart(watches)

\* Every watch is run, however many others are due.
WatchesRun ==
  \A w \in Ids : w \in DOMAIN watches ~>
    w \notin DOMAIN watches \/ (copy["watch"] # NoEntry /\ copy["watch"].id = w)
=============================================================================
