----------------------------- MODULE WatchesProofs -----------------------------
(***************************************************************************)
(* What the commands, the watch loop, saves and crashes keep of the        *)
(* watches, for any number of watches, peers and directories.              *)
(*                                                                         *)
(* The argument: a watch, in memory, in the file or as a thread's copy,    *)
(* trusts granted peers only (Granted), and while the file is written the  *)
(* watch thread changes nothing but origins (FileInv).                     *)
(***************************************************************************)
EXTENDS Watches, FiniteSetTheorems, WellFoundedInduction, TLAPS

USE WatchesAssumption

AllGranted(ws) == \A w \in DOMAIN ws : \A p \in Trusted(ws[w]) : <<ws[w].guid, p>> \in granted
CopyGranted(c) == \A p \in Trusted(c.entry) : <<c.entry.guid, p>> \in granted

Granted ==
  /\ AllGranted(watches) /\ AllGranted(file.doc)
  /\ \A t \in Threads : copy[t] # NoEntry => CopyGranted(copy[t])
  /\ OnlyNamedPeersAreTrusted

FileInv ==
  /\ pc["cli"] = "write" => Lasting(file.doc) = Lasting(watches)
  /\ FileHoldsTheWatches
  /\ RemovedStaysRemoved

ApartInv == Apart(watches) /\ Apart(file.doc)

WInv == TypeOK /\ Granted /\ FileInv /\ ApartInv

-----------------------------------------------------------------------------
\* The peers that a list of sources trusts.
LEMMA OneSource ==
  ASSUME NEW g, NEW s \in Sources, NEW o, NEW d
  PROVE  Trusted([guid |-> g, sources |-> <<s>>, origin |-> o, dest |-> d]) = {s.peer}
<1>1. Range(<<s>>) = {s}
  BY DEF Range
<1> QED BY <1>1 DEF Trusted

LEMMA OneMoreSource ==
  ASSUME NEW e \in Entries, NEW s \in Sources, NEW f, f.sources = Append(e.sources, s)
  PROVE  /\ Trusted(f) = Trusted(e) \cup {s.peer}
         /\ f.sources \in Seq(Sources) /\ f.sources # << >>
<1>0. e.sources \in Seq(Sources)
  BY DEF Entries
<1> DEFINE a == Append(e.sources, s)
<1>1. /\ a \in Seq(Sources) /\ a # << >>
      /\ DOMAIN a = 1..(Len(e.sources) + 1)
      /\ \A i \in DOMAIN e.sources : a[i] = e.sources[i]
      /\ a[Len(e.sources) + 1] = s
      /\ DOMAIN e.sources = 1..Len(e.sources) /\ Len(e.sources) \in Nat
  BY <1>0
<1> HIDE DEF a
<1>2. Range(a) = Range(e.sources) \cup {s}
  <2>1. ASSUME NEW x \in Range(a) PROVE x \in Range(e.sources) \cup {s}
    <3>1. PICK i \in DOMAIN a : x = a[i]
      BY <2>1 DEF Range
    <3>2. i \in DOMAIN e.sources \/ i = Len(e.sources) + 1
      BY <1>1
    <3> QED BY <1>1, <3>1, <3>2 DEF Range
  <2>2. ASSUME NEW x \in Range(e.sources) \cup {s} PROVE x \in Range(a)
    <3>1. CASE x = s
      <4>1. Len(e.sources) + 1 \in DOMAIN a
        BY <1>1
      <4> QED BY <1>1, <3>1, <4>1 DEF Range
    <3>2. CASE x \in Range(e.sources)
      <4>1. PICK i \in DOMAIN e.sources : x = e.sources[i]
        BY <3>2 DEF Range
      <4>2. i \in DOMAIN a
        BY <1>1
      <4> QED BY <1>1, <4>1, <4>2 DEF Range
    <3> QED BY <2>2, <3>1, <3>2
  <2> QED BY <2>1, <2>2
<1>3. f.sources = a
  BY DEF a
<1> QED BY <1>1, <1>2, <1>3 DEF Trusted

LEMMA FirstIsTrusted ==
  ASSUME NEW e \in Entries
  PROVE  /\ e.sources[1] \in Sources /\ e.sources[1].peer \in Peers
         /\ Trusted(e) \subseteq Peers
<1>1. e.sources \in Seq(Sources) /\ e.sources # << >>
  BY DEF Entries
<1>2. Range(e.sources) \subseteq Sources
  BY <1>1 DEF Range
<1>3. e.sources[1] \in Sources
  BY <1>1
<1> QED BY <1>2, <1>3 DEF Trusted, Sources

\* Another origin is all that a watch learns.
LEMMA OtherOrigin ==
  ASSUME NEW e \in Entries, NEW o \in Peers
  PROVE  LET f == [e EXCEPT !.origin = o]
         IN  /\ f \in Entries /\ Trusted(f) = Trusted(e)
             /\ f.guid = e.guid /\ f.dest = e.dest /\ f.sources = e.sources
<1> DEFINE f == [e EXCEPT !.origin = o]
<1>1. f \in Entries /\ f.guid = e.guid /\ f.dest = e.dest /\ f.sources = e.sources
  BY DEF Entries
<1> HIDE DEF f
<1>2. Trusted(f) = Trusted(e)
  BY <1>1 DEF Trusted
<1> QED BY <1>1, <1>2 DEF f

LEMMA LoadedKeeps ==
  ASSUME NEW e \in Entries
  PROVE  /\ Loaded(e) \in Entries /\ Trusted(Loaded(e)) = Trusted(e)
         /\ Loaded(e).guid = e.guid /\ Loaded(e).dest = e.dest
         /\ Loaded(e).sources = e.sources
<1>1. CASE e.origin \in Trusted(e)
  BY <1>1 DEF Loaded
<1>2. CASE e.origin \notin Trusted(e)
  <2>1. e.sources[1].peer \in Peers
    BY FirstIsTrusted
  <2> QED BY <1>2, <2>1, OtherOrigin DEF Loaded
<1> QED BY <1>1, <1>2

\* What lasts is told watch by watch.
LEMMA LastingSame ==
  ASSUME NEW ws, NEW vs, DOMAIN ws = DOMAIN vs,
         \A w \in DOMAIN ws : /\ ws[w].guid = vs[w].guid /\ ws[w].sources = vs[w].sources
                             /\ ws[w].dest = vs[w].dest
  PROVE  Lasting(ws) = Lasting(vs)
BY DEF Lasting

LEMMA LastingDomain ==
  ASSUME NEW ws, NEW vs, Lasting(ws) = Lasting(vs)
  PROVE  DOMAIN ws = DOMAIN vs
<1>1. DOMAIN Lasting(ws) = DOMAIN ws /\ DOMAIN Lasting(vs) = DOMAIN vs
  BY DEF Lasting
<1> QED BY <1>1

LEMMA DueTyped ==
  ASSUME NEW D, due \subseteq D, before \subseteq due \X due
  PROVE  /\ \A w \in D : Due(w) => due' \subseteq D /\ before' \subseteq due' \X due'
         /\ \A S : NotDue(S) => due' \subseteq D \ S /\ before' \subseteq due' \X due'
         /\ AllDue(D) => due' \subseteq D /\ before' \subseteq due' \X due'
<1>1. ASSUME NEW w \in D, Due(w) PROVE due' \subseteq D /\ before' \subseteq due' \X due'
  BY <1>1 DEF Due
<1>2. ASSUME NEW S, NotDue(S) PROVE due' \subseteq D \ S /\ before' \subseteq due' \X due'
  <2>1. due' = due \ S
    BY <1>2 DEF NotDue
  <2>2. ASSUME NEW b \in before' PROVE b \in due' \X due'
    <3>1. b \in before /\ {b[1], b[2]} \cap S = {}
      BY <1>2, <2>2 DEF NotDue
    <3>2. b = <<b[1], b[2]>> /\ b[1] \in due /\ b[2] \in due
      BY <3>1
    <3>3. b[1] \in due' /\ b[2] \in due'
      BY <2>1, <3>1, <3>2
    <3> QED BY <3>2, <3>3
  <2> QED BY <2>1, <2>2
<1>3. AllDue(D) => due' \subseteq D /\ before' \subseteq due' \X due'
  BY DEF AllDue
<1> QED BY <1>1, <1>2, <1>3

-----------------------------------------------------------------------------
\* A command that makes a watch of e: it trusts granted peers, and no other watch
\* has its destination.
LEMMA ChangeKeeps ==
  ASSUME WInv, Command, NEW w \in issued', NEW e \in Entries, NEW r \in Targets, Change(w, e, r),
         issued \subseteq issued', issued' \subseteq Ids, w \in issued => w \in DOMAIN watches,
         due' \subseteq DOMAIN watches \cup {w}, before' \subseteq due' \X due',
         \A p \in Trusted(e) : <<e.guid, p>> \in granted \cup {<<r.guid, r.peer>>},
         \A v \in DOMAIN watches \ {w} : e.dest = NoPath \/ watches[v].dest # e.dest
  PROVE  WInv'
<1>1. /\ watches' = [v \in DOMAIN watches \cup {w} |-> IF v = w THEN e ELSE watches[v]]
      /\ granted' = granted \cup {<<r.guid, r.peer>>}
      /\ copy' = [copy EXCEPT !["cli"] = CopyOf(w, e)]
      /\ pc' = [pc EXCEPT !["cli"] = "save"]
  BY DEF Change
<1>2. /\ pc["cli"] = "idle" /\ UNCHANGED <<file, gone, restarts>> /\ commands' = commands + 1
      /\ commands' \in 0..MaxCommands
  BY DEF Command, WInv, TypeOK
<1>3. TypeOK
  BY DEF WInv
<1>4. w \in Ids /\ CopyOf(w, e) \in Copies /\ CopyOf(w, e) # NoEntry
  BY DEF CopyOf, Copies
<1>5. DOMAIN watches' = DOMAIN watches \cup {w} /\ watches'[w] = e
      /\ \A v \in DOMAIN watches \ {w} : watches'[v] = watches[v]
  BY <1>1
<1>6. /\ copy'["cli"] = CopyOf(w, e) /\ copy'["watch"] = copy["watch"]
      /\ copy' \in [Threads -> Copies \cup {NoEntry}]
      /\ pc'["cli"] = "save" /\ pc'["watch"] = pc["watch"]
      /\ pc' \in [Threads -> {"idle", "save", "write", "list", "store", "sync"}]
  BY <1>1, <1>3, <1>4 DEF TypeOK, Threads
<1>7. TypeOK'
  <2>1. DOMAIN watches' \subseteq issued' /\ \A v \in DOMAIN watches' : watches'[v] \in Entries
    BY <1>3, <1>5 DEF TypeOK
  <2>2. due' \subseteq DOMAIN watches' /\ before' \subseteq due' \X due'
    BY <1>5
  <2>3. /\ DOMAIN file'.doc \subseteq issued' /\ \A v \in DOMAIN file'.doc : file'.doc[v] \in Entries
        /\ file'.whole \in BOOLEAN
    BY <1>2, <1>3 DEF TypeOK
  <2>4. \A t \in Threads : pc'[t] \in {"list", "store", "sync"} => copy'[t] # NoEntry
    BY <1>3, <1>6 DEF TypeOK, Threads
  <2>5. granted' \subseteq Guids \X Peers
    BY <1>1, <1>3 DEF TypeOK
  <2>6. gone' \subseteq issued' /\ restarts' \in 0..MaxRestarts
    BY <1>2, <1>3 DEF TypeOK
  <2>7. pc'["watch"] \notin {"save", "write"}
    BY <1>3, <1>6 DEF TypeOK
  <2> QED BY <1>2, <1>6, <2>1, <2>2, <2>3, <2>4, <2>5, <2>6, <2>7 DEF TypeOK
<1>8. Granted'
  <2>1. AllGranted(watches)'
    <3> SUFFICES ASSUME NEW v \in DOMAIN watches', NEW p \in Trusted(watches'[v])
                 PROVE  <<watches'[v].guid, p>> \in granted'
      BY DEF AllGranted
    <3>1. CASE v = w
      BY <1>1, <1>5, <3>1
    <3>2. CASE v # w
      <4>1. v \in DOMAIN watches /\ watches'[v] = watches[v]
        BY <1>5, <3>2
      <4> QED BY <1>1, <4>1 DEF WInv, Granted, AllGranted
    <3> QED BY <3>1, <3>2
  <2>2. AllGranted(file.doc)'
    BY <1>1, <1>2 DEF WInv, Granted, AllGranted
  <2>3. CopyGranted(copy["cli"])'
    BY <1>1, <1>6 DEF CopyGranted, CopyOf
  <2>4. copy'["watch"] # NoEntry => CopyGranted(copy["watch"])'
    BY <1>1, <1>6 DEF CopyGranted, WInv, Granted, Threads
  <2>5. OnlyNamedPeersAreTrusted'
    <3>1. ASSUME NEW t \in Threads, copy'[t] # NoEntry, copy'[t].from # NoEntry
          PROVE  <<copy'[t].entry.guid, copy'[t].from>> \in granted'
      <4>1. CASE t = "cli"
        BY <1>6, <3>1, <4>1 DEF CopyOf
      <4>2. CASE t = "watch"
        BY <1>1, <1>6, <3>1, <4>2 DEF WInv, Granted, OnlyNamedPeersAreTrusted, Threads
      <4> QED BY <4>1, <4>2 DEF Threads
    <3> QED BY <2>1, <3>1 DEF OnlyNamedPeersAreTrusted, AllGranted
  <2> QED BY <2>1, <2>2, <2>3, <2>4, <2>5 DEF Granted, Threads
<1>9. FileInv'
  <2>1. RemovedStaysRemoved'
    BY <1>2, <1>3, <1>5 DEF WInv, FileInv, RemovedStaysRemoved, TypeOK
  <2> QED BY <1>6, <2>1 DEF FileInv, FileHoldsTheWatches
<1>10. ApartInv'
  <2>1. ASSUME NEW u \in DOMAIN watches', NEW v \in DOMAIN watches',
               u # v, watches'[u].dest = watches'[v].dest
        PROVE  watches'[u].dest = NoPath
    <3>1. CASE u = w
      BY <1>5, <2>1, <3>1
    <3>2. CASE v = w
      BY <1>5, <2>1, <3>2
    <3>3. CASE u # w /\ v # w
      BY <1>5, <2>1, <3>3 DEF WInv, ApartInv, Apart
    <3> QED BY <3>1, <3>2, <3>3
  <2> QED BY <1>2, <2>1 DEF WInv, ApartInv, Apart
<1> QED BY <1>7, <1>8, <1>9, <1>10 DEF WInv

Places == {"idle", "save", "write", "list", "store", "sync"}
CopyFine(c) == CopyGranted(c) /\ (c.from # NoEntry => <<c.entry.guid, c.from>> \in granted)

\* What changes no watch: commands that only run one, the queue, and the steps of a run.
LEMMA CopiesKeep ==
  ASSUME WInv, UNCHANGED <<watches, file, issued, granted, gone>>,
         due' \subseteq DOMAIN watches, before' \subseteq due' \X due',
         commands' \in 0..MaxCommands, restarts' \in 0..MaxRestarts,
         copy' \in [Threads -> Copies \cup {NoEntry}], pc' \in [Threads -> Places],
         pc'["watch"] \notin {"save", "write"},
         \A t \in Threads : pc'[t] \in {"list", "store", "sync"} => copy'[t] # NoEntry,
         \A t \in Threads : copy'[t] # NoEntry => CopyFine(copy'[t]),
         \/ pc'["cli"] = "save" \/ pc'["cli"] = pc["cli"]
         \/ pc["cli"] \notin {"save", "write"} /\ pc'["cli"] \notin {"save", "write"}
  PROVE  WInv'
<1>1. TypeOK'
  BY DEF WInv, TypeOK, Places
<1>2. Granted'
  <2>1. AllGranted(watches)' /\ AllGranted(file.doc)'
    BY DEF WInv, Granted, AllGranted
  <2>2. \A t \in Threads : copy'[t] # NoEntry => CopyGranted(copy[t])'
    BY DEF CopyFine, CopyGranted
  <2>3. OnlyNamedPeersAreTrusted'
    BY <2>1 DEF CopyFine, OnlyNamedPeersAreTrusted, AllGranted
  <2> QED BY <2>1, <2>2, <2>3 DEF Granted
<1>3. FileInv'
  BY DEF WInv, FileInv, FileHoldsTheWatches, RemovedStaysRemoved, Readable, Lasting
<1>4. ApartInv'
  BY DEF WInv, ApartInv, Apart
<1> QED BY <1>1, <1>2, <1>3, <1>4 DEF WInv

\* Copies are fine before the step, and a new copy of a watch is.
LEMMA CopiesAreFine ==
  ASSUME WInv
  PROVE  /\ \A t \in Threads : copy[t] # NoEntry => CopyFine(copy[t]) /\ copy[t] \in Copies
         /\ \A w \in DOMAIN watches :
              /\ CopyOf(w, watches[w]) \in Copies /\ CopyOf(w, watches[w]) # NoEntry
              /\ CopyFine(CopyOf(w, watches[w]))
         /\ \A t \in Threads : pc[t] \in Places
         /\ pc \in [Threads -> Places] /\ copy \in [Threads -> Copies \cup {NoEntry}]
<1>1. TypeOK
  BY DEF WInv
<1>2. ASSUME NEW t \in Threads, copy[t] # NoEntry PROVE CopyFine(copy[t]) /\ copy[t] \in Copies
  BY <1>1, <1>2 DEF WInv, Granted, CopyFine, OnlyNamedPeersAreTrusted, TypeOK
<1>3. ASSUME NEW w \in DOMAIN watches
      PROVE  /\ CopyOf(w, watches[w]) \in Copies /\ CopyOf(w, watches[w]) # NoEntry
             /\ CopyFine(CopyOf(w, watches[w]))
  <2>1. w \in Ids /\ watches[w] \in Entries
    BY <1>1 DEF TypeOK
  <2>2. CopyOf(w, watches[w]) \in Copies
    BY <2>1 DEF CopyOf, Copies
  <2>3. CopyGranted(CopyOf(w, watches[w]))
    BY DEF CopyOf, CopyGranted, WInv, Granted, AllGranted
  <2>4. CopyOf(w, watches[w]).from = NoEntry
    BY DEF CopyOf
  <2> QED BY <2>2, <2>3, <2>4 DEF CopyFine
<1> QED BY <1>1, <1>2, <1>3 DEF TypeOK, Places

LEMMA CommandKeeps ==
  ASSUME WInv, Command,
         Refused \/ (pc["cli"] = "idle" /\ SyncAll) \/ \E w \in Ids : SyncWatch(w)
  PROVE  WInv'
<1>1. TypeOK /\ pc["cli"] = "idle" /\ commands' \in 0..MaxCommands /\ UNCHANGED <<file, gone, restarts>>
  BY DEF Command, WInv, TypeOK
<1>2. CASE Refused
  <2>1. UNCHANGED <<watches, due, before, pc, copy, issued, granted>>
    BY <1>2 DEF Refused, memory, queue
  <2> QED BY <1>1, <2>1, CopiesKeep, CopiesAreFine DEF TypeOK
<1>3. CASE SyncAll
  <2>1. due' \subseteq DOMAIN watches /\ before' \subseteq due' \X due'
    BY <1>1, <1>3, DueTyped DEF SyncAll, TypeOK
  <2>2. UNCHANGED <<watches, copy, issued, granted>> /\ pc' \in {pc, [pc EXCEPT !["cli"] = "save"]}
    BY <1>3 DEF SyncAll
  <2>3. /\ pc' \in [Threads -> Places] /\ pc'["watch"] = pc["watch"]
        /\ pc'["cli"] \in {"save", pc["cli"]}
    BY <1>1, <2>2, CopiesAreFine DEF Threads, Places
  <2>4. \A t \in Threads : pc'[t] \in {"list", "store", "sync"} => copy'[t] # NoEntry
    BY <1>1, <2>2, <2>3 DEF TypeOK, Threads
  <2> QED BY <1>1, <2>1, <2>2, <2>3, <2>4, CopiesKeep, CopiesAreFine DEF TypeOK
<1>4. ASSUME NEW w \in Ids, SyncWatch(w) PROVE WInv'
  <2>1. /\ w \in DOMAIN watches /\ UNCHANGED <<watches, due, before, issued, granted>>
        /\ copy' = [copy EXCEPT !["cli"] = CopyOf(w, watches[w])]
        /\ pc' = [pc EXCEPT !["cli"] = "list"]
    BY <1>4 DEF SyncWatch, queue
  <2>2. /\ pc' \in [Threads -> Places] /\ pc'["watch"] = pc["watch"] /\ pc'["cli"] = "list"
        /\ copy'["cli"] = CopyOf(w, watches[w]) /\ copy'["watch"] = copy["watch"]
        /\ copy' \in [Threads -> Copies \cup {NoEntry}]
    BY <2>1, CopiesAreFine DEF Threads, Places
  <2>3. \A t \in Threads : copy'[t] # NoEntry => CopyFine(copy'[t])
    BY <2>1, <2>2, CopiesAreFine DEF Threads
  <2>4. \A t \in Threads : pc'[t] \in {"list", "store", "sync"} => copy'[t] # NoEntry
    BY <1>1, <2>1, <2>2, CopiesAreFine DEF TypeOK, Threads
  <2> QED BY <1>1, <2>1, <2>2, <2>3, <2>4, CopiesKeep DEF TypeOK
<1> QED BY <1>2, <1>3, <1>4

LEMMA PickKeeps ==
  ASSUME WInv, Pick
  PROVE  WInv'
<1>1. TypeOK
  BY DEF WInv
<1>2. PICK w \in due : /\ copy' = [copy EXCEPT !["watch"] = CopyOf(w, watches[w])]
                       /\ NotDue({w})
  BY DEF Pick
<1>3. /\ pc["watch"] = "idle" /\ pc' = [pc EXCEPT !["watch"] = "list"]
      /\ UNCHANGED <<watches, file, issued, granted, gone, commands, restarts>>
  BY DEF Pick
<1>4. w \in DOMAIN watches /\ due' \subseteq DOMAIN watches /\ before' \subseteq due' \X due'
  BY <1>1, <1>2, DueTyped DEF TypeOK
<1>5. /\ pc' \in [Threads -> Places] /\ pc'["cli"] = pc["cli"] /\ pc'["watch"] = "list"
      /\ copy'["watch"] = CopyOf(w, watches[w]) /\ copy'["cli"] = copy["cli"]
      /\ copy' \in [Threads -> Copies \cup {NoEntry}]
  BY <1>2, <1>3, <1>4, CopiesAreFine DEF Threads, Places
<1>6. \A t \in Threads : copy'[t] # NoEntry => CopyFine(copy'[t])
  BY <1>4, <1>5, CopiesAreFine DEF Threads
<1>7. \A t \in Threads : pc'[t] \in {"list", "store", "sync"} => copy'[t] # NoEntry
  BY <1>1, <1>4, <1>5, CopiesAreFine DEF TypeOK, Threads
<1> QED BY <1>1, <1>3, <1>4, <1>5, <1>6, <1>7, CopiesKeep DEF TypeOK

LEMMA DueKeeps ==
  ASSUME WInv, NEW w \in Ids, BecomesDue(w)
  PROVE  WInv'
<1>1. TypeOK
  BY DEF WInv
<1>2. due' \subseteq DOMAIN watches /\ before' \subseteq due' \X due'
  BY <1>1, DueTyped DEF BecomesDue, TypeOK
<1> QED BY <1>1, <1>2, CopiesKeep, CopiesAreFine DEF BecomesDue, TypeOK

\* The answer to a listing comes from a trusted peer.
LEMMA ListKeeps ==
  ASSUME WInv, NEW t \in Threads, List(t)
  PROVE  WInv'
<1>1. TypeOK /\ pc[t] = "list" /\ copy[t] # NoEntry /\ copy[t] \in Copies /\ CopyFine(copy[t])
  BY CopiesAreFine DEF WInv, List, TypeOK
<1>2. /\ UNCHANGED <<watches, due, before, file, issued, granted, gone, commands, restarts>>
  BY DEF List, queue
<1>3. due' \subseteq DOMAIN watches /\ before' \subseteq due' \X due'
      /\ commands' \in 0..MaxCommands /\ restarts' \in 0..MaxRestarts
  BY <1>1, <1>2 DEF TypeOK
<1>4. CASE pc' = [pc EXCEPT ![t] = "sync"] /\ UNCHANGED copy
  <2>1. /\ pc' \in [Threads -> Places] /\ pc'[t] = "sync" /\ \A u \in Threads \ {t} : pc'[u] = pc[u]
    BY <1>4, CopiesAreFine DEF Places
  <2>2. pc'["watch"] \notin {"save", "write"}
    BY <1>1, <2>1 DEF TypeOK, Threads
  <2>3. \A u \in Threads : pc'[u] \in {"list", "store", "sync"} => copy'[u] # NoEntry
    BY <1>1, <1>4, <2>1 DEF TypeOK
  <2>4. \/ pc'["cli"] = pc["cli"]
        \/ pc["cli"] \notin {"save", "write"} /\ pc'["cli"] \notin {"save", "write"}
    BY <1>1, <2>1 DEF Threads
  <2> QED BY <1>2, <1>3, <1>4, <2>1, <2>2, <2>3, <2>4, CopiesKeep, CopiesAreFine
<1>5. ASSUME NEW p \in Asked(copy[t].entry), NEW o \in {p, Origin[copy[t].entry.guid]},
             copy' = [copy EXCEPT ![t].entry.origin = o, ![t].from = p],
             pc' = [pc EXCEPT ![t] = "store"]
      PROVE  WInv'
  <2> DEFINE e == copy[t].entry
             f == [e EXCEPT !.origin = o]
             c == [copy[t] EXCEPT !.entry.origin = o, !.from = p]
  <2>1. e \in Entries /\ e.guid \in Guids
    BY <1>1 DEF Copies, Entries
  <2>2. p \in Trusted(e) /\ p \in Peers
    BY <2>1, FirstIsTrusted DEF Asked
  <2>3. o \in Peers
    BY <2>1, <2>2
  <2>4. f \in Entries /\ Trusted(f) = Trusted(e) /\ f.guid = e.guid
    BY <2>1, <2>3, OtherOrigin
  <2>5. copy' = [copy EXCEPT ![t] = c]
    <3>1. copy \in [Threads -> Copies \cup {NoEntry}]
      BY CopiesAreFine
    <3> QED BY <1>5, <3>1, Zenon
  <2> HIDE DEF f
  <2>5a. c.entry = f /\ c.from = p /\ c \in Copies
    BY <1>1, <2>2, <2>4 DEF Copies, f
  <2>6. c \in Copies /\ c # NoEntry /\ CopyFine(c)
    <3>1. \A q \in Trusted(e) : <<e.guid, q>> \in granted
      BY <1>1 DEF CopyFine, CopyGranted
    <3> HIDE DEF c
    <3> QED BY <2>2, <2>4, <2>5a, <3>1 DEF CopyFine, CopyGranted
  <2> HIDE DEF c
  <2>7. /\ copy' \in [Threads -> Copies \cup {NoEntry}] /\ copy'[t] = c
        /\ pc' \in [Threads -> Places] /\ pc'[t] = "store"
        /\ \A u \in Threads \ {t} : pc'[u] = pc[u] /\ copy'[u] = copy[u]
    BY <1>5, <2>5, <2>6, CopiesAreFine DEF Places
  <2>8. \A u \in Threads : copy'[u] # NoEntry => CopyFine(copy'[u])
    BY <2>6, <2>7, CopiesAreFine
  <2>9. /\ pc'["watch"] \notin {"save", "write"}
        /\ \A u \in Threads : pc'[u] \in {"list", "store", "sync"} => copy'[u] # NoEntry
    BY <1>1, <2>6, <2>7 DEF TypeOK, Threads
  <2>10. \/ pc'["cli"] = pc["cli"]
         \/ pc["cli"] \notin {"save", "write"} /\ pc'["cli"] \notin {"save", "write"}
    BY <1>1, <2>7 DEF Threads
  <2> QED BY <1>2, <1>3, <2>7, <2>8, <2>9, <2>10, CopiesKeep
<1> QED BY <1>4, <1>5 DEF List

LEMMA SyncKeeps ==
  ASSUME WInv, NEW t \in Threads, Sync(t)
  PROVE  WInv'
<1>1. /\ TypeOK /\ pc[t] = "sync"
      /\ UNCHANGED <<watches, due, before, file, issued, granted, gone, commands, restarts>>
  BY DEF WInv, Sync, queue
<1>2. /\ copy' \in [Threads -> Copies \cup {NoEntry}] /\ copy'[t] = NoEntry
      /\ pc' \in [Threads -> Places] /\ pc'[t] = "idle"
      /\ \A u \in Threads \ {t} : pc'[u] = pc[u] /\ copy'[u] = copy[u]
  BY CopiesAreFine DEF Sync, Places
<1>3. \A u \in Threads : copy'[u] # NoEntry => CopyFine(copy'[u])
  BY <1>1, <1>2, CopiesAreFine
<1>4. /\ pc'["watch"] \notin {"save", "write"}
      /\ \A u \in Threads : pc'[u] \in {"list", "store", "sync"} => copy'[u] # NoEntry
  BY <1>1, <1>2 DEF TypeOK, Threads
<1>5. \/ pc'["cli"] = pc["cli"]
      \/ pc["cli"] \notin {"save", "write"} /\ pc'["cli"] \notin {"save", "write"}
  BY <1>1, <1>2 DEF Threads
<1> QED BY <1>1, <1>2, <1>3, <1>4, <1>5, CopiesKeep DEF TypeOK

\* Only the origin of one watch changes, if the watch is still there.
LEMMA StoreKeeps ==
  ASSUME WInv, NEW t \in Threads, StoreOrigin(t)
  PROVE  WInv'
<1> DEFINE w == copy[t].id
           o == copy[t].entry.origin
<1>1. /\ TypeOK /\ pc[t] = "store" /\ copy[t] \in Copies
      /\ UNCHANGED <<due, before, copy, file, issued, granted, gone, commands, restarts>>
      /\ pc' = [pc EXCEPT ![t] = "sync"]
  BY CopiesAreFine DEF WInv, StoreOrigin, TypeOK, queue
<1>2. o \in Peers
  BY <1>1 DEF Copies, Entries
<1>3. watches' = IF w \in DOMAIN watches THEN [watches EXCEPT ![w].origin = o] ELSE watches
  BY DEF StoreOrigin
<1>4. /\ DOMAIN watches' = DOMAIN watches
      /\ \A v \in DOMAIN watches :
           watches'[v] = watches[v] \/ watches'[v] = [watches[v] EXCEPT !.origin = o]
  BY <1>3
<1> HIDE DEF w, o
<1>5. ASSUME NEW v \in DOMAIN watches
      PROVE  /\ watches'[v] \in Entries /\ Trusted(watches'[v]) = Trusted(watches[v])
             /\ watches'[v].guid = watches[v].guid /\ watches'[v].dest = watches[v].dest
             /\ watches'[v].sources = watches[v].sources
  <2>1. watches[v] \in Entries
    BY <1>1 DEF TypeOK
  <2>2. CASE watches'[v] = watches[v]
    BY <2>1, <2>2
  <2>3. CASE watches'[v] = [watches[v] EXCEPT !.origin = o]
    BY <1>2, <2>1, <2>3, OtherOrigin
  <2> QED BY <1>4, <2>2, <2>3
<1>6. /\ pc' \in [Threads -> Places] /\ pc'[t] = "sync" /\ \A u \in Threads \ {t} : pc'[u] = pc[u]
  BY <1>1, CopiesAreFine DEF Places
<1>7. TypeOK'
  <2>1. \A u \in Threads : pc'[u] \in {"list", "store", "sync"} => copy'[u] # NoEntry
    BY <1>1, <1>6 DEF TypeOK
  <2>2. pc'["watch"] \notin {"save", "write"}
    BY <1>1, <1>6 DEF TypeOK, Threads
  <2>3. due' \subseteq DOMAIN watches' /\ before' \subseteq due' \X due'
        /\ DOMAIN watches' \subseteq issued' /\ \A v \in DOMAIN watches' : watches'[v] \in Entries
    BY <1>1, <1>4, <1>5 DEF TypeOK
  <2> QED BY <1>1, <1>6, <2>1, <2>2, <2>3 DEF TypeOK, Places
<1>8. Granted'
  <2>1. AllGranted(watches)'
    BY <1>1, <1>4, <1>5 DEF AllGranted, WInv, Granted
  <2>2. AllGranted(file.doc)' /\ \A u \in Threads : copy'[u] # NoEntry => CopyGranted(copy[u])'
    BY <1>1 DEF AllGranted, CopyGranted, WInv, Granted
  <2>3. OnlyNamedPeersAreTrusted'
    BY <1>1, <2>1 DEF AllGranted, OnlyNamedPeersAreTrusted, WInv, Granted
  <2> QED BY <2>1, <2>2, <2>3 DEF Granted
<1>9. FileInv'
  <2>1. Lasting(watches') = Lasting(watches)
    BY <1>4, <1>5, LastingSame
  <2>2. \/ pc'["cli"] = pc["cli"]
        \/ pc["cli"] \notin {"save", "write"} /\ pc'["cli"] \notin {"save", "write"}
    BY <1>1, <1>6 DEF Threads
  <2>3. pc'["cli"] = "write" => Lasting(file'.doc) = Lasting(watches')
    BY <1>1, <2>1, <2>2 DEF WInv, FileInv
  <2>4. Readable(file') = Readable(file)
    BY <1>1
  <2>5. FileHoldsTheWatches'
    BY <2>1, <2>2, <2>4 DEF WInv, FileInv, FileHoldsTheWatches
  <2>6. RemovedStaysRemoved'
    BY <1>1, <1>4 DEF WInv, FileInv, RemovedStaysRemoved
  <2> QED BY <2>3, <2>5, <2>6 DEF FileInv
<1>10. ApartInv'
  BY <1>1, <1>4, <1>5 DEF WInv, ApartInv, Apart
<1> QED BY <1>7, <1>8, <1>9, <1>10 DEF WInv

LEMMA SaveKeeps ==
  ASSUME WInv, Save
  PROVE  WInv'
<1>1. /\ TypeOK /\ pc["cli"] = "save"
      /\ file' = [doc |-> watches, whole |-> FALSE]
      /\ UNCHANGED <<watches, due, before, copy, issued, granted, gone, commands, restarts>>
  BY DEF WInv, Save, queue
<1>2. /\ pc' \in [Threads -> Places] /\ pc'["cli"] = "write" /\ pc'["watch"] = pc["watch"]
  BY CopiesAreFine DEF Save, Places, Threads
<1>3. TypeOK'
  <2>1. \A u \in Threads : pc'[u] \in {"list", "store", "sync"} => copy'[u] # NoEntry
    BY <1>1, <1>2 DEF TypeOK, Threads
  <2> QED BY <1>1, <1>2, <2>1 DEF TypeOK, Places
<1>4. Granted'
  BY <1>1 DEF WInv, Granted, AllGranted, CopyGranted, OnlyNamedPeersAreTrusted
<1>5. FileInv'
  BY <1>1, <1>2 DEF WInv, FileInv, FileHoldsTheWatches, RemovedStaysRemoved, Lasting
<1>6. ApartInv'
  BY <1>1 DEF WInv, ApartInv, Apart
<1> QED BY <1>3, <1>4, <1>5, <1>6 DEF WInv

LEMMA WriteKeeps ==
  ASSUME WInv, Write
  PROVE  WInv'
<1>1. /\ TypeOK /\ pc["cli"] = "write"
      /\ file' = [file EXCEPT !.whole = TRUE] /\ gone' = issued \ DOMAIN file.doc
      /\ pc' = [pc EXCEPT !["cli"] = IF copy["cli"] = NoEntry THEN "idle" ELSE "list"]
      /\ UNCHANGED <<watches, due, before, copy, issued, granted, commands, restarts>>
  BY DEF WInv, Write, queue
<1>2. /\ pc' \in [Threads -> Places] /\ pc'["watch"] = pc["watch"]
      /\ pc'["cli"] = IF copy["cli"] = NoEntry THEN "idle" ELSE "list"
  BY <1>1, CopiesAreFine DEF Places, Threads
<1>3. file'.doc = file.doc /\ file'.whole = TRUE
  BY <1>1 DEF TypeOK
<1>4. TypeOK'
  <2>1. \A u \in Threads : pc'[u] \in {"list", "store", "sync"} => copy'[u] # NoEntry
    BY <1>1, <1>2 DEF TypeOK, Threads
  <2> QED BY <1>1, <1>2, <1>3, <2>1 DEF TypeOK, Places
<1>5. Granted'
  BY <1>1, <1>3 DEF WInv, Granted, AllGranted, CopyGranted, OnlyNamedPeersAreTrusted
<1>6. Lasting(file.doc) = Lasting(watches) /\ DOMAIN file.doc = DOMAIN watches
  BY <1>1, LastingDomain DEF WInv, FileInv
<1>7. FileInv'
  <2>1. Readable(file') = file.doc
    BY <1>3 DEF Readable
  <2>2. FileHoldsTheWatches'
    BY <1>1, <1>6, <2>1 DEF FileHoldsTheWatches, Lasting
  <2>3. RemovedStaysRemoved'
    BY <1>1, <1>3, <1>6 DEF RemovedStaysRemoved
  <2> QED BY <1>2, <2>2, <2>3 DEF FileInv
<1>8. ApartInv'
  BY <1>1, <1>3 DEF WInv, ApartInv, Apart
<1> QED BY <1>4, <1>5, <1>7, <1>8 DEF WInv

-----------------------------------------------------------------------------
\* The commands that change watches.
LEMMA TargetsTyped ==
  ASSUME NEW r \in Targets
  PROVE  /\ Source(r) \in Sources /\ Source(r).peer = r.peer
         /\ r.guid \in Guids /\ r.peer \in Peers /\ Origins(r) \subseteq Peers
BY DEF Source, Sources, Origins

LEMMA NewEntry ==
  ASSUME NEW r \in Targets, NEW o \in Origins(r), NEW d \in Paths \cup {NoPath}
  PROVE  LET e == [guid |-> r.guid, sources |-> <<Source(r)>>, origin |-> o, dest |-> d]
         IN  e \in Entries /\ Trusted(e) = {r.peer} /\ e.guid = r.guid /\ e.dest = d
<1> DEFINE e == [guid |-> r.guid, sources |-> <<Source(r)>>, origin |-> o, dest |-> d]
<1>1. <<Source(r)>> \in Seq(Sources) /\ <<Source(r)>> # << >>
  BY TargetsTyped
<1>2. e \in Entries
  BY <1>1, TargetsTyped DEF Entries
<1>3. Trusted(e) = {r.peer}
  BY TargetsTyped, OneSource
<1> QED BY <1>2, <1>3

LEMMA AddKeeps ==
  ASSUME WInv, NEW r \in Targets, NEW d \in Paths \cup {NoPath}, Add(r, d)
  PROVE  WInv'
<1>1. TypeOK /\ Command
  BY DEF WInv, Add
<1>2. CASE Refused
  BY <1>1, <1>2, CommandKeeps
<1>3. ASSUME NEW w \in DOMAIN watches, watches[w].guid = r.guid,
             NEW o \in Origins(r), Trust(w, r, o), ~ Refused
      PROVE  WInv'
  <2> DEFINE f == [watches[w] EXCEPT !.sources = Append(@, Source(r)), !.origin = o]
  <2>1. Change(w, f, r) /\ Due(w) /\ issued' = issued
    BY <1>3 DEF Trust
  <2>2. w \in issued /\ watches[w] \in Entries
    BY <1>1 DEF TypeOK
  <2>3. /\ f \in Entries /\ Trusted(f) = Trusted(watches[w]) \cup {r.peer}
        /\ f.guid = watches[w].guid /\ f.dest = watches[w].dest
    <3>1. Source(r) \in Sources /\ Source(r).peer = r.peer /\ o \in Peers
      BY TargetsTyped
    <3>2. /\ f.sources = Append(watches[w].sources, Source(r))
          /\ f.guid = watches[w].guid /\ f.dest = watches[w].dest
      BY <2>2 DEF Entries
    <3> HIDE DEF f
    <3>3. /\ Trusted(f) = Trusted(watches[w]) \cup {Source(r).peer}
          /\ f.sources \in Seq(Sources) /\ f.sources # << >>
      BY <2>2, <3>1, <3>2, OneMoreSource
    <3>4. f \in Entries
      BY <2>2, <3>1, <3>3 DEF Entries, f
    <3> QED BY <3>1, <3>2, <3>3, <3>4
  <2> HIDE DEF f
  <2>4. due' \subseteq DOMAIN watches /\ before' \subseteq due' \X due'
    BY <1>1, <2>1, DueTyped DEF TypeOK
  <2>5. \A p \in Trusted(f) : <<f.guid, p>> \in granted \cup {<<r.guid, r.peer>>}
    BY <1>3, <2>3 DEF WInv, Granted, AllGranted
  <2>6. \A v \in DOMAIN watches \ {w} : f.dest = NoPath \/ watches[v].dest # f.dest
    BY <2>3 DEF WInv, ApartInv, Apart
  <2> QED BY <1>1, <2>1, <2>2, <2>3, <2>4, <2>5, <2>6, ChangeKeeps DEF TypeOK
<1>4. ASSUME NEW m, NEW o \in Origins(r), Fresh(r, d, o),
             \A v \in DOMAIN watches : Canonical(m, watches[v]) # Requested(m, r, d)
                                       \/ Requested(m, r, d) = NoPath
      PROVE  WInv'
  <2> DEFINE e == [guid |-> r.guid, sources |-> <<Source(r)>>, origin |-> o, dest |-> d]
  <2>1. PICK w \in Ids \ issued : Change(w, e, r) /\ issued' = issued \cup {w} /\ UNCHANGED queue
    BY <1>4 DEF Fresh
  <2>2. e \in Entries /\ Trusted(e) = {r.peer} /\ e.guid = r.guid /\ e.dest = d
    BY NewEntry
  <2> HIDE DEF e
  <2>3. due' \subseteq DOMAIN watches /\ before' \subseteq due' \X due'
    BY <1>1, <2>1 DEF TypeOK, queue
  <2>4. \A v \in DOMAIN watches : d = NoPath \/ watches[v].dest # d
    BY <1>4 DEF Canonical, Requested
  <2>5. issued' \subseteq Ids /\ w \in issued'
    BY <1>1, <2>1 DEF TypeOK
  <2> QED BY <1>1, <2>1, <2>2, <2>3, <2>4, <2>5, ChangeKeeps
<1>5. PICK m \in Mappings, o \in Origins(r) :
        LET dest == Requested(m, r, d)
            clash == {w \in DOMAIN watches : dest # NoPath /\ Canonical(m, watches[w]) = dest
                                             /\ watches[w].guid # r.guid}
            same == {w \in DOMAIN watches : Canonical(m, watches[w]) = dest
                                            /\ watches[w].guid = r.guid}
        IN \/ clash # {} /\ Refused
           \/ \E w \in same : Trust(w, r, o)
           \/ clash = {} /\ same = {} /\ Fresh(r, d, o)
  BY DEF Add
<1>6. CASE \E w \in DOMAIN watches : watches[w].guid = r.guid /\ Trust(w, r, o)
  BY <1>2, <1>3, <1>6
<1>7. CASE /\ Fresh(r, d, o)
           /\ \A v \in DOMAIN watches : Canonical(m, watches[v]) # Requested(m, r, d)
                                        \/ Requested(m, r, d) = NoPath
  BY <1>4, <1>7
<1> QED BY <1>2, <1>5, <1>6, <1>7

LEMMA SetKeeps ==
  ASSUME WInv, NEW w \in Ids, NEW r \in Targets, NEW d \in Paths \cup {NoPath}, SetWatch(w, r, d)
  PROVE  WInv'
<1>1. TypeOK /\ Command /\ w \in DOMAIN watches
  BY DEF WInv, SetWatch
<1>2. CASE Refused
  BY <1>1, <1>2, CommandKeeps
<1>3. CASE ~ Refused
  <2> DEFINE x == IF d = NoPath THEN watches[w].dest ELSE d
  <2>1. PICK m \in Mappings, o \in Origins(r) :
          /\ ~ ( d # NoPath /\ ( \/ watches[w].dest \notin {NoPath, d}
                                 \/ \E v \in DOMAIN watches \ {w} : Canonical(m, watches[v]) = d ) )
          /\ Change(w, [guid |-> r.guid, sources |-> <<Source(r)>>, origin |-> o, dest |-> x], r)
          /\ Due(w) /\ UNCHANGED issued
    BY <1>3 DEF SetWatch
  <2>2. w \in issued /\ watches[w] \in Entries /\ watches[w].dest \in Paths \cup {NoPath}
    BY <1>1 DEF TypeOK, Entries
  <2>3. x \in Paths \cup {NoPath}
    BY <2>2
  <2>4. \A v \in DOMAIN watches \ {w} : x = NoPath \/ watches[v].dest # x
    <3>1. CASE d = NoPath
      BY <1>1, <3>1 DEF WInv, ApartInv, Apart
    <3>2. CASE d # NoPath
      BY <2>1, <3>2 DEF Canonical
    <3> QED BY <3>1, <3>2
  <2>5. due' \subseteq DOMAIN watches /\ before' \subseteq due' \X due'
    BY <1>1, <2>1, DueTyped DEF TypeOK
  <2> HIDE DEF x
  <2> DEFINE e == [guid |-> r.guid, sources |-> <<Source(r)>>, origin |-> o, dest |-> x]
  <2>6. Change(w, e, r) /\ issued' = issued
    BY <2>1
  <2>7. e \in Entries /\ Trusted(e) = {r.peer} /\ e.guid = r.guid /\ e.dest = x
    BY <2>3, NewEntry
  <2> HIDE DEF e
  <2> QED BY <1>1, <2>2, <2>4, <2>5, <2>6, <2>7, ChangeKeeps DEF TypeOK
<1> QED BY <1>2, <1>3

LEMMA RemoveKeeps ==
  ASSUME WInv, NEW S, Remove(S)
  PROVE  WInv'
<1>1. /\ TypeOK /\ pc["cli"] = "idle" /\ commands' \in 0..MaxCommands
      /\ UNCHANGED <<file, copy, issued, granted, gone, restarts>>
  BY DEF WInv, Remove, Command, TypeOK
<1>2. /\ DOMAIN watches' = DOMAIN watches \ S
      /\ \A w \in DOMAIN watches' : watches'[w] = watches[w]
  BY DEF Remove, Drop, Without
<1>3. due' \subseteq DOMAIN watches' /\ before' \subseteq due' \X due'
  BY <1>1, <1>2, DueTyped DEF Remove, Drop, TypeOK
<1>4. /\ pc' \in [Threads -> Places] /\ pc'["cli"] = "save" /\ pc'["watch"] = pc["watch"]
  BY CopiesAreFine DEF Remove, Places, Threads
<1>5. TypeOK'
  <2>1. \A u \in Threads : pc'[u] \in {"list", "store", "sync"} => copy'[u] # NoEntry
    BY <1>1, <1>4 DEF TypeOK, Threads
  <2>2. DOMAIN watches' \subseteq issued' /\ \A w \in DOMAIN watches' : watches'[w] \in Entries
    BY <1>1, <1>2 DEF TypeOK
  <2> QED BY <1>1, <1>3, <1>4, <2>1, <2>2 DEF TypeOK, Places
<1>6. Granted'
  BY <1>1, <1>2 DEF WInv, Granted, AllGranted, CopyGranted, OnlyNamedPeersAreTrusted
<1>7. FileInv'
  BY <1>1, <1>2, <1>4 DEF WInv, FileInv, FileHoldsTheWatches, RemovedStaysRemoved
<1>8. ApartInv'
  BY <1>1, <1>2 DEF WInv, ApartInv, Apart
<1> QED BY <1>5, <1>6, <1>7, <1>8 DEF WInv

\* The file, whole or not, gives back what it holds.
LEMMA RestartKeeps ==
  ASSUME WInv, Restart
  PROVE  WInv'
<1> DEFINE ws == Readable(file)
<1>1. /\ TypeOK /\ restarts' \in 0..MaxRestarts
      /\ UNCHANGED <<file, issued, granted, gone, commands>>
      /\ pc' = [t \in Threads |-> "idle"] /\ copy' = [t \in Threads |-> NoEntry]
      /\ AllDue(DOMAIN ws)
      /\ watches' = [w \in DOMAIN ws |-> Loaded(ws[w])]
  BY DEF WInv, Restart, TypeOK
<1>2. /\ DOMAIN ws \subseteq DOMAIN file.doc
      /\ \A w \in DOMAIN ws : ws[w] = file.doc[w] /\ ws[w] \in Entries
  BY <1>1 DEF Readable, NoWatches, TypeOK
<1> HIDE DEF ws
<1>3. /\ DOMAIN watches' = DOMAIN ws
      /\ \A w \in DOMAIN ws :
           /\ watches'[w] \in Entries /\ Trusted(watches'[w]) = Trusted(file.doc[w])
           /\ watches'[w].guid = ws[w].guid /\ watches'[w].dest = ws[w].dest
           /\ watches'[w].sources = ws[w].sources
  BY <1>1, <1>2, LoadedKeeps
<1>4. TypeOK'
  BY <1>1, <1>2, <1>3 DEF TypeOK, AllDue, Threads
<1>5. Granted'
  BY <1>1, <1>2, <1>3 DEF WInv, Granted, AllGranted, OnlyNamedPeersAreTrusted
<1>6. FileInv'
  <2>1. Lasting(watches') = Lasting(ws)
    BY <1>3, LastingSame
  <2>2. Readable(file') = ws
    BY <1>1 DEF ws
  <2>3. RemovedStaysRemoved'
    BY <1>1, <1>2, <1>3 DEF WInv, FileInv, RemovedStaysRemoved
  <2>4. pc'["cli"] = "idle"
    BY <1>1 DEF Threads
  <2> QED BY <2>1, <2>2, <2>3, <2>4 DEF FileInv, FileHoldsTheWatches
<1>7. ApartInv'
  BY <1>1, <1>2, <1>3 DEF WInv, ApartInv, Apart
<1> QED BY <1>4, <1>5, <1>6, <1>7 DEF WInv

LEMMA InitHolds ==
  ASSUME Init
  PROVE  WInv
<1>1. /\ file.doc = Saved /\ file.whole = TRUE /\ Readable(file) = Saved
      /\ watches = [w \in DOMAIN Saved |-> Loaded(Saved[w])]
      /\ pc = [t \in Threads |-> "idle"] /\ copy = [t \in Threads |-> NoEntry]
      /\ issued = DOMAIN Saved /\ gone = {} /\ commands = 0 /\ restarts = 0
      /\ due = DOMAIN Saved /\ before = {}
      /\ granted = UNION {{Saved[w].guid} \X Trusted(Saved[w]) : w \in DOMAIN Saved}
  BY DEF Init, Readable
<1>2. /\ DOMAIN watches = DOMAIN Saved
      /\ \A w \in DOMAIN Saved :
           /\ Saved[w] \in Entries
           /\ watches[w] \in Entries /\ Trusted(watches[w]) = Trusted(Saved[w])
           /\ watches[w].guid = Saved[w].guid /\ watches[w].dest = Saved[w].dest
           /\ watches[w].sources = Saved[w].sources
  BY <1>1, LoadedKeeps
<1>3. TypeOK
  <2>1. ASSUME NEW w \in DOMAIN Saved
        PROVE  Saved[w].guid \in Guids /\ Trusted(Saved[w]) \subseteq Peers
    BY <1>2, FirstIsTrusted DEF Entries
  <2>2. granted \subseteq Guids \X Peers
    BY <1>1, <2>1
  <2>3. /\ DOMAIN watches \subseteq issued /\ \A w \in DOMAIN watches : watches[w] \in Entries
        /\ DOMAIN file.doc \subseteq issued /\ \A w \in DOMAIN file.doc : file.doc[w] \in Entries
        /\ due \subseteq DOMAIN watches /\ before \subseteq due \X due
        /\ issued \subseteq Ids /\ gone \subseteq issued
    BY <1>1, <1>2
  <2>4. /\ pc \in [Threads -> Places] /\ copy \in [Threads -> Copies \cup {NoEntry}]
        /\ \A t \in Threads : pc[t] = "idle"
    BY <1>1 DEF Places
  <2>5. file.whole \in BOOLEAN
    BY <1>1, Zenon
  <2>6. commands \in 0..MaxCommands /\ restarts \in 0..MaxRestarts
    BY <1>1
  <2> QED BY <2>2, <2>3, <2>4, <2>5, <2>6 DEF TypeOK, Threads, Places
<1>4. Granted
  BY <1>1, <1>2 DEF Granted, AllGranted, OnlyNamedPeersAreTrusted
<1>5. FileInv
  <2>1. Lasting(watches) = Lasting(Saved)
    BY <1>2, LastingSame
  <2> QED BY <1>1, <2>1 DEF FileInv, FileHoldsTheWatches, RemovedStaysRemoved, Threads
<1>6. ApartInv
  BY <1>1, <1>2 DEF ApartInv, Apart
<1> QED BY <1>3, <1>4, <1>5, <1>6 DEF WInv

-----------------------------------------------------------------------------
THEOREM WatchesInvariance == Spec => []WInv
<1>1. WInv /\ [Next]_vars => WInv'
  <2> SUFFICES ASSUME WInv, [Next]_vars PROVE WInv'
    OBVIOUS
  <2>1. CASE UNCHANGED vars
    <3>1. UNCHANGED <<watches, due, before, pc, copy, file, issued, granted, gone, commands, restarts>>
      BY <2>1 DEF vars, memory, queue
    <3>2. TypeOK
      BY DEF WInv
    <3> QED BY <3>1, <3>2, CopiesKeep, CopiesAreFine DEF TypeOK
  <2>2. ASSUME NEW r \in Targets, NEW d \in Paths \cup {NoPath},
               Add(r, d) \/ \E w \in Ids : SetWatch(w, r, d)
        PROVE  WInv'
    BY <2>2, AddKeeps, SetKeeps
  <2>3. CASE RemoveSome
    BY <2>3, RemoveKeeps DEF RemoveSome
  <2>4. CASE SyncAll
    BY <2>4, CommandKeeps DEF SyncAll, Command
  <2>5. CASE \E w \in Ids : SyncWatch(w)
    BY <2>5, CommandKeeps DEF SyncWatch
  <2>6. ASSUME NEW t \in Threads, RunStep(t) PROVE WInv'
    BY <2>6, ListKeeps, StoreKeeps, SyncKeeps DEF RunStep
  <2>7. CASE \E w \in Ids : BecomesDue(w)
    BY <2>7, DueKeeps
  <2> QED BY <2>1, <2>2, <2>3, <2>4, <2>5, <2>6, <2>7, SaveKeeps, WriteKeeps, PickKeeps,
             RestartKeeps DEF Next
<1> QED BY <1>1, InitHolds, PTL DEF Spec

\* Every variable keeps its type.
THEOREM WatchesTypeCorrect == Spec => []TypeOK
BY WatchesInvariance, PTL DEF WInv

\* No peer is trusted, and no listing used, that no command named for the directory.
THEOREM TrustIsGiven == Spec => []OnlyNamedPeersAreTrusted
BY WatchesInvariance, PTL DEF WInv, Granted

\* A removal that was saved lasts.
THEOREM RemovalsLast == Spec => []RemovedStaysRemoved
BY WatchesInvariance, PTL DEF WInv, FileInv

\* Between commands watches.json holds the watches in memory.
THEOREM FileKeepsUp == Spec => []FileHoldsTheWatches
BY WatchesInvariance, PTL DEF WInv, FileInv

\* No two watches have one given destination.
THEOREM DestinationsStayApart == Spec => []DestinationsApart
BY WatchesInvariance, PTL DEF WInv, ApartInv, DestinationsApart

-----------------------------------------------------------------------------
\* The due watches that may be picked before w.
Ahead(w) == {v \in due \ {w} : <<w, v>> \notin before}

\* watch_loop finds a watch with the least next_run whenever one is due.
SomeWatchIsNext == due # {} => \E w \in due : \A v \in due : <<v, w>> \notin before

\* No watch is overtaken: once w is due, nothing comes before it that was not before
\* it already, and each run of another watch takes one of those away, however often
\* intervals pass and commands change other watches.  Only a restart, a sync of all
\* watches and a command that changes w itself put it in line anew.
LinesUp(w) == \/ restarts' # restarts
              \/ commands' # commands /\ due' = DOMAIN watches' /\ before' = {}
              \/ commands' # commands /\ copy'["cli"] = CopyOf(w, watches'[w])
QueueIsFair ==
  [][\A w \in due :
       \/ LinesUp(w)
       \/ w \notin DOMAIN watches'
       \/ copy'["watch"] = CopyOf(w, watches[w])
       \/ /\ w \in due' /\ Ahead(w)' \subseteq Ahead(w)
          /\ pc["watch"] = "idle" /\ pc'["watch"] = "list" => Ahead(w)' # Ahead(w)]_vars

\* next_run orders the due watches, and there are finitely many.
Ordered ==
  /\ \A v \in due : <<v, v>> \notin before
  /\ \A u, v, w \in due : <<u, v>> \in before /\ <<v, w>> \in before => <<u, w>> \in before

QueueInv == Ordered /\ IsFiniteSet(issued)

LEMMA QueueTyped == TypeOK => before \subseteq due \X due /\ due \subseteq DOMAIN watches
BY DEF TypeOK

\* What the three changes of the queue make of the pairs in it.
LEMMA DuePairs ==
  ASSUME before \subseteq due \X due, NEW w, Due(w)
  PROVE  /\ due' = due \cup {w}
         /\ \A u, v \in due' : <<u, v>> \in before' <=>
              \/ <<u, v>> \in before /\ u # w /\ v # w
              \/ u # w /\ v = w
BY DEF Due

LEMMA NotDuePairs ==
  ASSUME before \subseteq due \X due, NEW S, NotDue(S)
  PROVE  /\ due' = due \ S
         /\ \A u, v \in due' : <<u, v>> \in before' <=> <<u, v>> \in before
BY DEF NotDue

LEMMA QueueStaysOrdered ==
  ASSUME before \subseteq due \X due, Ordered
  PROVE  /\ \A w : Due(w) => Ordered'
         /\ \A S : NotDue(S) => Ordered'
         /\ \A S : AllDue(S) => Ordered'
         /\ UNCHANGED queue => Ordered'
<1>1. ASSUME NEW w, Due(w) PROVE Ordered'
  BY <1>1, DuePairs DEF Ordered
<1>2. ASSUME NEW S, NotDue(S) PROVE Ordered'
  BY <1>2, NotDuePairs DEF Ordered
<1>3. ASSUME NEW S, AllDue(S) PROVE Ordered'
  BY <1>3 DEF AllDue, Ordered
<1>4. UNCHANGED queue => Ordered'
  BY DEF queue, Ordered
<1> QED BY <1>1, <1>2, <1>3, <1>4

\* Whoever else becomes due, or leaves the queue, a due watch keeps its place.
LEMMA PlaceKept ==
  ASSUME before \subseteq due \X due, NEW w \in due
  PROVE  /\ \A v : Due(v) /\ v # w => w \in due' /\ Ahead(w)' \subseteq Ahead(w)
         /\ \A S : NotDue(S) /\ w \notin S => w \in due' /\ Ahead(w)' = Ahead(w) \ S
         /\ UNCHANGED queue => w \in due' /\ Ahead(w)' = Ahead(w)
<1>1. ASSUME NEW v, Due(v), v # w PROVE w \in due' /\ Ahead(w)' \subseteq Ahead(w)
  BY <1>1, DuePairs DEF Ahead
<1>2. ASSUME NEW S, NotDue(S), w \notin S PROVE w \in due' /\ Ahead(w)' = Ahead(w) \ S
  BY <1>2, NotDuePairs DEF Ahead
<1>3. UNCHANGED queue => w \in due' /\ Ahead(w)' = Ahead(w)
  BY DEF queue, Ahead
<1> QED BY <1>1, <1>2, <1>3

LEMMA CommandCounts == ASSUME TypeOK, Command PROVE commands' # commands
BY DEF TypeOK, Command

LEMMA ChangeIsNamed ==
  ASSUME TypeOK, NEW w, NEW e, NEW r, Change(w, e, r)
  PROVE  /\ copy'["cli"] = CopyOf(w, watches'[w]) /\ pc'["watch"] = pc["watch"]
         /\ copy'["watch"] = copy["watch"]
BY DEF Change, TypeOK, Threads

\* Each step of the program does one thing to the queue.
Idle == ~(pc["watch"] = "idle" /\ pc'["watch"] = "list")
Reordered ==
  \/ UNCHANGED queue /\ Idle
  \/ \E v : Due(v) /\ Idle /\ (v \notin due \/ LinesUp(v))
  \/ \E S : NotDue(S) /\ Idle /\ S \cap DOMAIN watches' = {}
  \/ Pick
  \/ AllDue(DOMAIN watches') /\ (restarts' # restarts \/ commands' # commands)
LEMMA QueueSteps ==
  ASSUME TypeOK, [Next]_vars
  PROVE  Reordered /\ (issued' = issued \/ \E w : issued' = issued \cup {w})
<1> DEFINE Drawn == issued' = issued \/ \E w : issued' = issued \cup {w}
<1>1. CASE UNCHANGED vars
  BY <1>1 DEF vars, memory, queue, Reordered, Idle
<1>2. ASSUME NEW r, NEW d, Add(r, d) PROVE Reordered /\ Drawn
  <2>c. commands' # commands
    BY <1>2, CommandCounts DEF Add
  <2>1. CASE Refused
    BY <2>1 DEF Refused, memory, queue, Reordered, Idle
  <2>2. ASSUME NEW w, NEW o, Trust(w, r, o) PROVE Reordered /\ Drawn
    <3>1. ASSUME ~Refused PROVE Due(w) /\ UNCHANGED issued /\ Idle /\ LinesUp(w)
      <4>1. /\ Change(w, [watches[w] EXCEPT !.sources = Append(@, Source(r)), !.origin = o], r)
            /\ Due(w) /\ UNCHANGED issued
        BY <2>2, <3>1 DEF Trust
      <4> QED BY <2>c, <4>1, ChangeIsNamed DEF LinesUp, Idle
    <3> QED BY <2>1, <3>1 DEF Reordered
  <2>3. ASSUME NEW o, Fresh(r, d, o) PROVE Reordered /\ Drawn
    BY <2>3, ChangeIsNamed DEF Fresh, Reordered, Idle
  <2> QED BY <1>2, <2>1, <2>2, <2>3 DEF Add
<1>3. ASSUME NEW w, NEW r, NEW d, SetWatch(w, r, d) PROVE Reordered /\ Drawn
  <2>c. commands' # commands
    BY <1>3, CommandCounts DEF SetWatch
  <2>1. CASE Refused
    BY <2>1 DEF Refused, memory, queue, Reordered, Idle
  <2>2. CASE ~Refused
    <3>1. PICK e : Change(w, e, r) /\ Due(w) /\ UNCHANGED issued
      BY <1>3, <2>2 DEF SetWatch
    <3> QED BY <2>c, <3>1, ChangeIsNamed DEF LinesUp, Idle, Reordered
  <2> QED BY <2>1, <2>2
<1>4. ASSUME NEW S, Remove(S) PROVE Reordered /\ Drawn
  <2>1. NotDue(S) /\ pc'["watch"] = pc["watch"] /\ UNCHANGED issued
    BY <1>4 DEF Remove, Drop, TypeOK, Threads
  <2>2. S \cap DOMAIN watches' = {}
    BY <1>4 DEF Remove, Drop, Without
  <2> QED BY <2>1, <2>2 DEF Reordered, Idle
<1>5. CASE RemoveSome
  BY <1>4, <1>5 DEF RemoveSome
<1>6. CASE SyncAll
  BY <1>6, CommandCounts DEF SyncAll, Reordered
<1>7. ASSUME NEW w, SyncWatch(w) PROVE Reordered /\ Drawn
  <2>1. pc'["watch"] = pc["watch"] /\ UNCHANGED <<queue, issued>>
    BY <1>7 DEF SyncWatch, TypeOK, Threads
  <2> QED BY <2>1 DEF Reordered, Idle
<1>8. CASE Save \/ Write
  <2>1. pc'["watch"] = pc["watch"] /\ UNCHANGED <<queue, issued>>
    BY <1>8 DEF Save, Write, TypeOK, Threads
  <2> QED BY <2>1 DEF Reordered, Idle
<1>9. CASE Pick
  BY <1>9 DEF Pick, Reordered
<1>10. ASSUME NEW t \in Threads, RunStep(t) PROVE Reordered /\ Drawn
  <2>1. pc'["watch"] # "list" \/ pc'["watch"] = pc["watch"]
    BY <1>10 DEF RunStep, List, StoreOrigin, Sync, TypeOK, Threads
  <2>2. UNCHANGED <<queue, issued>>
    BY <1>10 DEF RunStep, List, StoreOrigin, Sync
  <2> QED BY <2>1, <2>2 DEF Reordered, Idle
<1>11. ASSUME NEW w, BecomesDue(w) PROVE Reordered /\ Drawn
  BY <1>11 DEF BecomesDue, Reordered, Idle
<1>12. CASE Restart
  <2>1. restarts' # restarts
    BY <1>12 DEF Restart, TypeOK
  <2>2. AllDue(DOMAIN watches')
    BY <1>12 DEF Restart
  <2> QED BY <1>12, <2>1, <2>2 DEF Restart, Reordered
<1> QED BY <1>1, <1>2, <1>3, <1>5, <1>6, <1>7, <1>8, <1>9, <1>10, <1>11, <1>12 DEF Next

\* Every non-empty set of natural numbers has a least element.
LEMMA LeastNatural ==
  ASSUME NEW S, S \subseteq Nat, S # {}
  PROVE  \E m \in S : \A k \in S : m <= k
<1>1. PICK m \in S : \A k \in S : ~(<<k, m>> \in OpToRel(<, Nat))
  BY NatLessThanWellFounded, WFMin, Zenon
<1>2. \A k \in S : ~(k < m)
  BY <1>1 DEF OpToRel
<1> QED BY <1>2

\* The order of a finite queue has a first element: one with the fewest before it.
LEMMA FirstInLine ==
  ASSUME Ordered, IsFiniteSet(due), due # {}
  PROVE  \E w \in due : \A v \in due : <<v, w>> \notin before
<1> DEFINE P(w) == {v \in due : <<v, w>> \in before}
           n(w) == Cardinality(P(w))
           N == {n(w) : w \in due}
<1>1. ASSUME NEW w \in due PROVE IsFiniteSet(P(w)) /\ n(w) \in Nat
  <2>1. P(w) \in SUBSET due
    OBVIOUS
  <2>2. IsFiniteSet(P(w))
    BY <2>1, FS_Subset
  <2> QED BY <2>2, FS_CardinalityType
<1>2. PICK w \in due : \A v \in due : n(w) <= n(v)
  <2>1. N \subseteq Nat /\ N # {}
    <3> HIDE DEF n
    <3> QED BY <1>1
  <2> HIDE DEF n
  <2>2. PICK m \in N : \A k \in N : m <= k
    <3> HIDE DEF N
    <3> QED BY <2>1, LeastNatural
  <2> QED BY <2>2
<1>3. ASSUME NEW v \in due, <<v, w>> \in before PROVE FALSE
  <2>1. P(v) \in SUBSET P(w) /\ v \in P(w) /\ v \notin P(v)
    BY <1>3 DEF Ordered
  <2>2. P(v) \in SUBSET P(w) /\ P(v) # P(w)
    BY <2>1
  <2> HIDE DEF P
  <2>3. n(v) < n(w)
    BY <1>1, <2>2, FS_Subset
  <2> QED BY <1>1, <1>2, <2>3
<1> QED BY <1>3

\* Whenever a watch is due the watch loop finds one to run.
THEOREM SomeWatchIsFound == Spec => []SomeWatchIsNext
<1>1. Init => QueueInv
  BY DEF Init, QueueInv, Ordered
<1>2. TypeOK /\ QueueInv /\ [Next]_vars => QueueInv'
  <2> SUFFICES ASSUME TypeOK, QueueInv, [Next]_vars PROVE QueueInv'
    OBVIOUS
  <2>1. before \subseteq due \X due /\ Ordered
    BY QueueTyped DEF QueueInv
  <2>2. ASSUME Pick PROVE \E S : NotDue(S)
    BY <2>2 DEF Pick
  <2>3. Ordered'
    BY <2>1, <2>2, QueueSteps, QueueStaysOrdered DEF Reordered
  <2>4. IsFiniteSet(issued')
    <3>1. CASE issued' = issued
      BY <3>1 DEF QueueInv
    <3>2. ASSUME NEW w, issued' = issued \cup {w} PROVE IsFiniteSet(issued')
      BY <3>2, FS_AddElement DEF QueueInv
    <3> QED BY <3>1, <3>2, QueueSteps
  <2> QED BY <2>3, <2>4 DEF QueueInv
<1>3. TypeOK /\ QueueInv => SomeWatchIsNext
  <2> SUFFICES ASSUME TypeOK, QueueInv PROVE SomeWatchIsNext
    OBVIOUS
  <2>1. IsFiniteSet(due)
    <3>1. due \in SUBSET issued
      BY DEF TypeOK
    <3> QED BY <3>1, FS_Subset DEF QueueInv
  <2> QED BY <2>1, FirstInLine DEF QueueInv, SomeWatchIsNext
<1> QED BY <1>1, <1>2, <1>3, WatchesTypeCorrect, PTL DEF Spec

\* A due watch keeps its place in line, and each run of another brings it nearer.
THEOREM NoWatchIsOvertaken == Spec => QueueIsFair
<1>1. ASSUME TypeOK, [Next]_vars, NEW w \in due, ~LinesUp(w), w \in DOMAIN watches',
             copy'["watch"] # CopyOf(w, watches[w])
      PROVE  /\ w \in due' /\ Ahead(w)' \subseteq Ahead(w)
             /\ pc["watch"] = "idle" /\ pc'["watch"] = "list" => Ahead(w)' # Ahead(w)
  <2> DEFINE Nearer == /\ w \in due' /\ Ahead(w)' \subseteq Ahead(w)
                       /\ pc["watch"] = "idle" /\ pc'["watch"] = "list" => Ahead(w)' # Ahead(w)
  <2>t. before \subseteq due \X due
    BY <1>1, QueueTyped
  <2>1. ASSUME UNCHANGED queue, Idle PROVE Nearer
    BY <2>1, <2>t, PlaceKept DEF Idle
  <2>2. ASSUME NEW v, Due(v), Idle, v \notin due \/ LinesUp(v)
        PROVE  Nearer
    <3>1. v # w
      BY <1>1, <2>2
    <3> QED BY <2>2, <2>t, <3>1, PlaceKept DEF Idle
  <2>3. ASSUME NEW S, NotDue(S), Idle, S \cap DOMAIN watches' = {}
        PROVE  Nearer
    BY <1>1, <2>3, <2>t, PlaceKept DEF Idle
  <2>4. ASSUME Pick PROVE Nearer
    <3>1. PICK u \in due : /\ \A v \in due : <<v, u>> \notin before
                           /\ copy' = [copy EXCEPT !["watch"] = CopyOf(u, watches[u])]
                           /\ NotDue({u})
      BY <2>4 DEF Pick
    <3>2. u # w
      BY <1>1, <3>1 DEF TypeOK, Threads
    <3>3. w \in due' /\ Ahead(w)' = Ahead(w) \ {u}
      BY <3>1, <3>2, <2>t, PlaceKept
    <3>4. u \in Ahead(w)
      BY <3>1, <3>2 DEF Ahead
    <3> QED BY <3>3, <3>4
  <2>5. ~(AllDue(DOMAIN watches') /\ (restarts' # restarts \/ commands' # commands))
    BY <1>1 DEF LinesUp, AllDue
  <2>6. Reordered
    BY <1>1, QueueSteps
  <2> HIDE DEF Nearer
  <2>7. Nearer
    BY <2>1, <2>2, <2>3, <2>4, <2>5, <2>6 DEF Reordered
  <2> QED BY <2>7 DEF Nearer
<1>2. TypeOK /\ [Next]_vars =>
        [\A w \in due :
           \/ LinesUp(w)
           \/ w \notin DOMAIN watches'
           \/ copy'["watch"] = CopyOf(w, watches[w])
           \/ /\ w \in due' /\ Ahead(w)' \subseteq Ahead(w)
              /\ pc["watch"] = "idle" /\ pc'["watch"] = "list" => Ahead(w)' # Ahead(w)]_vars
  BY <1>1
<1> QED BY <1>2, WatchesTypeCorrect, PTL DEF Spec, QueueIsFair
=============================================================================
