--------------------------- MODULE WatcherReload ---------------------------
(***************************************************************************)
(* run_serve's configuration: the file, the copy the HTTP handlers edit    *)
(* and save (state.config), the watchers of WatcherManager, the filters    *)
(* the event pipeline uses and the gauge dm_active_watchers.  A reload     *)
(* (POST /api/watchers/reload, or SIGHUP) reads the file and then changes  *)
(* these one after another, each under a lock of its own; reloads overlap  *)
(* with each other, with the edits and with the death of the process.      *)
(*                                                                         *)
(* A watch is its path, its recursive flag and a rule that stands for      *)
(* include, exclude and event_types.  A file that does not parse changes   *)
(* nothing and is left out; a truncated one parses to no watches at all.   *)
(***************************************************************************)
EXTENDS Integers, Sequences, FiniteSets, SequencesExt, FiniteSetsExt

CONSTANTS Path, Rule,
          Invalid,      \* the rules with a glob that does not compile
          Http, Signal, \* the reloads: of HTTP requests, of the SIGHUP task
          FirstFiles,   \* the configurations the service may be started with
          AdminFiles,   \* the configurations an editor may write to the file
          MaxWatches, MaxEdits, MaxLoads, MaxStarts \* bounds

Watch == [path : Path, recursive : BOOLEAN, rule : Rule]

ASSUME InvalidAssumption == Invalid \subseteq Rule
\* a reload is a request that is being answered: there are finitely many
ASSUME ReloaderAssumption == Http \cap Signal = {} /\ IsFiniteSet(Http \cup Signal)
ASSUME BoundsAssumption == {MaxWatches, MaxEdits, MaxLoads, MaxStarts} \subseteq Nat
ASSUME FilesAssumption == FirstFiles \cup AdminFiles \subseteq Seq(Watch)

VARIABLES file,     \* the watches in the configuration file
          memory,   \* state.config.watches
          saving,   \* the edit that holds state.config's write lock, or NoEdit
          exists,   \* the paths that exist
          up,       \* the service runs
          watchers, \* the manager's entries
          nextId,   \* the manager's next_id
          filters,  \* shared_filters, each with its place in the list
          gauge,    \* active_watchers
          reload,   \* for each reload: its step, what it loaded, its net change
          edits, loads, starts, \* counted for the bounds
          erred,    \* history: a reload has failed since the service started
          alone,    \* history: the reloads that nothing has overlapped
          promised  \* history: paths whose addition was answered with ok, see EndSave

vars == <<file, memory, saving, exists, up, watchers, nextId, filters, gauge,
          reload, edits, loads, starts, erred, alone, promised>>
counts == <<edits, loads, starts>>
active == <<watchers, nextId>>

\* `mode` is the recursive mode the backend was given when the watcher was made
Entry == [id : Nat, path : Path, recursive : BOOLEAN, rule : Rule, mode : BOOLEAN]
Reloader == Http \cup Signal
Step == {"idle", "loaded", "applied", "stored", "filtered"}

PathsOf(ws) == {w.path : w \in ws}

ReloadState == [step : Step, conf : Seq(Watch), net : Int]
Idle == [step |-> "idle", conf |-> <<>>, net |-> 0]
NoEdit == [kind |-> "none", path |-> "none"]

Init ==
    /\ file \in FirstFiles
    /\ exists \in SUBSET Path
    /\ up = FALSE
    /\ memory = <<>> /\ saving = NoEdit
    /\ watchers = {} /\ nextId = 0
    /\ filters = {}
    /\ gauge = 0
    /\ reload = [r \in Reloader |-> Idle]
    /\ edits = 0 /\ loads = 0 /\ starts = 0
    /\ erred = FALSE /\ alone = {} /\ promised = {}

-----------------------------------------------------------------------------
(* Start and death of the service.                                         *)

\* filter_map(EventFilter::from_config): a watch whose globs are invalid has
\* no filter
FiltersOf(c) ==
    {[at |-> i, path |-> c[i].path, rule |-> c[i].rule] :
        i \in {j \in DOMAIN c : c[j].rule \notin Invalid}}

NewEntry(w, id) ==
    [id |-> id, path |-> w.path, recursive |-> w.recursive, rule |-> w.rule,
     mode |-> w.recursive]

\* the entries made for the watches ws, numbered from first in any order
NewEntries(ws, first) ==
    {{NewEntry(w, number[w]) : w \in ws} :
        number \in {f \in [ws -> first..(first + Cardinality(ws) - 1)] :
                        \A v, w \in ws : v # w => f[v] # f[w]}}

\* What run_serve may come to watch of the list c: it takes the watches in
\* turn and skips, with a warning, one whose path does not exist, that the
\* backend refuses, or whose path is already watched.
Watchable(c) ==
    {ws \in SUBSET {w \in ToSet(c) : w.path \in exists} :
        \A v, w \in ws : v.path = w.path => v = w}

\* run_serve reads the file and adds the watchers
Start ==
    /\ ~up /\ starts < MaxStarts
    /\ starts' = starts + 1
    /\ up' = TRUE
    /\ memory' = file
    /\ \E ws \in Watchable(file) :
        /\ watchers' \in NewEntries(ws, 0)
        /\ nextId' = Cardinality(ws)
        /\ gauge' = Cardinality(ws)
    /\ filters' = FiltersOf(file)
    /\ erred' = FALSE
    /\ UNCHANGED <<file, saving, exists, reload, edits, loads, alone, promised>>

\* the process dies, in the middle of a save or a reload if there is one
Die ==
    /\ up
    /\ up' = FALSE
    /\ memory' = <<>> /\ saving' = NoEdit
    /\ watchers' = {} /\ nextId' = 0
    /\ filters' = {} /\ gauge' = 0
    /\ reload' = [r \in Reloader |-> Idle]
    /\ alone' = {}
    /\ promised' = {}
    /\ UNCHANGED <<file, exists, counts, erred>>

-----------------------------------------------------------------------------
(* Edits of the configuration.                                             *)

\* What a request may do to the watches m, by their index.
PutWatch(m) ==
    UNION {{[kind |-> "put", path |-> m[i].path, watches |-> [m EXCEPT ![i] = w]] :
               w \in {v \in Watch : v.path = m[i].path}} : i \in DOMAIN m}

\* a path that memory already has is refused
AddWatch(m) ==
    {[kind |-> "add", path |-> w.path, watches |-> Append(m, w)] :
        w \in {v \in Watch : v.path \notin PathsOf(ToSet(m)) /\ Len(m) < MaxWatches}}

DeleteWatch(m) ==
    {[kind |-> "delete", path |-> m[i].path, watches |-> RemoveAt(m, i)] : i \in DOMAIN m}

\* PUT of the global settings saves the watches with them, as they are
PutGlobal(m) == {[kind |-> "global", path |-> "none", watches |-> m]}

Edits(m) == PutWatch(m) \cup AddWatch(m) \cup DeleteWatch(m) \cup PutGlobal(m)

\* a handler gets the write lock and changes memory; fs::write then truncates
\* the file, or cannot open it and the handler answers with an error
BeginSave ==
    /\ up /\ saving = NoEdit /\ edits < MaxEdits
    /\ edits' = edits + 1
    /\ \E e \in Edits(memory) :
        /\ memory' = e.watches
        /\ promised' = IF e.kind = "delete" THEN promised \ {e.path} ELSE promised
        /\ \/ saving' = [kind |-> e.kind, path |-> e.path] /\ file' = <<>>
           \/ UNCHANGED <<saving, file>>
    /\ alone' = {}
    /\ UNCHANGED <<exists, up, active, filters, gauge, reload, loads, starts, erred>>

NoneFoundEmpty == \A r \in Reloader : reload[r].step # "idle" => reload[r].conf # <<>>

\* mutant: the handler does not release the lock
MutEndSaveKeepsLock ==
    /\ saving # NoEdit
    /\ \/ file' = memory /\ UNCHANGED <<saving, promised>>
       \/ promised' = {} /\ UNCHANGED <<file, saving>>
    /\ UNCHANGED <<memory, exists, up, active, filters, gauge, reload, counts,
                   erred, alone>>

\* the write is done, the lock released and the handler answers ok; or the
\* write fails (a full disk) with the file truncated.  An addition is promised
\* unless a reload under way has found no watches, in the truncated file.
EndSave ==
    /\ saving # NoEdit
    /\ saving' = NoEdit
    /\ \/ /\ file' = memory
          /\ promised' = IF saving.kind = "add" /\ NoneFoundEmpty
                         THEN promised \cup {saving.path} ELSE promised
       \/ promised' = {} /\ UNCHANGED file
    /\ UNCHANGED <<memory, exists, up, active, filters, gauge, reload, counts,
                   erred, alone>>

\* an administrator writes the file with an editor (in one step: a rename)
AdminEdit ==
    /\ edits < MaxEdits
    /\ edits' = edits + 1
    /\ saving = NoEdit
    /\ file' \in AdminFiles
    /\ promised' = {}
    /\ UNCHANGED <<memory, saving, exists, up, active, filters, gauge, reload, loads,
                   starts, erred, alone>>

\* a directory appears or vanishes
PathChanges ==
    /\ \E p \in Path :
        exists' = IF p \in exists THEN exists \ {p} ELSE exists \cup {p}
    /\ UNCHANGED <<file, memory, saving, up, active, filters, gauge, reload, counts,
                   erred, alone, promised>>

-----------------------------------------------------------------------------
(* A reload.                                                               *)

\* AppConfig::load: no lock is taken
Load(r) ==
    /\ up /\ reload[r].step = "idle" /\ loads < MaxLoads
    /\ loads' = loads + 1
    /\ reload' = [reload EXCEPT ![r] = [step |-> "loaded", conf |-> file, net |-> 0]]
    /\ alone' = IF saving = NoEdit /\ \A q \in Reloader : reload[q].step = "idle"
                THEN {r} ELSE {}
    /\ UNCHANGED <<file, memory, saving, exists, up, active, filters, gauge, edits,
                   starts, erred, promised>>

\* new_paths, a HashMap built from the list: of the watches of one path the
\* last one stays
Wanted(c) ==
    {c[i] : i \in {j \in DOMAIN c : \A k \in (j + 1)..Len(c) : c[k].path # c[j].path}}

\* mutant: manager.reload does not look at what is being watched
MutMissing(c) == Wanted(c)

Missing(c) == {w \in Wanted(c) : w.path \notin PathsOf(watchers)}
Removed(c) == {e \in watchers : e.path \notin PathsOf(Wanted(c))}

\* the new configuration of the entry e that stays
WatchOf(c, e) == CHOOSE w \in Wanted(c) : w.path = e.path

\* mutant: an entry whose settings changed is made anew
MutUpdateEntry(e, w) ==
    [e EXCEPT !.id = IF e.mode = w.recursive THEN e.id ELSE nextId + e.id,
              !.recursive = w.recursive, !.rule = w.rule, !.mode = w.recursive]

\* an entry that stays keeps its id and its watcher
UpdateEntry(e, w) == [e EXCEPT !.recursive = w.recursive, !.rule = w.rule]

Updated(c) == {UpdateEntry(e, WatchOf(c, e)) : e \in watchers \ Removed(c)}

\* manager.reload, under the lock of the watchers: entries are removed, then
\* added, then updated
Apply(r) ==
    LET c == reload[r].conf IN
    /\ reload[r].step = "loaded"
    /\ PathsOf(Missing(c)) \subseteq exists
    /\ \E new \in NewEntries(Missing(c), nextId) : watchers' = Updated(c) \cup new
    /\ nextId' = nextId + Cardinality(Missing(c))
    /\ reload' = [reload EXCEPT ![r].step = "applied",
                                ![r].net = Cardinality(Missing(c)) - Cardinality(Removed(c))]
    /\ UNCHANGED <<file, memory, saving, exists, up, filters, gauge, counts, erred,
                   alone, promised>>

\* a path that does not exist, or a watch the backend refuses, ends
\* manager.reload with an error: the entries are removed, some are added, none
\* is updated, and the reload ends there
ApplyFails(r) ==
    LET c == reload[r].conf IN
    /\ reload[r].step = "loaded"
    /\ \E ws \in SUBSET {w \in Missing(c) : w.path \in exists} :
        /\ ws # Missing(c)
        /\ \E new \in NewEntries(ws, nextId) : watchers' = (watchers \ Removed(c)) \cup new
        /\ nextId' = nextId + Cardinality(ws)
    /\ erred' = TRUE
    /\ reload' = [reload EXCEPT ![r] = Idle]
    /\ UNCHANGED <<file, memory, saving, exists, up, filters, gauge, counts, alone, promised>>

\* the HTTP handler's next step: *state.config.write() = new_config
StoreConfig(r) ==
    /\ r \in Http /\ reload[r].step = "applied" /\ saving = NoEdit
    /\ memory' = reload[r].conf
    /\ reload' = [reload EXCEPT ![r].step = "stored"]
    /\ UNCHANGED <<file, saving, exists, up, active, filters, gauge, counts, erred,
                   alone, promised>>

Applied(r) == IF r \in Http THEN "stored" ELSE "applied"

\* mutant: the filters are built from state.config
MutReplaceFiltersFromMemory(r) ==
    /\ reload[r].step = Applied(r)
    /\ filters' = FiltersOf(memory)
    /\ reload' = [reload EXCEPT ![r].step = "filtered"]
    /\ UNCHANGED <<file, memory, saving, exists, up, active, gauge, counts, erred,
                   alone, promised>>

\* *filters.write() = new_filters; the SIGHUP task comes here without having
\* stored the configuration
ReplaceFilters(r) ==
    /\ reload[r].step = Applied(r)
    /\ filters' = FiltersOf(reload[r].conf)
    /\ reload' = [reload EXCEPT ![r].step = "filtered"]
    /\ UNCHANGED <<file, memory, saving, exists, up, active, gauge, counts, erred,
                   alone, promised>>

\* mutant: only a reload that adds watchers moves the gauge
MutAdjustGauge(r) ==
    /\ reload[r].step = "filtered"
    /\ gauge' = IF reload[r].net > 0 THEN gauge + reload[r].net ELSE gauge
    /\ reload' = [reload EXCEPT ![r] = Idle]
    /\ UNCHANGED <<file, memory, saving, exists, up, active, filters, counts, erred,
                   alone, promised>>

\* active_watchers.add(net_change), and the reload is over
AdjustGauge(r) ==
    /\ reload[r].step = "filtered"
    /\ gauge' = gauge + reload[r].net
    /\ reload' = [reload EXCEPT ![r] = Idle]
    /\ UNCHANGED <<file, memory, saving, exists, up, active, filters, counts, erred,
                   alone, promised>>

ReloadStep(r) ==
    Apply(r) \/ ApplyFails(r) \/ StoreConfig(r) \/ ReplaceFilters(r) \/ AdjustGauge(r)

Next ==
    \/ Start \/ Die
    \/ BeginSave \/ EndSave \/ AdminEdit \/ PathChanges
    \/ \E r \in Reloader : Load(r) \/ ReloadStep(r)

Spec == Init /\ [][Next]_vars

\* The runtime polls every task that can go on, fs::write returns, and
\* tokio's RwLock is granted in the order it was asked for.
FairSpec == Spec /\ WF_vars(EndSave) /\ \A r \in Reloader : WF_vars(ReloadStep(r))

-----------------------------------------------------------------------------
(* GET /api/config.                                                        *)

\* mutant: the settings are not compared
MutPendingReload ==
    \/ Cardinality(watchers) # Len(memory)
    \/ \E w \in ToSet(memory) : \A e \in watchers : e.path # w.path

\* pending_reload: as many watchers as watches, and for each watch a watcher
\* of its path with its settings
PendingReload ==
    \/ Cardinality(watchers) # Len(memory)
    \/ \E w \in ToSet(memory) : \A e \in watchers :
          \/ e.path # w.path
          \/ e.recursive # w.recursive \/ e.rule # w.rule

(***************************************************************************)
(* Properties.                                                             *)
(***************************************************************************)

ConfigTyped ==
    /\ file \in Seq(Watch) /\ memory \in Seq(Watch)
    /\ saving \in [kind : {"none", "put", "add", "delete", "global"}, path : Path \cup {"none"}]
    /\ saving.kind = "add" => saving.path \in Path
    /\ promised \subseteq Path
    /\ exists \subseteq Path
    /\ filters \subseteq [at : Nat, path : Path, rule : Rule]

ManagerTyped ==
    /\ watchers \subseteq Entry /\ IsFiniteSet(watchers)
    /\ nextId \in Nat
    /\ \A e, f \in watchers : e.id < nextId /\ (e.id = f.id => e = f)

ReloadsTyped ==
    /\ reload \in [Reloader -> ReloadState]
    /\ \A r \in Signal : reload[r].step # "stored"
    /\ gauge \in Int
    /\ alone \subseteq Reloader
    /\ up \in BOOLEAN /\ erred \in BOOLEAN
    /\ edits \in Nat /\ loads \in Nat /\ starts \in Nat

\* Type invariant: state, entries with distinct ids below next_id, and a step
\* of a reload that its kind can be in.
TypeOK == ConfigTyped /\ ManagerTyped /\ ReloadsTyped

\* No path has two watchers, whose events would each be processed, however
\* reloads overlap and whatever duplicates the file has.
OneWatcherPerPath == \A e, f \in watchers : e.path = f.path => e = f

KeptInPlace ==
    \A r \in Reloader : reload[r].step = "loaded" /\ reload'[r].step = "applied" =>
        \A e \in watchers : e.path \in PathsOf(ToSet(reload[r].conf)) =>
            \E f \in watchers' : f.id = e.id /\ f.path = e.path /\ f.mode = e.mode

\* A reload does not restart a watcher whose path stays configured, which would
\* lose the events of its debounce thread, even if its settings change.
KeptWatcherNotRestarted == [][KeptInPlace]_vars

\* While no reload has failed, the gauge and the changes that reloads have made
\* but not yet counted add up to the number of watchers, in any overlap.
GaugeAccounts ==
    up /\ ~erred =>
        gauge + MapThenSumSet(LAMBDA r : reload[r].net, Reloader) = Cardinality(watchers)

LoneReloadDone ==
    \A r \in alone : reload[r].step = "filtered" /\ reload'[r].step = "idle" /\ up' =>
        LET c == reload[r].conf IN
        /\ watchers' = Updated(c)
        /\ PathsOf(watchers') = PathsOf(ToSet(c))
        /\ filters' = FiltersOf(c)
        /\ r \in Http => memory' = c

\* A reload that no other reload and no edit has overlapped ends with watchers,
\* filters and (over HTTP) state.config all those of the file it has read.
LoneReloadConverges == [][LoneReloadDone]_vars

\* GET's pending_reload is true exactly if the configuration in memory and the
\* entries of the manager differ, provided no path is configured twice.
PendingReloadExact ==
    Cardinality(PathsOf(ToSet(memory))) = Len(memory) =>
        (PendingReload <=> ToSet(memory) #
            {[path |-> e.path, recursive |-> e.recursive, rule |-> e.rule] : e \in watchers})

\* Every reload comes to an end: edits, failed writes and other reloads only
\* delay it.
ReloadEnds == \A r \in Reloader : (reload[r].step # "idle") ~> (reload[r].step = "idle")

\* "Add watch to config (not yet active until reload)" (config.rs:211): the
\* watch is in the file, for the next reload to find, until it is deleted --
\* whatever reload of an older, complete file goes on around the addition.
AddedWatchStays == saving = NoEdit => promised \subseteq PathsOf(ToSet(file))
=============================================================================
