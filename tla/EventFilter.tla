---------------------------- MODULE EventFilter -----------------------------
(***************************************************************************)
(* dm-processor/filter.rs and its use by dm-cli: what the watches of a     *)
(* configuration let through and for what they run a script.  Glob         *)
(* matching itself is a parameter, and a pattern without an entry in Hits  *)
(* is one that globset rejects.                                            *)
(***************************************************************************)
EXTENDS EventTypes, Integers, Sequences, FiniteSetsExt

CONSTANTS Covers,  \* Covers[r]: the keys whose path is under root r
          TypeOf,  \* TypeOf[k]: the event type in key k
          Hits     \* Hits[p]: the keys whose path or file name pattern p matches

\* from_config fails on an invalid pattern; setup_monitoring and the reloads log
\* that and go on without a filter for the watch
IsValid(w) == w.include \cup w.exclude \subseteq DOMAIN Hits

\* names that are no event type are left out
FromConfig(w) ==
    [include |-> w.include, exclude |-> w.exclude,
     types |-> UNION {FromStr(s) : s \in w.event_types}]

Matches(f, k) ==
    /\ f.types = {} \/ TypeOf[k] \in f.types
    /\ \A p \in f.exclude : k \notin Hits[p]
    /\ f.include = {} \/ \E p \in f.include : k \in Hits[p]

\* the filters of a configuration, in the order of its watches
FiltersOf(watches) ==
    LET valid == SelectSeq(watches, IsValid)
    IN  [i \in DOMAIN valid |-> [root |-> valid[i].path, filter |-> FromConfig(valid[i])]]

\* filters.iter().find(root is a prefix of the path).map(matches)
\*    .unwrap_or(true): the first filter that covers the path decides, and
\* without one the event is allowed
Allows(fs, k) ==
    \A i \in DOMAIN fs :
        (k \in Covers[fs[i].root] /\ \A j \in 1..(i - 1) : k \notin Covers[fs[j].root])
            => Matches(fs[i].filter, k)

\* the first watch that covers the path and has a script decides
RunsScript(watches, k) ==
    LET scripted == {i \in DOMAIN watches :
                        k \in Covers[watches[i].path] /\ watches[i].script}
    IN  /\ scripted # {}
        /\ LET events == watches[Min(scripted)].script_events
           IN  events = {} \/ events \cap ScriptNames[TypeOf[k]] # {}
=============================================================================
