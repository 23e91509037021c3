-------------------------- MODULE MCEventPipeline ---------------------------
(* Model of EventPipeline: nested roots, so that one key is under two watches *)
(* and their order matters; a watch with an invalid pattern, which has no     *)
(* filter; a configuration whose only type name is unknown, which allows all; *)
(* and a channel of capacity one, so that the process task lags.              *)
EXTENDS EventPipeline, TLC

CONSTANTS w1, w2, a, b

MCWatcher == {w1, w2}
MCKey == {a, b}
MCCovers == [outer |-> {a, b}, inner |-> {b}]
MCTypeOf == (a :> "Created") @@ (b :> "Modified")
MCHits == [log |-> {a, b}, tmp |-> {}]

Watch(path, types, include, exclude) ==
    [path |-> path, event_types |-> types, include |-> include, exclude |-> exclude,
     script |-> FALSE, script_events |-> {}]

\* the outer watch's filter decides for both keys, and rejects b by its type
Nested == <<Watch("inner", {}, {"["}, {}),
            Watch("outer", {"CREATE"}, {"log"}, {"tmp"}),
            Watch("inner", {"modify"}, {}, {})>>
Unfiltered == <<Watch("outer", {"CREATED"}, {}, {})>>
MCConfigs == {Nested, Unfiltered}

\* a script for creations; the path of b is under a watch with a script as well
Scripting == <<[Watch("outer", {}, {}, {"tmp"}) EXCEPT !.script = TRUE,
                                                      !.script_events = {"created"}]>>

LiveConfigs == {Scripting, Nested}

WatcherSymmetry == Permutations(MCWatcher)
=============================================================================
