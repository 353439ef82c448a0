--------------------------- MODULE MCGraphUpdate ---------------------------
(* What an indexing run leaves behind, for TLC: in the graph, of two files    *)
(* that define and one that refers, and in the caches of what queries read.   *)
(* The two share no state here: a behaviour is about one of them.  The two    *)
(* caches share the run and nothing else: at any time one of them is in use,  *)
(* and the other is as it was at the start.                                   *)
EXTENDS GraphUpdate, Caches, TLC

Ref(n, k, m) == [name |-> n, kind |-> k, from |-> m]
Defs(S) == [defs |-> S, refs |-> {}]
Refs(S) == [defs |-> {}, refs |-> S]

MCModule == 1..3
MCLayouts == {<<1, 2, 3>>, <<1, 1, 3>>}
MCContents ==
    <<{Defs({}), Defs({"f"})},
      {Defs({"c"}), Defs({"f", "c"})},
      {Refs({Ref("f", "call", None)}),
       Refs({Ref("f", "value", None), Ref("c", "value", None)}),
       Refs({Ref("f", "toplevel", None), Ref("c", "type", None)}),
       Refs({Ref("f", "call", 2)})}>>

-----------------------------------------------------------------------------
VARIABLE subject

Searched == slot = NoSlot /\ \A s \in Searcher : search[s] = NoSearch
Asked == entries = <<>> /\ now = 0 /\ \A a \in Asker : ask[a] = NoAsk

RunsInit == /\ subject \in {"graph", "caches"} /\ Init /\ CachesInit
            /\ subject = "caches" => mod = <<1, 2, 3>> /\ disk = Nothing

Graphing == subject = "graph" /\ Next /\ UNCHANGED <<subject, cacheVars>>
Caching == subject = "caches" /\ CachesNext /\ (Searched' \/ Asked') /\ UNCHANGED <<subject, vars>>

RunsSpec == RunsInit /\ [][Graphing \/ Caching]_<<subject, vars, cacheVars>>

Alike == Permutations(Project) \cup Permutations(Searcher) \cup Permutations(Question)
=============================================================================
