----------------------------- MODULE MCOverview -----------------------------
(* The overviews for TLC: their bounds brought down to small numbers, and   *)
(* the questions put to them.                                               *)
EXTENDS Integers, SequencesExt

CONSTANTS NoDomain    \* no package, no domain, no document

Ar == INSTANCE Architecture WITH
        None <- NoDomain, MaxPackages <- 2, MaxListed <- 2, HotspotPool <- 3, MaxHotspots <- 2,
        MaxBoundaries <- 2, TreeDepth <- 3, DeriveMethods <- {"clone"}, Canonical <- <<"P", "S">>,
        MaxADR <- 7,
        Patterns <- {[domain |-> "data", form |-> "prefix", word |-> <<"x">>],
                     [domain |-> "service", form |-> "suffix", word |-> <<"d">>]},
        DomainName <- <<"data", "library", "other", "service">>,
        DomainOrder <- <<"data", "library", "other">>,
        ScanCap <- 1, DepCap <- 0, CommonMethods <- {"get"}, MinConfidence <- 3
Co == INSTANCE Communities WITH
        MaxPasses <- 6, MinSize <- 2, MaxRounds <- 3, RefineAbove <- 2, SparsePercent <- 90,
        MinGraph <- 3, MaxClusters <- 1, MaxTop <- 2

ASSUME Ar!ArchitectureBounds /\ Co!CommunityBounds

-----------------------------------------------------------------------------
(* Architecture: functions of three crates and packages, one name that      *)
(* derives give, a route, files at several depths.                          *)

\* The elements of a sequence at some of its places.
Kept(s, on) ==
    LET at == SelectSeq([i \in DOMAIN s |-> i], LAMBDA i : i \in on) IN [i \in DOMAIN at |-> s[at[i]]]

Thing(label, name, qn, file, entry) ==
    [label |-> label, name |-> name, qn |-> qn, file |-> file, entry |-> entry, test |-> FALSE,
     tested |-> FALSE, vendored |-> FALSE, lang |-> NoDomain, document |-> FALSE]
InX == <<<<"x", "s">>, "f">>
Things == <<Thing("Function", "main", <<"c", "p", "f">>, InX, TRUE),
            Thing("Method", "clone", <<"c", "q", "g">>, InX, FALSE),
            Thing("Function", "h", <<"r">>, <<<<"y", "d">>>>, FALSE),
            Thing("Function", "get", <<"c", "q", "k">>, <<<<"z">>>>, FALSE),
            Thing("Route", "/h", <<"c", "q", "w">>, <<<<"z">>>>, FALSE),
            Thing("Package", "x", <<>>, <<<<"x", "s">>>>, FALSE)>>
Use(s, d) == [type |-> IF s = 3 THEN "HTTP_CALLS" ELSE "CALLS", src |-> s, tgt |-> d,
              conf |-> IF s = d + 1 THEN 2 ELSE 3]
Uses == <<Use(1, 2), Use(1, 3), Use(1, 4), Use(2, 3), Use(4, 3), Use(3, 1), Use(4, 2), Use(2, 1)>>
ThingsGraph(on) ==
    [node |-> Things, edge |-> Kept(Uses, on)]

Paths == <<<<"a">>, <<"b", "a">>, <<"b", "b">>, <<"b", "c", "a">>, <<"b", "c", "d", "a">>,
          <<"b", "c", "d", "e", "a">>, <<"e", "b", "c", "d", "a">>>>
Tree(on) == [node |-> [i \in DOMAIN Kept(Paths, on) |-> Thing("File", "a", <<>>, Kept(Paths, on)[i], FALSE)],
             edge |-> <<>>]

Lines == {"P", "S", "x", ""}
Texts == {<<>>, <<"y">>, <<"", "y">>, <<"x", "", "y">>}
Updates == UNION {[K -> Texts] : K \in SUBSET {"P", "S"}}

OverviewSeeds ==
    [topic : {"things"}, on : SUBSET (DOMAIN Uses)] \cup [topic : {"lines"}, length : 2..5]
    \cup [topic : {"paths"}, first : DOMAIN Paths]
OverviewQuestions(seed) ==
    CASE seed.topic = "things" -> [topic : {"layers"}, on : {seed.on}, libs : BOOLEAN]
      [] seed.topic = "lines" -> [topic : {"adr"}, content : [1..seed.length -> Lines]]
      [] seed.topic = "paths" ->
            [topic : {"tree"}, files : {files \in SUBSET (DOMAIN Paths) : seed.first \in files}]
      [] OTHER -> {}

-----------------------------------------------------------------------------
(* Communities: up to six calls among five functions, one of them recursive. *)

Fn(name) == [label |-> IF name = "a" THEN "Method" ELSE "Function", name |-> name]
Fns == <<Fn("b"), Fn("a"), Fn("d"), Fn("c"), Fn("e")>>
ByName == <<2, 1, 4, 3, 5>>
Pair(t, s, d) == [type |-> t, src |-> s, tgt |-> d]
Links == <<Pair("CALLS", 1, 2), Pair("CALLS", 2, 3), Pair("CALLS", 3, 1), Pair("CALLS", 3, 4),
           Pair("CALLS", 4, 5), Pair("CALLS", 5, 4), Pair("CALLS", 2, 5), Pair("CALLS", 4, 4),
           Pair("HTTP_CALLS", 1, 5)>>
FnGraph(on) == [node |-> Fns, byName |-> ByName,
                edge |-> Kept(Links, on)]
ClusterSeeds == [topic : {"calls among five"}, on : SUBSET (DOMAIN Links)]
ClusterQuestions(seed) ==
    [topic : {"clusters"}, on : {seed.on}, order : {<<5, 3, 1, 4, 2>>, <<4, 5, 2, 1, 3>>}]
\* The generator's orders, another one for every round.
Shuffled(order) == <<order, Reverse(order), <<2, 1, 4, 3, 5>> >>
=============================================================================
