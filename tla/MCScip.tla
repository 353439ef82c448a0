------------------------------- MODULE MCScip -------------------------------
(* ScipIngest for TLC: files a and b with two functions each, c with one;    *)
(* the index describes some of them, some as they were before they moved.    *)
EXTENDS Integers, Sequences, FiniteSets

CONSTANT None

Files == <<"a", "b", "c">>
Sc == INSTANCE ScipIngest WITH
        BatchSize <- 1, sort <- LAMBDA files : SelectSeq(Files, LAMBDA f : f \in files)

Span(id, file, start, end) == [id |-> id, file |-> file, start |-> start, end |-> end]
Spans == <<Span(1, "a", 1, 6), Span(2, "a", 3, 4), Span(3, "b", 1, 3), Span(4, "b", 5, 8), Span(5, "c", 1, 2)>>
Edge(s, t, type, dispatch) ==
    [src |-> s, tgt |-> t, type |-> type, dispatch |-> dispatch,
     srcFile |-> Spans[s].file, tgtFile |-> Spans[t].file, rule |-> "fuzzy"]
Heuristic == [spans |-> Spans,
              edges |-> {Edge(1, 2, "CALLS", FALSE), Edge(2, 3, "CALLS", FALSE), Edge(3, 5, "CALLS", FALSE),
                         Edge(5, 1, "CALLS", FALSE), Edge(4, 3, "USAGE", FALSE), Edge(1, 4, "CALLS", TRUE),
                         Edge(4, 4, "CALLS", FALSE)}]

\* A reference: its line, the function around it, the one it names, and what
\* stands after it on line end, which makes it a call or not.
Suffixes == {<<<<"(">>, TRUE>>, <<<<" ", "(">>, TRUE>>, <<<<"<", "x", ">", "(">>, TRUE>>,
             <<<<"<", "x", "<", "x", ">", ">", " ", "(">>, TRUE>>, <<<<")">>, FALSE>>, <<<<>>, FALSE>>,
             <<<<"<", "x", "(">>, FALSE>>, <<<<"<", "x", ">", "x", "(">>, FALSE>>, <<<<"x", "(">>, FALSE>>}
Reference(file, line, in, to) == [file |-> file, line |-> line, in |-> in, to |-> to]
References ==
    <<Reference("a", 3, 2, 4), Reference("a", 4, 2, 1), Reference("a", 5, 1, 3), Reference("a", 8, None, 4),
      Reference("b", 5, 4, 1), Reference("b", 2, 3, 5), Reference("c", 2, 5, 2)>>
Sites == {References[i] : i \in DOMAIN References}

\* How function n's symbol is written, and how far below its first line.
Writing == [kind : {"function", "typescript value"}, below : 0..1]

SymbolOf(n, w) == [name |-> n, kind |-> w.kind]
Definition(n, w, by) ==
    [definition |-> TRUE, symbol |-> SymbolOf(n, w), line |-> Spans[n].start + w.below + by,
     enclosing |-> <<Spans[n].start + by, Spans[n].end + by>>, end |-> <<1, 0>>]
Use(r, w, by) ==
    [definition |-> FALSE, symbol |-> SymbolOf(r.to, w), line |-> r.line + by,
     enclosing |-> None, end |-> <<r.line + by, 1>>]
Local(file) == [definition |-> TRUE, symbol |-> [name |-> file, kind |-> "typescript value"],
                line |-> 4, enclosing |-> <<4, 4>>, end |-> <<4, 0>>]

FunctionsOf(file) == SelectSeq(<<1, 2, 3, 4, 5>>, LAMBDA n : Spans[n].file = file)
SitesOf(file, sites) == SelectSeq(References, LAMBDA r : r.file = file /\ r \in sites)
\* A document's lines lie below those of the file by what was cut above them.
Document(file, sites, w, by) ==
    LET fns == FunctionsOf(file)
        uses == SitesOf(file, sites)
    IN  [path |-> file,
         occurrences |-> [i \in DOMAIN fns |-> Definition(fns[i], w, by)] \o <<Local(file)>>
                         \o [i \in DOMAIN uses |-> Use(uses[i], w, by)]]
Text(sites, suffix) ==
    [file \in {"a", "b", "c"} |->
       [line \in 1..8 |-> IF \E r \in sites : r.file = file /\ r.line = line THEN <<"f">> \o suffix ELSE <<>>]]

Cut == 20
\* The rows that an insertion may skip.
Dropped == {{<<2, 4>>}, {<<2, 4>>, <<1, 3>>}, (DOMAIN Spans) \X (DOMAIN Spans)}
Described == {d \in [documents : SUBSET {"a", "b", "c"}, moved : SUBSET {"a", "b"}] : d.moved \subseteq d.documents}
Given == [path |-> "given", discover |-> FALSE, found |-> FALSE]
ScipSeeds == [topic : {"sites"}, sites : SUBSET Sites, w : Writing]
ScipQuestions(seed) ==
    IF seed.topic # "sites" THEN {}
    ELSE {[topic |-> "scip", sites |-> seed.sites, w |-> seed.w, suffix |-> suffix, index |-> d,
           set |-> Given, failure |-> None, dropped |-> {}] :
            suffix \in {<<<<"(">>, TRUE>>, <<<<")">>, FALSE>>}, d \in Described}
         \cup {[topic |-> "scip", sites |-> seed.sites, w |-> seed.w, suffix |-> end[1],
                 index |-> [documents |-> {"a", "b"}, moved |-> {}], set |-> set, failure |-> end[2], dropped |-> end[3]] :
                 end \in (Suffixes \X {None, 2} \X {{}}) \cup ({<<<<"(">>, TRUE>>} \X (0..3) \X {{}})
                         \cup ({<<<<"(">>, TRUE>>} \X {None} \X Dropped),
                 set \in IF seed.sites = Sites
                         THEN [path : {None, "given", "gone"}, discover : BOOLEAN, found : BOOLEAN]
                         ELSE {Given}}

IndexFor(ask) ==
    LET described == SelectSeq(Files, LAMBDA f : f \in ask.index.documents)
    IN  [i \in DOMAIN described |->
           Document(described[i], ask.sites, ask.w, IF described[i] \in ask.index.moved THEN Cut ELSE 0)]
After(ask) ==
    LET read == [p \in {"given", "gone", "index.scip"} |-> IF p = "gone" THEN None ELSE IndexFor(ask)]
    IN  Sc!passSCIPIngest(Heuristic, ask.set, ask.set.found, read,
                          Text(ask.sites, ask.suffix[1]), ask.failure, ask.dropped)

\* Where the path that counts names an index, it is applied.
Read(ask) == ask.set.path = "given" \/ (ask.set.path = None /\ ask.set.discover /\ ask.set.found)
Called(ask) ==
    LET described == ask.index.documents \ ask.index.moved
    IN  IF ~ask.suffix[2] THEN {}
        ELSE {<<r.in, r.to>> : r \in {r \in ask.sites : /\ r.in # None /\ r.file \in described
                                                         /\ Spans[r.to].file \in described}}

\* A function that is a value is not a definition at all where its lines do not
\* match: a moved file of values has none that would show the drift.
ShowsDrift(ask) == ask.w.kind = "function" \/ ask.index.moved = {}

ReplacedExactly(ask, after) ==
    /\ Sc!ReplacesExactly(Heuristic, ask.index.documents \ ask.index.moved, Called(ask), after)
    /\ (after.state = "applied") <=> (Read(ask) /\ ask.failure = None /\ Called(ask) \cap ask.dropped = {})
    /\ ~Read(ask) => after.edges = Heuristic.edges
ScipHolds(ask) == ask.topic = "scip" /\ ShowsDrift(ask) => ReplacedExactly(ask, After(ask))

\* The edges of a file the index no longer describes.
StaleKept(ask) ==
    ask.topic = "scip" =>
       \A e \in Heuristic.edges : {e.srcFile, e.tgtFile} \cap ask.index.moved # {} => e \in After(ask).edges
=============================================================================
