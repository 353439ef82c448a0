----------------------------- MODULE ScipIngest -----------------------------
(***************************************************************************)
(* internal/pipeline/scip_ingest.go: an index written by a compiler         *)
(* replaces the CALLS edges the resolver guessed, between the files it      *)
(* covers.  Lines count from one; a line of text is a sequence of tokens    *)
(* and a column the number of tokens before it.  A span is a Function or    *)
(* Method node; the spans are in the order of their first lines.            *)
(***************************************************************************)
EXTENDS Integers, Sequences, FiniteSets

CONSTANTS
    None,           \* an absent range, path or index
    BatchSize,      \* how many files one DELETE names on each side
    sort(_)         \* a set of files in the order of their names (sort.Strings)

-----------------------------------------------------------------------------
(* Spans, symbols and call sites.                                           *)

\* The first of the least indices in a set of positions, or None.
FirstOf(S) == IF S = {} THEN None ELSE CHOOSE i \in S : \A j \in S : i <= j

innermost(spans, file, line) ==
    LET around == {i \in DOMAIN spans : spans[i].file = file /\ line \in spans[i].start..spans[i].end}
        size(i) == spans[i].end - spans[i].start
    IN  FirstOf({i \in around : \A j \in around : size(i) <= size(j)})

atLine(spans, file, line) ==
    FirstOf({i \in DOMAIN spans : spans[i].file = file /\ spans[i].start = line})

\* The span a definition on a line stands for, or None.
SpanAt(spans, file, line) ==
    IF atLine(spans, file, line) # None THEN atLine(spans, file, line)
    ELSE innermost(spans, file, line)

\* Of a definition only the first line of its span is kept, where the span is
\* looked up again: another that begins on that line may come before it.
Located(spans, file, line) ==
    LET match == SpanAt(spans, file, line)
    IN  IF match = None THEN None ELSE SpanAt(spans, file, spans[match].start)

TrimLeft(tokens) ==
    LET kept == {i \in DOMAIN tokens : tokens[i] # " "}
    IN  IF kept = {} THEN <<>> ELSE SubSeq(tokens, FirstOf(kept), Len(tokens))
Opens(tokens) == tokens # <<>> /\ tokens[1] = "("

\* An argument list follows, perhaps after the arguments of a generic.
isCallSuffix(suffix) ==
    LET s == TrimLeft(suffix)
        depth(i) == Cardinality({j \in 1..i : s[j] = "<"}) - Cardinality({j \in 1..i : s[j] = ">"})
        closed == FirstOf({i \in DOMAIN s : depth(i) = 0})
    IN  \/ Opens(s)
        \/ /\ s # <<>> /\ s[1] = "<" /\ closed # None
           /\ Opens(TrimLeft(SubSeq(s, closed + 1, Len(s))))

\* A function's symbol, or a TypeScript value whose definition is a whole node.
isSCIPFunctionDefinition(occurrence, file, spans) ==
    \/ occurrence.symbol.kind = "function"
    \/ /\ occurrence.symbol.kind = "typescript value"
       /\ occurrence.enclosing # None
       /\ \E i \in DOMAIN spans : /\ spans[i].file = file
                                  /\ <<spans[i].start, spans[i].end>> = occurrence.enclosing

-----------------------------------------------------------------------------
(* What the index says.                                                     *)

Occurrences(index) ==
    UNION {{<<d, o>> : o \in DOMAIN index[d].occurrences} : d \in DOMAIN index}
Of(index, at) == index[at[1]].occurrences[at[2]]
FileOf(index, at) == index[at[1]].path
Before(a, b) == a[1] < b[1] \/ (a[1] = b[1] /\ a[2] < b[2])

Definitions(index, spans) ==
    {at \in Occurrences(index) :
       LET o == Of(index, at)
       IN  o.definition /\ o.line # None
           /\ isSCIPFunctionDefinition(o, FileOf(index, at), spans)}

\* Of a symbol defined twice, the last definition counts.
collectSCIPDefinitions(index, spans) ==
    LET all == Definitions(index, spans)
        last(at) == \A other \in all : Of(index, other).symbol = Of(index, at).symbol
                                          => ~Before(at, other)
    IN  [symbol \in {Of(index, at).symbol : at \in all} |->
           LET at == CHOOSE at \in all : Of(index, at).symbol = symbol /\ last(at)
           IN  [file |-> FileOf(index, at),
                span |-> Located(spans, FileOf(index, at), Of(index, at).line)]]

Indexed(index) == {index[d].path : d \in DOMAIN index}

\* Fewer than half of a document's definitions lie in functions of the file.
driftedSCIPDocuments(index, spans) ==
    LET in(file) == {at \in Definitions(index, spans) : FileOf(index, at) = file}
        matched(file) == {at \in in(file) : SpanAt(spans, file, Of(index, at).line) # None}
    IN  {file \in Indexed(index) : 2 * Cardinality(matched(file)) < Cardinality(in(file))}

\* A bug: drifted documents are covered, too.
coveredSCIPFilesDrifted(index, spans) == Indexed(index)
coveredSCIPFiles(index, spans) == Indexed(index) \ driftedSCIPDocuments(index, spans)

\* The text after a reference, or None where the range leaves the line.
TextAfter(text, file, end) ==
    LET line == IF file \in DOMAIN text /\ end[1] \in DOMAIN text[file] THEN text[file][end[1]] ELSE <<>>
    IN  IF end[2] > Len(line) THEN None ELSE SubSeq(line, end[2] + 1, Len(line))

\* The pairs of spans between which the index shows a call.
deriveSCIPCalls(index, spans, text) ==
    LET covered == coveredSCIPFiles(index, spans)
        defined == collectSCIPDefinitions(index, spans)
        calls == {at \in Occurrences(index) :
                    LET o == Of(index, at)
                    IN  /\ ~o.definition /\ o.line # None /\ FileOf(index, at) \in covered
                        /\ o.symbol \in DOMAIN defined /\ defined[o.symbol].file \in covered
                        /\ TextAfter(text, FileOf(index, at), o.end) # None
                        /\ isCallSuffix(TextAfter(text, FileOf(index, at), o.end))}
        caller(at) == innermost(spans, FileOf(index, at), Of(index, at).line)
        callee(at) == defined[Of(index, at).symbol].span
    IN  {<<caller(at), callee(at)>> : at \in {at \in calls : caller(at) # None /\ callee(at) # None}}

-----------------------------------------------------------------------------
(* The pass.                                                                *)

\* One DELETE for each pair of batches; the first n of them are carried out.
DeleteEdgesBetweenFiles(edges, files, n) ==
    LET batch(i) == (i - 1) \div BatchSize
        batches == IF files = <<>> THEN 0 ELSE batch(Len(files)) + 1
        reached(e) == \E i, j \in DOMAIN files :
                         /\ files[i] = e.srcFile /\ files[j] = e.tgtFile
                         /\ batch(i) * batches + batch(j) < n
    IN  {e \in edges : ~(e.type = "CALLS" /\ reached(e))}
EveryBatch(files) == Len(files) * Len(files)

Derived(spans, pair) ==
    [src |-> spans[pair[1]].id, tgt |-> spans[pair[2]].id, type |-> "CALLS", dispatch |-> FALSE,
     srcFile |-> spans[pair[1]].file, tgtFile |-> spans[pair[2]].file, rule |-> "scip-ingest"]

\* The edges and the status after an index was read.  A failure is the number of
\* DELETEs before the one that did not succeed; dropped are the pairs whose rows
\* the insertion skips, which it reports when the others are in.
runSCIPIngest(g, index, text, failure, dropped) ==
    IF index = None THEN [edges |-> g.edges, state |-> "failed", replaced |-> 0]
    ELSE LET covered == sort(coveredSCIPFiles(index, g.spans))
             pairs == deriveSCIPCalls(index, g.spans, text)
             inserted == {Derived(g.spans, p) : p \in pairs \ dropped}
             kept == DeleteEdgesBetweenFiles(g.edges, covered, EveryBatch(covered))
         IN  CASE failure # None -> [edges |-> DeleteEdgesBetweenFiles(g.edges, covered, failure),
                                     state |-> "failed", replaced |-> 0]
               [] pairs \cap dropped # {} ->
                    [edges |-> kept \cup inserted, state |-> "failed", replaced |-> 0]
               [] OTHER -> [edges |-> kept \cup inserted, state |-> "applied",
                            replaced |-> Cardinality(g.edges \ kept)]

\* An explicit path first; the repository's own index only where discovery
\* is on and it is a file.
scipIndexPath(settings, found) ==
    CASE settings.path # None -> settings.path
      [] settings.discover /\ found -> "index.scip"
      [] OTHER -> None

\* read maps a path to an index, or to None if it cannot be read.
passSCIPIngest(g, settings, found, read, text, failure, dropped) ==
    LET path == scipIndexPath(settings, found)
    IN  IF path = None THEN [edges |-> g.edges, state |-> "disabled", replaced |-> 0]
        ELSE runSCIPIngest(g, read[path], text, failure, dropped)

-----------------------------------------------------------------------------
(* What the pass is for.                                                    *)

Pairs(edges) == {<<e.src, e.tgt>> : e \in edges}

\* Between the files the index still describes, the calls are those of the
\* program, and every other edge is as it was.  A pass that was not applied took
\* away what it would have replaced, some or all of it, or put a part of the calls
\* in the place of all of it.
ReplacesExactly(g, described, calls, after) ==
    LET within(e) == e.type = "CALLS" /\ e.srcFile \in described /\ e.tgtFile \in described
    IN  /\ {e \in after.edges : ~within(e)} = {e \in g.edges : ~within(e)}
        /\ IF after.state = "applied"
           THEN /\ Pairs({e \in after.edges : within(e)}) = calls
                /\ after.replaced = Cardinality({e \in g.edges : within(e)})
           ELSE \/ after.edges \subseteq g.edges
                \/ Pairs({e \in after.edges : within(e)}) \subseteq calls
=============================================================================
