---------------------------- MODULE Architecture ----------------------------
(* get_architecture, manage_adr and service_map: the overviews of a project *)
(* (store/architecture.go, tools/architecture.go, tools/service_map.go).    *)
(*                                                                          *)
(* A node's qn is the sequence of its segments after the project's prefix,  *)
(* <<>> when it lacks that prefix; its file the sequence of the path's      *)
(* parts, <<>> for none.  Lists are cut after a sort whose ties fall        *)
(* anyhow, so the answers of an operation are a set.                        *)
EXTENDS Integers, SequencesExt

CONSTANTS
    None,            \* no package, no domain, no document
    MaxPackages,     \* 15 packages
    MaxListed,       \* 20 entry points and routes
    HotspotPool,     \* 50: rows read for the hotspots
    MaxHotspots,     \* 10 of them shown
    MaxBoundaries,   \* 10 boundaries, services and languages
    TreeDepth,       \* 3: directories whose children are listed
    DeriveMethods,   \* the names that derives and the prelude give to everything
    Canonical,       \* the sections of an ADR in order
    MaxADR,          \* 8000 characters, here lines
    Patterns,        \* the table of domains: [domain, form, word]
    DomainName,      \* the domains in the order of their names
    DomainOrder,     \* the domains that service_map lists
    ScanCap,         \* 200 functions looked at for dependencies
    DepCap,          \* 15 dependencies
    CommonMethods,   \* method names that prove no dependency
    MinConfidence    \* 0.3

ArchitectureBounds ==
    {MaxPackages, MaxListed, HotspotPool, MaxHotspots, MaxBoundaries, TreeDepth, MaxADR}
        \subseteq Nat \ {0}

\* What a sort by K, largest first, can leave when it is cut at n.
Top(S, K(_), n) ==
    {T \in SUBSET S : /\ Cardinality(T) = IF Cardinality(S) < n THEN Cardinality(S) ELSE n
                      /\ \A t \in T, s \in S \ T : K(t) >= K(s)}
\* What LIMIT n without an order can leave.
Some(S, n) == Top(S, LAMBDA s : 0, n)

Labelled(g, labels) == {n \in DOMAIN g.node : g.node[n].label \in labels}
CodeOf(g) == Labelled(g, {"Function", "Method", "Class"})
Typed(g, types) == {e \in DOMAIN g.edge : g.edge[e].type \in types}

-----------------------------------------------------------------------------
(* Packages and the calls between them.                                     *)

qnToPackage(qn) == IF qn = <<>> THEN None ELSE IF Len(qn) >= 3 THEN qn[2] ELSE qn[1]
qnToTopPackage(qn) == IF qn = <<>> THEN None ELSE qn[1]

\* The pairs of packages that the edges join, and how often.
Pairs(g, types, of) ==
    {p \in {<<of[g.edge[e].src], of[g.edge[e].tgt]>> : e \in Typed(g, types)} : None \notin {p[1], p[2]}}
Joined(g, types, of, from, to) ==
    Cardinality({e \in Typed(g, types) : of[g.edge[e].src] = from /\ of[g.edge[e].tgt] = to})

tallyCrossPackageCalls(g, of) ==
    LET crosses(e) == LET a == of[g.edge[e].src] b == of[g.edge[e].tgt] IN None \notin {a, b} /\ a # b
        calls == {e \in Typed(g, {"CALLS"}) : crosses(e)}
    IN  [in |-> [p \in {of[n] : n \in DOMAIN of} |-> Cardinality({e \in calls : of[g.edge[e].tgt] = p})],
         out |-> [p \in {of[n] : n \in DOMAIN of} |-> Cardinality({e \in calls : of[g.edge[e].src] = p})]]

\* The package whose path is the longest one above the node's file.
archPackageOf(g) ==
    LET above(n) == {p \in Labelled(g, {"Package"}) : /\ g.node[p].file # <<>>
                                                       /\ IsPrefix(g.node[p].file, g.node[n].file)}
    IN  [n \in DOMAIN g.node |->
            IF n \notin CodeOf(g) \/ above(n) = {} THEN None
            ELSE g.node[CHOOSE p \in above(n) :
                          \A q \in above(n) : Len(g.node[q].file) <= Len(g.node[p].file)].name]
PackageByQN(g) ==
    [n \in DOMAIN g.node |-> IF n \in CodeOf(g) THEN qnToPackage(g.node[n].qn) ELSE None]

\* Package nodes by name; without any, the packages of the qualified names.
archPackages(g) ==
    LET named == {p \in Labelled(g, {"Package"}) : g.node[p].file # <<>> /\ ~g.node[p].vendored}
        names == {g.node[p].name : p \in named}
        size(x) == Cardinality({p \in named : g.node[p].name = x})
        byQN == [n \in DOMAIN g.node |-> IF g.node[n].file = <<>> THEN None ELSE PackageByQN(g)[n]]
        sizeQN(x) == Cardinality({n \in DOMAIN byQN : byQN[n] = x})
        rows(T, of, K(_)) ==
            LET tally == tallyCrossPackageCalls(g, of)
                count(side, x) == IF x \in DOMAIN side THEN side[x] ELSE 0
            IN  {[name |-> x, nodes |-> K(x), in |-> count(tally.in, x), out |-> count(tally.out, x)] : x \in T}
    IN  IF named # {} THEN {rows(T, archPackageOf(g), size) : T \in Top(names, size, MaxPackages)}
        ELSE {rows(T, byQN, sizeQN) :
                T \in Top({byQN[n] : n \in DOMAIN byQN} \ {None}, sizeQN, MaxPackages)}

archBoundaries(g) ==
    LET of == PackageByQN(g)
        crossing == {p \in Pairs(g, {"CALLS"}, of) : p[1] # p[2]}
        calls(p) == Joined(g, {"CALLS"}, of, p[1], p[2])
    IN  {{[from |-> p[1], to |-> p[2], calls |-> calls(p)] : p \in T} : T \in Top(crossing, calls, MaxBoundaries)}

archServices(g) ==
    LET of == [n \in DOMAIN g.node |-> qnToTopPackage(g.node[n].qn)]
        links == UNION {{<<p[1], p[2], t>> : p \in Pairs(g, {t}, of)} : t \in {"HTTP_CALLS", "ASYNC_CALLS"}}
    IN  Top(links, LAMBDA l : Joined(g, {l[3]}, of, l[1], l[2]), MaxBoundaries)

classifyLayer(in, out, hasRoutes, hasEntryPoints) ==
    CASE hasEntryPoints /\ out > 0 /\ in = 0 -> "entry"
      [] hasRoutes -> "api"
      [] in > out /\ in > 3 -> "core"
      [] out = 0 /\ in > 0 -> "leaf"
      [] in = 0 /\ out > 0 -> "entry"
      [] OTHER -> "internal"

\* The layers of the packages in the boundaries shown, and of those with routes or entry points.
archLayers(g) ==
    LET routes == {qnToPackage(g.node[n].qn) : n \in Labelled(g, {"Route"})}
        entries == {qnToPackage(g.node[n].qn) : n \in {n \in DOMAIN g.node : g.node[n].entry}}
        layer(bs, p) ==
            LET callsOf(S) == FoldLeft(LAMBDA n, b : n + b.calls, 0, SetToSeq(S))
                in == callsOf({b \in bs : b.to = p})
                out == callsOf({b \in bs : b.from = p})
            IN  [name |-> p, in |-> in, out |-> out,
                 layer |-> classifyLayer(in, out, p \in routes, p \in entries)]
    IN  {{layer(bs, p) : p \in UNION {{b.from, b.to} : b \in bs} \cup routes \cup entries} :
            bs \in archBoundaries(g)}

-----------------------------------------------------------------------------
(* Lists.                                                                   *)

archSummary(g) ==
    [nodes |-> Len(g.node), edges |-> Len(g.edge),
     labels |-> [l \in {g.node[n].label : n \in DOMAIN g.node} |-> Cardinality(Labelled(g, {l}))],
     types |-> [t \in {g.edge[e].type : e \in DOMAIN g.edge} |-> Cardinality(Typed(g, {t}))]]

\* The languages of the files that are not vendored; None for an unknown suffix.
archLanguages(g) ==
    LET files == {n \in Labelled(g, {"File"}) : ~g.node[n].vendored /\ g.node[n].lang # None}
    IN  Top({g.node[n].lang : n \in files},
            LAMBDA l : Cardinality({n \in files : g.node[n].lang = l}), MaxBoundaries)

\* tested is the property is_test, test a path with "test" in it.  Routes are
\* cut before those of test files are dropped.
archEntryPoints(g) ==
    Some({n \in DOMAIN g.node : g.node[n].entry /\ ~g.node[n].test /\ ~g.node[n].tested}, MaxListed)
archRoutes(g) ==
    {{n \in T : ~g.node[n].test} : T \in Some({n \in Labelled(g, {"Route"}) : ~g.node[n].tested}, MaxListed)}

FanIn(g, n) == Cardinality({e \in Typed(g, {"CALLS"}) : g.edge[e].tgt = n})
Callable(g) ==
    {n \in Labelled(g, {"Function", "Method"}) :
        FanIn(g, n) > 0 /\ ~g.node[n].test /\ ~g.node[n].tested /\ ~g.node[n].vendored}
archHotspots(g) ==
    UNION {Top({n \in pool : g.node[n].name \notin DeriveMethods}, LAMBDA n : FanIn(g, n), MaxHotspots) :
             pool \in Top(Callable(g), LAMBDA n : FanIn(g, n), HotspotPool)}

\* The directories of the first levels with the children they were seen with.
registerFilePath(files, dir) ==
    IF Len(dir) > TreeDepth THEN {}
    ELSE {f[Len(dir) + 1] : f \in {f \in files : Len(f) > Len(dir) /\ IsPrefix(dir, f)}}
collectTreeEntries(files) ==
    LET dirs == UNION {{SubSeq(f, 1, d) : d \in 0..(Len(f) - 1)} : f \in files}
    IN  UNION {{[path |-> Append(dir, c),
                 file |-> Append(dir, c) \in files,
                 children |-> Cardinality(registerFilePath(files, Append(dir, c)))] :
                   c \in registerFilePath(files, dir)} : dir \in dirs}
archFileTree(g) == collectTreeEntries({g.node[n].file : n \in Labelled(g, {"File"})})

FindArchitectureDocs(g) ==
    Some({n \in Labelled(g, {"File"}) : g.node[n].document}, MaxListed)

\* Every file within reach is listed once, as a file, and every entry counts
\* the entries right below it, except the directories of the last level.
TreeIsWhole(g) ==
    LET files == {g.node[n].file : n \in Labelled(g, {"File"})}
        tree == archFileTree(g)
        below(e) == {x \in tree : Len(x.path) = Len(e.path) + 1 /\ IsPrefix(e.path, x.path)}
    IN  /\ \A f \in files : Len(f) <= TreeDepth + 1 =>
              Cardinality({e \in tree : e.path = f /\ e.file}) = 1
        /\ \A e \in tree : e.children = Cardinality(below(e))
        /\ \A e \in tree : ~e.file /\ Len(e.path) <= TreeDepth => below(e) # {}

\* No function that is not shown is called more than one that is, as long as
\* the names of derives fit into the rows read beyond those shown.
HotspotsAreHottest(g) ==
    LET shownable == {n \in Callable(g) : g.node[n].name \notin DeriveMethods}
    IN  Cardinality(Callable(g) \ shownable) <= HotspotPool - MaxHotspots =>
            \A T \in archHotspots(g) :
                /\ T \subseteq shownable
                /\ shownable \ T # {} => Cardinality(T) = MaxHotspots
                /\ \A t \in T, n \in shownable \ T : FanIn(g, n) <= FanIn(g, t)

\* The calls that give a package its layer are calls of the graph, and all
\* of them when no boundary was cut off.
LayersAreTrue(g) ==
    LET of == PackageByQN(g)
        real(p, from) == Cardinality({e \in Typed(g, {"CALLS"}) :
                            LET a == of[g.edge[e].src] b == of[g.edge[e].tgt]
                            IN  None \notin {a, b} /\ a # b /\ p = (IF from THEN a ELSE b)})
        whole == Cardinality({p \in Pairs(g, {"CALLS"}, of) : p[1] # p[2]}) <= MaxBoundaries
    IN  \A rows \in archLayers(g) : \A r \in rows :
            /\ r.in <= real(r.name, FALSE) /\ r.out <= real(r.name, TRUE)
            /\ whole => r.in = real(r.name, FALSE) /\ r.out = real(r.name, TRUE)

-----------------------------------------------------------------------------
(* The decision record.  Its content is a sequence of lines: a header of a  *)
(* canonical section is the section's name, a blank line is "".             *)

CanonicalSet == ToSet(Canonical)

\* Without the blank lines at both ends.
TrimSpace(lines) ==
    LET text == {i \in DOMAIN lines : lines[i] # ""}
    IN  IF text = {} THEN <<>>
        ELSE SubSeq(lines, CHOOSE i \in text : \A j \in text : i <= j,
                           CHOOSE i \in text : \A j \in text : j <= i)

\* The lines of one section are kept in the next.
ParseADRSectionsAppending(content) ==
    LET keep(at) == IF at.section = None THEN at.sections
                    ELSE (at.section :> TrimSpace(at.text)) @@ at.sections
        step(at, line) ==
            IF line \in CanonicalSet THEN [at EXCEPT !.sections = keep(at), !.section = line]
            ELSE [at EXCEPT !.text = Append(@, line)]
    IN  keep(FoldLeft(step, [sections |-> <<>>, section |-> None, text |-> <<>>], content))

\* The text between one canonical header and the next; what stands before the
\* first is dropped, and of two sections of a name the later stays.
ParseADRSections(content) ==
    LET keep(at) == IF at.section = None THEN at.sections
                    ELSE (at.section :> TrimSpace(at.text)) @@ at.sections
        step(at, line) ==
            IF line \in CanonicalSet
              THEN [sections |-> keep(at), section |-> line, text |-> <<>>]
              ELSE [at EXCEPT !.text = Append(@, line)]
    IN  keep(FoldLeft(step, [sections |-> <<>>, section |-> None, text |-> <<>>], content))

\* The sections in the canonical order, a blank line between two.
RenderADR(sections) ==
    LET names == SelectSeq(Canonical, LAMBDA k : k \in DOMAIN sections)
        parts == [i \in DOMAIN names |-> <<names[i]>> \o sections[names[i]]]
    IN  FoldLeft(LAMBDA doc, part : IF doc = <<>> THEN part ELSE doc \o <<"">> \o part, <<>>, parts)

ValidateADRContent(content) == DOMAIN ParseADRSections(content) = CanonicalSet
ValidateADRSectionKeys(names) == names \subseteq CanonicalSet

\* What the record holds after each mode of manage_adr; unchanged on an error.
handleADRStore(record, content) ==
    IF content # <<>> /\ Len(content) <= MaxADR /\ ValidateADRContent(content) THEN content ELSE record
UpdateADRSections(record, new) ==
    LET merged == RenderADR(new @@ ParseADRSections(record))
    IN  IF record # None /\ Len(merged) <= MaxADR THEN merged ELSE record
handleADRUpdate(record, new) ==
    IF DOMAIN new # {} /\ ValidateADRSectionKeys(DOMAIN new) THEN UpdateADRSections(record, new) ELSE record
handleADRDelete(record) == None

\* The sections get shows: those asked for, or all.
handleADRGet(record, include) ==
    LET sections == ParseADRSections(record)
    IN  IF include = {} THEN sections
        ELSE [k \in include \cap DOMAIN sections |-> sections[k]]

\* A section's text: from its last header to the next header.
SectionText(content, k) ==
    LET at == CHOOSE i \in DOMAIN content : content[i] = k /\ \A j \in (i + 1)..Len(content) : content[j] # k
        rest == {j \in (at + 1)..Len(content) : content[j] \in CanonicalSet}
        end == IF rest = {} THEN Len(content) ELSE (CHOOSE j \in rest : \A i \in rest : j <= i) - 1
    IN  TrimSpace(SubSeq(content, at + 1, end))

\* An update replaces the sections it names and keeps the text of every other,
\* and get shows that text; a text with a header of its own is left out: it
\* takes that section over, or loses its end to it.
UpdateKeepsSections(content, new) ==
    LET stored == handleADRStore(None, content)
        updated == handleADRUpdate(stored, new)
        clean == \A k \in DOMAIN new : ToSet(new[k]) \cap CanonicalSet = {}
    IN  stored # None /\ clean /\ updated # stored =>
            \A k \in CanonicalSet :
                LET text == IF k \in DOMAIN new THEN TrimSpace(new[k]) ELSE SectionText(content, k)
                IN  SectionText(updated, k) = text /\ handleADRGet(updated, {k}) = (k :> text)

-----------------------------------------------------------------------------
(* The service map.  A crate's name is a sequence of words.                 *)

IsInside(word, w) == \E i \in 0..(Len(w) - Len(word)) : SubSeq(w, i + 1, i + Len(word)) = word
matches(dp, w) ==
    CASE dp.form = "exact" -> IsPrefix(dp.word, w)
      [] dp.form = "prefix" -> IsPrefix(dp.word, w)
      [] dp.form = "suffix" -> IsSuffix(dp.word, w) /\ w # dp.word
      [] dp.form = "inside" -> IsInside(dp.word, w)
PatternLength(dp) == Len(dp.word) + CASE dp.form = "exact" -> 0 [] dp.form = "inside" -> 2 [] OTHER -> 1

\* The domain of the longest pattern, the first by name of equally long ones.
classifyDomain(w) ==
    LET fits == {dp \in Patterns : matches(dp, w)}
        before(a, b) == SelectInSeq(DomainName, LAMBDA d : d = a) <= SelectInSeq(DomainName, LAMBDA d : d = b)
        longest == {dp.domain : dp \in {dp \in fits : \A x \in fits : PatternLength(x) <= PatternLength(dp)}}
    IN  IF w = <<>> THEN "other"
        ELSE IF fits # {} THEN CHOOSE d \in longest : \A x \in longest : before(d, x)
        ELSE IF IsPrefix(<<"lib">>, w) THEN "library" ELSE "other"

Crate(g, n) == IF g.node[n].file = <<>> THEN None ELSE g.node[n].file[1]

\* What the first functions of a crate call outside it; the scan stops after
\* ScanCap + 1 functions and once there are more than DepCap names.
Dependencies(g, crate) ==
    LET functions == SelectSeq([n \in DOMAIN g.node |-> n],
                               LAMBDA n : n \in Labelled(g, {"Function", "Method"}) /\ Crate(g, n) = crate)
        scanned == SubSeq(functions, 1, IF Len(functions) > ScanCap THEN ScanCap + 1 ELSE Len(functions))
        called(n) == {Crate(g, g.edge[e].tgt) : e \in {e \in Typed(g, {"CALLS", "HTTP_CALLS"}) :
                         /\ g.edge[e].src = n /\ g.edge[e].conf >= MinConfidence
                         /\ g.node[g.edge[e].tgt].name \notin CommonMethods}} \ {None, crate}
    IN  FoldLeft(LAMBDA deps, n : IF Cardinality(deps) > DepCap THEN deps ELSE deps \cup called(n), {}, scanned)

handleServiceMap(g, includeLibs) ==
    LET crates == {Crate(g, n) : n \in DOMAIN g.node} \ {None}
        of(c) == {n \in DOMAIN g.node : Crate(g, n) = c}
        main(c) == \E n \in of(c) : g.node[n].label = "Function" /\ g.node[n].name = "main"
        listed == {c \in crates : main(c) \/ includeLibs \/ classifyDomain(c) \notin {"library", "other"}}
        service(c) == [name |-> c, domain |-> classifyDomain(c), nodes |-> Cardinality(of(c)),
                       functions |-> Cardinality(of(c) \cap Labelled(g, {"Function", "Method"})),
                       routes |-> Cardinality(of(c) \cap Labelled(g, {"Route"})),
                       main |-> main(c), deps |-> Dependencies(g, c)]
        services == {service(c) : c \in listed}
    IN  [total |-> Cardinality(services),
         domains |-> [i \in DOMAIN DomainOrder |-> {s \in services : s.domain = DomainOrder[i]}]]

\* Every dependency is a call of the crate, and each is there as long as no
\* bound was reached; a service counted but not shown is of a domain that
\* DomainOrder lacks.
ServicesAreShown(g, includeLibs) ==
    LET map == handleServiceMap(g, includeLibs)
        shown == UNION ToSet(map.domains)
        calls(c) == {Crate(g, g.edge[e].tgt) : e \in {e \in Typed(g, {"CALLS", "HTTP_CALLS"}) :
                        Crate(g, g.edge[e].src) = c /\ g.edge[e].conf >= MinConfidence
                        /\ g.node[g.edge[e].tgt].name \notin CommonMethods
                        /\ g.edge[e].src \in Labelled(g, {"Function", "Method"})}} \ {None, c}
    IN  /\ \A s \in shown : /\ s.deps \subseteq calls(s.name)
                            /\ s.functions <= ScanCap + 1 /\ Cardinality(calls(s.name)) <= DepCap + 1 =>
                                 s.deps = calls(s.name)
        /\ ToSet(DomainName) \subseteq ToSet(DomainOrder) => map.total = Cardinality(shown)
=============================================================================
