-------------------------- MODULE ResolutionPasses --------------------------
(* The facts call resolution rests on and the passes around it: imports     *)
(* (pass_imports_resolve.go), names taken as classes (typeinfer.go), types  *)
(* of variables, fields and results, the lsp_local tier                     *)
(* (resolver_tier_lsp_local.go), interfaces (implements.go), the references *)
(* of a file that are no calls, and the flush of edges to the graph.        *)
(*                                                                          *)
(* Graph nodes are [qn, label, file, ...]; a file is [dir, base, ext] with  *)
(* dir a sequence of words.  Where the code takes what a map yields first,  *)
(* the model takes one of the possible values.                              *)
EXTENDS CallResolution

CONSTANTS
    Synthetic,    \* well-known foreign traits and structs: word -> qualified name
    Constructors, \* Rust's constructor methods: new, default, from, ...
    FixtureRounds \* rounds in which fixtures may depend on each other: 4

PassBounds == FixtureRounds \in Nat \ {0}

OneOf(S) == IF S = {} THEN NoName ELSE CHOOSE x \in S : TRUE

-----------------------------------------------------------------------------
(* Imports.                                                                 *)

\* A relative Python import of some leading dots: the import of a name by one
\* dot more than its level, and the import of a module of the package.
resolvePythonRelativeImport(dots, rest, module) ==
    LET up == IF Len(rest) = 1 THEN dots - 1 ELSE dots
    IN  IF dots = 0 \/ up < 1 \/ Len(module) < up THEN [kept |-> TRUE, words |-> rest]
        ELSE [kept |-> FALSE, words |-> SubSeq(module, 1, Len(module) - up) \o rest]

\* "./x" and "../x" of a script, against the directory of the importer; out of
\* the repository, or of another kind of file, it stays as written.
resolveJSTSRelativeImport(ups, rest, ext, importer, project) ==
    LET dir == SubSeq(importer.dir, 1, Len(importer.dir) - ups)
    IN  IF importer.ext \notin {"js", "ts"} \/ ext \notin {NoName, "js", "ts"} \/ ups > Len(importer.dir)
        THEN [kept |-> TRUE, words |-> rest]
        ELSE [kept |-> FALSE,
              words |-> <<project>> \o dir \o (IF Last(rest) = "index" THEN Front(rest) ELSE rest)]

\* The nodes whose name ends in some words: the shortest of the right kind.
PickBySuffix(nodes, words, labels) ==
    LET hits == {n \in nodes : IsSuffix(words, n.qn) /\ n.label \in labels}
    IN  {n \in hits : \A m \in hits : Len(n.qn) <= Len(m.qn)}

\* passImports: the node an import leads to.  By its own name, by its name
\* within the project, then by suffix: as a module or its parent, and for Rust
\* with the crate's directory in place of its name.
ImportTarget(nodes, to, project, crates) ==
    LET named(qn) == {n \in nodes : n.qn = qn}
        dir == crates[Head(to.words)]
        rest == Tail(to.words)
        rust == {"Module", "Class", "Struct", "Enum", "Function", "Trait"}
        byParent == IF Len(to.words) > 1 THEN PickBySuffix(nodes, Front(to.words), {"Module"}) ELSE {}
        byCrate == IF Head(to.words) \notin DOMAIN crates THEN {}
                   ELSE FirstFound(PickBySuffix(nodes, Append(dir, "lib") \o rest, rust),
                        FirstFound(PickBySuffix(nodes, Append(dir, "main") \o rest, rust),
                        FirstFound(PickBySuffix(nodes, dir \o rest, rust),
                                   IF rest = <<>> THEN {} ELSE PickBySuffix(nodes, Front(dir \o rest), rust))))
    IN  FirstFound(IF to.colons THEN {} ELSE named(to.words),
        FirstFound(IF to.colons THEN {} ELSE named(<<project>> \o to.words),
        FirstFound(PickBySuffix(nodes, to.words, {"Module"}), FirstFound(byParent, byCrate))))

\* cbmParseFile: what an import binds, unless it only states a dependency.
ImportBindings(imports) ==
    [w \in {Last(k) : k \in {k \in DOMAIN imports : ~ imports[k].dependencyOnly}} |->
        OneOf({imports[k] : k \in {k \in DOMAIN imports : Last(k) = w /\ ~ imports[k].dependencyOnly}})]

-----------------------------------------------------------------------------
(* Types.                                                                   *)

\* A name taken for a class: as it resolves, else the class of that name
\* nearest to the module (how much of the next word agrees is left open),
\* else a well-known foreign one.
resolveAsClass(r, name, module, imports) ==
    LET direct == {x \in Resolve(r, name, module, imports) : LabelOf(r, x.qn) \in ClassLike}
        bare == Last(name.dots)
        named == {qn \in Range(Named(r, bare)) : LabelOf(r, qn) \in ClassLike}
        near == {qn \in named : \A o \in named : commonPrefixLen(o, module) <= commonPrefixLen(qn, module)}
    IN  IF direct # {} THEN {x.qn : x \in direct}
        ELSE IF named # {} THEN near
        ELSE IF bare \in DOMAIN Synthetic THEN {Synthetic[bare]} ELSE {}

stripRustConstructorSuffix(name) ==
    IF name.path # <<>> /\ Last(name.dots) \in Constructors
    THEN [path |-> Front(name.path), dots |-> <<Last(name.path)>>] ELSE name

\* inferTypesCBM: the types of a file's variables by caller, the last
\* assignment of each; a foreign type keeps its written name.
inferTypesCBM(r, assigns, module, imports) ==
    LET own == SelectSeq(assigns, LAMBDA a : LabelOf(r, a.within) \notin ClassLike)
        typeOf(a) == LET name == stripRustConstructorSuffix(a.type)
                         class == resolveAsClass(r, name, module, imports)
                     IN  IF class = {} THEN name.path \o name.dots ELSE OneOf(class)
        step(types, a) ==
            LET of == IF a.within \in DOMAIN types THEN types[a.within] ELSE <<>>
            IN  (a.within :> ((a.var :> typeOf(a)) @@ of)) @@ types
    IN  FoldLeft(step, <<>>, own)

\* buildFieldTypeMap: assignments inside a class are its fields.
FieldTypes(r, assigns, module, imports) ==
    LET ofClass == SelectSeq(assigns, LAMBDA a :
                       LabelOf(r, a.within) \in ClassLike /\ resolveAsClass(r, a.type, module, imports) # {})
    IN  FoldLeft(LAMBDA f, a : (Append(a.within, a.var) :> OneOf(resolveAsClass(r, a.type, module, imports))) @@ f,
                 <<>>, ofClass)

\* buildReturnTypeMap: the first declared result, looked up without a module.
ReturnTypes(r, results) ==
    [qn \in {qn \in DOMAIN results : resolveAsClass(r, results[qn], <<>>, <<>>) # {}} |->
        OneOf(resolveAsClass(r, results[qn], <<>>, <<>>))]

\* buildTraitImplMap: the structs of each trait in the order of the blocks.
TraitImpls(r, blocks, module, imports) ==
    LET step(impls, b) ==
            LET trait == OneOf(resolveAsClass(r, b.trait, module, imports))
                struct == OneOf(resolveAsClass(r, b.struct, module, imports))
                known == IF trait \in DOMAIN impls THEN impls[trait] ELSE <<>>
            IN  IF NoName \in {trait, struct} \/ Contains(known, struct) THEN impls
                ELSE (trait :> Append(known, struct)) @@ impls
    IN  FoldLeft(step, <<>>, blocks)

-----------------------------------------------------------------------------
(* The lsp_local tier: fixtures, annotated parameters, base classes.        *)
(* A fixture is [name, file, returns, from, call]: a declared type, or the  *)
(* name it starts from and the method it calls on it; files have dir, base. *)

Conftest(dir) == [dir |-> dir, base |-> "conftest"]
Lookup(t, file, name) ==
    IF file \in DOMAIN t.byFile /\ name \in DOMAIN t.byFile[file] THEN t.byFile[file][name] ELSE NoName

\* The file's own fixture, then those of the conftests up to the root, then
\* the only type that fixtures of this name have in the project.
fixtureType(t, file, name) ==
    LET places == <<file>> \o [i \in 1..(Len(file.dir) + 1) |-> Conftest(SubSeq(file.dir, 1, Len(file.dir) + 1 - i))]
        found == SelectSeq(places, LAMBDA f : Lookup(t, f, name) # NoName)
    IN  IF found # <<>> THEN Lookup(t, Head(found), name)
        ELSE IF name \in DOMAIN t.project THEN t.project[name] ELSE NoName

\* The second type seen for a name makes it ambiguous for good.
recordFixtureType(t, fx, type) ==
    LET own == IF fx.file \in DOMAIN t.byFile THEN t.byFile[fx.file] ELSE <<>>
        agreed == IF fx.name \notin DOMAIN t.project \/ t.project[fx.name] = type THEN type ELSE NoName
    IN  [byFile |-> (fx.file :> ((fx.name :> type) @@ own)) @@ t.byFile,
         project |-> (fx.name :> agreed) @@ t.project]

\* A method's result, of the type or of one of its direct bases.
exprType(p, t, fx) ==
    LET from == IF fx.class # NoName THEN fx.class ELSE fixtureType(t, fx.file, fx.from)
        bases == IF from \in DOMAIN p.bases THEN p.bases[from] ELSE <<>>
        givers == SelectSeq(<<from>> \o bases, LAMBDA c : Append(c, fx.call) \in DOMAIN p.returns)
        given(by) == IF by = <<>> THEN NoName ELSE p.returns[Append(Head(by), fx.call)]
        class(last) == IF last # NoName /\ IsClassLike(p.registry, last) THEN last ELSE NoName
    IN  class(IF fx.call = NoName \/ from = NoName THEN from ELSE given(givers))
fixtureResultType(p, t, fx) == IF fx.returns # NoName THEN fx.returns ELSE exprType(p, t, fx)

\* Rounds over the fixtures, in the order the extraction map yields its files.
resolveFixtureTypes(p, fixtures) ==
    LET record(t, fx, type) == IF Lookup(t, fx.file, fx.name) # NoName \/ type = NoName THEN t
                               ELSE recordFixtureType(t, fx, type)
        step(t, fx) == record(t, fx, fixtureResultType(p, t, fx))
        round(t, n) == FoldLeft(step, t, fixtures)
    IN  FoldLeft(round, [byFile |-> <<>>, project |-> <<>>], [n \in 1..FixtureRounds |-> n])

\* augment: parameters with a type, then fixture parameters, and only where
\* the caller has no type of its own for the name.
augment(t, def, types) ==
    LET own == IF def.qn \in DOMAIN types THEN types[def.qn] ELSE <<>>
        typed == def.params @@ <<>>
        fixtures == {w \in def.untyped : fixtureType(t, def.file, w) # NoName}
    IN  IF DOMAIN def.params = {} /\ def.untyped = {} THEN types
        ELSE (def.qn :> (own @@ typed @@ [w \in fixtures |-> fixtureType(t, def.file, w)])) @@ types

-----------------------------------------------------------------------------
(* Interfaces.  A method is [qn, receiver], an interface its methods.       *)

satisfies(iface, names) == {simpleName(m) : m \in iface.methods} \subseteq names

\* implementsGo: a receiver's methods are pooled by its bare type name; the
\* edge is that of the first type of the name, in the order of the methods.
implementsGo(classes, ifaces, methods) ==
    LET types == {m.receiver : m \in Range(methods)}
        namesOf(t) == {simpleName(m.qn) : m \in {m \in Range(methods) : m.receiver = t}}
        home(t) == Parent(Head(SelectSeq(methods, LAMBDA m : m.receiver = t)).qn)
        structOf(t) == IF Append(home(t), t) \in classes THEN {Append(home(t), t)}
                       ELSE {OneOf({c \in classes : simpleName(c) = t})} \ {NoName}
    IN  UNION {{[from |-> s, to |-> i.qn] : s \in structOf(t)} :
                   <<t, i>> \in {ti \in types \X {i \in ifaces : i.methods # {}} :
                                    satisfies(ti[2], namesOf(ti[1]))}}
createOverrideEdges(home, iface, qns) ==
    {[from |-> Append(home, simpleName(m)), to |-> m] :
        m \in {m \in iface.methods : Append(home, simpleName(m)) \in qns /\ m \in qns}}

\* implementsExplicitCBM and implementsRust: the declared bases, by name; a
\* foreign trait gets a node of its own.
ImplementsEdges(r, declared, module, imports) ==
    {[from |-> c.class, to |-> OneOf(resolveAsClass(r, c.base, module, imports))] :
        c \in {c \in declared : resolveAsClass(r, c.base, module, imports) # {}}}
createOverrideEdgesExplicit(classMethods, ifaceMethods) ==
    {[from |-> c, to |-> i] :
        <<c, i>> \in {ci \in classMethods \X ifaceMethods :
                         simpleName(ci[1]) = simpleName(ci[2]) /\ simpleName(ci[2]) # "constructor"}}

-----------------------------------------------------------------------------
(* The references of a file that are no calls: [within, name] and more.     *)

Within(ref, file) == IF ref.within = NoName THEN file.module ELSE ref.within

\* A function named where it is not called is a reference to it, when nothing
\* was guessed; otherwise, and for other definitions, a usage.
usageEdge(r, caller, x) ==
    LET proven == /\ x.strategy \in {"import_map", "import_map_suffix", "same_module", "unique_name"}
                  /\ x.count <= 1 /\ ~ x.bound
    IN  [caller |-> caller, target |-> x.qn, conf |-> x.conf,
         type |-> IF proven /\ LabelOf(r, x.qn) \in {"Function", "Method"} THEN "CALL_REFERENCE" ELSE "USAGE"]
resolveFileUsagesCBM(r, file, usages) ==
    UNION {{usageEdge(r, Within(u, file), x) : x \in Resolve(r, u.name, file.module, file.imports)} : u \in usages}

isCheckedException(w) == w = "IOException"
\* An exception that does not resolve keeps the name it was thrown by.
resolveFileThrowsCBM(r, file, throws) ==
    UNION {LET found == Resolve(r, t.name, file.module, file.imports)
               type == IF isCheckedException(Last(t.name.dots)) THEN "THROWS" ELSE "RAISES"
           IN  {[caller |-> t.within, target |-> qn, type |-> type] :
                   qn \in IF found = {} THEN {t.name.dots} ELSE {x.qn : x \in found}} :
              t \in {t \in throws : t.within # NoName}}
resolveFileReadsWritesCBM(r, file, accesses) ==
    UNION {{[caller |-> a.within, target |-> x.qn, type |-> IF a.write THEN "WRITES" ELSE "READS"] :
               x \in Resolve(r, a.name, file.module, file.imports)} : a \in {a \in accesses : a.within # NoName}}
resolveFileTypeRefsCBM(r, file, refs) ==
    UNION {{[caller |-> t.within, target |-> x.qn, type |-> "USES_TYPE"] :
               x \in Resolve(r, t.name, file.module, file.imports)} : t \in {t \in refs : t.within # NoName}}
resolveFileConfiguresCBM(accesses, envIndex) ==
    {[caller |-> a.within, target |-> envIndex[a.key], type |-> "CONFIGURES"] :
        a \in {a \in accesses : a.within # NoName /\ a.key \in DOMAIN envIndex}}

-----------------------------------------------------------------------------
(* The flush: the resolved edges against the nodes of the graph.            *)

\* A node for each unknown callee the language server named.
LSPStrategies == {"lsp_type_dispatch", "lsp_embed_dispatch", "lsp_interface_dispatch", "lsp_direct",
                  "lsp_local_inherited"}
createLSPStubNodes(edges, labels) ==
    LET stubs == {e.target : e \in {e \in edges : /\ e.target \notin DOMAIN labels
                                                  /\ e.strategy \in LSPStrategies}}
    IN  [qn \in stubs |-> IF Len(qn) >= 3 THEN "Method" ELSE "Function"]

\* An edge needs both nodes; a call of a stub is external, and a call of what
\* is no function, method or class is indirect.
buildEdgesFromResults(edges, labels, stubs) ==
    LET known == stubs @@ labels
        type(e) == IF e.type = "CALLS" /\ e.target \in DOMAIN stubs THEN "CALLS_EXTERNAL"
                   ELSE IF e.type = "CALLS" /\ known[e.target] \notin {"Function", "Method", "Class"}
                        THEN "INDIRECT_CALLS" ELSE e.type
    IN  {[from |-> e.caller, to |-> e.target, type |-> type(e), external |-> e.target \in DOMAIN stubs] :
            e \in {e \in edges : e.caller \in DOMAIN known /\ e.target \in DOMAIN known}}
flushResolvedEdges(edges, labels) == buildEdgesFromResults(edges, labels, createLSPStubNodes(edges, labels))

-----------------------------------------------------------------------------
(* What the facts promise.                                                  *)

\* Turning the lsp_local tier on takes no call away from the method it was
\* dispatched to, in callers that had types of their own.
TierOnlyAdds(p, t, file, defs) ==
    LET typed == FoldLeft(LAMBDA types, d : augment(t, d, types), file.types, defs)
        dispatched(q, f, i) ==
            {x.qn : x \in {x \in CallResults(q, f.calls[i], f, {}) : x.strategy = "type_dispatch"}}
    IN  \A i \in DOMAIN file.calls :
            file.calls[i].caller \in DOMAIN file.types =>
                dispatched(p, file, i)
                    \subseteq dispatched([p EXCEPT !.tier = TRUE], [file EXCEPT !.types = typed], i)

\* With declared types, the fixture a test sees is its file's own, else that of
\* the nearest conftest above it, else the only one of the project, whatever
\* order the files are read in.
FixturesAreNearest(p, fixtures, file, name) ==
    LET t == resolveFixtureTypes(p, fixtures)
        of == {fx \in Range(fixtures) : fx.name = name}
        inScope == {fx \in of : fx.file = file
                                 \/ (fx.file.base = "conftest" /\ IsPrefix(fx.file.dir, file.dir))}
        nearest == {fx \in inScope : \/ fx.file = file
                                     \/ /\ \A o \in inScope : o.file # file
                                        /\ \A o \in inScope : Len(o.file.dir) <= Len(fx.file.dir)}
        types == {fx.returns : fx \in IF inScope = {} THEN of ELSE nearest}
    IN  (\A fx \in of : fx.returns # NoName) =>
            fixtureType(t, file, name) = IF Cardinality(types) = 1 THEN OneOf(types) ELSE NoName

\* A Go type implements an interface exactly when it has all its methods, as
\* long as no two types share a name.
GoImplementsSound(classes, ifaces, methods) ==
    LET own(c) == {simpleName(m.qn) : m \in {m \in Range(methods) : Parent(m.qn) = Parent(c) /\ m.receiver = Last(c)}}
        single == \A c, d \in classes : simpleName(c) = simpleName(d) => c = d
    IN  single => implementsGo(classes, ifaces, methods) =
            {[from |-> c, to |-> i.qn] :
                <<c, i>> \in {ci \in classes \X ifaces :
                                 ci[2].methods # {} /\ satisfies(ci[2], own(ci[1]))}}

\* In the graph an edge of the calls family joins nodes, CALLS ends at what can
\* be called, and only what a server or a base class named is external.
FlushIsTyped(edges, labels) ==
    \A e \in flushResolvedEdges(edges, labels) :
        /\ e.type = "CALLS" => e.to \in DOMAIN labels /\ labels[e.to] \in {"Function", "Method", "Class"}
        /\ e.external <=> e.to \notin DOMAIN labels

\* A reference with a proven single target has just one target it can have.
ReferencesAreProven(r, file, usages) ==
    \A u \in usages : LET targets == Resolve(r, u.name, file.module, file.imports)
                      IN  (\E x \in targets : usageEdge(r, Within(u, file), x).type = "CALL_REFERENCE")
                          => Cardinality(targets) = 1
=============================================================================
