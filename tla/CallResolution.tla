--------------------------- MODULE CallResolution ---------------------------
(* From a name at a call site to an edge: the registry of definitions       *)
(* (resolver.go, resolver_rule.go), the types of receivers                  *)
(* (pass_definitions.go) and the edges of a file (pipeline_cbm.go).         *)
(*                                                                          *)
(* A qualified name is a sequence of words.  A callee is [path, dots]:      *)
(* "p::q.r" has the path <<"p">> and the dots <<"q", "r">>.  An import      *)
(* names [colons, words].  Confidences are in ten-thousandths, rounded      *)
(* down.  A lookup gives the set of results the code may return: it has     *)
(* more than one where the code takes the first of a map, and is empty      *)
(* where the code returns no result.                                        *)
EXTENDS Integers, SequencesExt

CONSTANTS
    NoName,      \* no type, no caller, no dispatch, no qualified name
    Begins,      \* pairs of different words the first of which begins the second
    MaxBases,    \* base classes looked at: 64
    Called,      \* the method named by a word such as "get()" of a chain
    TestWords    \* function names that are tests

CallWords == Begins \subseteq STRING \X STRING /\ \A w \in DOMAIN Called : Called[w] # w

ClassLike == {"Class", "Type", "Interface", "Enum", "Struct", "Trait"}

simpleName(qn) == Last(qn)
Parent(qn) == Front(qn)
Dotted(callee) == Len(callee.dots) > 1
\* splitCalleeName's prefix, as a key of an import map, and its suffix.
Root(callee) == Append(callee.path, Head(callee.dots))
Suffix(callee) == Tail(callee.dots)
\* The whole callee as a suffix of a qualified name: none has a "::".
Whole(callee) == IF callee.path = <<>> THEN {callee.dots} ELSE {}

-----------------------------------------------------------------------------
(* The registry: its qualified names in order, with their labels.           *)

Exists(r, qn) == qn \in DOMAIN r.exact
LabelOf(r, qn) == IF Exists(r, qn) THEN r.exact[qn] ELSE NoName
IsClassLike(r, qn) == LabelOf(r, qn) \in ClassLike \ {"Type"}
Named(r, w) == SelectSeq(r.order, LAMBDA qn : simpleName(qn) = w /\ r.exact[qn] # "Module")
ModulesNamed(r, w) == SelectSeq(r.order, LAMBDA qn : simpleName(qn) = w /\ r.exact[qn] = "Module")
\* A name with a "::" in it is the simple name of nothing.
FindByName(r, callee) ==
    IF callee.path # <<>> /\ ~ Dotted(callee) THEN <<>> ELSE Named(r, Last(callee.dots))

StringPrefix(a, b) ==
    /\ Len(a) <= Len(b)
    /\ \A i \in DOMAIN a : a[i] = b[i] \/ (i = Len(a) /\ <<a[i], b[i]>> \in Begins)

\* A module path with "::" is no prefix of a dotted one, unless a single word.
isImportReachable(qn, imports) ==
    \E k \in DOMAIN imports :
        LET to == imports[k]
            whole == ~ to.colons \/ Len(to.words) = 1
        IN  \/ whole /\ StringPrefix(to.words, Parent(qn))
            \/ whole /\ StringPrefix(Parent(qn), to.words)
            \/ ~ whole /\ Len(Parent(qn)) = 1 /\ StringPrefix(Parent(qn), <<Head(to.words)>>)
\* Without imports the map is nil and everything counts as reachable.
Reachable(ctx, qn) == ctx.imports = <<>> \/ isImportReachable(qn, ctx.imports)
filterImportReachable(ctx, qns) == SelectSeq(qns, LAMBDA qn : Reachable(ctx, qn))

commonPrefixLen(a, b) == Len(LongestCommonPrefix({a, b}))
FirstBest(qns, score(_)) ==
    qns[CHOOSE i \in DOMAIN qns :
            \A j \in DOMAIN qns : score(qns[j]) < score(qns[i]) \/ (score(qns[j]) = score(qns[i]) /\ i <= j)]
bestByImportDistance(qns, module) == FirstBest(qns, LAMBDA qn : commonPrefixLen(qn, module))
\* At equal distance a method, when the callee is a method call.
bestByImportDistancePreferMethod(r, qns, module, callee) ==
    FirstBest(qns, LAMBDA qn : 2 * commonPrefixLen(qn, module)
                               + (IF Dotted(callee) /\ LabelOf(r, qn) = "Method" THEN 1 ELSE 0))

candidateCountPenalty(base, count) == IF count <= 3 THEN base ELSE (base * 3) \div count
importAdjustedConfidence(ctx, base, qn) == IF Reachable(ctx, qn) THEN base ELSE base \div 2

Result(qn, strategy, conf, count) ==
    [qn |-> qn, strategy |-> strategy, conf |-> conf, count |-> count, bound |-> FALSE]
FirstFound(a, b) == IF a # {} THEN a ELSE b

shouldDropCrossPackageSuffix(ctx) == ctx.language = "Python"
shouldDropFuzzyJanusianChains(ctx) == ctx.language = "Python"
shouldRequireImports(ctx) == ctx.language = "Rust"

-----------------------------------------------------------------------------
(* The filters.  Candidates, whether the filter applied, whether it drops.  *)

Unfiltered(qns) == [qns |-> qns, matched |-> FALSE, drop |-> FALSE]

\* Methods of another type go, other definitions stay.
applyReceiverTypeFilter(r, ctx, qns) ==
    LET traits == {p[2] : p \in {p \in r.traits : p[1] = ctx.receiver}}
        ofType(qn) == LabelOf(r, qn) # "Method" \/ Parent(qn) \in {ctx.receiver} \cup traits
        matching == SelectSeq(qns, ofType)
        methods == \E i \in DOMAIN qns : LabelOf(r, qns[i]) = "Method"
    IN  IF ctx.receiver = NoName \/ ~ Dotted(ctx.callee) THEN Unfiltered(qns)
        ELSE [qns |-> matching, matched |-> FALSE, drop |-> methods /\ matching = <<>>]

\* A variant that keeps every candidate when none is what the import says.
applyImportBindingFilterKeeping(r, ctx, qns) == Unfiltered(qns)

\* A bare name that an import binds is what the import says, or external.
applyImportBindingFilter(r, ctx, qns) ==
    LET name == Head(ctx.callee.dots)
        to == ctx.bindings[name]
        target == IF Head(to.words) = "crate" THEN Tail(to.words) ELSE to.words
        matching == SelectSeq(qns, LAMBDA qn : IsSuffix(target, qn))
        internal == \E qn \in DOMAIN r.exact : IsSuffix(target, qn)
    IN  IF \/ qns = <<>> \/ ctx.callee.path # <<>> \/ Dotted(ctx.callee)
           \/ name \notin DOMAIN ctx.bindings
        THEN Unfiltered(qns)
        ELSE IF to.colons /\ Head(to.words) \in {"super", "self"} THEN Unfiltered(qns)
        ELSE IF matching # <<>> THEN [qns |-> matching, matched |-> TRUE, drop |-> FALSE]
        ELSE [qns |-> qns, matched |-> FALSE, drop |-> ~ internal]

Filtered(r, ctx, qns) ==
    LET typed == applyReceiverTypeFilter(r, ctx, qns)
    IN  IF typed.drop THEN typed ELSE applyImportBindingFilter(r, ctx, typed.qns)

allMethodsWithDistinctParents(r, qns) ==
    /\ Len(qns) >= 2
    /\ \A i \in DOMAIN qns : LabelOf(r, qns[i]) = "Method"
    /\ \A i, j \in DOMAIN qns : i # j => Parent(qns[i]) # Parent(qns[j])

-----------------------------------------------------------------------------
(* ResolveCtx and its strategies.                                           *)

\* "Type::method": one type or module, in reach, that has the method.
resolveViaTypeStaticDispatch(r, ctx) ==
    LET type == Head(ctx.callee.path)
        rest == Tail(ctx.callee.path) \o ctx.callee.dots
        imported == type \in DOMAIN ctx.bindings
        above == Parent(ctx.module)
        within(qn, scope) == IsStrictPrefix(scope, qn)
        types == SelectSeq(Named(r, type), LAMBDA qn :
                     /\ LabelOf(r, qn) \in ClassLike /\ Exists(r, qn \o rest)
                     /\ imported \/ within(qn, ctx.module))
        modules == SelectSeq(ModulesNamed(r, type), LAMBDA qn :
                     /\ Exists(r, qn \o rest)
                     /\ imported \/ within(qn, ctx.module) \/ (above # <<>> /\ within(qn, above)))
        target == LET ws == ctx.bindings[type].words IN IF Head(ws) = "crate" THEN Tail(ws) ELSE ws
        renamed == SelectSeq(Named(r, Last(target)), LAMBDA qn :
                     LabelOf(r, qn) \in ClassLike /\ IsSuffix(target, qn))
        unknown == Named(r, type) = <<>> /\ ModulesNamed(r, type) = <<>>
        alias == IF unknown /\ imported /\ renamed # <<>> /\ Exists(r, Head(renamed) \o rest)
                 THEN <<Head(renamed)>> ELSE <<>>
        emissions == types \o modules \o alias
    IN  IF ctx.callee.path # <<>> /\ Len(emissions) = 1
        THEN {Result(Head(emissions) \o rest, "type_static_dispatch", 8500, 1)} ELSE {}

resolveViaImportMap(r, ctx) ==
    LET to == ctx.imports[Root(ctx.callee)]
        suffix == Suffix(ctx.callee)
        whole == ~ to.colons \/ Len(to.words) = 1
        ending == {qn \in DOMAIN r.exact : IsStrictPrefix(to.words, qn) /\ IsStrictSuffix(suffix, qn)}
    IN  IF Root(ctx.callee) \notin DOMAIN ctx.imports \/ ~ whole THEN {}
        ELSE IF Exists(r, to.words \o suffix) THEN {Result(to.words \o suffix, "import_map", 9500, 1)}
        ELSE IF suffix = <<>> \/ shouldDropCrossPackageSuffix(ctx) THEN {}
        ELSE {Result(qn, "import_map_suffix", 8500, 1) : qn \in ending}

\* "x.f" is no call of the module's own function f.
resolveViaSameModule(r, ctx) ==
    LET own == {ctx.module \o w : w \in Whole(ctx.callee)} \cap DOMAIN r.exact
        member == ctx.module \o Suffix(ctx.callee)
    IN  IF own # {} THEN {Result(qn, "same_module", 9000, 1) : qn \in own}
        ELSE IF Dotted(ctx.callee) /\ Exists(r, member) /\ LabelOf(r, member) # "Function"
             THEN {Result(member, "same_module", 9000, 1)} ELSE {}

resolveSuffixMatch(r, ctx, qns) ==
    LET usable == SelectSeq(qns, LAMBDA qn :
                      /\ IsStrictSuffix(Suffix(ctx.callee), qn)
                      /\ shouldRequireImports(ctx) => Reachable(ctx, qn))
        full == SelectSeq(usable, LAMBDA qn : \E w \in Whole(ctx.callee) : IsStrictSuffix(w, qn))
        matches == filterImportReachable(ctx, usable)
    IN  IF shouldDropCrossPackageSuffix(ctx) THEN {}
        ELSE IF full # <<>>
             THEN {Result(Head(full), "suffix_match",
                          candidateCountPenalty(importAdjustedConfidence(ctx, 5500, Head(full)), Len(qns)),
                          Len(qns))}
        ELSE IF matches = <<>> THEN {}
        ELSE IF Len(matches) = 1
             THEN {Result(Head(matches), "suffix_match", candidateCountPenalty(5500, Len(qns)), Len(qns))}
        ELSE {Result(bestByImportDistancePreferMethod(r, matches, ctx.module, ctx.callee), "suffix_match",
                     candidateCountPenalty(5500, Len(matches)), Len(matches))}

pickBestCandidate(r, ctx, qns) ==
    LET near == filterImportReachable(ctx, qns)
        pool == IF near = <<>> THEN qns ELSE near
        count == IF Len(near) <= 1 THEN Len(qns) ELSE Len(near)
    IN  IF \/ Len(qns) <= 1 \/ shouldDropCrossPackageSuffix(ctx)
           \/ (shouldRequireImports(ctx) /\ near = <<>>)
        THEN {}
        ELSE {Result(bestByImportDistancePreferMethod(r, pool, ctx.module, ctx.callee), "suffix_match",
                     candidateCountPenalty(IF near = <<>> THEN 2750 ELSE 5500, count), count)}

\* f is what the filters left.
NameLookup(r, ctx, f) ==
    LET one == Head(f.qns)
    IN  IF f.drop \/ f.qns = <<>> THEN {}
        ELSE IF Len(f.qns) > 1
             THEN FirstFound(IF Dotted(ctx.callee) THEN resolveSuffixMatch(r, ctx, f.qns) ELSE {},
                             pickBestCandidate(r, ctx, f.qns))
        ELSE IF f.matched THEN {[Result(one, "import_map", 9500, 1) EXCEPT !.bound = TRUE]}
        ELSE IF shouldRequireImports(ctx) /\ ~ Reachable(ctx, one) THEN {}
        ELSE {Result(one, "unique_name", importAdjustedConfidence(ctx, 7500, one), 1)}
resolveViaNameLookup(r, ctx) == NameLookup(r, ctx, Filtered(r, ctx, FindByName(r, ctx.callee)))

ResolveCtx(r, ctx) ==
    FirstFound(resolveViaTypeStaticDispatch(r, ctx),
        FirstFound(resolveViaImportMap(r, ctx),
            FirstFound(resolveViaSameModule(r, ctx), resolveViaNameLookup(r, ctx))))

\* Resolve: without a language, bindings or a receiver.
Context(callee, module, imports) ==
    [callee |-> callee, module |-> module, imports |-> imports, bindings |-> <<>>,
     receiver |-> NoName, language |-> NoName]
Resolve(r, callee, module, imports) == ResolveCtx(r, Context(callee, module, imports))

FuzzyLookup(r, ctx, f) ==
    LET near == filterImportReachable(ctx, f.qns)
        tied == /\ shouldDropFuzzyJanusianChains(ctx) /\ ctx.receiver = NoName /\ Dotted(ctx.callee)
                /\ allMethodsWithDistinctParents(r, f.qns)
        of(qns, conf, count) == {Result(bestByImportDistance(qns, ctx.module), "fuzzy",
                                        candidateCountPenalty(conf, count), count)}
    IN  IF f.drop \/ f.qns = <<>> \/ tied THEN {}
        ELSE IF Len(f.qns) = 1 THEN of(f.qns, importAdjustedConfidence(ctx, 4000, Head(f.qns)), 1)
        ELSE IF near = <<>> THEN of(f.qns, 1500, Len(f.qns))
        ELSE IF Len(near) = 1 THEN of(near, 4000, Len(f.qns))
        ELSE of(near, 3000, Len(near))
FuzzyResolveCtx(r, ctx) == FuzzyLookup(r, ctx, Filtered(r, ctx, FindByName(r, ctx.callee)))

-----------------------------------------------------------------------------
(* The types of receivers.  The pipeline's facts p: its registry and        *)
(*   returns, fields   the type a method or a field has, by qualified name  *)
(*   bases             the base classes of a class, in order                *)
(*   impls             the structs that implement a trait, in order         *)
(*   own, external, members   Rust crates: of this repository, foreign ones *)
(*   tier              whether the lsp_local tier is on                     *)

At(f, k) == IF k \in DOMAIN f THEN f[k] ELSE NoName

\* The type a chain of fields and calls reaches from a type, or none.
ChainType(p, type, words) ==
    FoldLeft(LAMBDA t, w :
                IF t = NoName THEN NoName
                ELSE IF w \in DOMAIN Called THEN At(p.returns, Append(t, Called[w]))
                ELSE At(p.fields, Append(t, w)),
             type, words)

TypeOfRoot(types, callee) ==
    IF Dotted(callee) /\ callee.path = <<>> THEN At(types, Head(callee.dots)) ELSE NoName

\* The callee without the name of its own crate.
WithoutCrate(p, callee) ==
    IF callee.path # <<>> /\ Head(callee.path) \in p.own THEN [callee EXCEPT !.path = Tail(@)] ELSE callee

ExternalDrop == "tier2_external_drop"
resolveCallWithTypes(p, written, file, types) ==
    LET callee == WithoutCrate(p, written)
        root == TypeOfRoot(types, callee)
        chain == IF root = NoName THEN NoName
                 ELSE ChainType(p, root, SubSeq(callee.dots, 2, Len(callee.dots) - 1))
        direct == Append(chain, Last(callee.dots))
        crate == Head(callee.path)
        ctx == [callee |-> callee, module |-> file.module, imports |-> file.imports,
                bindings |-> file.bindings, language |-> file.language,
                receiver |-> IF chain # NoName THEN chain ELSE root]
    IN  IF chain # NoName /\ Exists(p.registry, direct) /\ IsClassLike(p.registry, chain)
        THEN {Result(direct, "type_dispatch", 9000, 1)}
        ELSE IF /\ chain = NoName /\ Dotted(callee) /\ callee.path # <<>>
                /\ crate \in p.external \ p.members
             THEN {Result(NoName, ExternalDrop, 0, 0)}
        ELSE ResolveCtx(p.registry, ctx)

\* Breadth first over the base classes, a bounded number, none twice.
resolveInherited(p, callee, caller, types) ==
    LET class == IF Head(callee.dots) \in {"self", "cls"} THEN Parent(caller)
                 ELSE At(types, Head(callee.dots))
        method == Last(callee.dots)
        basesOf(c) == IF c \in DOMAIN p.bases THEN p.bases[c] ELSE <<>>
        step(w, n) ==
            LET base == Head(w.queue)
            IN  IF w.found # {} \/ w.queue = <<>> THEN w
                ELSE IF base \in w.seen THEN [w EXCEPT !.queue = Tail(@)]
                ELSE [queue |-> Tail(w.queue) \o basesOf(base), seen |-> w.seen \cup {base},
                      found |-> {Append(base, method)} \cap DOMAIN p.registry.exact]
        walk == FoldLeft(step, [queue |-> basesOf(class), seen |-> {class}, found |-> {}],
                         [n \in 1..MaxBases |-> n])
    IN  IF \/ ~ p.tier \/ Len(callee.dots) # 2 \/ callee.path # <<>> \/ Head(callee.dots) \in DOMAIN Called
           \/ class = NoName \/ ~ IsClassLike(p.registry, class)
        THEN {}
        ELSE {Result(qn, "lsp_local_inherited", 8500, 1) : qn \in walk.found}

\* A call of a trait's method is one of its only implementation's.
preferImplOverTrait(p, qn) ==
    LET trait == Parent(qn)
        impls == IF trait \in DOMAIN p.impls THEN p.impls[trait] ELSE <<>>
        own == Append(Head(impls), Last(qn))
    IN  IF Len(impls) = 1 /\ LabelOf(p.registry, trait) = "Interface" /\ Exists(p.registry, own)
        THEN own ELSE qn

-----------------------------------------------------------------------------
(* The edges of a file.  A file has its module, language, imports and       *)
(* bindings, the types inferred for each caller, the calls a language       *)
(* server resolved (lsp) and those found in the syntax (calls).             *)

confidenceBand(conf) == IF conf >= 7000 THEN "high" ELSE IF conf >= 4500 THEN "medium" ELSE "speculative"

isTestCallerName(w) == w \in TestWords
callerKindFromContext(r, caller, type) ==
    LET label == LabelOf(r, caller)
    IN  IF type = "CALLS_PSEUDO" THEN "file-block"
        ELSE IF simpleName(caller) = "init" THEN "package-init-block"
        ELSE CASE label = "Method" -> "method-body"
               [] label = "Function" -> IF isTestCallerName(simpleName(caller)) THEN "test-body" ELSE "function-body"
               [] label = NoName -> "unknown"
               [] OTHER -> "file-block"

resolverRuleFromRegistryStrategy(strategy) ==
    CASE strategy = "type_dispatch" -> "interface-dispatch"
      [] strategy = "lsp_local_inherited" -> "receiver-qualified"
      [] strategy = "same_module" -> "same-package-shadow"
      [] strategy = "import_map" -> "cross-package-import-map"
      [] strategy = "unique_name" -> "cross-package-unique-name"
      [] strategy \in {"import_map_suffix", "suffix_match"} -> "cross-package-suffix"
      [] strategy = "type_static_dispatch" -> "exact-qn-match"
      [] strategy = "fuzzy" -> "fuzzy-resolve"
      [] OTHER -> "unknown"
isCrossPackageRule(rule) ==
    rule \in {"cross-package-import-map", "cross-package-unique-name", "cross-package-suffix",
              "cross-package-heuristic"}
resolverRuleFromLSPStrategy(strategy) ==
    CASE strategy \in {"lsp_type_dispatch", "lsp_embed_dispatch"} -> "receiver-qualified"
      [] strategy \in {"lsp_interface_dispatch", "lsp_interface_resolve"} -> "interface-dispatch"
      [] OTHER -> "exact-qn-match"

\* One edge for each caller and callee the server names, and the names of the
\* methods it has settled for each caller.
collectLSPResolvedEdges(r, resolved) ==
    LET new(acc, c) ==
            \/ NoName \in {c.caller, c.callee} \/ c.conf = 0
            \/ \E i \in DOMAIN acc : acc[i].caller = c.caller /\ acc[i].target = c.callee
        step(acc, c) == IF new(acc, c) THEN acc
                        ELSE Append(acc, [caller |-> c.caller, target |-> c.callee, type |-> "CALLS",
                                          conf |-> c.conf, band |-> confidenceBand(c.conf),
                                          strategy |-> c.strategy, count |-> 1,
                                          kind |-> callerKindFromContext(r, c.caller, "CALLS"),
                                          rule |-> resolverRuleFromLSPStrategy(c.strategy)])
        edges == FoldLeft(step, <<>>, resolved)
    IN  [edges |-> edges,
         settled |-> {<<edges[i].caller, simpleName(edges[i].target)>> : i \in DOMAIN edges}]

CallEdge(p, call, file, result) ==
    LET pseudo == call.caller = NoName
        caller == IF pseudo THEN file.module ELSE call.caller
        type == IF pseudo THEN "CALLS_PSEUDO" ELSE "CALLS"
        rule == IF result.strategy = "self_method" THEN "self-method"
                ELSE resolverRuleFromRegistryStrategy(result.strategy)
        ambiguous == ~ pseudo /\ isCrossPackageRule(rule) /\ result.count >= 2
    IN  [caller |-> caller, target |-> preferImplOverTrait(p, result.qn), type |-> type,
         conf |-> result.conf, strategy |-> result.strategy, count |-> result.count,
         kind |-> callerKindFromContext(p.registry, caller, type),
         rule |-> IF pseudo THEN "modal-pseudo" ELSE rule,
         band |-> IF result.strategy = "self_method" THEN NoName
                  ELSE IF ambiguous THEN "speculative-janusian" ELSE confidenceBand(result.conf)]

\* The results a call may become an edge with; none when it stays unresolved.
CallResults(p, call, file, settled) ==
    LET callee == call.callee
        caller == IF call.caller = NoName THEN file.module ELSE call.caller
        types == IF call.caller \in DOMAIN file.types THEN file.types[call.caller]
                 ELSE At(file.types, NoName)
        known == IF types = NoName THEN <<>> ELSE types
        own == Parent(caller) \o Suffix(callee)
        typed == resolveCallWithTypes(p, callee, file, known)
        inherited == resolveInherited(p, callee, caller, known)
        fuzzy == FuzzyResolveCtx(p.registry,
                     [callee |-> callee, module |-> file.module, imports |-> file.imports,
                      bindings |-> file.bindings, receiver |-> TypeOfRoot(known, callee),
                      language |-> file.language])
        found == FirstFound(typed, FirstFound(inherited, fuzzy))
        single == callee.path # <<>> /\ ~ Dotted(callee)
    IN  IF call.local \/ (~ single /\ <<caller, Last(callee.dots)>> \in settled) THEN {}
        ELSE IF /\ Dotted(callee) /\ Root(callee) = <<"self">> /\ Len(caller) > 1
                /\ Exists(p.registry, own)
             THEN {Result(own, "self_method", 10000, 1)}    \* stored without a confidence
        ELSE {x \in found : x.strategy # ExternalDrop /\ x.conf >= 1000}

dispatchKindConfidence(kind) == IF kind = "getattr" THEN 6000 ELSE 9000
tagIndirectDispatch(edge, kind) ==
    IF kind = NoName THEN edge
    ELSE [edge EXCEPT !.conf = dispatchKindConfidence(kind),
                      !.band = confidenceBand(dispatchKindConfidence(kind))]

\* resolveCallEdge: the edges a call may become.
resolveCallEdge(p, call, file, settled) ==
    {tagIndirectDispatch(CallEdge(p, call, file, x), call.dispatch) : x \in CallResults(p, call, file, settled)}

\* The edges and, by caller, how many of its calls became none.
resolveFileCallsCBM(p, file) ==
    LET lsp == collectLSPResolvedEdges(p.registry, file.lsp)
        callerOf(i) == IF file.calls[i].caller = NoName THEN file.module ELSE file.calls[i].caller
        missed(at) == {i \in DOMAIN at : at[i] = {}}
        answer(at) ==
            [edges |-> Range(lsp.edges) \cup UNION Range(at),
             unresolved |-> [c \in {callerOf(i) : i \in missed(at)} |->
                                Cardinality({i \in missed(at) : callerOf(i) = c})]]
    IN  answer([i \in DOMAIN file.calls |-> resolveCallEdge(p, file.calls[i], file, lsp.settled)])

-----------------------------------------------------------------------------
(* What an edge may be trusted for.                                         *)

\* The classes a class descends from, itself included.
Ancestors(p, class) ==
    LET step(S, n) == S \cup UNION {Range(p.bases[c]) : c \in S \cap DOMAIN p.bases}
    IN  FoldLeft(step, {class}, [n \in 1..Cardinality(DOMAIN p.bases) |-> n])

\* A bare name that the file imports from outside the project is never taken
\* for the project's own definition of that name, unless the module has one.
ExternalsStayExternal(p, file, call, x) ==
    LET name == Head(call.callee.dots)
        outside == /\ name \in DOMAIN file.bindings
                   /\ Head(file.bindings[name].words) \notin {"super", "self", "crate"}
                   /\ \A qn \in DOMAIN p.registry.exact : ~ IsSuffix(file.bindings[name].words, qn)
    IN  call.callee.path = <<>> /\ ~ Dotted(call.callee) /\ outside => x.qn = Append(file.module, name)

\* A method found for "x.m" with x of a known type belongs to that type, to a
\* trait it implements or to a class it descends from.
ReceiversKeepTheirType(p, file, call, x) ==
    LET type == file.types[call.caller][Head(call.callee.dots)]
        family == Ancestors(p, type) \cup {t[2] : t \in {t \in p.registry.traits : t[1] = type}}
    IN  /\ call.callee.path = <<>> /\ Len(call.callee.dots) = 2
        /\ call.caller \in DOMAIN file.types
        /\ Head(call.callee.dots) \in DOMAIN file.types[call.caller]
        /\ LabelOf(p.registry, x.qn) = "Method"
        /\ x.strategy \notin {"import_map", "import_map_suffix", "same_module"}
        => Parent(x.qn) \in family

\* In Python no guess across packages counts as more than speculative; in Rust
\* a guess by name alone stays within what the file imports.
GuessesAreBounded(p, file, call, x) ==
    /\ file.language = "Python" => x.strategy \notin {"import_map_suffix", "suffix_match"}
    /\ file.language = "Rust" /\ file.imports # <<>> /\ x.strategy \in {"unique_name", "suffix_match"}
       => isImportReachable(x.qn, file.imports)
    /\ call.callee.path # <<>> /\ ~ Dotted(call.callee) /\ Head(call.callee.path) \notin p.own
       => x.strategy \in {"type_static_dispatch", "import_map", "import_map_suffix"}

\* An edge in the high band has one candidate, and one the code did not have
\* to look for outside what the file can see.
HighIsBacked(p, file, call, x) ==
    LET e == tagIndirectDispatch(CallEdge(p, call, file, x), call.dispatch)
    IN  e.band = "high" /\ call.dispatch = NoName =>
            /\ x.count = 1 /\ x.strategy # "fuzzy"
            /\ x.strategy = "unique_name" => Reachable([imports |-> file.imports], x.qn)

\* What a file's calls resolve to can be relied upon.
CallsResolveSoundly(p, file) ==
    LET settled == collectLSPResolvedEdges(p.registry, file.lsp).settled
    IN  \A i \in DOMAIN file.calls : \A x \in CallResults(p, file.calls[i], file, settled) :
            /\ ExternalsStayExternal(p, file, file.calls[i], x)
            /\ ReceiversKeepTheirType(p, file, file.calls[i], x)
            /\ GuessesAreBounded(p, file, file.calls[i], x)
            /\ HighIsBacked(p, file, file.calls[i], x)
=============================================================================
