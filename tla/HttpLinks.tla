----------------------------- MODULE HttpLinks -----------------------------
(* Calls between services: routes are read off the sources of functions and  *)
(* modules, completed with the prefixes their routers are mounted under, and *)
(* matched by path with the calls of other services.                         *)
(*                                                                           *)
(* A path is a sequence of segments and a qualified name one of words; no    *)
(* word begins with another.  A source is what the patterns find in it:      *)
(*   Go lines    [chi, brace, group, route], each None where nothing matches *)
(*   actix       the tokens "(", ")", [scope] and [route]                    *)
(*   other lines [recv, method, path, args]                                  *)
(* and the calls to other services in it are literals [form, host, path].    *)
EXTENDS Integers, FiniteSets, SequencesExt

CONSTANTS
    None,          \* no value
    Params,        \* segments that are parameters, ":id" or "{id}"
    Numbers,       \* segments that are numbers or UUIDs
    External,      \* hosts known not to be the project's own
    DiskRoots,     \* first segments that make a path one of the file system
    Utility,       \* paths no call is linked to, such as /health
    Declarers,     \* names of functions that declare routes
    LikeExtension  \* names that begin with "py", "js" or "ts"

Wild == "*"
Last2(s) == SubSeq(s, 1, Len(s) - 2)

-----------------------------------------------------------------------------
(* Routes in sources                                                         *)

Route(f, path, method, ref, protocol) ==
    [path |-> path, method |-> method, qn |-> f.qn, ref |-> ref, handler |-> None,
     protocol |-> protocol]

\* The last argument names the handler unless it is an expression.
handlerReference(args) ==
    IF args # <<>> /\ args[Len(args)] # "expression" THEN args[Len(args)] ELSE None

\* Decorators: Python, Spring, actix attributes and ASP.NET, in that order.
extractDecorated(f) ==
    LET Of(kind) == SelectSeq(f.decorators, LAMBDA d : d.kind = kind /\ d.path # None)
        Found == FlattenSeq([k \in 1..4 |-> Of(<<"python", "java", "rust", "aspnet">>[k])])
    IN  [i \in DOMAIN Found |->
            IF Found[i].method = "WS" THEN Route(f, Found[i].path, "WS", None, "ws")
            ELSE Route(f, Found[i].path,
                       IF Found[i].method = "ROUTE" THEN None ELSE Found[i].method, None, None)]

groupPrefix(lines, var) ==
    LET bound == {i \in DOMAIN lines : lines[i].group # None /\ lines[i].group.var = var}
    IN  IF bound = {} THEN <<>>
        ELSE lines[CHOOSE i \in bound : \A j \in bound : j <= i].group.prefix

\* A block that ends one closing brace too late.
GoLineLate(f, acc, line) ==
    LET opened == IF line.chi = None THEN acc.blocks
                  ELSE Append(acc.blocks, [prefix |-> line.chi, depth |-> acc.depth])
        depth == acc.depth + line.brace
        blocks == SelectSeq(opened, LAMBDA b : depth >= b.depth)
        full(r) == IF blocks # <<>>
                   THEN FlattenSeq([i \in DOMAIN blocks |-> blocks[i].prefix]) \o r.path
                   ELSE groupPrefix(f.lines, r.recv) \o r.path
    IN  [blocks |-> blocks, depth |-> depth,
         routes |-> IF line.route = None THEN acc.routes
                    ELSE Append(acc.routes, Route(f, full(line.route), line.route.method,
                                                  handlerReference(line.route.args), None))]
\* chi blocks nest with the braces; a block ends where the depth falls back.
GoLine(f, acc, line) ==
    LET opened == IF line.chi = None THEN acc.blocks
                  ELSE Append(acc.blocks, [prefix |-> line.chi, depth |-> acc.depth])
        depth == acc.depth + line.brace
        blocks == SelectSeq(opened, LAMBDA b : depth > b.depth)
        full(r) == IF blocks # <<>>
                   THEN FlattenSeq([i \in DOMAIN blocks |-> blocks[i].prefix]) \o r.path
                   ELSE groupPrefix(f.lines, r.recv) \o r.path
    IN  [blocks |-> blocks, depth |-> depth,
         routes |-> IF line.route = None THEN acc.routes
                    ELSE Append(acc.routes, Route(f, full(line.route), line.route.method,
                                                  handlerReference(line.route.args), None))]
extractGoRoutes(f) ==
    FoldLeft(LAMBDA acc, line : GoLine(f, acc, line),
             [blocks |-> <<>>, depth |-> 0, routes |-> <<>>], f.lines).routes

\* The first Router.Get... of a client bundle is no route of a server.
extractExpressRoutes(f) ==
    LET Kept(l) == /\ l.recv \in {"app", "router"}
                   /\ l.method = "GET" => l.args # <<>>
        kept == IF f.client THEN <<>> ELSE SelectSeq(f.lines, Kept)
    IN  [i \in DOMAIN kept |-> Route(f, kept[i].path, kept[i].method,
                                     handlerReference(kept[i].args), None)]

\* Laravel, ktor and axum name path, verb and handler in one expression.
extractPlainRoutes(f) ==
    [i \in DOMAIN f.lines |->
        Route(f, f.lines[i].path, f.lines[i].method, handlerReference(f.lines[i].args),
              IF f.lines[i].method = "WS" THEN "ws" ELSE None)]

\* actix scopes are bounded by the parenthesis they stand in.
ActixToken(f, acc, t) ==
    CASE t.is = "("     -> [acc EXCEPT !.depth = @ + 1]
      [] t.is = ")"     -> [acc EXCEPT !.depth = @ - 1,
                                       !.scopes = SelectSeq(@, LAMBDA s : s.depth < acc.depth)]
      [] t.is = "scope" -> [acc EXCEPT !.scopes = Append(@, [path |-> t.path, depth |-> acc.depth])]
      [] t.is = "route" ->
           LET full == FlattenSeq([i \in DOMAIN acc.scopes |-> acc.scopes[i].path]) \o t.path
           IN  IF full = <<>> THEN acc
               ELSE [acc EXCEPT !.routes = Append(@, Route(f, full, t.method, t.ref, None))]
extractActixBuilderRoutes(f) ==
    FoldLeft(LAMBDA acc, t : ActixToken(f, acc, t),
             [scopes |-> <<>>, depth |-> 0, routes |-> <<>>], f.lines).routes

ExtractSource(f) ==
    CASE f.lang = "go" -> extractGoRoutes(f)
      [] f.lang = "js" -> extractExpressRoutes(f)
      [] f.lang \in {"php", "kt", "axum"} -> extractPlainRoutes(f)
      [] f.lang = "actix" -> extractActixBuilderRoutes(f)
      [] OTHER -> <<>>

\* Functions and methods first; a PHP module only where its file has neither,
\* a JavaScript module only where it makes a server.
discoverRoutes(g) ==
    LET code == SelectSeq(g.node, LAMBDA n : n.label \in {"Function", "Method"})
        mods == SelectSeq(g.node, LAMBDA n :
                    /\ n.label = "Module" /\ ~n.test
                    /\ \/ n.lang = "php" /\ \A i \in DOMAIN code : code[i].test \/ code[i].file # n.file
                       \/ n.lang = "js" /\ n.server)
        live == SelectSeq(code, LAMBDA n : ~n.test)
    IN  FlattenSeq([i \in DOMAIN live |-> extractDecorated(live[i]) \o ExtractSource(live[i])])
        \o FlattenSeq([i \in DOMAIN mods |-> ExtractSource(mods[i])])

-----------------------------------------------------------------------------
(* Prefixes of mounted routers                                               *)

prependPrefix(path, prefix) == IF IsPrefix(prefix, path) THEN path ELSE prefix \o path

\* The prefixes one caller mounts a function under: register(r.Group("/p")),
\* or a variable that holds the group; the first of each form counts.
CallerPrefixes(caller, name) ==
    LET direct == {i \in DOMAIN caller.mounts : /\ caller.mounts[i].fn = name
                                               /\ caller.mounts[i].prefix # None}
        Held(v) == LET set == {i \in DOMAIN caller.mounts : caller.mounts[i].set = v}
                   IN  IF v = None \/ set = {} THEN None
                       ELSE caller.mounts[CHOOSE i \in set : \A j \in set : j <= i].prefix
        passed == {i \in DOMAIN caller.mounts : /\ caller.mounts[i].fn = name
                                               /\ Held(caller.mounts[i].arg) # None}
        First(S) == CHOOSE i \in S : \A j \in S : i <= j
    IN  (IF direct = {} THEN <<>> ELSE <<caller.mounts[First(direct)].prefix>>)
        \o (IF passed = {} THEN <<>> ELSE <<Held(caller.mounts[First(passed)].arg)>>)

NodeOf(g, qn) == {i \in DOMAIN g.node : g.node[i].qn = qn}
resolveCrossFileGroupPrefixes(g, r) ==
    LET callers == SelectSeq(g.node, LAMBDA n : <<n.qn, r.qn>> \in g.calls)
        all == FlattenSeq([i \in DOMAIN callers |-> CallerPrefixes(callers[i], r.qn[Len(r.qn)])])
    IN  [r EXCEPT !.path = FoldLeft(prependPrefix, @, all)]

\* Whether the text of a qualified name holds that of a file: a name is joined
\* with dots and has lost its extension.
MentionsFile(qn, file) ==
    /\ Len(file) = 1
    /\ \E i \in 1..Len(qn) - 1 : qn[i] = file[1] /\ qn[i + 1] \in LikeExtension

\* FastAPI's include_router and Express's use: each mount of an imported router.
resolveImportedPrefixes(g, r) ==
    LET mods == SelectSeq(g.node, LAMBDA n : n.label = "Module")
        mounted(m) == SelectSeq(m.includes, LAMBDA x : x.module # None /\ MentionsFile(r.qn, x.module))
        all == FlattenSeq([i \in DOMAIN mods |-> mounted(mods[i])])
    IN  [r EXCEPT !.path = FoldLeft(LAMBDA p, x : prependPrefix(p, x.prefix), @, all)]

-----------------------------------------------------------------------------
(* Handlers and route nodes                                                  *)

Named(g, name) == {i \in DOMAIN g.node : g.node[i].qn[Len(g.node[i].qn)] = name}
\* Words and the dots between them, of which two names share the one behind a
\* word that neither ends with: distinct words are taken to share no beginning.
commonPrefixLen(a, b) ==
    LET words == {n \in DOMAIN a : n \in DOMAIN b /\ SubSeq(a, 1, n) = SubSeq(b, 1, n)}
        dots == {n \in words : n < Len(a) /\ n < Len(b)}
    IN  Cardinality(words) + Cardinality(dots)

\* A registration is a call of the first node with the handler's name.
Registered(g, r) ==
    LET found == IF r.ref = None \/ NodeOf(g, r.qn) = {} THEN {} ELSE Named(g, r.ref)
    IN  [r EXCEPT !.handler =
            IF found = {} THEN None ELSE g.node[CHOOSE i \in found : \A j \in found : i <= j].qn]

HandlerOf(r) == IF r.handler = None THEN r.qn ELSE r.handler
RouteKey(r) == [qn |-> r.qn, method |-> r.method, path |-> r.path]
RouteNode(r) == [key |-> RouteKey(r), handler |-> HandlerOf(r)]

\* Each route becomes a node its handler HANDLES; the handler is an entry point.
insertRouteNodes(g, routes) ==
    FoldLeft(LAMBDA a, r :
               [a EXCEPT !.route = {x \in @ : x.key # RouteKey(r)} \cup {RouteNode(r)},
                         !.handles = @ \cup {<<HandlerOf(r), RouteKey(r)>> : i \in NodeOf(g, HandlerOf(r))},
                         !.entry = @ \cup {HandlerOf(r) : i \in NodeOf(g, HandlerOf(r))}],
             g, routes)

\* Calls go to the handler itself: of several with its name, the one nearest
\* to the registration.  A function that only declares routes is no handler.
resolveHandlerNode(g, r) ==
    LET own == IF r.qn[Len(r.qn)] \in Declarers THEN {} ELSE NodeOf(g, r.qn)
        named == IF r.ref = None THEN {}
                 ELSE {i \in Named(g, r.ref) : g.node[i].label \in {"Function", "Method"}}
        nearest == {i \in named : \A j \in named :
                       commonPrefixLen(r.qn, g.node[j].qn) <= commonPrefixLen(r.qn, g.node[i].qn)}
    IN  IF named = {} THEN own ELSE {CHOOSE i \in nearest : \A j \in nearest : i <= j}

-----------------------------------------------------------------------------
(* Calls in sources                                                          *)

\* URLs with a host count unless the host is known, bare paths unless they
\* look like files.
extractURLPaths(text) ==
    {l.path : l \in {l \in text : IF l.host # None THEN l.host \notin External
                                   ELSE l.path # <<>> /\ l.path[1] \notin DiskRoots}}

Site(n, path) == [path |-> path, method |-> IF n.label \in {"Function", "Method"} THEN n.verb ELSE None,
                  node |-> n.qn, label |-> n.label, async |-> n.dispatch /\ ~n.http]
\* A function must use an HTTP client or a queue; the constants of a module and
\* the environment of an infrastructure file always count.
discoverCallSites(g) ==
    UNION {{Site(g.node[i], p) : p \in extractURLPaths(g.node[i].text)} :
             i \in {i \in DOMAIN g.node : \/ g.node[i].label \in {"Module", "InfraFile"}
                                          \/ g.node[i].http \/ g.node[i].dispatch}}

-----------------------------------------------------------------------------
(* Scores, in 240000ths                                                      *)

\* Every second of adjacent numbers only: a match consumes the slash behind it.
normalizePath(path) ==
    FoldLeft(LAMBDA acc, s :
               IF s \in Params THEN [out |-> Append(acc.out, Wild), eaten |-> FALSE]
               ELSE IF s \in Numbers /\ ~acc.eaten THEN [out |-> Append(acc.out, Wild), eaten |-> TRUE]
               ELSE [out |-> Append(acc.out, s), eaten |-> FALSE],
             [out |-> <<>>, eaten |-> FALSE], path).out

segmentJaccard(a, b) ==
    LET sa == ToSet(a) \ {Wild}   sb == ToSet(b) \ {Wild}
    IN  IF sa \cup sb = {} THEN 0
        ELSE (60 * Cardinality(sa \cap sb)) \div Cardinality(sa \cup sb)
depthFactor(n) == IF n >= 3 THEN 60 ELSE 20 * n

normalizedScore(c, r) ==
    LET unify == Len(c) = Len(r) /\ \A i \in DOMAIN c : c[i] = r[i] \/ Wild \in {c[i], r[i]}
        Score(base, seen) == base * (segmentJaccard(seen, r) + depthFactor(Len(r)))
    IN  CASE c = <<>> \/ r = <<>> -> 0
          [] c = r -> Score(95, c)
          [] c # r /\ IsSuffix(r, c) -> Score(75, r)
          [] c # r /\ ~IsSuffix(r, c) /\ unify -> Score(55, c)
          [] OTHER -> 0
pathMatchScore(call, route) == normalizedScore(normalizePath(call), normalizePath(route))

methodBonus(a, b) == IF None \in {a, b} THEN 0 ELSE IF a = b THEN 24000 ELSE -36000
sourceWeight(label) == IF label \in {"Function", "Method"} THEN 20 ELSE 17
MinConfidence == 86400
Score(site, r) == pathMatchScore(site.path, r.path) * sourceWeight(site.label)
                  + methodBonus(site.method, r.method)

sameService(a, b) == Len(a) > 2 /\ Len(b) > 2 /\ Last2(a) = Last2(b)

Matches(site, r) ==
    /\ ~sameService(site.node, r.qn) /\ r.path \notin Utility
    /\ pathMatchScore(site.path, r.path) > 0 /\ Score(site, r) >= MinConfidence
matchAndLink(g, routes, sites) ==
    UNION {UNION {{[src |-> site.node, tgt |-> g.node[h].qn,
                    type |-> IF site.async THEN "ASYNC_CALLS" ELSE "HTTP_CALLS"] :
                     h \in {h \in resolveHandlerNode(g, r) :
                              \A i \in NodeOf(g, site.node) :
                                 i # h /\ (g.node[i].file = None \/ g.node[i].file # g.node[h].file)}} :
                     r \in {r \in routes : Matches(site, r)}} :
             site \in sites}

-----------------------------------------------------------------------------
\* Linker.Run: routes, prefixes, registrations, route nodes, links.
Mounted(g, r) == resolveImportedPrefixes(g, resolveCrossFileGroupPrefixes(g, r))
Run(g) ==
    LET resolved(found) == [i \in DOMAIN found |-> Registered(g, Mounted(g, found[i]))]
        registered(routes) == {<<routes[i].qn, routes[i].handler>> :
                                  i \in {i \in DOMAIN routes : routes[i].handler # None}}
        linked(routes) ==
            insertRouteNodes([g EXCEPT !.calls = @ \cup registered(routes),
                                       !.links = @ \cup matchAndLink(g, ToSet(routes),
                                                                     discoverCallSites(g))],
                             routes)
    IN  linked(resolved(discoverRoutes(g)))
\* The pass first drops what an earlier one linked.
passHTTPLinks(g) == Run([g EXCEPT !.route = {}, !.handles = {}, !.links = {}])

-----------------------------------------------------------------------------
\* Linking a graph that an earlier run had linked gives the links of a fresh
\* one: routes that are gone leave nothing behind.
RelinkedAsFresh(before, now) ==
    LET after(old) ==
            [now EXCEPT !.route = old.route, !.handles = old.handles, !.links = old.links,
                        !.calls = @ \cup {e \in old.calls :
                                              NodeOf(now, e[1]) # {} /\ NodeOf(now, e[2]) # {}}]
        shown(g) == <<g.route, g.handles, g.links>>
    IN  shown(passHTTPLinks(after(passHTTPLinks(before)))) = shown(passHTTPLinks(now))

\* A call of exactly the path a service serves is linked to the function that
\* serves it, however the path was put together from prefixes.
ExactCallsLink(g, site, path, handler) ==
    LET n == g.node[CHOOSE i \in NodeOf(g, site) : TRUE]
        h == g.node[CHOOSE i \in NodeOf(g, handler) : TRUE]
    IN  (/\ path \in extractURLPaths(n.text) /\ n.file # h.file /\ path \notin Utility
         /\ n.label \in {"Module", "InfraFile"} \/ n.http)
        => \E l \in passHTTPLinks(g).links : l.src = site /\ l.tgt = handler

\* A better match scores no lower: equal paths, then a suffix, then parameters.
BetterMatchScoresHigher(exact, suffix, wild, route) ==
    (/\ normalizePath(exact) = normalizePath(route)
     /\ IsSuffix(normalizePath(route), normalizePath(suffix))
     /\ pathMatchScore(wild, route) > 0 /\ Len(wild) = Len(route))
    => /\ pathMatchScore(exact, route) >= pathMatchScore(suffix, route)
       /\ pathMatchScore(exact, route) >= pathMatchScore(wild, route)

\* The routes of nested scopes carry the prefixes of all that enclose them.
ScopesNest(f, expected) ==
    LET found == ExtractSource(f)
    IN  [i \in DOMAIN found |-> found[i].path] = expected

\* The routes of an included router answer under the prefix it is included with.
IncludesArePrefixed(g, r, include) ==
    include.module = SubSeq(r.qn, 2, Len(r.qn) - 1)
    => IsPrefix(include.prefix, Mounted(g, r).path)
=============================================================================
