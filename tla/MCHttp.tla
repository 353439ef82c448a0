------------------------------- MODULE MCHttp -------------------------------
(* HttpLinks for TLC: services a and c serve, b calls; the routes of a are   *)
(* registered in a function that main mounts under a prefix or not.          *)
EXTENDS Integers, Sequences, FiniteSets

CONSTANT None

Ht == INSTANCE HttpLinks WITH
        Params <- {":id"}, Numbers <- {"1", "2"}, External <- {"github"},
        DiskRoots <- {"tmp"}, Utility <- {<<"health">>}, Declarers <- {"main"},
        LikeExtension <- {"pyramid"}

-----------------------------------------------------------------------------
(* Trees of scopes and routes, as chi blocks and as actix scopes.            *)

Leaf == [path |-> None, kids |-> <<>>]
UpTo2(S) == {<<>>} \cup {<<x>> : x \in S} \cup {<<x, y>> : x, y \in S}
Blocks(lists) == {[path |-> p, kids |-> l] : p \in {<<"s">>, <<"t">>}, l \in lists}
Trees == UpTo2({Leaf} \cup Blocks(UpTo2({Leaf} \cup Blocks({<<>>, <<Leaf>>}))))

GoLine(chi, brace, route) == [chi |-> chi, brace |-> brace, group |-> None, route |-> route]
Get(path, ref) == [recv |-> "r", method |-> "GET", path |-> path, args |-> <<ref>>]
RECURSIVE GoSource(_), ActixSource(_), Served(_, _)
GoSource(t) ==
    IF t = <<>> THEN <<>>
    ELSE (IF Head(t) = Leaf THEN <<GoLine(None, 0, Get(<<"x">>, "h"))>>
          ELSE <<GoLine(Head(t).path, 1, None)>> \o GoSource(Head(t).kids)
               \o <<GoLine(None, -1, None)>>) \o GoSource(Tail(t))
ActixSource(t) ==
    IF t = <<>> THEN <<>>
    ELSE (IF Head(t) = Leaf
          THEN <<[is |-> "route", path |-> <<"x">>, method |-> "GET", ref |-> "h"]>>
          ELSE <<[is |-> "("], [is |-> "scope", path |-> Head(t).path]>>
               \o ActixSource(Head(t).kids) \o <<[is |-> ")"]>>) \o ActixSource(Tail(t))
Served(prefix, t) ==
    IF t = <<>> THEN <<>>
    ELSE (IF Head(t) = Leaf THEN <<prefix \o <<"x">>>>
          ELSE Served(prefix \o Head(t).path, Head(t).kids)) \o Served(prefix, Tail(t))

Code(qn, label, file) ==
    [qn |-> qn, label |-> label, file |-> file, lang |-> "", test |-> FALSE, client |-> FALSE,
     server |-> FALSE, decorators |-> <<>>, lines |-> <<>>, mounts |-> <<>>, includes |-> <<>>,
     http |-> FALSE, dispatch |-> FALSE, verb |-> None, text |-> {}]
Holder(lang, lines) == [Code(<<"p", "a", "f">>, "Function", "a/f") EXCEPT !.lang = lang, !.lines = lines]
NestingHolds(t) == /\ Ht!ScopesNest(Holder("go", GoSource(t)), Served(<<>>, t))
                   /\ Ht!ScopesNest(Holder("actix", ActixSource(t)), Served(<<>>, t))

-----------------------------------------------------------------------------
(* Two services and a caller.                                                *)

\* How the route is written, with the prefix it has in its own source.
Writings == [how : {"plain", "chi", "group", "decorator", "js", "php"}, mount : {"no", "direct", "variable", "both"}]
OwnPath(w) == (CASE w.how = "chi" -> <<"api">> [] w.how = "group" -> <<"v", "w">> [] OTHER -> <<>>)
              \o <<"x">>
FullPath(w) == (IF w.mount = "no" THEN <<>> ELSE <<"m">>) \o OwnPath(w)

RouteLines(w) ==
    CASE w.how = "plain" -> <<GoLine(None, 0, Get(<<"x">>, "h"))>>
      [] w.how = "chi" -> GoSource(<<[path |-> <<"api">>, kids |-> <<Leaf>>]>>)
      [] w.how = "group" ->
           <<[chi |-> None, brace |-> 0, route |-> None,
              group |-> [var |-> "r", prefix |-> <<"v", "w">>]],
             GoLine(None, 0, Get(<<"x">>, "h"))>>
      [] w.how = "js" -> <<[Get(<<"x">>, "h") EXCEPT !.recv = "app"],
                          [recv |-> "cache", method |-> "GET", path |-> <<"y">>, args |-> <<"h">>]>>
      [] w.how = "php" -> <<Get(<<"x">>, "h")>>
      [] OTHER -> <<>>
Mounts(w) ==
    (IF w.mount \in {"variable", "both"}
     THEN <<[fn |-> None, prefix |-> <<"m">>, set |-> "g", arg |-> None],
            [fn |-> "register", prefix |-> None, set |-> None, arg |-> "g"]>> ELSE <<>>)
    \o (IF w.mount \in {"direct", "both"}
        THEN <<[fn |-> "register", prefix |-> <<"m">>, set |-> None, arg |-> None]>> ELSE <<>>)
Register == <<"p", "a", "routes", "register">>
Server(w) == IF w.how = "decorator" THEN Register ELSE <<"p", "a", "handlers", "h">>
LangOf(w) == IF w.how \in {"js", "php"} THEN w.how ELSE IF w.how = "decorator" THEN "py" ELSE "go"
Literal(host, path) == [host |-> host, path |-> path]
Fetch == <<"p", "b", "client", "fetch">>
Callers(path, verb) ==
    <<[Code(Fetch, "Function", "b/client") EXCEPT
         !.http = TRUE, !.verb = verb,
         !.text = {Literal(None, path), Literal("github", <<"x">>), Literal(None, <<"tmp", "x">>)}],
      [Code(<<"p", "d", "env">>, "InfraFile", "d/env") EXCEPT !.text = {Literal("local", path)}]>>
Others(near) ==
    LET c == Code(<<"p", "c", "handlers", "h">>, "Function", "c/handlers")
        a == Code(<<"p", "a", "handlers", "h">>, "Function", "a/handlers")
    IN  IF near THEN <<a, c>> ELSE <<c, a>>
Project(w, near, path, verb) ==
    [node |-> Others(near) \o
        <<[Code(<<"p", "a", "main", "main">>, "Function", "a/main") EXCEPT !.mounts = Mounts(w)],
          [Code(Register, "Function", "a/routes") EXCEPT
             !.lang = LangOf(w), !.lines = RouteLines(w),
             !.decorators = IF w.how = "decorator"
                            THEN <<[kind |-> "python", method |-> "GET", path |-> <<"x">>]>> ELSE <<>>]>>
        \o Callers(path, verb),
     calls |-> {<<<<"p", "a", "main", "main">>, Register>>},
     route |-> {}, handles |-> {}, links |-> {}, entry |-> {}]

Segments == {"x", "1", ":id"}
Paths == {<<>>} \cup {<<s>> : s \in Segments} \cup {<<s, t>> : s, t \in Segments}
         \cup {<<"y", s, t>> : s, t \in Segments} \cup {<<"z", "y", s, t>> : s, t \in Segments}

HttpSeeds == [topic : {"scopes"}, t : Trees]
             \cup [topic : {"routes"}, w : Writings, near : BOOLEAN] \cup [topic : {"served paths"}, r : Paths]
HttpQuestions(seed) ==
    IF seed.topic = "routes"
    THEN [topic : {"links"}, w : {seed.w}, near : {seed.near}, verb : {None, "GET", "POST"}]
         \cup [topic : {"relink"}, w : {seed.w}, near : {seed.near}, was : Writings, from : BOOLEAN]
         \cup [topic : {"includes"}, w : {seed.w}, var : BOOLEAN]
    ELSE IF seed.topic = "served paths"
    THEN [topic : {"score"}, r : {seed.r}, exact : Paths, suffix : Paths]
    ELSE {}

HttpHolds(ask) ==
    /\ ask.topic = "scopes" => NestingHolds(ask.t)
    /\ ask.topic = "links" =>
          LET g == Project(ask.w, ask.near, FullPath(ask.w), ask.verb)
          IN  /\ Ht!ExactCallsLink(g, Fetch, FullPath(ask.w), Server(ask.w))
              /\ Ht!ExactCallsLink(g, <<"p", "d", "env">>, FullPath(ask.w), Server(ask.w))
    /\ ask.topic = "relink" =>
          Ht!RelinkedAsFresh(Project(ask.was, ask.from, FullPath(ask.was), "GET"),
                             Project(ask.w, ask.near, FullPath(ask.w), "GET"))
    /\ ask.topic = "score" =>
          \A wild \in {p \in Paths : Len(p) = Len(ask.r)} :
             Ht!BetterMatchScoresHigher(ask.exact, ask.suffix, wild, ask.r)

\* A module of the project that includes the router of a's routes.
Included(w, var) ==
    LET g == Project(w, TRUE, <<"x">>, "GET")
        include == [module |-> IF var THEN <<"a", "routes">> ELSE None, prefix |-> <<"v">>]
    IN  [g EXCEPT !.node = Append(@, [Code(<<"p", "app">>, "Module", "app") EXCEPT
                                        !.lang = "py", !.includes = <<include>>])]
IncludesHold(ask) ==
    ask.topic = "includes" =>
       LET g == Included(ask.w, ask.var)
           found == Ht!discoverRoutes(g)
       IN  \A i \in DOMAIN found :
              Ht!IncludesArePrefixed(g, found[i], g.node[Len(g.node)].includes[1])
=============================================================================
