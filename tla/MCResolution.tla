---------------------------- MODULE MCResolution ----------------------------
(* The resolution of names for TLC: two packages with a class, a method of  *)
(* one name and a function each, a trait, and a class that derives.         *)
EXTENDS Integers, SequencesExt

CONSTANTS Unnamed    \* no type, caller or name

Re == INSTANCE ResolutionPasses WITH
        NoName <- Unnamed, Begins <- {<<"b", "bb">>}, MaxBases <- 4, Called <- [w \in {"g()"} |-> "g"],
        TestWords <- {"TestX"}, Synthetic <- [w \in {"Clone"} |-> <<"_external", "Clone">>],
        Constructors <- {"new"}, FixtureRounds <- 2

ASSUME Re!CallWords /\ Re!PassBounds

\* The definitions of the project, in order; six of them may be missing.
Def(label, qn) == [label |-> label, qn |-> qn]
Defs == <<Def("Module", <<"p", "a">>), Def("Class", <<"p", "a", "C">>), Def("Method", <<"p", "a", "C", "m">>),
          Def("Function", <<"p", "a", "f">>), Def("Module", <<"p", "b">>), Def("Class", <<"p", "b", "D">>),
          Def("Method", <<"p", "b", "D", "m">>), Def("Function", <<"p", "b", "f">>),
          Def("Interface", <<"p", "bb", "T">>), Def("Method", <<"p", "bb", "T", "m">>),
          Def("Function", <<"p", "bb", "f">>), Def("Function", <<"p", "bb", "sub", "f">>)>>
MayMiss == {3, 4, 7, 8, 11, 12}
Registry(missing) ==
    LET at == SelectSeq([i \in DOMAIN Defs |-> i], LAMBDA i : i \notin missing)
        order == [i \in DOMAIN at |-> Defs[at[i]].qn]
    IN  [order |-> order, traits |-> {<<<<"p", "b", "D">>, <<"p", "bb", "T">>>>},
         exact |-> [qn \in Range(order) |-> Defs[CHOOSE i \in DOMAIN Defs : Defs[i].qn = qn].label]]

\* D derives from C; a field of C is a D, its method g gives a D.
Facts(missing) ==
    [registry |-> Registry(missing), tier |-> FALSE, own |-> {"p"}, external |-> {"ext"}, members |-> {"p"},
     returns |-> [qn \in {<<"p", "a", "C", "g">>} |-> <<"p", "b", "D">>],
     fields |-> [qn \in {<<"p", "a", "C", "d">>} |-> <<"p", "b", "D">>],
     bases |-> [qn \in {<<"p", "b", "D">>, <<"p", "a", "C">>} |->
                   IF qn = <<"p", "b", "D">> THEN <<<<"p", "bb", "T">>, <<"p", "a", "C">>>> ELSE <<<<"p", "b", "D">>>>],
     impls |-> [qn \in {<<"p", "bb", "T">>} |-> <<<<"p", "b", "D">>>>]]

To(words, colons) == [words |-> words, colons |-> colons]
ImportsOf == {<<>>, [k \in {<<"f">>} |-> To(<<"ext", "f">>, FALSE)], [k \in {<<"f">>} |-> To(<<"ext", "f">>, TRUE)],
              [k \in {<<"f">>} |-> To(<<"p", "b", "f">>, FALSE)], [k \in {<<"f">>} |-> To(<<"crate", "b", "f">>, TRUE)],
              [k \in {<<"n">>} |-> To(<<"p", "bb">>, FALSE)],
              [k \in {<<"D">>, <<"u">>} |-> IF k = <<"D">> THEN To(<<"p", "b", "D">>, FALSE) ELSE To(<<"p", "bb">>, TRUE)]}
BindingsOf(imports) == [w \in {Head(k) : k \in DOMAIN imports} |-> imports[<<w>>]]

Callee(path, dots) == [path |-> path, dots |-> dots]
Callees == <<Callee(<<>>, <<"f">>), Callee(<<>>, <<"x", "m">>), Callee(<<>>, <<"x", "d", "m">>),
             Callee(<<>>, <<"x", "g()", "m">>), Callee(<<>>, <<"n", "f">>), Callee(<<>>, <<"self", "m">>),
             Callee(<<"D">>, <<"m">>), Callee(<<"p", "D">>, <<"m">>), Callee(<<"ext">>, <<"h", "m">>),
             Callee(<<>>, <<"C">>), Callee(<<"bb">>, <<"f">>)>>
CallOf(callee, caller) == [callee |-> callee, caller |-> caller, local |-> FALSE, dispatch |-> Unnamed]
File(language, imports, x) ==
    [module |-> <<"p", "a">>, language |-> language, imports |-> imports, bindings |-> BindingsOf(imports),
     types |-> [c \in {<<"p", "a", "C", "r">>} |-> IF x = <<>> THEN <<>> ELSE [w \in {"x"} |-> x]],
     lsp |-> <<>>, calls |-> [i \in DOMAIN Callees |-> CallOf(Callees[i], <<"p", "a", "C", "r">>)]]
\* A method of C with an annotated parameter and two fixtures.
DefR == [qn |-> <<"p", "a", "C", "r">>, params |-> [w \in {"x", "n"} |-> <<"p", "b", "D">>], untyped |-> {"x", "y"},
         file |-> [dir |-> <<"s">>, base |-> "test"]]

Place(dir, base) == [dir |-> dir, base |-> base]
Fx(file, returns, from) == [name |-> "y", file |-> file, returns |-> returns, class |-> Unnamed, from |-> from, call |-> Unnamed]
Fixtures == {Fx(Place(<<>>, "conftest"), <<"p", "a", "C">>, Unnamed), Fx(Place(<<"s">>, "conftest"), <<"p", "b", "D">>, Unnamed),
             Fx(Place(<<"s", "t">>, "conftest"), <<"p", "a", "C">>, Unnamed), Fx(Place(<<"u">>, "test"), <<"p", "b", "D">>, Unnamed),
             Fx(Place(<<"s">>, "test"), <<"p", "a", "C">>, Unnamed)}
Tests == {Place(<<"s">>, "test"), Place(<<"s", "t">>, "test"), Place(<<>>, "test"), Place(<<"v">>, "test")}

\* Go types, with their methods in some order.
GoClasses == {<<"g", "A">>, <<"g", "B">>, <<"h", "A">>}
GoMethod(pkg, type, m) == [qn |-> <<pkg, m>>, receiver |-> type]
GoMethods == {GoMethod("g", "A", "m"), GoMethod("g", "A", "n"), GoMethod("g", "B", "m"), GoMethod("h", "A", "n")}
GoIfaces == {[qn |-> <<"g", "I">>, methods |-> {<<"g", "I", "m">>}],
             [qn |-> <<"g", "J">>, methods |-> {<<"g", "J", "m">>, <<"g", "J", "n">>}],
             [qn |-> <<"g", "K">>, methods |-> {}]}

NameSeeds == [topic : {"names"}, missing : SUBSET MayMiss] \cup [topic : {"fixtures of"}, first : Fixtures]
             \cup [topic : {"types of"}, classes : SUBSET GoClasses]
NameQuestions(seed) ==
    CASE seed.topic = "names" ->
            [topic : {"calls of"}, missing : {seed.missing}, language : {"Python", "Rust", "Go"}, imports : ImportsOf,
             x : {<<>>, <<"p", "a", "C">>, <<"p", "b", "D">>, <<"Vec">>}]
      [] seed.topic = "fixtures of" ->
            [topic : {"fixtures"}, test : Tests,
             order : {s \in UNION {[1..n -> Fixtures] : n \in 1..3} :
                         s[1] = seed.first /\ \A i, j \in DOMAIN s : i # j => s[i] # s[j]}]
      [] seed.topic = "types of" ->
            [topic : {"go types"}, classes : {seed.classes},
             methods : {s \in UNION {[1..n -> GoMethods] : n \in 0..4} :
                           /\ \A i, j \in DOMAIN s : i # j => s[i] # s[j]
                           /\ \A i \in DOMAIN s : Append(Front(s[i].qn), s[i].receiver) \in seed.classes}]
      [] OTHER -> {}

\* The questions about names, answered.
NamesExact(ask) ==
    LET p == Facts(ask.missing)
        file == File(ask.language, ask.imports, ask.x)
        t == Re!resolveFixtureTypes(p, <<CHOOSE fx \in Fixtures : TRUE>>)
        edges == Re!resolveFileCallsCBM(p, file).edges
    IN  /\ Re!CallsResolveSoundly(p, file) /\ Re!CallsResolveSoundly([p EXCEPT !.tier = TRUE], file)
        /\ Re!TierOnlyAdds(p, t, file, <<DefR>>)
        /\ Re!FlushIsTyped(edges, [qn \in (DOMAIN p.registry.exact) \cup {<<"p", "a", "C", "r">>} |->
                                       IF qn = <<"p", "a", "C", "r">> THEN "Method" ELSE p.registry.exact[qn]])
=============================================================================
