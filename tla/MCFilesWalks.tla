---------------------------- MODULE MCFilesWalks ----------------------------
(* Files, walks and embeddings, for TLC.  Files: every mixture of ignore     *)
(* rules about d/e/f, a file of every kind in a directory of every kind, and *)
(* every slice of a short file.  Walks: any calls among five functions.      *)
(* Embedder: three nodes in two batches, and every script of three replies.  *)
EXTENDS Integers, Sequences, FiniteSets

CONSTANTS
    ReadLines, ReadBytes, HintLines, FastSize, JSONSize,   \* the limits of Files
    BFSCap, CycleCap, SurfaceCap,                          \* the limits of Traversal
    Absent                                                 \* an absent vector, client, confidence or path

VARIABLE ask    \* the question: its topic, and what it is about

F == INSTANCE Files
T == INSTANCE Traversal WITH None <- Absent

ASSUME WalkCaps == T!TraversalCaps

Wide(model) == IF model = "m" THEN 2 ELSE 3
V == INSTANCE Embedder WITH MaxAttempts <- 2, BatchSize <- 2, Width <- Wide, None <- Absent

Says == {"none", "ignore", "keep"}
Deep == <<"d", "e", "f">>
RootRules == {<<<<>>, SubSeq(Deep, 1, n)>> : n \in 1..3}
InnerRules == {<<<<"d">>, <<"e">>>>, <<<<"d">>, <<"e", "f">>>>, <<<<"d", "e">>, <<"f">>>>}
LastRules == {<<F!Exclude, SubSeq(Deep, 1, n)>> : n \in 1..3}

OnDisk(path, size, language, compiled, generated, tooling) ==
    [path |-> path, size |-> size, language |-> language, compiled |-> compiled,
     generated |-> generated, tooling |-> tooling]
Plain(path) == OnDisk(path, 1, "known", FALSE, FALSE, FALSE)
Disk(files, rules, git, kind, max) ==
    [files |-> files, rules |-> rules, git |-> git, kind |-> kind, maxFileBytes |-> max,
     cgrignore |-> {}, cbmignore |-> {}, unreadable |-> {}, links |-> {}]

\* One file in d, one beside it, and one way in which d or the file is closed.
RuleOn(p) == {<<<<>>, p>>, <<F!Exclude, p>>}
TwoRules(says) ==
    [r \in RuleOn(<<"d">>) \cup RuleOn(<<"g">>) \cup RuleOn(<<"d", "f">>) \cup {<<<<"d">>, <<"f">>>>} |->
        IF r = <<<<>>, <<"d">>>> THEN says[1] ELSE IF r = <<<<"d">>, <<"f">>>> THEN says[2] ELSE "none"]
Closed(disk, how) ==
    CASE how = "open" -> disk
      [] how = "cgrignore" -> [disk EXCEPT !.cgrignore = {<<"d">>}]
      [] how = "cbmignore" -> [disk EXCEPT !.cbmignore = {<<"d", "f">>}]
      [] how = "link" -> [disk EXCEPT !.links = {<<"d">>}]
      [] how = "unreadable" -> [disk EXCEPT !.unreadable = {<<"d">>}]

\* Lines of two bytes or of three; the longer ones are over the limit.
FileTexts == {[newlines |-> {w * i : i \in 1..(n - 1)}, size |-> w * n] : n \in 1..10, w \in 2..3}

FileSeeds ==
    [topic : {"rules"}, root : [RootRules -> Says]]
    \cup [topic : {"file in"}, kind : {"plain", "built in", "hidden", "generated"},
          language : {"known", "json", "none"}, compiled : BOOLEAN, generated : BOOLEAN]
    \cup [topic : {"file of"}, text : FileTexts]

AskRules ==
    /\ ask.topic = "rules"
    /\ \E i \in [InnerRules -> Says], l \in [LastRules -> Says] :
          ask' = [topic |-> "ignored", root |-> ask.root, inner |-> i, last |-> l]
AskDiscovery ==
    /\ ask.topic = "file in"
    /\ \E s \in 2..4, t \in BOOLEAN, m \in {0, 3}, g \in {"directory", "file"},
          y \in {<<"none", "none">>, <<"ignore", "keep">>, <<"keep", "ignore">>},
          h \in {"open", "cgrignore", "cbmignore", "link", "unreadable"} :
          ask' = [topic |-> "discovered", in |-> ask, size |-> s, tooling |-> t, max |-> m, git |-> g,
                  says |-> y, how |-> h]
AskSlice ==
    /\ ask.topic = "file of"
    /\ \E from \in -1..12, to \in 0..12 :
          ask' = [topic |-> "slice", text |-> ask.text, from |-> from, to |-> to]
AskFiles == AskRules \/ AskDiscovery \/ AskSlice

DiskOf(q) ==
    Closed(Disk({OnDisk(<<"d", "f">>, q.size, q.in.language, q.in.compiled, q.in.generated, q.tooling),
                 Plain(<<"g">>)},
                TwoRules(q.says), q.git, [p \in {<<"d">>} |-> q.in.kind], q.max), q.how)

\* What may have become of the checkout when index_health looks.
Laters(disk) ==
    {disk, [disk EXCEPT !.files = {Plain(<<"g">>)}], [disk EXCEPT !.files = @ \cup {Plain(<<"d", "new">>)}],
     [disk EXCEPT !.files = {[f EXCEPT !.size = @ + 1] : f \in @}]}
\* The new file has no rule of its own.
Ruled(disk) ==
    [disk EXCEPT !.rules = [r \in DOMAIN @ \cup RuleOn(<<"d", "new">>) \cup {<<<<"d">>, <<"new">>>>} |->
                                IF r \in DOMAIN disk.rules THEN disk.rules[r] ELSE "none"]]

AskedPaths == {[dots |-> d, absolute |-> FALSE, leads |-> l] : d \in BOOLEAN, l \in {"file", "directory", "outside", "nothing"}}

\* The questions about files alone.
FileSpec == ask \in FileSeeds /\ [][AskFiles]_ask

\* Discovery leaves out what git ignores and tallies what lacks a grammar only;
\* index_health reports exactly what changed; an agent that reads on sees every
\* line of the first megabyte of a file.
FilesExact ==
    /\ ask.topic = "ignored" =>
          F!IgnoredLikeGit(Disk({Plain(Deep)}, [r \in RootRules \cup InnerRules \cup LastRules |->
                                    IF r \in RootRules THEN ask.root[r]
                                    ELSE IF r \in InnerRules THEN ask.inner[r] ELSE ask.last[r]],
                                "directory", <<>>, 0))
    /\ ask.topic = "discovered" =>
          /\ F!TallyIsTheRest(DiskOf(ask))
          /\ \A later \in Laters(Ruled(DiskOf(ask))) : F!HealthIsExact(Ruled(DiskOf(ask)), later)
    /\ ask.topic = "file of" => F!ReadingOnSeesAll(ask.text)
    /\ ask.topic = "slice" => \A path \in AskedPaths : F!SliceIsOfTheFile(path, ask.text, ask.from, ask.to)

-----------------------------------------------------------------------------
(* Walks: main, an entry, a sanitizer, a sink and a helper; then a test.    *)

Code(name, role, file, lines, crate, within) ==
    [name |-> name, role |-> role, code |-> TRUE, test |-> file = "r", infra |-> FALSE,
     unresolved |-> 1, file |-> file, lines |-> lines,
     within |-> [crate |-> crate, file |-> within]]
Codes == <<Code("main", "input_entry_point", "p", {1, 2}, 1, 1),
           Code("b", "input_entry_point", "p", {2, 3}, 2, 2),
           Code("c", "sanitizer", "q", {1}, 3, 3), Code("d", "sensitive_sink", "q", {2}, 4, Absent),
           Code("e", "none", "r", {1}, 1, 5)>>
Call(t, s, d) == [type |-> t, src |-> s, tgt |-> d, conf |-> IF s = 5 THEN 3 ELSE Absent]
Calls == <<Call("CALLS", 1, 2), Call("CALLS", 1, 3), Call("CALLS", 2, 3), Call("CALLS", 3, 4),
          Call("CALLS", 2, 5), Call("CALLS", 5, 3), Call("HTTP_CALLS", 5, 4), Call("CALLS", 4, 2),
          Call("CALLS", 5, 5), Call("TESTS", 5, 2), Call("IMPORTS", 3, 2), Call("IMPORTS", 4, 1)>>
OfCalls(on) == [node |-> Codes, edge |-> [i \in DOMAIN T!InOrder(on, 12) |-> Calls[T!InOrder(on, 12)[i]]]]

Changed(path, status, hunks) == [path |-> path, status |-> status, hunks |-> hunks]
Diffs == {<<Changed("q", "M", <<>>)>>, <<Changed("p", "M", <<{2}, {3}>>), Changed("q", "D", <<>>)>>,
          <<Changed("r", "M", <<{9}>>), Changed("q", "M", <<{2}>>)>>}

WalkQuestions(on) ==
    [topic : {"taint"}, on : {on}, paths : {1, 9}, depth : {0, 2, 4}, tests : {TRUE}]
    \cup [topic : {"impact"}, on : {on}, files : Diffs, depth : {1, 3}, tokens : {100}]
    \cup [topic : {"cycles"}, on : {on}, level : {"crate", "file"}, depth : {1, 3, 4}]
    \cup [topic : {"trace"}, on : {on}, root : {2, 5}, dir : {"inbound", "both"},
          types : {<<"CALLS">>, T!TaintTypes}, depth : {3}, min : {0, 5}]

WalkSeeds == [topic : {"calls"}, on : {{1, 3, 4} \cup on : on \in SUBSET (DOMAIN Calls \ {9})}]
AskWalk ==
    /\ ask.topic = "calls"
    /\ \E x \in WalkQuestions(ask.on) : ask' = x

\* The questions about walks alone.
WalkSpec == ask \in WalkSeeds /\ [][AskWalk]_ask

\* Tainted paths are shortest, and only those without a sanitizer are tainted;
\* detect_cycles shows each cycle of dependencies once, whatever its start; a
\* trace keeps every row of its search, each at its nearest hop; detect_changes
\* shows each caller once, at its nearest distance to a change.
WalksExact ==
    /\ ask.topic = "taint" => T!TaintVerdicts(OfCalls(ask.on), ask.paths, ask.depth, ask.tests)
    /\ ask.topic = "cycles" => T!CyclesOnce(OfCalls(ask.on), ask.level, ask.depth)
    /\ ask.topic = "trace" =>
          T!TraceKeeps(OfCalls(ask.on), ask.root, ask.dir, ask.types, ask.depth, ask.min)
    /\ ask.topic = "impact" => T!ImpactNearest(OfCalls(ask.on), ask.files, ask.depth, ask.tokens)

-----------------------------------------------------------------------------
OpenAI(model, dimension) == [provider |-> "openai", model |-> model, dimension |-> dimension]
Voyage == [provider |-> "voyage", model |-> "v", dimension |-> 0]
Clients == {OpenAI("m", 0), OpenAI("m", 2), Voyage}
Kinds == {"busy", "refused", "right", "reversed", "missing", "twice", "narrow"}
Scripts == {<<>>} \cup {<<k>> : k \in Kinds} \cup Kinds \X Kinds \cup {<<k[1], k[2], k[3]>> : k \in Kinds \X Kinds \X Kinds}
Laters2 == {<<>>, <<"right", "reversed">>, <<"reversed">>, <<"busy", "right">>, <<"refused", "right">>, <<"narrow", "twice">>}

EmbedSeeds ==
    [topic : {"client"}, client : Clients, first : Kinds]
    \cup [topic : {"settings of"}, requested : {"", "auto", "voyage", "openai", "off", "other"}]
EmbedQuestions ==
    (IF ask.topic # "client" THEN {}
     ELSE [topic : {"embedding"}, client : {ask.client}, script : {s \in Scripts : s = <<>> \/ s[1] = ask.first},
           second : {ask.client, OpenAI("w", 3)}, changed : {{2}, {1, 2, 3}}, later : Laters2]
          \cup [topic : {"batches"}, client : {ask.client}, texts : {<<1>>, <<1, 2, 3>>, <<1, 2, 3, 4>>},
                script : {<<ask.first>> \o s : s \in Scripts}])
    \cup
    (IF ask.topic # "settings of" THEN {}
     ELSE {[topic |-> "settings", skip |-> k,
            of |-> [requested |-> ask.requested, voyageKey |-> v, voyageModel |-> "", baseURL |-> b,
                    model |-> m, auth |-> a, dimension |-> d]] :
              k \in {"", "0", "1"}, v \in BOOLEAN, b \in {"", "good", "bad"}, m \in {"", "m"},
              a \in {"", "bad"}, d \in {"", "set", "bad"}})

\* Three nodes' texts, of which some have changed.
TextsOf(changed) == [id \in 1..3 |-> <<id, IF id \in changed THEN 2 ELSE 1>>]

EmbeddingsHold ==
    /\ ask.topic = "settings" => V!SettingsAgree(ask.skip, ask.of)
    /\ ask.topic = "batches" => V!BatchesInOrder(ask.client, ask.texts, ask.script)
    /\ ask.topic = "embedding" =>
          /\ V!RowsAreTheirNodes(TextsOf({}), TextsOf(ask.changed), ask.client, ask.script, ask.second, ask.later)
          /\ V!MixIsDetectable(ask.client, ask.script, ask.second, ask.changed, ask.later)
=============================================================================
