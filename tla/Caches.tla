------------------------------- MODULE Caches -------------------------------
(***************************************************************************)
(* The two caches between the query tools and the databases, while an      *)
(* indexing run rewrites one of them: QueryCache, the server's map of      *)
(* answers, and embedCache, the one slot that holds the vectors of the     *)
(* project that was searched last, for every store of the process.        *)
(*                                                                         *)
(* A run is one transaction on the only connection of its store, so every  *)
(* read of that project waits for it; index_repository, the watcher and    *)
(* the automatic index run take turns (indexMu).  A graph is its version:  *)
(* the run that wrote it.  What a run writes is GraphUpdate's subject.     *)
(***************************************************************************)
EXTENDS Integers, Sequences, FiniteSets

CONSTANTS
    Project,
    Question,      \* the rest of a query's cache key: the text and max_rows
    Asker,         \* calls of query_graph
    Searcher,      \* calls of search_code_semantic and find_similar_functions
    NoProject,
    CacheSize,     \* maxSize of the query cache
    TTL,           \* its ttl, in ticks
    MaxAttempts,   \* maxAttempts of acquireEmbedCache
    MaxRuns,       \* bound: indexing runs
    MaxTime        \* bound: ticks of the clock

\* What the code fixes or its flags guarantee of the constants.
ASSUME CachesAssumption ==
    /\ NoProject \notin Project /\ Question # {}
    /\ {CacheSize, MaxAttempts} \subseteq Nat \ {0}
    /\ {TTL, MaxRuns, MaxTime} \subseteq Nat

VARIABLES
    committed,  \* per project, the run that committed its rows
    runs,       \* the runs that have begun
    run,        \* the run under way, if there is one
    slot,       \* embedCache: whose vectors, as of which run
    search,     \* per searcher, its call
    entries,    \* QueryCache, from head (the oldest) to tail
    ask,        \* per asker, its call
    now,
    uncleared,  \* history: a run changed the project and left entries alone
    unswept     \* history: a run changed the project and left slot alone

clients == <<search, ask>>
cacheVars == <<committed, runs, run, slot, search, entries, ask, now, uncleared, unswept>>

NoSlot == [project |-> NoProject, version |-> 0]
NoRun == [pc |-> "idle", project |-> NoProject, by |-> "tool", full |-> FALSE,
          swept |-> FALSE, tries |-> 0]
NoSearch == [pc |-> "idle", project |-> NoProject, tries |-> 0]
NoAsk == [pc |-> "idle", project |-> NoProject, question |-> CHOOSE q \in Question : TRUE,
          version |-> 0, late |-> FALSE]
Key == Project \X Question

CachesInit ==
    /\ committed = [p \in Project |-> 0] /\ runs = 0 /\ run = NoRun
    /\ slot = NoSlot /\ search = [s \in Searcher |-> NoSearch]
    /\ entries = <<>> /\ ask = [a \in Asker |-> NoAsk] /\ now = 0
    /\ uncleared = {} /\ unswept = {}

Tick == now < MaxTime /\ now' = now + 1
        /\ UNCHANGED <<committed, runs, run, slot, clients, entries, uncleared, unswept>>

-----------------------------------------------------------------------------
(* The locks.  The one connection of a store is the run's for as long as its *)
(* transaction is open; everyone else uses it for the length of a statement. *)
(* embedCache.mu is a sync.RWMutex: a writer that waits keeps readers out.   *)

InTransaction(p) ==
    run.project = p /\ run.pc \in {"passes", "invalidate", "acquire", "relock", "end"}

Loading == {s \in Searcher : search[s].pc = "load"}
Reading == {s \in Searcher : search[s].pc = "read"}
Waiting == {s \in Searcher : search[s].pc = "lock"}

CanRLock == Loading = {} /\ Waiting = {} /\ run.pc \notin {"invalidate", "relock"}
CanLock == Loading = {} /\ Reading = {}

\* The re-check of acquireEmbedCache, under the read lock.
SlotServesAfterLoad(p, tries) == slot.project = p \/ tries > 0
SlotServes(p, tries) == slot.project = p

-----------------------------------------------------------------------------
(* A semantic search: the store's count, the vector of the query from the    *)
(* provider (find_similar_functions has its vector in the cache), the cache. *)

Goto(s, pc) == search' = [search EXCEPT ![s].pc = pc]
SearchOnly == UNCHANGED <<committed, runs, run, entries, ask, now, uncleared>>

BeginSearch(s, p) ==
    /\ search[s].pc = "idle"
    /\ search' = [search EXCEPT ![s] = [pc |-> "count", project |-> p, tries |-> 0]]
    /\ SearchOnly /\ UNCHANGED <<slot, unswept>>

\* EmbeddingCount is 0, or the search goes on.
EmbeddingCount(s) ==
    /\ search[s].pc = "count" /\ ~InTransaction(search[s].project)
    /\ \E next \in IF committed[search[s].project] = 0 THEN {"idle"} ELSE {"idle", "embed", "check"} :
          Goto(s, next)
    /\ SearchOnly /\ UNCHANGED <<slot, unswept>>

EmbedQuery(s) ==
    /\ search[s].pc = "embed"
    /\ \E next \in {"idle", "check"} : Goto(s, next)
    /\ SearchOnly /\ UNCHANGED <<slot, unswept>>

\* RLock: the slot is the project's and stays so until RUnlock, or it is not.
Check(s) ==
    /\ search[s].pc = "check" /\ CanRLock
    /\ Goto(s, IF SlotServes(search[s].project, search[s].tries) THEN "read" ELSE "lock")
    /\ SearchOnly /\ UNCHANGED <<slot, unswept>>

Lock(s) ==
    /\ search[s].pc = "lock" /\ CanLock
    /\ Goto(s, "load")
    /\ SearchOnly /\ UNCHANGED <<slot, unswept>>

\* The statement waits for the connection under the lock, without a deadline.
Load(s) ==
    LET call == search[s] IN
    /\ call.pc = "load" /\ ~InTransaction(call.project)
    /\ slot' = [project |-> call.project, version |-> committed[call.project]]
    /\ search' = [search EXCEPT ![s].tries = @ + 1,
                                ![s].pc = IF call.tries + 1 < MaxAttempts THEN "check" ELSE "idle"]
    /\ unswept' = {}
    /\ SearchOnly

EndSearch(s) ==
    /\ search[s].pc = "read"
    /\ search' = [search EXCEPT ![s] = NoSearch]
    /\ SearchOnly /\ UNCHANGED <<slot, unswept>>

-----------------------------------------------------------------------------
(* query_graph, and the cached answers of search_graph.                      *)

Expired(e) == now - e.at > TTL
Holding(k) == {i \in DOMAIN entries : <<entries[i].project, entries[i].question>> = k}
DropAt(es, i) == SubSeq(es, 1, i - 1) \o SubSeq(es, i + 1, Len(es))
AskOnly == UNCHANGED <<committed, runs, run, slot, search, now, uncleared, unswept>>

\* Get: an entry that is there and young, and nothing moves.
Hit(a, k) ==
    /\ ask[a].pc = "idle"
    /\ \E i \in Holding(k) :
          /\ ~Expired(entries[i])
          /\ ask' = [ask EXCEPT ![a].pc = "served"]
    /\ AskOnly /\ UNCHANGED entries

Miss(a, k) ==
    /\ ask[a].pc = "idle"
    /\ \A i \in Holding(k) : Expired(entries[i])
    /\ ask' = [ask EXCEPT ![a] = [NoAsk EXCEPT !.pc = "missed", !.project = k[1], !.question = k[2]]]
    /\ AskOnly /\ UNCHANGED entries

\* resolveStore and Execute; an error is an answer that is not stored.
Execute(a) ==
    /\ ask[a].pc = "missed" /\ ~InTransaction(ask[a].project)
    /\ \/ ask' = [ask EXCEPT ![a].pc = "executed", ![a].version = committed[ask[a].project]]
       \/ ask' = [ask EXCEPT ![a] = NoAsk]
    /\ AskOnly /\ UNCHANGED entries

\* Set, on a key that is there: the entry is renewed and moves to the tail.
RenewedInPlace(es, i, e) == [es EXCEPT ![i] = e]
Renewed(es, i, e) == Append(DropAt(es, i), e)

\* Set, on a key that is not: at the limit the head goes.
Added(es, e) == Append(IF Len(es) >= CacheSize THEN Tail(es) ELSE es, e)

Store(a) ==
    LET c == ask[a]
        e == [project |-> c.project, question |-> c.question, version |-> c.version,
              late |-> c.late, at |-> now]
        held == Holding(<<c.project, c.question>>)
    IN  /\ c.pc = "executed"
        /\ \/ held = {} /\ entries' = Added(entries, e)
           \/ \E i \in held : entries' = Renewed(entries, i, e)
        /\ ask' = [ask EXCEPT ![a] = NoAsk]
        /\ AskOnly

EndAsk(a) ==
    /\ ask[a].pc = "served"
    /\ ask' = [ask EXCEPT ![a] = NoAsk]
    /\ AskOnly /\ UNCHANGED entries

-----------------------------------------------------------------------------
(* The run: full or incremental, for a tool call, for the server's start     *)
(* (which is as a tool call here) or for the watcher.                        *)

RunTo(pc) == run' = [run EXCEPT !.pc = pc]
RunOnly == UNCHANGED <<clients, now>>
Untouched == UNCHANGED <<slot, entries, uncleared, unswept>>

RequestRun(p, by, full) ==
    /\ run.pc = "idle" /\ runs < MaxRuns
    /\ runs' = runs + 1
    /\ run' = [pc |-> "passes", project |-> p, by |-> by, full |-> full, swept |-> FALSE, tries |-> 0]
    /\ RunOnly /\ UNCHANGED committed /\ Untouched

\* runEmbeddingsPass: left out (disabled, or no node to embed), through, or cut
\* short by its timeout; the last two end with InvalidateEmbeddingCache.
AfterBatches(outcome) == IF outcome = "left out" THEN "acquire" ELSE "invalidate"

PassEmbeddings ==
    /\ run.pc = "passes"
    /\ \E outcome \in {"left out", "through", "truncated"} :
          run' = [run EXCEPT !.pc = AfterBatches(outcome), !.swept = outcome # "left out"]
    /\ RunOnly /\ UNCHANGED <<committed, runs>> /\ Untouched

InvalidateEmbeddingCache ==
    /\ run.pc = "invalidate" /\ CanLock
    /\ RunTo("acquire") /\ slot' = NoSlot /\ unswept' = {}
    /\ RunOnly /\ UNCHANGED <<committed, runs, entries, uncleared>>

\* passSimilarityEdges, of a full run that has it enabled: the vectors through
\* the same slot, loaded by a statement of the transaction itself.
SkipSimilarity ==
    /\ run.pc = "acquire" /\ RunTo("end")
    /\ RunOnly /\ UNCHANGED <<committed, runs>> /\ Untouched

AcquireInRun ==
    /\ run.pc = "acquire" /\ run.full /\ run.tries < MaxAttempts /\ CanRLock
    /\ RunTo(IF SlotServes(run.project, run.tries) THEN "end" ELSE "relock")
    /\ RunOnly /\ UNCHANGED <<committed, runs>> /\ Untouched

LoadInRun ==
    /\ run.pc = "relock" /\ CanLock
    /\ slot' = [project |-> run.project, version |-> runs]
    /\ run' = [run EXCEPT !.pc = "acquire", !.tries = @ + 1]
    /\ unswept' = {}
    /\ RunOnly /\ UNCHANGED <<committed, runs, entries, uncleared>>

Commit ==
    /\ run.pc = "end" /\ RunTo("identity")
    /\ committed' = [committed EXCEPT ![run.project] = runs]
    /\ unswept' = IF run.swept THEN unswept ELSE unswept \cup {run.project}
    /\ RunOnly /\ UNCHANGED <<runs, slot, entries, uncleared>>

\* A pass failed: the rows go, and what the run had loaded into the slot stays.
Rollback ==
    /\ run.pc = "end" /\ run' = NoRun
    /\ unswept' = unswept \cup {run.project}
    /\ RunOnly /\ UNCHANGED <<committed, runs, slot, entries, uncleared>>

\* The identity of the checkout is stored or is not: the watcher goes on either
\* way, a tool call ends here when it cannot mark the identity as pending.
AfterIdentityIfStored(by, stored) == IF stored THEN "clear" ELSE "idle"
AfterIdentity(by, stored) == IF by = "watcher" \/ stored THEN "clear" ELSE "idle"

StoreIdentity ==
    /\ run.pc = "identity"
    /\ \E stored \in BOOLEAN :
          /\ RunTo(AfterIdentity(run.by, stored))
          /\ uncleared' = IF stored \/ run.by = "watcher" THEN uncleared
                                                          ELSE uncleared \cup {run.project}
    /\ RunOnly /\ UNCHANGED <<committed, runs, slot, entries, unswept>>

\* QueryCache.Invalidate.  A query that has read and not stored is late.
Invalidate ==
    /\ run.pc = "clear" /\ run' = NoRun
    /\ entries' = <<>> /\ uncleared' = {}
    /\ ask' = [a \in Asker |-> IF ask[a].pc = "executed" THEN [ask[a] EXCEPT !.late = TRUE]
                                                         ELSE ask[a]]
    /\ UNCHANGED <<committed, runs, slot, search, now, unswept>>

-----------------------------------------------------------------------------
RunStep ==
    \/ PassEmbeddings \/ InvalidateEmbeddingCache \/ SkipSimilarity \/ AcquireInRun
    \/ LoadInRun \/ Commit \/ Rollback \/ StoreIdentity \/ Invalidate

SearchStep(s) ==
    \/ EmbeddingCount(s) \/ EmbedQuery(s) \/ Check(s) \/ Lock(s) \/ Load(s) \/ EndSearch(s)

AskStep(a) == Execute(a) \/ Store(a) \/ EndAsk(a)

CachesNext ==
    \/ \E p \in Project, by \in {"tool", "watcher"}, full \in BOOLEAN : RequestRun(p, by, full)
    \/ RunStep
    \/ \E s \in Searcher : SearchStep(s) \/ \E p \in Project : BeginSearch(s, p)
    \/ \E a \in Asker : AskStep(a) \/ \E k \in Key : Hit(a, k) \/ Miss(a, k)
    \/ Tick

CachesSpec == CachesInit /\ [][CachesNext]_cacheVars

-----------------------------------------------------------------------------
\* What the two caches hold at any time.
CachesTypeOK ==
    /\ committed \in [Project -> 0..MaxRuns] /\ runs \in 0..MaxRuns
    /\ run.project \in Project \cup {NoProject} /\ run.tries \in 0..MaxAttempts
    /\ slot \in [project : Project \cup {NoProject}, version : 0..MaxRuns]
    /\ \A s \in Searcher : search[s].tries \in 0..MaxAttempts
    /\ Len(entries) <= CacheSize
    /\ uncleared \subseteq Project /\ unswept \subseteq Project

\* A search reads the vectors of its own project, whoever else searches or
\* indexes: the slot it found under the read lock is its project's until it is
\* through (acquireEmbedCache re-checks after every load).
SearchesReadTheirProject ==
    \A s \in Reading : slot.project = search[s].project

\* Vectors in the slot are those of the committed graph, unless the project's
\* own transaction is open or a run ended without InvalidateEmbeddingCache:
\* one with nothing to embed, or one that was rolled back.
SlotIsCurrent ==
    slot.project \in Project =>
        \/ slot.version = committed[slot.project]
        \/ InTransaction(slot.project)
        \/ slot.project \in unswept

\* An answer from the query cache is the answer of the committed graph, unless
\* the run that replaced it has still to invalidate the cache or ended before it
\* could (index_repository, on an error of the identity's state), or the query was under way when the cache was invalidated.
CachedAnswersAreCurrent ==
    \A i \in DOMAIN entries :
        LET e == entries[i] IN
        \/ e.version = committed[e.project] \/ e.late
        \/ run.project = e.project /\ run.pc \in {"identity", "clear"}
        \/ e.project \in uncleared

\* Both: what the two caches hold is what the graph says.
CachesAreCurrent == SlotIsCurrent /\ CachedAnswersAreCurrent

\* Set drops the answer that was stored longest ago: the list from head to tail
\* is the order in time, one entry for a key, never more than maxSize.
HeadIsOldest ==
    /\ Len(entries) <= CacheSize
    /\ \A i, j \in DOMAIN entries : i < j =>
          /\ entries[i].at <= entries[j].at
          /\ <<entries[i].project, entries[i].question>> # <<entries[j].project, entries[j].question>>

\* The statements of the cache's own loading never wait for a transaction that
\* waits for the cache ("Uses s.q so callers inside Store.WithTransaction don't
\* deadlock on the single-connection pool").
NoDeadlockOnPool ==
    ~ \E s \in Loading : /\ InTransaction(search[s].project)
                         /\ run.pc \in {"invalidate", "relock"}
=============================================================================
