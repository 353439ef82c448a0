------------------------------ MODULE LocAgent ------------------------------
(* code_localize_agent: a loop that lets a remote model call the graph's      *)
(* tools until it names the entities of an issue, run once, or several times  *)
(* one after the other or at once, and the ranking of the several answers     *)
(* (internal/locagent/agent.go, rewriter.go, internal/anthropic/client.go).   *)
(* What the model says is any of Replies; an entity stands for the key it is  *)
(* ranked by, its qualified name, or its file and reason if it has none.      *)
(* Episodic memory and the prompts only change what the model is told: any    *)
(* reply is possible with and without them.                                   *)
EXTENDS Integers, FiniteSets, Sequences, SequencesExt

CONSTANTS
    Replies(_),    \* what the model may reply in a run of n iterations
    MaxIters,      \* LOCAGENT_ITERATIONS, at most 3 in the code
    MaxTurns,      \* LOCAGENT_MAX_TURNS, 1..100 in the code
    MaxAttempts,   \* attempts of one request, 4 in the code
    TopK,          \* top_k, within the 1..50 of the tool's description
    Unit,          \* what a first place scores: a multiple of every rank
    None

Failures == {"rate limit", "server", "timeout", "refused", "cancelled"}
IsASequence(s) == s \in Seq(Range(s))

\* What the code fixes or guarantees of the constants.
AgentAssumption ==
    /\ {MaxIters, MaxTurns, MaxAttempts, TopK, Unit} \subseteq Nat \ {0}
    /\ \A rank \in 1..TopK : Unit % rank = 0
    /\ None \notin Failures
    /\ \A n \in 1..MaxIters : \A reply \in Replies(n) :
          /\ IsASequence(reply.blocks)
          /\ \A k \in DOMAIN reply.blocks : IsASequence(reply.blocks[k].entities)

VARIABLES
    iters,      \* iterations of this call
    parallel,   \* LOCAGENT_PARALLEL
    loop,       \* the iterations
    cancelled,  \* the call's context has ended
    received,   \* replies that came from the model (history)
    result      \* what Run returns

agentVars == <<iters, parallel, loop, cancelled, received, result>>

Iter == 1..iters

Fresh == [pc |-> "waiting", turn |-> 1, attempt |-> 0, messages |-> <<[role |-> "user", ids |-> {}]>>,
          entities |-> <<>>, stop |-> "", error |-> None, billed |-> 0]

Init ==
    /\ iters \in 1..MaxIters
    /\ parallel \in IF iters = 1 THEN {FALSE} ELSE BOOLEAN
    /\ loop = [i \in Iter |-> Fresh]
    /\ cancelled = FALSE
    /\ received = 0
    /\ result = None

-----------------------------------------------------------------------------
(* One iteration.                                                             *)

Failed(i) == loop[i].error # None
Over(i) == loop[i].pc = "over"

\* Serial iterations follow each other and stop at the first error.
MayStart(i) == loop[i].pc = "waiting" /\ (parallel \/ \A j \in 1..(i - 1) : Over(j) /\ ~Failed(j))

\* LOCAGENT_REWRITE puts a request for search terms before the loop.
runOnce(i) ==
    /\ result = None /\ MayStart(i)
    /\ \E first \in {"rewriting", "asking"} : loop' = [loop EXCEPT ![i].pc = first]
    /\ UNCHANGED <<iters, parallel, cancelled, received, result>>

\* CreateMessage tries again after 429, 5xx and transport errors.
CreateMessageAgain(i) ==
    /\ loop[i].pc \in {"rewriting", "asking"}
    /\ ~cancelled
    /\ loop[i].attempt < MaxAttempts - 1
    /\ loop' = [loop EXCEPT ![i].attempt = @ + 1]
    /\ UNCHANGED <<iters, parallel, cancelled, received, result>>

\* Why it gives up: attempts used up, an answer that no retry mends (401, 403,
\* another 4xx, a body that is no message), or the end of the context.
CreateMessageErrors(i) ==
    (IF loop[i].attempt = MaxAttempts - 1 /\ ~cancelled THEN {"rate limit", "server", "timeout"} ELSE {})
    \cup (IF cancelled THEN {"cancelled"} ELSE {"refused"})

\* Without an answer the loop ends in an error; the rewriter falls back to the
\* issue as it is.
CreateMessageFails(i) ==
    /\ loop[i].pc \in {"rewriting", "asking"}
    /\ \E e \in CreateMessageErrors(i) :
         loop' = [loop EXCEPT ![i] = IF @.pc = "rewriting"
                                     THEN [@ EXCEPT !.pc = "asking", !.attempt = 0]
                                     ELSE [@ EXCEPT !.pc = "over", !.stop = "error", !.error = e]]
    /\ UNCHANGED <<iters, parallel, cancelled, received, result>>

\* Whatever came of it, a rewriter that was answered is paid for.
RewriteIssue(i) ==
    /\ loop[i].pc = "rewriting" /\ ~cancelled
    /\ loop' = [loop EXCEPT ![i].pc = "asking", ![i].attempt = 0, ![i].billed = @ + 1]
    /\ received' = received + 1
    /\ UNCHANGED <<iters, parallel, cancelled, result>>

\* The calls of a reply.  Their order, which their results keep, is left out.
CallIds(reply, turn) ==
    {<<turn, k>> : k \in {j \in DOMAIN reply.blocks : reply.blocks[j].kind # "text"}}

\* finalize takes a list that parses and is not empty, cut to topK.
handleFinalize(block) == block.kind = "finalize" /\ block.entities # <<>>
Cut(entities) == SubSeq(entities, 1, IF Len(entities) < TopK THEN Len(entities) ELSE TopK)

\* Every tool call has its result, an error too; an accepted finalize has none.
toolResultsNoRetry(reply, turn) ==
    {id \in CallIds(reply, turn) : reply.blocks[id[2]].kind # "finalize"}
toolResults(reply, turn) ==
    {id \in CallIds(reply, turn) : ~handleFinalize(reply.blocks[id[2]])}

\* The reply joins the conversation, and the results of its calls, if it has any.
Exchanged(messages, calls, results) ==
    LET said == Append(messages, [role |-> "assistant", ids |-> calls])
    IN  IF results = {} THEN said ELSE Append(said, [role |-> "user", ids |-> results])

\* The blocks after an accepted finalize are processed as well: the last
\* accepted one counts.
Answered(it, reply) ==
    LET accepted == {k \in DOMAIN reply.blocks : handleFinalize(reply.blocks[k])}
        results  == toolResults(reply, it.turn)
        said     == [it EXCEPT !.attempt = 0, !.billed = @ + 1,
                               !.messages = Exchanged(@, CallIds(reply, it.turn), results)]
    IN  CASE accepted # {} ->
               [said EXCEPT !.pc = "over", !.stop = "finalized",
                            !.entities = Cut(reply.blocks[Max(accepted)].entities)]
          [] accepted = {} /\ reply.stop = "end_turn" /\ results = {} ->
               [said EXCEPT !.pc = "over", !.stop = "no_finalize"]
          [] accepted = {} /\ ~(reply.stop = "end_turn" /\ results = {}) ->
               IF it.turn = MaxTurns THEN [said EXCEPT !.pc = "over", !.stop = "max_turns"]
               ELSE [said EXCEPT !.turn = @ + 1]

Turn(i) ==
    /\ loop[i].pc = "asking" /\ ~cancelled
    /\ \E reply \in Replies(iters) : loop' = [loop EXCEPT ![i] = Answered(@, reply)]
    /\ received' = received + 1
    /\ UNCHANGED <<iters, parallel, cancelled, result>>

Cancel ==
    /\ result = None /\ ~cancelled
    /\ cancelled' = TRUE
    /\ UNCHANGED <<iters, parallel, loop, received, result>>

-----------------------------------------------------------------------------
(* Several iterations.                                                        *)

\* 1/rank, in 1/Unit: a whole number at every rank a list has, so that the sums
\* are the exact ones, where the code's floats are within rounding of them.
Share(rank) == Unit \div rank

\* The lists are a function of the iterations that named something.
Places(lists, e) == {p \in (DOMAIN lists) \X (1..TopK) : p[2] <= Len(lists[p[1]]) /\ lists[p[1]][p[2]] = e}

scoreLast(lists, e) ==
    LET at == CHOOSE p \in Places(lists, e) : \A q \in Places(lists, e) : q[1] <= p[1]
    IN  Share(at[2])
score(lists, e) == SumFunction([p \in Places(lists, e) |-> Share(p[2])])

\* sort.Slice over the values of a map: what ties comes in any order.
Before(lists, e, f) ==
    \/ score(lists, e) > score(lists, f)
    \/ score(lists, e) = score(lists, f) /\ Cardinality(Places(lists, e)) > Cardinality(Places(lists, f))

aggregateByMRR(lists) ==
    LET bucket == UNION {{lists[i][r] : r \in 1..Len(lists[i])} : i \in DOMAIN lists}
        n      == Cardinality(bucket)
    IN  {Cut(ranked) : ranked \in {o \in [1..n -> bucket] :
            \A a \in 1..n, b \in 1..n : a < b => o[a] # o[b] /\ ~Before(lists, o[b], o[a])}}

\* The lists of the iterations that named something.  The code closes them up:
\* in what it returns, a list's index need not be its iteration's.
Successful(upto) ==
    [i \in {j \in 1..upto : ~Failed(j) /\ loop[j].entities # <<>>} |-> loop[i].entities]

Billed == SumFunction([i \in Iter |-> loop[i].billed])

\* "no_finalize" replaces whatever reason was set before.
finalizeConsistency(stop, lists) ==
    IF DOMAIN lists = {}
    THEN {[error |-> None, entities |-> <<>>, lists |-> lists, stop |-> "no_finalize", billed |-> Billed]}
    ELSE {[error |-> None, entities |-> e, lists |-> lists, stop |-> stop, billed |-> Billed] : e \in aggregateByMRR(lists)}

Broken(error) == [error |-> error, entities |-> <<>>, lists |-> <<>>, stop |-> "", billed |-> Billed]

RunSingle ==
    /\ iters = 1 /\ Over(1)
    /\ result' = IF Failed(1) THEN Broken(loop[1].error)
                 ELSE [error |-> None, entities |-> loop[1].entities, stop |-> loop[1].stop, billed |-> Billed,
                       lists |-> Successful(1)]

\* A first iteration that fails is the call's error; a later one ends the
\* iterations.
runWithConsistencySerial ==
    /\ iters > 1 /\ ~parallel
    /\ \E last \in Iter :
         /\ Over(last) /\ \A j \in 1..(last - 1) : Over(j) /\ ~Failed(j)
         /\ Failed(last) \/ last = iters
         /\ IF Failed(last) /\ last = 1 THEN result' = Broken(loop[1].error)
            ELSE result' \in finalizeConsistency(IF Failed(last) THEN "partial_consistency" ELSE "consistency",
                                                 Successful(last))

\* All iterations are waited for; the first error counts if none named an
\* entity.
runWithConsistencyParallel ==
    /\ iters > 1 /\ parallel /\ \A i \in Iter : Over(i)
    /\ LET failed == {i \in Iter : Failed(i)}
           first  == CHOOSE i \in failed : \A j \in failed : i <= j
       IN  IF DOMAIN Successful(iters) = {} /\ failed # {} THEN result' = Broken(loop[first].error)
           ELSE result' \in finalizeConsistency(IF failed # {} THEN "partial_consistency" ELSE "consistency",
                                                Successful(iters))

Run ==
    /\ result = None
    /\ RunSingle \/ runWithConsistencySerial \/ runWithConsistencyParallel
    /\ UNCHANGED <<iters, parallel, loop, cancelled, received>>

Next ==
    \/ \E i \in Iter : \/ runOnce(i) \/ CreateMessageAgain(i) \/ CreateMessageFails(i)
                       \/ RewriteIssue(i) \/ Turn(i)
    \/ Cancel
    \/ Run

Spec == Init /\ [][Next]_agentVars

-----------------------------------------------------------------------------
\* What the API takes: the results of a message's calls are the next message.
Accepted(m) ==
    /\ m[1].role = "user"
    /\ \A k \in 1..Len(m) : m[k].role = "assistant" /\ m[k].ids # {} =>
          k < Len(m) /\ m[k + 1] = [role |-> "user", ids |-> m[k].ids]
    /\ \A k \in 2..Len(m) : m[k].role = "user" => m[k - 1].role = "assistant"

\* Each request the loop sends is one the API takes: every tool call of the
\* model has its result, in the message after it, whatever mixture of text,
\* tools and refused finalize calls a reply was made of (runOnce).
CallsAreAnswered ==
    \A i \in Iter : loop[i].pc = "asking" => Accepted(loop[i].messages)

Named == {i \in Iter : Over(i) /\ ~Failed(i) /\ loop[i].entities # <<>>}
NamedBy(i) == {loop[i].entities[r] : r \in 1..Len(loop[i].entities)}

\* The mean reciprocal rank over the iterations, times their number.
MRR(e) ==
    SumFunction([p \in {q \in Named \X (1..TopK) : q[2] <= Len(loop[q[1]].entities)
                                                  /\ loop[q[1]].entities[q[2]] = e} |-> Share(p[2])])

\* What Run returns is what its iterations found, serial or parallel: the best
\* entities by mean reciprocal rank, each once, beside the lists they come from,
\* no iteration's answer lost to the error of another but the first of a serial
\* run, an error reported as one
\* or as "partial_consistency", and every reply counted in the cost.
AnswerIsJustified ==
    result # None =>
        LET shown == {result.entities[k] : k \in 1..Len(result.entities)}
            all   == UNION {NamedBy(i) : i \in Named}
        IN  /\ result.billed = received
            /\ result.error # None =>
                  /\ \E i \in Iter : Failed(i) /\ loop[i].error = result.error
                  /\ Named = {}
            /\ result.error = None => (result.entities = <<>> <=> Named = {})
            /\ result.error = None => result.lists = [i \in Named |-> loop[i].entities]
            /\ result.error = None /\ iters = 1 => result.entities = loop[1].entities
            /\ result.error = None /\ iters > 1 =>
                  /\ Cardinality(shown) = Len(result.entities)
                  /\ shown \subseteq all
                  /\ Len(result.entities) = TopK \/ shown = all
                  /\ \A k \in 1..Len(result.entities) :
                        \A e \in all \ {result.entities[j] : j \in 1..k} : MRR(result.entities[k]) >= MRR(e)
            /\ result.stop = "partial_consistency" => \E i \in Iter : Failed(i)
            /\ result.stop = "consistency" => \A i \in Iter : Over(i) /\ ~Failed(i)
=============================================================================
