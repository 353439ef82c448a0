----------------------------- MODULE WorkerPool -----------------------------
(***************************************************************************)
(* isolate.Pool: calls of Extract share N worker processes through a       *)
(* channel of slots, any of which may hold no process yet.  Workers crash, *)
(* hang, or are killed while idle; calls time out or are cancelled; Close  *)
(* may begin at any step.                                                  *)
(*                                                                         *)
(* The channel is kept as the set of workers and the number of nils in it: *)
(* which slot a receive gets is left open.  A worker's name is free again  *)
(* once its process is gone from the channel and from every call.          *)
(***************************************************************************)
EXTENDS Integers, FiniteSets, FiniteSetsExt

CONSTANTS
    Call,   \* goroutines of the pipeline that call Extract, again and again
    Worker, \* names of worker processes
    N       \* size of the pool

NoWorker == "none"

ASSUME PoolAssumption ==
    /\ N \in Nat \ {0} /\ IsFiniteSet(Call)
    /\ IsFiniteSet(Worker) /\ Cardinality(Worker) = N
    /\ NoWorker \notin Worker \cup Call

VARIABLES
    idle, nils, \* the slots in the channel: with a worker, and without
    proc,       \* every worker's process
    job,        \* the request that it works on or whose answer is in its pipe
    at,         \* where each call is
    holds,      \* the worker in the slot that a call took, or NoWorker
    turn,       \* a call's present request, against its previous one
    closed,     \* p.closed
    drained,    \* slots that Close has received
    returned    \* Close has returned

channel == <<idle, nils>>
process == <<proc, job>>
calls == <<at, holds, turn>>
close == <<closed, drained, returned>>
poolVars == <<channel, process, calls, close>>

NoJob == <<NoWorker, 0>>
Request(c) == <<c, turn[c]>>
InCall == {"checking", "spawning", "sending", "waiting"}
Holding == {c \in Call : at[c] \in InCall}
Held == {holds[c] : c \in Call} \ {NoWorker}
Alive == {w \in Worker : proc[w] \notin {"none", "dead"}}

Goto(c, place) == at' = [at EXCEPT ![c] = place]
LetGo(c) == holds' = [holds EXCEPT ![c] = NoWorker] /\ Goto(c, "idle")

-----------------------------------------------------------------------------
(* Extract.                                                                *)

Start(c) ==
    /\ at[c] = "idle"
    /\ turn' = [turn EXCEPT ![c] = 1 - @]
    /\ Goto(c, "taking")
    /\ UNCHANGED <<channel, process, holds, close>>

Take(c) ==
    /\ at[c] = "taking"
    /\ \/ \E w \in idle :
            /\ idle' = idle \ {w} /\ UNCHANGED nils
            /\ holds' = [holds EXCEPT ![c] = w]
       \/ nils > 0 /\ nils' = nils - 1 /\ UNCHANGED <<idle, holds>>
    /\ Goto(c, "checking")
    /\ UNCHANGED <<process, turn, close>>

\* The context ends first; it may end at any time.
GiveUp(c) ==
    /\ at[c] = "taking"
    /\ Goto(c, "idle")
    /\ UNCHANGED <<channel, process, holds, turn, close>>

\* The slot goes back as it was taken.
PutBack(c) ==
    IF holds[c] = NoWorker THEN nils' = nils + 1 /\ UNCHANGED idle
    ELSE idle' = idle \cup {holds[c]} /\ UNCHANGED nils

CheckClosed(c) ==
    /\ at[c] = "checking"
    /\ IF closed THEN PutBack(c) /\ LetGo(c)
       ELSE /\ Goto(c, IF holds[c] = NoWorker THEN "spawning" ELSE "sending")
            /\ UNCHANGED <<channel, holds>>
    /\ UNCHANGED <<process, turn, close>>

Spawn(c) ==
    /\ at[c] = "spawning"
    /\ \E w \in Worker \ (idle \cup Held) :
        /\ holds' = [holds EXCEPT ![c] = w]
        /\ proc' = [proc EXCEPT ![w] = "ready"]
    /\ Goto(c, "sending")
    /\ UNCHANGED <<channel, job, turn, close>>

\* Mutant: the slot of a worker that cannot be started is not returned.
SlotLost(c) ==
    /\ at[c] = "spawning"
    /\ LetGo(c)
    /\ UNCHANGED <<channel, process, turn, close>>

SpawnFails(c) ==
    /\ at[c] = "spawning"
    /\ PutBack(c) /\ LetGo(c)
    /\ UNCHANGED <<process, turn, close>>

\* The goroutine's Encode.  A dead worker will be noticed by Decode; a worker
\* that were busy would leave the request in its pipe.
Send(c) ==
    LET w == holds[c] IN
    /\ at[c] = "sending"
    /\ IF proc[w] = "ready"
       THEN proc' = [proc EXCEPT ![w] = "working"] /\ job' = [job EXCEPT ![w] = Request(c)]
       ELSE UNCHANGED process
    /\ Goto(c, "waiting")
    /\ UNCHANGED <<channel, holds, turn, close>>

\* Decode returns an answer; the worker is kept.
Answer(c) ==
    LET w == holds[c] IN
    /\ at[c] = "waiting" /\ proc[w] = "answered"
    /\ job' = [job EXCEPT ![w] = NoJob]
    /\ proc' = [proc EXCEPT ![w] = "ready"]
    /\ PutBack(c) /\ LetGo(c)
    /\ UNCHANGED <<turn, close>>

\* The worker is killed and reaped, and a slot without one goes back.
Replace(c) ==
    /\ proc' = [proc EXCEPT ![holds[c]] = "none"]
    /\ job' = [job EXCEPT ![holds[c]] = NoJob]
    /\ nils' = nils + 1
    /\ LetGo(c)
    /\ UNCHANGED <<idle, turn, close>>

\* Decode fails: SkipCrash.
Crashed(c) == at[c] = "waiting" /\ proc[holds[c]] = "dead" /\ Replace(c)

\* Mutant: the worker is killed, and the call keeps its name.
TimeoutKeepsName(c) ==
    /\ at[c] = "waiting"
    /\ proc' = [proc EXCEPT ![holds[c]] = "none"]
    /\ nils' = nils + 1 /\ Goto(c, "idle")
    /\ UNCHANGED <<idle, job, holds, turn, close>>

\* Mutant: a slow worker goes back into the channel, to answer later.
TimeoutPutsBack(c) ==
    /\ at[c] = "waiting"
    /\ PutBack(c) /\ LetGo(c)
    /\ UNCHANGED <<process, turn, close>>

\* Mutant: the time limit is up to the worker.
TimeoutInWorker(c) ==
    at[c] = "waiting" /\ proc[holds[c]] = "working" /\ Replace(c)

\* SkipTimeout; select may choose the timer although an answer is there.
Timeout(c) == at[c] = "waiting" /\ Replace(c)

\* Mutant: a cancelled call leaves its worker running.
CancelLeavesWorker(c) ==
    /\ at[c] = "waiting"
    /\ nils' = nils + 1 /\ LetGo(c)
    /\ UNCHANGED <<idle, process, turn, close>>

Cancelled(c) == at[c] = "waiting" /\ Replace(c)

-----------------------------------------------------------------------------
(* RunWorker, and what befalls it.                                         *)

Become(w, from, to) ==
    /\ proc[w] = from
    /\ proc' = [proc EXCEPT ![w] = to]
    /\ UNCHANGED <<channel, job, calls, close>>

Reply(w) == Become(w, "working", "answered")
Crash(w) == Become(w, "working", "dead")
Hang(w) == Become(w, "working", "hung")
Die(w) == Become(w, "ready", "dead")

-----------------------------------------------------------------------------
(* Close.                                                                  *)

CloseBegin ==
    /\ ~closed
    /\ closed' = TRUE
    /\ UNCHANGED <<channel, process, calls, drained, returned>>

\* A slot is received and its worker, if any, ends by itself or is killed.
Drain ==
    /\ closed /\ ~returned /\ drained < N
    /\ drained' = drained + 1
    /\ \/ nils > 0 /\ nils' = nils - 1 /\ UNCHANGED <<idle, proc>>
       \/ \E w \in idle :
            /\ idle' = idle \ {w} /\ UNCHANGED nils
            /\ proc' = [proc EXCEPT ![w] = "none"]
    /\ UNCHANGED <<job, calls, closed, returned>>

\* Mutant: Close receives the slots that are there and waits for no other.
CloseImpatient ==
    /\ closed /\ ~returned /\ nils = 0 /\ idle = {}
    /\ returned' = TRUE
    /\ UNCHANGED <<channel, process, calls, closed, drained>>

CloseEnd ==
    /\ closed /\ ~returned /\ drained = N
    /\ returned' = TRUE
    /\ UNCHANGED <<channel, process, calls, closed, drained>>

-----------------------------------------------------------------------------
PoolInit ==
    /\ idle = {} /\ nils = N
    /\ proc = [w \in Worker |-> "none"] /\ job = [w \in Worker |-> NoJob]
    /\ at = [c \in Call |-> "idle"] /\ holds = [c \in Call |-> NoWorker]
    /\ turn = [c \in Call |-> 0]
    /\ closed = FALSE /\ drained = 0 /\ returned = FALSE

Ending(c) == \/ CheckClosed(c) \/ Spawn(c) \/ SpawnFails(c) \/ Send(c)
             \/ Answer(c) \/ Crashed(c) \/ Timeout(c)

Extract(c) == Start(c) \/ Take(c) \/ GiveUp(c) \/ Cancelled(c) \/ Ending(c)
RunWorker(w) == Reply(w) \/ Crash(w) \/ Hang(w) \/ Die(w)
Close == CloseBegin \/ Drain \/ CloseEnd

PoolNext == (\E c \in Call : Extract(c)) \/ (\E w \in Worker : RunWorker(w)) \/ Close

\* Goroutines run and timers fire.  A channel serves its receivers in the order
\* they came, so that a call gets a slot if slots keep coming.
PoolFairness == \A c \in Call : WF_poolVars(Ending(c)) /\ SF_poolVars(Take(c))
PoolSpec == PoolInit /\ [][PoolNext]_poolVars /\ PoolFairness

-----------------------------------------------------------------------------
(* Properties.                                                             *)

\* Every variable has its type, and a call names a worker only between taking a
\* slot and returning it.
PoolTypeOK ==
    /\ idle \subseteq Worker /\ nils \in Nat
    /\ proc \in [Worker -> {"none", "ready", "working", "answered", "hung", "dead"}]
    /\ job \in [Worker -> (Call \cup {NoWorker}) \X {0, 1}]
    /\ at \in [Call -> {"idle", "taking"} \cup InCall]
    /\ holds \in [Call -> Worker \cup {NoWorker}]
    /\ turn \in [Call -> {0, 1}]
    /\ closed \in BOOLEAN /\ drained \in 0..N /\ returned \in BOOLEAN
    /\ \A c \in Call :
        /\ at[c] \in {"idle", "taking", "spawning"} => holds[c] = NoWorker
        /\ at[c] \in {"sending", "waiting"} => holds[c] # NoWorker

\* No path through Extract loses a slot or returns it twice: every slot is in
\* the channel, in one call, or received by Close.
SlotsConserved == nils + Cardinality(idle) + Cardinality(Holding) + drained = N

\* A worker serves one call at a time, and no process runs that neither the
\* channel nor a call knows of: none is left behind by a timeout or a
\* cancellation, whatever its state.
OneUser ==
    /\ \A c \in Call : holds[c] \notin idle
    /\ \A c, d \in Call : c # d /\ holds[c] = holds[d] => holds[c] = NoWorker
    /\ Alive \subseteq idle \cup Held

\* The answer that a call would read is the answer to its own request, also when
\* its worker has served requests before that were given up.
OwnAnswer ==
    \A c \in Call :
        at[c] = "waiting" /\ proc[holds[c]] = "answered" => job[holds[c]] = Request(c)

\* When Close has returned no worker runs, and none is started later.
ClosedIsEmpty == returned => Alive = {} /\ Holding = {}

\* A hanging or dying worker delays no call for ever, neither its own nor those
\* that wait for a slot, until the pool is closed.
CallsEnd == \A c \in Call : at[c] # "idle" ~> at[c] = "idle" \/ closed
=============================================================================
