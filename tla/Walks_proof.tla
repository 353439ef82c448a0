---------------------------- MODULE Walks_proof ----------------------------
(***************************************************************************)
(* What the walks of Traversal answer, for every graph: the verdict on a   *)
(* path from a source to a sink and the list of tainted paths (security.go *)
(* over store/traverse.go), traces (trace.go), and what a change touches   *)
(* (detect_changes.go, review_context.go).                                 *)
(*                                                                         *)
(* A search is described by what holds after each node of its queue; that  *)
(* what it visits is what is in reach follows from its end, where nothing  *)
(* is left in the queue.                                                   *)
(***************************************************************************)
EXTENDS Answers_proof

-----------------------------------------------------------------------------
(* The search for a path that avoids.                                       *)

\* The state of a search over the nodes N.
Items(N) == [id : N, depth : Nat]
Searches(N) == [found : BOOLEAN, visited : SUBSET N, queue : Seq(Items(N))]
Busy(N) == {acc \in Searches(N) : acc.queue # <<>>}

\* What visit does to it.
Visit(target, exclude, acc, n) ==
    IF acc.found \/ n = target THEN [acc EXCEPT !.found = TRUE]
    ELSE IF n \in acc.visited \cup exclude THEN acc
    ELSE [acc EXCEPT !.visited = @ \cup {n},
                     !.queue = Append(@, [id |-> n, depth |-> acc.queue[1].depth + 1])]

Visits(target, exclude, acc, ns) ==
    (CHOOSE it : it = [s \in SUBSET (DOMAIN ns) |->
        IF s = {} THEN acc ELSE Visit(target, exclude, it[s \ {T!Max(s)}], ns[T!Max(s)])])[DOMAIN ns]

\* A search from acc on to r that has seen the nodes new.
Enters(acc, r, new, exclude) ==
    LET before == Len(acc.queue)
    IN  /\ r.visited = acc.visited \cup (new \ exclude)
        /\ before <= Len(r.queue)
        /\ \A j \in 1..before : r.queue[j] = acc.queue[j]
        /\ \A j \in (before + 1)..Len(r.queue) :
              /\ r.queue[j].depth = acc.queue[1].depth + 1
              /\ r.queue[j].id \in new \ (acc.visited \cup exclude)
        /\ \A u \in r.visited \ acc.visited : \E j \in (before + 1)..Len(r.queue) : r.queue[j].id = u
        /\ Len(r.queue) - before = Cardinality(r.visited) - Cardinality(acc.visited)

\* One more node.
LEMMA VisitOne ==
    ASSUME NEW N, IsFiniteSet(N), NEW target, NEW exclude, NEW n \in N, NEW acc \in Busy(N),
           NEW r, r = Visit(target, exclude, acc, n)
    PROVE  /\ r \in Busy(N)
           /\ (r.found <=> (acc.found \/ n = target))
           /\ ~r.found => Enters(acc, r, {n}, exclude)
  <1> DEFINE item == [id |-> n, depth |-> acc.queue[1].depth + 1]
             before == Len(acc.queue)
  <1>1. /\ acc.found \in BOOLEAN /\ acc.visited \in SUBSET N
        /\ acc.queue \in Seq(Items(N)) /\ before \in Nat \ {0}
        /\ IsFiniteSet(acc.visited) /\ Cardinality(acc.visited) \in Nat
    BY FS_Subset, FS_CardinalityType DEF Searches, Busy
  <1>2. item \in Items(N)
    <2>1. acc.queue[1] \in Items(N) BY <1>1
    <2> QED BY <2>1 DEF Items
  <1>3. CASE acc.found \/ n = target
    <2>1. r = [acc EXCEPT !.found = TRUE] BY <1>3 DEF Visit
    <2>2. r \in Busy(N) /\ r.queue = acc.queue /\ r.found = TRUE BY <1>1, <2>1 DEF Searches, Busy
    <2> QED BY <1>3, <2>2
  <1>4. CASE ~acc.found /\ n # target /\ n \in acc.visited \cup exclude
    <2>1. r = acc BY <1>4 DEF Visit
    <2>2. Enters(acc, acc, {n}, exclude) BY <1>1, <1>4 DEF Enters
    <2>3. acc.found = FALSE /\ n # target BY <1>1, <1>4
    <2> QED BY <2>1, <2>2, <2>3
  <1>5. CASE ~acc.found /\ n # target /\ n \notin acc.visited \cup exclude
    <2>1. r = [acc EXCEPT !.visited = @ \cup {n}, !.queue = Append(@, item)] BY <1>5 DEF Visit
    <2>2. r \in Searches(N) /\ r.found = FALSE
      <3>1. Append(acc.queue, item) \in Seq(Items(N)) BY <1>1, <1>2
      <3> HIDE DEF item
      <3> QED BY <1>1, <1>5, <2>1, <3>1 DEF Searches, Busy
    <2>3. r.visited = acc.visited \cup {n} /\ r.queue = Append(acc.queue, item)
      BY <1>1, <2>1 DEF Searches, Busy
    <2>4. /\ Len(r.queue) = before + 1 /\ r.queue[before + 1] = item
          /\ \A j \in 1..before : r.queue[j] = acc.queue[j]
      <3> HIDE DEF item
      <3> QED BY <1>1, <1>2, <2>3
    <2>5. Cardinality(r.visited) = Cardinality(acc.visited) + 1 /\ Cardinality(acc.visited) \in Nat
      BY <1>1, <1>5, <2>3, FS_AddElement
    <2>6. Enters(acc, r, {n}, exclude)
      <3>1. item.id = n /\ item.depth = acc.queue[1].depth + 1 OBVIOUS
      <3>2. \A j \in (before + 1)..Len(r.queue) : j = before + 1 BY <1>1, <2>4
      <3>3. before + 1 \in (before + 1)..Len(r.queue) BY <1>1, <2>4
      <3>4. r.visited = acc.visited \cup ({n} \ exclude) BY <1>5, <2>3
      <3>5. \A u \in r.visited \ acc.visited : u = n BY <2>3
      <3>6. before <= Len(r.queue) /\ Len(r.queue) - before = 1 BY <1>1, <2>4
      <3> HIDE DEF item
      <3> QED BY <1>5, <2>4, <2>5, <3>1, <3>2, <3>3, <3>4, <3>5, <3>6 DEF Enters
    <2>7. r.queue # <<>> BY <1>1, <2>4
    <2> QED BY <1>5, <2>2, <2>6, <2>7 DEF Busy
  <1> QED BY <1>1, <1>3, <1>4, <1>5

\* More nodes after those seen.
LEMMA EntersOn ==
    ASSUME NEW N, NEW exclude, NEW acc \in Searches(N), NEW mid \in Searches(N), NEW r \in Searches(N),
           acc.queue # <<>>, IsFiniteSet(N),
           NEW seen, NEW more, Enters(acc, mid, seen, exclude), Enters(mid, r, more, exclude)
    PROVE  Enters(acc, r, seen \cup more, exclude)
  <1> DEFINE a == Len(acc.queue)
             m == Len(mid.queue)
             l == Len(r.queue)
  <1>1. a \in Nat \ {0} /\ m \in Nat /\ l \in Nat /\ a <= m /\ m <= l
    BY DEF Searches, Enters
  <1>2. r.visited = acc.visited \cup ((seen \cup more) \ exclude) BY DEF Enters
  <1>3. \A j \in 1..a : r.queue[j] = acc.queue[j] BY <1>1 DEF Enters
  <1>4. mid.queue[1] = acc.queue[1] BY <1>1 DEF Enters
  <1>5. ASSUME NEW j \in (a + 1)..l
        PROVE  /\ r.queue[j].depth = acc.queue[1].depth + 1
               /\ r.queue[j].id \in (seen \cup more) \ (acc.visited \cup exclude)
    <2>1. CASE j <= m
      <3>1. j \in (a + 1)..m /\ j \in 1..m BY <1>1, <2>1
      <3>2. r.queue[j] = mid.queue[j] BY <3>1 DEF Enters
      <3> QED BY <3>1, <3>2 DEF Enters
    <2>2. CASE j > m
      <3>1. j \in (m + 1)..l BY <1>1, <2>2
      <3>2. r.queue[j].depth = acc.queue[1].depth + 1 BY <1>4, <3>1 DEF Enters
      <3>3. r.queue[j].id \in more \ (mid.visited \cup exclude) BY <3>1 DEF Enters
      <3>4. acc.visited \subseteq mid.visited BY DEF Enters
      <3> QED BY <3>2, <3>3, <3>4
    <2> QED BY <1>1, <2>1, <2>2
  <1>6. ASSUME NEW u \in r.visited \ acc.visited PROVE \E j \in (a + 1)..l : r.queue[j].id = u
    <2>1. CASE u \in mid.visited
      <3>1. PICK j \in (a + 1)..m : mid.queue[j].id = u BY <2>1, <1>6 DEF Enters
      <3>2. j \in 1..m /\ j \in (a + 1)..l BY <1>1
      <3>3. r.queue[j] = mid.queue[j] BY <3>2 DEF Enters
      <3> QED BY <3>1, <3>2, <3>3
    <2>2. CASE u \notin mid.visited
      <3>1. PICK j \in (m + 1)..l : r.queue[j].id = u BY <2>2 DEF Enters
      <3>2. j \in (a + 1)..l BY <1>1
      <3> QED BY <3>1, <3>2
    <2> QED BY <2>1, <2>2
  <1>7. l - a = Cardinality(r.visited) - Cardinality(acc.visited)
    <2>1. /\ Cardinality(acc.visited) \in Nat /\ Cardinality(mid.visited) \in Nat
          /\ Cardinality(r.visited) \in Nat
      BY FS_Subset, FS_CardinalityType DEF Searches
    <2>2. m - a = Cardinality(mid.visited) - Cardinality(acc.visited) BY DEF Enters
    <2>3. l - m = Cardinality(r.visited) - Cardinality(mid.visited) BY DEF Enters
    <2> HIDE DEF a, m, l
    <2> QED BY <1>1, <2>1, <2>2, <2>3
  <1>8. a <= l BY <1>1
  <1> QED BY <1>2, <1>3, <1>5, <1>6, <1>7, <1>8 DEF Enters

\* A visit of all goes by steps.
VisitStep(N, target, exclude, ns) ==
    [w \in Busy(N) \X (1..Len(ns)) |-> Visit(target, exclude, w[1], ns[w[2]])]
LEMMA VisitsEnd ==
    ASSUME NEW N, IsFiniteSet(N), NEW target, NEW exclude, NEW ns \in Seq(N), NEW acc \in Busy(N)
    PROVE  EndsAt(Visits(target, exclude, acc, ns), Busy(N), acc, Len(ns), VisitStep(N, target, exclude, ns))
  <1> DEFINE n == Len(ns)
             S == Busy(N)
             st == VisitStep(N, target, exclude, ns)
             Is(it) == it = [s \in SUBSET (1..n) |->
                 IF s = {} THEN acc ELSE Visit(target, exclude, it[s \ {T!Max(s)}], ns[T!Max(s)])]
             it == CHOOSE it : Is(it)
  <1>1. n \in Nat /\ DOMAIN ns = 1..n /\ \A k \in 1..n : ns[k] \in N OBVIOUS
  <1>2. Visits(target, exclude, acc, ns) = it[1..n] BY <1>1 DEF Visits
  <1>3. \A a \in S : \A k \in 1..n : st[<<a, k>>] = Visit(target, exclude, a, ns[k]) BY DEF VisitStep
  <1> HIDE DEF st
  <1>4. \A a \in S : \A k \in 1..n : Visit(target, exclude, a, ns[k]) \in S
    <2> TAKE a \in S
    <2> TAKE k \in 1..n
    <2> DEFINE v == Visit(target, exclude, a, ns[k])
               w == ns[k]
    <2>1. w \in N /\ v = Visit(target, exclude, a, w) BY <1>1
    <2> HIDE DEF v, w
    <2>2. v \in Busy(N) BY <2>1, VisitOne
    <2> QED BY <2>2 DEF v
  <1> HIDE DEF S
  <1>5. acc \in S BY DEF S
  <1>6. StaysIn(S, n, st) BY <1>3, <1>4 DEF StaysIn
  <1>7. Is(it)
    <2>1. PICK f : FoldsOver(f, S, acc, n, st) BY <1>1, <1>5, <1>6, FoldThere
    <2>2. \A s \in SUBSET (1..n) :
             f[s] = IF s = {} THEN acc ELSE Visit(target, exclude, f[s \ {T!Max(s)}], ns[T!Max(s)])
      <3> TAKE s \in SUBSET (1..n)
      <3>1. CASE s = {} BY <2>1, <3>1 DEF FoldsOver
      <3>2. CASE s # {} BY <1>3, <2>1, <3>2 DEF FoldsOver
      <3> QED BY <3>1, <3>2
    <2>3. f = [s \in SUBSET (1..n) |-> f[s]] BY <2>1 DEF FoldsOver
    <2>4. Is(f) BY <2>2, <2>3
    <2> HIDE DEF Is
    <2> QED BY <2>4
  <1> HIDE DEF it
  <1>8. it[{}] = acc BY <1>7
  <1>9. ASSUME NEW s \in SUBSET (1..n), s # {}, it[s \ {T!Max(s)}] \in S
        PROVE  it[s] = st[<<it[s \ {T!Max(s)}], T!Max(s)>>]
    <2>1. T!Max(s) \in s BY <1>1, <1>9, Greatest
    <2>2. T!Max(s) \in 1..n BY <2>1
    <2>3. it[s] = Visit(target, exclude, it[s \ {T!Max(s)}], ns[T!Max(s)]) BY <1>7, <1>9
    <2> QED BY <1>3, <1>9, <2>2, <2>3
  <1>10. Unfolds(it, S, acc, n, st) BY <1>8, <1>9 DEF Unfolds
  <1>11. EndsAt(it[1..n], S, acc, n, st) BY <1>1, <1>5, <1>6, <1>10, FoldEnds
  <1> QED BY <1>2, <1>11 DEF S, st

\* All the neighbours.
LEMMA VisitAll ==
    ASSUME NEW N, IsFiniteSet(N), NEW target, NEW exclude, NEW ns \in Seq(N), NEW acc \in Busy(N),
           NEW r, r = Visits(target, exclude, acc, ns)
    PROVE  /\ r \in Busy(N)
           /\ r.found <=> acc.found \/ target \in ElementsOf(ns)
           /\ ~r.found => Enters(acc, r, ElementsOf(ns), exclude)
  <1> DEFINE n == Len(ns)
             S == Busy(N)
             step == VisitStep(N, target, exclude, ns)
  <1>1. n \in Nat /\ DOMAIN ns = 1..n /\ acc \in S /\ \A k \in 1..n : ns[k] \in N OBVIOUS
  <1>3. \A a \in S : \A k \in 1..n : step[<<a, k>>] = Visit(target, exclude, a, ns[k]) BY DEF VisitStep
  <1>7. PICK f : StepsFrom(f, S, acc, n, step) /\ f[n] = r
    <2>1. EndsAt(r, S, acc, n, step) BY VisitsEnd
    <2> HIDE DEF S, step, n
    <2> QED BY <2>1 DEF EndsAt
  <1> HIDE DEF step
  <1> DEFINE upto(k) == {ns[j] : j \in 1..k}
             P == {k \in 0..n : /\ f[k].found <=> acc.found \/ target \in upto(k)
                                /\ ~f[k].found => Enters(acc, f[k], upto(k), exclude)}
  <1>9. 0 \in P
    <2>1. f[0] = acc /\ upto(0) = {} BY <1>7 DEF StepsFrom
    <2>2. Enters(acc, acc, {}, exclude)
      <3>1. Cardinality(acc.visited) \in Nat /\ Len(acc.queue) \in Nat
        BY FS_Subset, FS_CardinalityType DEF Searches, Busy
      <3> QED BY <3>1 DEF Enters
    <2>3. 0 \in 0..n BY <1>1
    <2> HIDE DEF upto, n
    <2>4. f[0].found <=> acc.found \/ target \in upto(0) BY <2>1
    <2>5. Enters(acc, f[0], upto(0), exclude) BY <2>1, <2>2
    <2> QED BY <2>3, <2>4, <2>5
  <1>10. ASSUME NEW k \in 1..n, k - 1 \in P PROVE k \in P
    <2>1. f[k] = step[<<f[k - 1], k>>] /\ f[k - 1] \in S BY <1>7 DEF StepsFrom
    <2>2. f[k] = Visit(target, exclude, f[k - 1], ns[k]) BY <1>3, <2>1
    <2>3. /\ f[k] \in Busy(N)
          /\ (f[k].found <=> (f[k - 1].found \/ ns[k] = target))
          /\ ~f[k].found => Enters(f[k - 1], f[k], {ns[k]}, exclude)
      <3> DEFINE a == f[k - 1]
                 v == f[k]
                 w == ns[k]
      <3>1. a \in Busy(N) /\ w \in N BY <1>1, <2>1
      <3>2. v = Visit(target, exclude, a, w) BY <2>2
      <3> HIDE DEF a, v, w
      <3>3. /\ v \in Busy(N)
            /\ (v.found <=> (a.found \/ w = target))
            /\ ~v.found => Enters(a, v, {w}, exclude)
        BY <3>1, <3>2, VisitOne
      <3> QED BY <3>3 DEF a, v, w
    <2>4. upto(k) = upto(k - 1) \cup {ns[k]}
      <3>1. 1..k = 1..(k - 1) \cup {k} OBVIOUS
      <3> QED BY <3>1
    <2>5. /\ f[k - 1].found <=> acc.found \/ target \in upto(k - 1)
          /\ ~f[k - 1].found => Enters(acc, f[k - 1], upto(k - 1), exclude)
      BY <1>10
    <2>6. f[k].found <=> acc.found \/ target \in upto(k) BY <2>3, <2>4, <2>5
    <2>7. ASSUME ~f[k].found PROVE Enters(acc, f[k], upto(k), exclude)
      <3>1. ~f[k - 1].found BY <2>3, <2>7
      <3>2. Enters(acc, f[k - 1], upto(k - 1), exclude) /\ Enters(f[k - 1], f[k], {ns[k]}, exclude)
        BY <2>3, <2>5, <2>7, <3>1
      <3> HIDE DEF upto
      <3>3. \A a \in Busy(N) : a \in Searches(N) /\ a.queue # <<>> BY DEF Busy
      <3>4. f[k - 1] \in Searches(N) /\ f[k] \in Searches(N) BY <2>1, <2>3, <3>3
      <3> QED BY <2>4, <3>2, <3>3, <3>4, EntersOn
    <2> HIDE DEF upto
    <2> QED BY <2>6, <2>7
  <1>11. \A k \in 0..n : k \in P
    <2>1. \A k \in 1..n : k - 1 \in P => k \in P BY <1>10
    <2> HIDE DEF P
    <2> QED BY <1>1, <1>9, <2>1, UpTo
  <1>12. n \in P /\ upto(n) = ElementsOf(ns)
    <2>1. n \in 0..n BY <1>1
    <2> HIDE DEF P, n
    <2> QED BY <1>1, <1>11, <2>1 DEF ElementsOf
  <1>13. f[n] \in S BY <1>1, <1>7 DEF StepsFrom
  <1> QED BY <1>7, <1>12, <1>13

-----------------------------------------------------------------------------
(* What is in reach.                                                        *)

\* The nodes a call leads to.
Called(g, n) == {g.edge[e].tgt : e \in {e \in DOMAIN g.edge :
                    g.edge[e].type \in ElementsOf(T!TaintTypes) /\ g.edge[e].src = n}}

\* R[h] holds what is within h calls of start, when no node of cut but start is left.
Reaches(R, g, start, depth, cut) ==
    /\ R[0] = {start}
    /\ \A h \in 1..depth :
          R[h] = R[h - 1] \cup UNION {Called(g, n) : n \in R[h - 1] \ (cut \ {start})}

\* neighborIDs lists what a node calls.
LEMMA NeighborsAreCalled ==
    ASSUME NEW g, IsGraph(g), NEW n \in DOMAIN g.node
    PROVE  LET ns == T!neighborIDs(g, n, "outbound", T!TaintTypes)
           IN  ns \in Seq(DOMAIN g.node) /\ ElementsOf(ns) = Called(g, n)
  <1> DEFINE m == Len(g.edge)
             E == DOMAIN g.edge
             types == T!TaintTypes
             out(t) == {e \in DOMAIN g.edge : g.edge[e].type = t /\ g.edge[e].src = n}
             of(t) == T!InOrder(out(t), m)
             q == [i \in 1..3 |-> of(types[i])]
             es == T!FlattenSeq(q)
             ns == [i \in DOMAIN es |-> g.edge[es[i]].tgt]
  <1>1. m \in Nat /\ E = 1..m BY DEF IsGraph, IsASequence
  <1>2. DOMAIN types = 1..3 BY DEF T!TaintTypes
  <1>3. T!neighborIDs(g, n, "outbound", types) = ns
    <2>1. \A e : T!Source(g, e, "outbound") = g.edge[e].src /\ T!Target(g, e, "outbound") = g.edge[e].tgt
      BY DEF T!Source, T!Target
    <2> QED BY <1>2, <2>1 DEF T!neighborIDs
  <1>4. ASSUME NEW t PROVE of(t) \in Seq(E) /\ ElementsOf(of(t)) = out(t)
    <2> DEFINE s == of(t)
    <2>1. out(t) \cap (1..m) = out(t) BY <1>1
    <2>2. s \in Seq(out(t)) /\ \A i \in out(t) : \E k \in 1..Len(s) : s[k] = i
      <3> DEFINE U == out(t)
      <3>1. s = T!InOrder(U, m) /\ U \cap (1..m) = U BY <2>1
      <3> HIDE DEF U, s, m
      <3>2. Lists(s, U \cap (1..m)) BY <1>1, <3>1, OrderLists
      <3> QED BY <3>1, <3>2 DEF U, Lists
    <2> HIDE DEF s
    <2>3. out(t) \subseteq E OBVIOUS
    <2> HIDE DEF out, E
    <2>4. s \in Seq(E) BY <2>2, <2>3
    <2>5. ElementsOf(s) = out(t) BY <2>2 DEF ElementsOf
    <2> QED BY <2>4, <2>5 DEF s
  <1> HIDE DEF of
  <1>5. es \in Seq(E) /\ ElementsOf(es) = UNION {ElementsOf(q[i]) : i \in 1..3}
    <2>1. q \in [1..3 -> Seq(E)] BY <1>4
    <2>2. 3 \in Nat OBVIOUS
    <2> HIDE DEF q, E
    <2> QED BY <2>1, <2>2, FlattenHas
  <1>6. ElementsOf(es) = {e \in E : g.edge[e].type \in ElementsOf(types) /\ g.edge[e].src = n}
    <2>1. \A i \in 1..3 : ElementsOf(q[i]) = out(types[i]) BY <1>4
    <2>2. ElementsOf(es) = UNION {out(types[i]) : i \in 1..3} BY <1>5, <2>1
    <2>3. ElementsOf(types) = {types[i] : i \in 1..3} BY <1>2 DEF ElementsOf
    <2> HIDE DEF es, types
    <2> QED BY <2>2, <2>3
  <1> HIDE DEF es, q, types
  <1>7. DOMAIN es = 1..Len(es) /\ \A i \in DOMAIN es : es[i] \in E BY <1>5
  <1>8. \A e \in E : g.edge[e].tgt \in DOMAIN g.node BY DEF IsGraph
  <1>9. ns \in Seq(DOMAIN g.node)
    <2>1. Len(es) \in Nat BY <1>5
    <2> HIDE DEF E
    <2> QED BY <1>7, <1>8, <2>1
  <1>10. ElementsOf(ns) = {g.edge[e].tgt : e \in ElementsOf(es)} BY DEF ElementsOf
  <1> HIDE DEF ns
  <1> QED BY <1>3, <1>6, <1>9, <1>10 DEF Called, types

\* What a search at cur goes on to.
LEMMA EnteredAre ==
    ASSUME NEW g, IsGraph(g), NEW depth \in Nat, NEW cur \in Items(DOMAIN g.node)
    PROVE  LET ns == T!Entered(g, cur, "outbound", T!TaintTypes, depth)
           IN  /\ ns \in Seq(DOMAIN g.node)
               /\ ElementsOf(ns) = IF cur.depth >= depth THEN {} ELSE Called(g, cur.id)
  <1>1. T!OrCalls(T!TaintTypes) = T!TaintTypes BY DEF T!OrCalls, T!TaintTypes
  <1>2. cur.id \in DOMAIN g.node BY DEF Items
  <1>3. CASE cur.depth >= depth
    <2>1. T!Entered(g, cur, "outbound", T!TaintTypes, depth) = <<>> BY <1>3 DEF T!Entered
    <2>2. ElementsOf(<<>>) = {} /\ <<>> \in Seq(DOMAIN g.node) BY DEF ElementsOf
    <2> DEFINE ns == T!Entered(g, cur, "outbound", T!TaintTypes, depth)
    <2>3. ns \in Seq(DOMAIN g.node) BY <2>1, <2>2
    <2>4. ElementsOf(ns) = {} BY <2>1, <2>2
    <2> QED BY <1>3, <2>3, <2>4
  <1>4. CASE ~(cur.depth >= depth)
    <2>1. T!Entered(g, cur, "outbound", T!TaintTypes, depth)
            = T!neighborIDs(g, cur.id, "outbound", T!TaintTypes)
      BY <1>1, <1>4 DEF T!Entered
    <2> QED BY <1>2, <1>4, <2>1, NeighborsAreCalled
  <1> QED BY <1>3, <1>4

\* Avoiding is the last of the sets in reach.
LEMMA AvoidingReaches ==
    ASSUME NEW g, IsGraph(g), NEW start \in DOMAIN g.node, NEW depth \in Nat, NEW cut
    PROVE  \E R : /\ Reaches(R, g, start, depth, cut)
                  /\ T!Avoiding(g, start, depth, cut) = R[depth]
                  /\ \A h \in 0..depth : R[h] \subseteq DOMAIN g.node
  <1> DEFINE N == DOMAIN g.node
             S == SUBSET N
             b == {start}
             next(U) == U \cup {g.edge[e].tgt : e \in {e \in T!Selected(g, T!TaintTypes, 0) :
                                                         g.edge[e].src \in U \ (cut \ {start})}}
             Is(f) == f = [h \in 0..depth |-> IF h = 0 THEN {start} ELSE next(f[h - 1])]
             st == [w \in S \X (1..depth) |-> next(w[1])]
             R == CHOOSE f : Is(f)
  <1>1. T!Avoiding(g, start, depth, cut) = R[depth] BY DEF T!Avoiding
  <1>2. T!Selected(g, T!TaintTypes, 0) = {e \in DOMAIN g.edge : g.edge[e].type \in ElementsOf(T!TaintTypes)}
    BY DEF T!Selected, T!Contains, T!TaintTypes, ElementsOf
  <1>3. \A U : next(U) = U \cup UNION {Called(g, n) : n \in U \ (cut \ {start})}
    BY <1>2 DEF Called
  <1>4. \A n \in N : Called(g, n) \subseteq N BY DEF Called, IsGraph
  <1>5. \A U \in S : next(U) \in S
    <2> HIDE DEF next
    <2> QED BY <1>3, <1>4
  <1> HIDE DEF next
  <1>6. StaysIn(S, depth, st)
    <2>1. \A U \in S : \A h \in 1..depth : st[<<U, h>>] = next(U) OBVIOUS
    <2> HIDE DEF st, S
    <2> QED BY <1>5, <2>1 DEF StaysIn
  <1>7. \E f : Is(f)
    <2>1. b \in S OBVIOUS
    <2>2. \A U \in S : \A h \in 1..depth : st[<<U, h>>] = next(U) OBVIOUS
    <2> HIDE DEF S, st
    <2>3. PICK f : StepsFrom(f, S, b, depth, st) BY <1>6, <2>1, StepByStep
    <2> DEFINE e == [h \in 0..depth |-> f[h]]
    <2>4. ASSUME NEW h \in 0..depth PROVE e[h] = IF h = 0 THEN {start} ELSE next(e[h - 1])
      <3>1. CASE h = 0 BY <2>3, <3>1 DEF StepsFrom
      <3>2. CASE h # 0
        <4>1. h \in 1..depth /\ h - 1 \in 0..depth BY <3>2
        <4>2. f[h] = st[<<f[h - 1], h>>] /\ f[h - 1] \in S BY <2>3, <4>1 DEF StepsFrom
        <4>3. f[h] = next(f[h - 1]) BY <2>2, <4>1, <4>2
        <4>4. e[h] = f[h] /\ e[h - 1] = f[h - 1] BY <4>1
        <4> HIDE DEF e
        <4> QED BY <3>2, <4>3, <4>4
      <3> QED BY <3>1, <3>2
    <2>5. Is(e)
      <3>1. e = [h \in 0..depth |-> e[h]] OBVIOUS
      <3> HIDE DEF e
      <3> QED BY <2>4, <3>1
    <2> HIDE DEF Is
    <2> QED BY <2>5
  <1>8. Is(R)
    <2> HIDE DEF Is
    <2> QED BY <1>7
  <1> HIDE DEF R
  <1>9. R[0] = {start} BY <1>8
  <1>10. ASSUME NEW h \in 1..depth PROVE R[h] = next(R[h - 1])
    <2>1. h \in 0..depth /\ h # 0 OBVIOUS
    <2> QED BY <1>8, <2>1
  <1> DEFINE P == {h \in 0..depth : R[h] \in S}
  <1>11. \A h \in 0..depth : h \in P
    <2>1. 0 \in P BY <1>9
    <2>2. \A h \in 1..depth : h - 1 \in P => h \in P BY <1>5, <1>10
    <2> HIDE DEF P
    <2> QED BY <2>1, <2>2, UpTo
  <1>12. Reaches(R, g, start, depth, cut) BY <1>3, <1>9, <1>10 DEF Reaches
  <1> QED BY <1>1, <1>11, <1>12

\* More calls reach no less.
LEMMA ReachGrows ==
    ASSUME NEW R, NEW g, NEW start, NEW depth \in Nat, NEW cut, Reaches(R, g, start, depth, cut),
           NEW j \in 0..depth, NEW k \in j..depth
    PROVE  R[j] \subseteq R[k]
  <1> DEFINE P == {m \in 0..(depth - j) : R[j] \subseteq R[j + m]}
  <1>1. 0 \in P OBVIOUS
  <1>2. ASSUME NEW m \in 1..(depth - j), m - 1 \in P PROVE m \in P
    <2>1. j + m \in 1..depth /\ (j + m) - 1 = j + (m - 1) OBVIOUS
    <2>2. R[j + (m - 1)] \subseteq R[j + m] BY <2>1 DEF Reaches
    <2> QED BY <1>2, <2>2
  <1>3. \A m \in 0..(depth - j) : m \in P
    <2>1. \A m \in 1..(depth - j) : m - 1 \in P => m \in P BY <1>2
    <2>2. depth - j \in Nat OBVIOUS
    <2> HIDE DEF P
    <2> QED BY <1>1, <2>1, <2>2, UpTo
  <1>4. k - j \in 0..(depth - j) /\ j + (k - j) = k OBVIOUS
  <1>5. k - j \in P
    <2> HIDE DEF P
    <2> QED BY <1>3, <1>4
  <1> QED BY <1>4, <1>5

-----------------------------------------------------------------------------
(* The search, one node of the queue after the other.                       *)

Pop(g, target, depth, exclude, acc) ==
    IF acc.found \/ acc.queue = <<>> THEN acc
    ELSE T!Popped(Visits(target, exclude, acc,
                         T!Entered(g, Head(acc.queue), "outbound", T!TaintTypes, depth)))

\* The places of the queue: each at its distance, of those not excluded,
\* nearest first, and at most one farther than the first.
Queued(acc, R, start, depth, exclude) ==
    \A j \in 1..Len(acc.queue) :
      /\ acc.queue[j].id \in acc.visited /\ acc.queue[j].id \notin exclude \ {start}
      /\ acc.queue[j].depth <= depth
      /\ acc.queue[j].id \in R[acc.queue[j].depth]
      /\ acc.queue[j].depth # 0 => acc.queue[j].id \notin R[acc.queue[j].depth - 1]
      /\ acc.queue[j].depth <= acc.queue[1].depth + 1
      /\ \A k \in 1..j : acc.queue[k].depth <= acc.queue[j].depth

\* What has been visited waits in the queue, or has been left to all it
\* calls, or is at the full distance.
Left(acc, g, R, target, depth, exclude) ==
    \A u \in acc.visited :
      \/ \E j \in 1..Len(acc.queue) : acc.queue[j].id = u
      \/ u \notin R[depth - 1]
      \/ Called(g, u) \ exclude \subseteq acc.visited /\ target \notin Called(g, u)

\* After i pops.
Searching(acc, i, g, R, start, target, depth, exclude) ==
    /\ acc \in Searches(DOMAIN g.node)
    /\ acc.found => target \in R[depth]
    /\ ~acc.found =>
         /\ start \in acc.visited /\ start # target
         /\ acc.queue # <<>> => Len(acc.queue) + i <= Cardinality(acc.visited)
         /\ Queued(acc, R, start, depth, exclude)
         /\ Left(acc, g, R, target, depth, exclude)

\* Everything nearer than the first in the queue has been visited.
LEMMA NearerVisited ==
    ASSUME NEW g, IsGraph(g), NEW start \in DOMAIN g.node, NEW target, NEW depth \in Nat \ {0},
           NEW exclude, NEW R, Reaches(R, g, start, depth, exclude),
           NEW acc \in Searches(DOMAIN g.node), start \in acc.visited, start # target,
           Queued(acc, R, start, depth, exclude), Left(acc, g, R, target, depth, exclude),
           NEW h \in 0..depth, acc.queue = <<>> \/ h <= acc.queue[1].depth
    PROVE  R[h] \ (exclude \ {start}) \subseteq acc.visited /\ target \notin R[h]
  <1> DEFINE P == {k \in 0..h : R[k] \ (exclude \ {start}) \subseteq acc.visited /\ target \notin R[k]}
  <1>0. h \in Nat /\ acc.queue \in Seq(Items(DOMAIN g.node)) BY DEF Searches
  <1>G. \A j \in 0..depth : \A k \in j..depth : R[j] \subseteq R[k]
    <2>1. depth \in Nat OBVIOUS
    <2> QED BY <2>1, ReachGrows
  <1>1. 0 \in P BY DEF Reaches
  <1>2. ASSUME NEW k \in 1..h, k - 1 \in P PROVE k \in P
    <2>1. k \in 1..depth OBVIOUS
    <2>2. R[k] = R[k - 1] \cup UNION {Called(g, n) : n \in R[k - 1] \ (exclude \ {start})}
      BY <2>1 DEF Reaches
    <2>3. R[k - 1] \ (exclude \ {start}) \subseteq acc.visited /\ target \notin R[k - 1] BY <1>2
    <2>4. ASSUME NEW n \in R[k - 1] \ (exclude \ {start})
          PROVE  Called(g, n) \ exclude \subseteq acc.visited /\ target \notin Called(g, n)
      <3>1. n \in acc.visited BY <2>3
      <3>2. n \in R[depth - 1]
        <4>1. k - 1 \in 0..depth /\ depth - 1 \in (k - 1)..depth BY <2>1
        <4>2. R[k - 1] \subseteq R[depth - 1] BY <1>G, <4>1
        <4> QED BY <4>2
      <3>3. ASSUME NEW j \in 1..Len(acc.queue), acc.queue[j].id = n PROVE FALSE
        <4> DEFINE dd == acc.queue[j].depth
        <4>1. acc.queue # <<>> /\ 1 \in 1..j BY <1>0, <3>3
        <4>2. acc.queue[j] \in Items(DOMAIN g.node) /\ acc.queue[1] \in Items(DOMAIN g.node)
          BY <1>0, <4>1
        <4>3. dd \in Nat /\ acc.queue[1].depth \in Nat BY <4>2 DEF Items
        <4>4. acc.queue[1].depth <= dd /\ dd <= depth /\ (dd # 0 => n \notin R[dd - 1])
          BY <3>3, <4>1 DEF Queued
        <4>5. k <= dd BY <4>1, <4>3, <4>4
        <4>6. k - 1 \in 0..depth /\ dd - 1 \in (k - 1)..depth /\ dd # 0 BY <2>1, <4>3, <4>4, <4>5
        <4>7. R[k - 1] \subseteq R[dd - 1]
          <5> HIDE DEF dd
          <5> QED BY <1>G, <4>6
        <4> QED BY <2>4, <4>4, <4>6, <4>7
      <3> QED BY <3>1, <3>2, <3>3 DEF Left
    <2>5. target \notin R[k] BY <2>2, <2>3, <2>4
    <2>6. R[k] \ (exclude \ {start}) \subseteq acc.visited BY <2>2, <2>3, <2>4
    <2> QED BY <2>5, <2>6
  <1>3. \A k \in 0..h : k \in P
    <2>1. \A k \in 1..h : k - 1 \in P => k \in P BY <1>2
    <2> HIDE DEF P
    <2> QED BY <1>0, <1>1, <2>1, UpTo
  <1>4. h \in P
    <2> HIDE DEF P
    <2> QED BY <1>0, <1>3
  <1> QED BY <1>4

\* One more pop.
LEMMA PopOne ==
    ASSUME NEW g, IsGraph(g), IsFiniteSet(DOMAIN g.node),
           NEW start \in DOMAIN g.node, NEW target, NEW depth \in Nat \ {0},
           NEW exclude, NEW R, Reaches(R, g, start, depth, exclude), NEW i \in Nat,
           NEW acc, Searching(acc, i, g, R, start, target, depth, exclude),
           NEW r, r = Pop(g, target, depth, exclude, acc)
    PROVE  Searching(r, i + 1, g, R, start, target, depth, exclude)
  <1> DEFINE N == DOMAIN g.node
             cur == Head(acc.queue)
             ns == T!Entered(g, cur, "outbound", T!TaintTypes, depth)
             mid == Visits(target, exclude, acc, ns)
             new == ElementsOf(ns)
  <1>0. acc \in Searches(N) /\ acc.queue \in Seq(Items(N)) /\ acc.found \in BOOLEAN /\ depth \in Nat
    BY DEF Searching, Searches
  <1>1. CASE acc.found
    <2>1. r = acc BY <1>1 DEF Pop
    <2> QED BY <1>1, <2>1 DEF Searching
  <1>2. CASE ~acc.found /\ acc.queue = <<>>
    <2>1. r = acc BY <1>2 DEF Pop
    <2> QED BY <1>2, <2>1 DEF Searching
  <1>3. CASE ~acc.found /\ acc.queue # <<>>
    <2> DEFINE l == Len(acc.queue)
    <2>1. /\ cur = acc.queue[1] /\ cur \in Items(N) /\ l \in Nat \ {0}
          /\ cur.id \in N /\ cur.depth \in Nat
      <3>1. l \in Nat \ {0} /\ cur = acc.queue[1] BY <1>0, <1>3
      <3>2. acc.queue[1] \in Items(N) BY <1>0, <3>1
      <3>3. \A w \in Items(N) : w.id \in N /\ w.depth \in Nat BY DEF Items
      <3> HIDE DEF cur, l, N
      <3> QED BY <3>1, <3>2, <3>3
    <2>2. /\ start \in acc.visited /\ start # target /\ l + i <= Cardinality(acc.visited)
          /\ Queued(acc, R, start, depth, exclude) /\ Left(acc, g, R, target, depth, exclude)
      BY <1>3 DEF Searching
    <2>3. /\ cur.id \in acc.visited /\ cur.id \notin exclude \ {start} /\ cur.depth <= depth
          /\ cur.id \in R[cur.depth] /\ (cur.depth # 0 => cur.id \notin R[cur.depth - 1])
      <3>1. 1 \in 1..l BY <2>1
      <3> HIDE DEF cur
      <3> QED BY <2>1, <2>2, <3>1 DEF Queued
    <2>4. ns \in Seq(N) /\ new = IF cur.depth >= depth THEN {} ELSE Called(g, cur.id)
      <3> HIDE DEF cur, N
      <3> QED BY <1>0, <2>1, EnteredAre DEF N
    <2>5. /\ mid \in Busy(N)
          /\ mid.found <=> target \in new
          /\ ~mid.found => Enters(acc, mid, new, exclude)
      <3>1. acc \in Busy(N) BY <1>0, <1>3 DEF Busy
      <3> DEFINE m == mid
      <3>2. m = Visits(target, exclude, acc, ns) OBVIOUS
      <3> HIDE DEF m, ns, N
      <3>3. /\ m \in Busy(N)
            /\ m.found <=> acc.found \/ target \in ElementsOf(ns)
            /\ ~m.found => Enters(acc, m, ElementsOf(ns), exclude)
        BY <2>4, <3>1, <3>2, VisitAll DEF N
      <3> QED BY <1>3, <3>3 DEF m
    <2>6. r = [mid EXCEPT !.queue = Tail(@)] BY <1>3 DEF Pop, T!Popped
    <2> HIDE DEF mid, ns, cur, new, N
    <2>7. /\ mid \in Searches(N) /\ mid.queue \in Seq(Items(N)) /\ mid.queue # <<>>
          /\ mid.found \in BOOLEAN /\ mid.visited \in SUBSET N
      BY <2>5 DEF Busy, Searches
    <2>8. r \in Searches(N) /\ r.found = mid.found /\ r.visited = mid.visited /\ r.queue = Tail(mid.queue)
      <3>1. Tail(mid.queue) \in Seq(Items(N)) BY <2>7
      <3> QED BY <2>6, <2>7, <3>1 DEF Searches
    <2>9. CASE r.found
      <3>1. target \in Called(g, cur.id) /\ ~(cur.depth >= depth) BY <2>4, <2>5, <2>8, <2>9
      <3>2. cur.depth + 1 \in 1..depth /\ (cur.depth + 1) - 1 = cur.depth BY <1>0, <2>1, <3>1
      <3>3. R[cur.depth + 1] = R[cur.depth] \cup UNION {Called(g, n) : n \in R[cur.depth] \ (exclude \ {start})}
        BY <3>2 DEF Reaches
      <3>4. target \in R[cur.depth + 1] BY <2>3, <3>1, <3>3
      <3>5. R[cur.depth + 1] \subseteq R[depth]
        <4> DEFINE k == cur.depth + 1
        <4>1. k \in 0..depth /\ depth \in k..depth BY <3>2, <1>0
        <4> HIDE DEF k
        <4>2. R[k] \subseteq R[depth] BY <1>0, <4>1, ReachGrows
        <4> QED BY <4>2 DEF k
      <3> QED BY <2>8, <2>9, <3>4, <3>5 DEF Searching, N
    <2>10. CASE ~r.found
      <3>1. ~mid.found /\ target \notin new /\ Enters(acc, mid, new, exclude) BY <2>5, <2>8, <2>10
      <3> DEFINE m == Len(mid.queue)
      <3>2. /\ m \in Nat \ {0} /\ l <= m
            /\ \A j \in 1..l : mid.queue[j] = acc.queue[j]
            /\ \A j \in (l + 1)..m :
                  /\ mid.queue[j].depth = cur.depth + 1
                  /\ mid.queue[j].id \in new \ (acc.visited \cup exclude)
            /\ \A u \in mid.visited \ acc.visited : \E j \in (l + 1)..m : mid.queue[j].id = u
            /\ m - l = Cardinality(mid.visited) - Cardinality(acc.visited)
            /\ mid.visited = acc.visited \cup (new \ exclude)
        <4>1. m \in Nat \ {0} BY <2>7
        <4>2. l <= m /\ \A j \in 1..l : mid.queue[j] = acc.queue[j] BY <3>1 DEF Enters
        <4>3. \A j \in (l + 1)..m :
                  /\ mid.queue[j].depth = acc.queue[1].depth + 1
                  /\ mid.queue[j].id \in new \ (acc.visited \cup exclude)
          BY <3>1 DEF Enters
        <4>4. /\ \A u \in mid.visited \ acc.visited : \E j \in (l + 1)..m : mid.queue[j].id = u
              /\ m - l = Cardinality(mid.visited) - Cardinality(acc.visited)
              /\ mid.visited = acc.visited \cup (new \ exclude)
          BY <3>1 DEF Enters
        <4> HIDE DEF l, m
        <4> QED BY <2>1, <4>1, <4>2, <4>3, <4>4
      <3>3. /\ Len(r.queue) = m - 1
            /\ \A j \in 1..(m - 1) : r.queue[j] = mid.queue[j + 1]
        BY <2>7, <2>8
      <3>4. Len(r.queue) + (i + 1) <= Cardinality(r.visited)
        <4>1. Cardinality(mid.visited) \in Nat /\ Cardinality(acc.visited) \in Nat
          <5>1. acc.visited \in SUBSET N BY <1>0 DEF Searches
          <5>2. IsFiniteSet(N) BY DEF N
          <5> QED BY <2>7, <5>1, <5>2, FS_Subset, FS_CardinalityType
        <4> DEFINE cm == Cardinality(mid.visited)
                   ca == Cardinality(acc.visited)
        <4>2. cm \in Nat /\ ca \in Nat /\ m - l = cm - ca /\ l + i <= ca /\ r.visited = mid.visited
          BY <2>2, <2>8, <3>2, <4>1
        <4>3. Cardinality(r.visited) = cm BY <4>2
        <4> HIDE DEF cm, ca, m, l
        <4> QED BY <2>1, <3>2, <3>3, <4>2, <4>3
      <3>5. ASSUME NEW j \in (l + 1)..m
            PROVE  /\ ~(cur.depth >= depth) /\ new = Called(g, cur.id)
                   /\ mid.queue[j].depth = cur.depth + 1
                   /\ mid.queue[j].id \in Called(g, cur.id) \ (acc.visited \cup exclude)
        BY <2>4, <3>2
      <3>6. ASSUME NEW j \in 1..m
            PROVE  /\ mid.queue[j].depth \in Nat
                   /\ cur.depth <= mid.queue[j].depth /\ mid.queue[j].depth <= cur.depth + 1
                   /\ \A k \in 1..j : mid.queue[k].depth <= mid.queue[j].depth
        <4>1. ASSUME NEW k \in 1..m PROVE mid.queue[k].depth \in Nat
          <5>1. mid.queue[k] \in Items(N) BY <2>7
          <5> QED BY <5>1 DEF Items
        <4>2. \A k \in 1..l : mid.queue[k].depth <= cur.depth + 1 BY <2>1, <2>2, <3>2 DEF Queued
        <4>3. CASE j <= l
          <5>1. j \in 1..l /\ \A k \in 1..j : k \in 1..l BY <2>1, <4>3
          <5>2. \A k \in 1..j : mid.queue[k].depth <= mid.queue[j].depth BY <2>2, <3>2, <5>1 DEF Queued
          <5>3. 1 \in 1..j /\ mid.queue[1] = cur BY <2>1, <3>2
          <5> QED BY <4>1, <4>2, <5>1, <5>2, <5>3
        <4>4. CASE ~(j <= l)
          <5>1. j \in (l + 1)..m BY <2>1, <3>2, <4>4
          <5>2. mid.queue[j].depth = cur.depth + 1 BY <3>2, <5>1
          <5>3. \A k \in 1..j : k \in 1..l \/ k \in (l + 1)..m BY <2>1, <3>2
          <5>4. \A k \in 1..j : mid.queue[k].depth <= cur.depth + 1 BY <2>1, <3>2, <4>2, <5>3
          <5> QED BY <2>1, <5>2, <5>4
        <4> QED BY <4>3, <4>4
      <3>7. Queued(r, R, start, depth, exclude)
        <4> SUFFICES ASSUME NEW j \in 1..(m - 1)
                     PROVE  LET it == r.queue[j] IN
                            /\ it.id \in r.visited /\ it.id \notin exclude \ {start}
                            /\ it.depth <= depth
                            /\ it.id \in R[it.depth]
                            /\ it.depth # 0 => it.id \notin R[it.depth - 1]
                            /\ it.depth <= r.queue[1].depth + 1
                            /\ \A k \in 1..j : r.queue[k].depth <= it.depth
          BY <3>3 DEF Queued
        <4>1. j + 1 \in 1..m /\ r.queue[j] = mid.queue[j + 1] BY <3>2, <3>3
        <4>2. r.queue[1] = mid.queue[2] /\ 2 \in 1..m
          <5>1. 1 \in 1..(m - 1) /\ 1 + 1 = 2 /\ 2 \in 1..m BY <3>2
          <5> QED BY <3>3, <5>1
        <4>3. r.queue[j].depth <= r.queue[1].depth + 1
          <5>1. mid.queue[j + 1].depth \in Nat /\ mid.queue[j + 1].depth <= cur.depth + 1 BY <3>6, <4>1
          <5>2. mid.queue[2].depth \in Nat /\ cur.depth <= mid.queue[2].depth BY <3>6, <4>2
          <5> DEFINE x == mid.queue[j + 1].depth
                     y == mid.queue[2].depth
                     c == cur.depth
          <5>3. r.queue[j].depth = x /\ r.queue[1].depth = y BY <4>1, <4>2
          <5>4. x \in Nat /\ y \in Nat /\ c \in Nat /\ x <= c + 1 /\ c <= y BY <2>1, <5>1, <5>2
          <5> HIDE DEF x, y, c
          <5>5. x <= y + 1 BY <5>4
          <5> QED BY <5>3, <5>5
        <4>4. \A k \in 1..j : r.queue[k].depth <= r.queue[j].depth
          <5> TAKE k \in 1..j
          <5>1. k + 1 \in 1..(j + 1) /\ k \in 1..(m - 1) BY <3>2
          <5> QED BY <3>3, <3>6, <4>1, <5>1
        <4>5. CASE j + 1 <= l
          <5>1. j + 1 \in 1..l /\ r.queue[j] = acc.queue[j + 1] BY <2>1, <3>2, <4>1, <4>5
          <5>2. acc.visited \subseteq r.visited BY <2>8, <3>2
          <5> HIDE DEF m
          <5> QED BY <2>2, <4>3, <4>4, <5>1, <5>2 DEF Queued
        <4>6. CASE ~(j + 1 <= l)
          <5>1. j + 1 \in (l + 1)..m BY <2>1, <3>2, <4>1, <4>6
          <5>2. /\ ~(cur.depth >= depth) /\ new = Called(g, cur.id)
                /\ r.queue[j].depth = cur.depth + 1
                /\ r.queue[j].id \in Called(g, cur.id) \ (acc.visited \cup exclude)
            BY <3>5, <4>1, <5>1
          <5>3. r.queue[j].id \in r.visited BY <2>8, <3>2, <5>2
          <5>4. cur.depth + 1 \in 1..depth /\ (cur.depth + 1) - 1 = cur.depth BY <1>0, <2>1, <5>2
          <5>5. R[cur.depth + 1] = R[cur.depth] \cup UNION {Called(g, n) : n \in R[cur.depth] \ (exclude \ {start})}
            BY <5>4 DEF Reaches
          <5>6. r.queue[j].id \in R[cur.depth + 1] BY <2>3, <5>2, <5>5
          <5>7. R[cur.depth] \ (exclude \ {start}) \subseteq acc.visited
            <6> DEFINE k == cur.depth
            <6>1. k \in 0..depth /\ k <= acc.queue[1].depth BY <1>0, <2>1, <2>3
            <6>2. acc \in Searches(DOMAIN g.node) BY <1>0 DEF N
            <6> HIDE DEF k
            <6>3. R[k] \ (exclude \ {start}) \subseteq acc.visited BY <2>2, <6>1, <6>2, NearerVisited
            <6> QED BY <6>3 DEF k
          <5>8. r.queue[j].id \notin R[cur.depth] BY <5>2, <5>7
          <5> HIDE DEF m
          <5> QED BY <1>0, <2>1, <4>3, <4>4, <5>2, <5>3, <5>4, <5>6, <5>8
        <4> QED BY <4>5, <4>6
      <3>8. Left(r, g, R, target, depth, exclude)
        <4> SUFFICES ASSUME NEW u \in r.visited
                     PROVE  \/ \E j \in 1..(m - 1) : r.queue[j].id = u
                            \/ u \notin R[depth - 1]
                            \/ Called(g, u) \ exclude \subseteq r.visited /\ target \notin Called(g, u)
          BY <3>3 DEF Left
        <4>1. ASSUME NEW j \in 2..m, mid.queue[j].id = u PROVE \E k \in 1..(m - 1) : r.queue[k].id = u
          <5>1. j - 1 \in 1..(m - 1) /\ (j - 1) + 1 = j BY <3>2
          <5>2. r.queue[j - 1] = mid.queue[j] BY <3>3, <5>1
          <5> QED BY <4>1, <5>1, <5>2
        <4>2. CASE u \notin acc.visited
          <5>1. PICK j \in (l + 1)..m : mid.queue[j].id = u BY <2>8, <3>2, <4>2
          <5>2. j \in 2..m BY <2>1, <3>2
          <5> QED BY <4>1, <5>1, <5>2
        <4>3. CASE u \in acc.visited
          <5>1. ASSUME NEW j \in 1..l, acc.queue[j].id = u, j # 1
                PROVE  \E k \in 1..(m - 1) : r.queue[k].id = u
            <6>1. j \in 2..m /\ mid.queue[j].id = u BY <2>1, <3>2, <5>1
            <6> QED BY <4>1, <6>1
          <5>2. CASE u = cur.id /\ cur.depth >= depth
            <6>1. cur.depth = depth /\ cur.depth # 0 BY <1>0, <2>1, <2>3, <5>2
            <6> QED BY <2>3, <5>2, <6>1
          <5>3. CASE u = cur.id /\ ~(cur.depth >= depth)
            <6>1. new = Called(g, u) BY <2>4, <5>3
            <6> QED BY <2>8, <3>1, <3>2, <6>1
          <5>4. CASE u # cur.id
            <6>1. \/ \E j \in 1..l : acc.queue[j].id = u
                  \/ u \notin R[depth - 1]
                  \/ Called(g, u) \ exclude \subseteq acc.visited /\ target \notin Called(g, u)
              BY <2>2, <4>3 DEF Left
            <6>2. acc.visited \subseteq r.visited BY <2>8, <3>2
            <6>3. \A j \in 1..l : acc.queue[j].id = u => j # 1 BY <2>1, <5>4
            <6> QED BY <5>1, <6>1, <6>2, <6>3
          <5> QED BY <5>2, <5>3, <5>4
        <4> QED BY <4>2, <4>3
      <3>9. start \in r.visited /\ start # target BY <2>2, <2>8, <3>2
      <3> QED BY <2>8, <2>10, <3>4, <3>7, <3>8, <3>9 DEF Searching, N
    <2> QED BY <2>9, <2>10
  <1> QED BY <1>0, <1>1, <1>2, <1>3

\* A search that has not found the target has not reached it.
LEMMA NoneLeft ==
    ASSUME NEW g, IsGraph(g), NEW start \in DOMAIN g.node, NEW target, NEW depth \in Nat \ {0},
           NEW exclude, NEW R, Reaches(R, g, start, depth, exclude),
           NEW acc, Searching(acc, Len(g.node), g, R, start, target, depth, exclude), ~acc.found
    PROVE  target \notin R[depth]
  <1> DEFINE N == DOMAIN g.node
             n == Len(g.node)
  <1>1. /\ acc \in Searches(N) /\ start \in acc.visited /\ start # target
        /\ acc.queue # <<>> => Len(acc.queue) + n <= Cardinality(acc.visited)
        /\ Queued(acc, R, start, depth, exclude) /\ Left(acc, g, R, target, depth, exclude)
    BY DEF Searching
  <1>2. n \in Nat /\ N = 1..n BY DEF IsGraph, IsASequence
  <1>3. IsFiniteSet(N) /\ Cardinality(N) = n
    <2> HIDE DEF n, N
    <2> QED BY <1>2, FS_Interval
  <1>4. acc.queue = <<>>
    <2>1. acc.queue \in Seq(Items(N)) /\ acc.visited \in SUBSET N BY <1>1 DEF Searches
    <2>2. Cardinality(acc.visited) <= n /\ Cardinality(acc.visited) \in Nat
      BY <1>3, <2>1, FS_Subset, FS_CardinalityType
    <2>3. Len(acc.queue) \in Nat /\ (Len(acc.queue) = 0 => acc.queue = <<>>) BY <2>1
    <2> HIDE DEF n
    <2> QED BY <1>1, <1>2, <2>2, <2>3
  <1>5. depth \in 0..depth OBVIOUS
  <1> QED BY <1>1, <1>4, <1>5, NearerVisited

\* The search finds the target exactly when it is in reach of depth calls that
\* leave no excluded node but the start.
LEMMA SearchIsReach ==
    ASSUME NEW g, IsGraph(g), NEW start \in DOMAIN g.node, NEW target, NEW depth \in Nat \ {0},
           NEW exclude
    PROVE  T!ReachableExcluding(g, start, target, "outbound", T!TaintTypes, depth, exclude)
             <=> target \in T!Avoiding(g, start, depth, exclude)
  <1> DEFINE N == DOMAIN g.node
             n == Len(g.node)
             d == T!Default(depth, 3)
             init == [found |-> start = target, visited |-> {start},
                      queue |-> <<[id |-> start, depth |-> 0]>>]
             Is(it) == it = [s \in SUBSET (DOMAIN g.node) |->
                        IF s = {} THEN init ELSE Pop(g, target, d, exclude, it[s \ {T!Max(s)}])]
             it == CHOOSE it : Is(it)
  <1>1. T!ReachableExcluding(g, start, target, "outbound", T!TaintTypes, depth, exclude) = it[N].found
    BY DEF T!ReachableExcluding, T!FoldLeft, T!MapThenFoldSet, Pop, Visits, Visit
  <1>2. d = depth BY DEF T!Default
  <1>3. n \in Nat /\ N = 1..n /\ IsFiniteSet(N)
    <2>1. n \in Nat /\ N = 1..n BY DEF IsGraph, IsASequence
    <2> QED BY <2>1, FS_Interval
  <1>4. PICK R : /\ Reaches(R, g, start, d, exclude)
                 /\ T!Avoiding(g, start, depth, exclude) = R[d]
                 /\ \A h \in 0..d : R[h] \subseteq N
    <2>1. depth \in Nat OBVIOUS
    <2> QED BY <1>2, <2>1, AvoidingReaches
  <1> DEFINE Inv(acc, i) == Searching(acc, i, g, R, start, target, d, exclude)
             S == Searches(N)
  <1> HIDE DEF d
  <1>5. d \in Nat \ {0} BY <1>2
  <1>6. Inv(init, 0)
    <2> DEFINE a == init
               item == [id |-> start, depth |-> 0]
    <2>1. /\ a.found \in BOOLEAN /\ (a.found <=> start = target)
          /\ a.visited = {start} /\ a.queue = <<item>>
      OBVIOUS
    <2>2. item \in Items(N) /\ item.id = start /\ item.depth = 0 BY DEF Items
    <2>3. a \in S
      <3>1. a = [found |-> a.found, visited |-> a.visited, queue |-> a.queue] OBVIOUS
      <3>2. a.queue \in Seq(Items(N)) BY <2>1, <2>2
      <3> HIDE DEF a
      <3> QED BY <2>1, <3>1, <3>2 DEF Searches
    <2> HIDE DEF a, item
    <2>4. Len(a.queue) = 1 /\ a.queue[1] = item BY <2>1
    <2>5. R[0] = {start} /\ R[0] \subseteq R[d]
      <3>1. 0 \in 0..d /\ d \in 0..d /\ d \in Nat BY <1>5
      <3>2. \A j \in 0..d : \A k \in j..d : R[j] \subseteq R[k] BY <1>4, <3>1, ReachGrows
      <3>3. R[0] = {start} BY <1>4 DEF Reaches
      <3> HIDE DEF N
      <3> QED BY <3>1, <3>2, <3>3
    <2>6. a.found => target \in R[d] BY <2>1, <2>5
    <2>7. Queued(a, R, start, d, exclude) BY <1>5, <2>1, <2>2, <2>4, <2>5 DEF Queued
    <2>8. Left(a, g, R, target, d, exclude) BY <2>1, <2>2, <2>4 DEF Left
    <2>9. Len(a.queue) + 0 <= Cardinality(a.visited) BY <2>1, <2>4, FS_Singleton
    <2> QED BY <2>1, <2>3, <2>6, <2>7, <2>8, <2>9 DEF Searching, a
  <1> DEFINE pop(acc) == Pop(g, target, d, exclude, acc)
  <1>7. ASSUME NEW acc, NEW i \in Nat, Inv(acc, i) PROVE Inv(pop(acc), i + 1)
    <2> DEFINE r == pop(acc)
    <2>1. r = Pop(g, target, d, exclude, acc) OBVIOUS
    <2> HIDE DEF r
    <2>2. Inv(r, i + 1) BY <1>3, <1>4, <1>5, <1>7, <2>1, PopOne
    <2> QED BY <2>2 DEF r
  <1> HIDE DEF Inv, init
  <1> DEFINE A == {acc \in S : \E i \in Nat : Inv(acc, i)}
             st == [w \in A \X (1..n) |-> pop(w[1])]
  <1>8. \A acc : \A i \in Nat : Inv(acc, i) => acc \in A BY DEF Inv, Searching
  <1>9. \A acc \in A : \A k \in 1..n : st[<<acc, k>>] = pop(acc) OBVIOUS
  <1>10. init \in A BY <1>6, <1>8
  <1>11. StaysIn(A, n, st)
    <2>1. ASSUME NEW acc \in A PROVE pop(acc) \in A
      <3>1. PICK i \in Nat : Inv(acc, i) OBVIOUS
      <3>2. Inv(pop(acc), i + 1) /\ i + 1 \in Nat BY <1>7, <3>1
      <3> HIDE DEF A, pop
      <3> QED BY <1>8, <3>2
    <2> HIDE DEF A, st, pop
    <2> QED BY <1>9, <2>1 DEF StaysIn
  <1>12. Is(it)
    <2> HIDE DEF A, st
    <2>1. PICK f : GoesOver(f, A, init, n, st) BY <1>3, <1>10, <1>11, PlaceByPlace
    <2> DEFINE e == [s \in SUBSET N |-> f[s]]
    <2>2. ASSUME NEW s \in SUBSET N
          PROVE  e[s] = IF s = {} THEN init ELSE pop(e[s \ {T!Max(s)}])
      <3>1. CASE s = {} BY <2>1, <3>1 DEF GoesOver
      <3>2. CASE s # {}
        <4>1. T!Max(s) \in s BY <1>3, <2>2, <3>2, Greatest
        <4>2. s \in SUBSET (1..n) /\ s \ {T!Max(s)} \in SUBSET (1..n) /\ T!Max(s) \in 1..n
          BY <1>3, <2>2, <4>1
        <4>3. f[s \ {T!Max(s)}] \in A BY <2>1, <4>2 DEF GoesOver
        <4>4. f[s] = st[<<f[s \ {T!Max(s)}], T!Max(s)>>] BY <2>1, <3>2, <4>2 DEF GoesOver
        <4>5. f[s] = pop(f[s \ {T!Max(s)}]) BY <1>9, <4>2, <4>3, <4>4
        <4>6. e[s] = f[s] /\ e[s \ {T!Max(s)}] = f[s \ {T!Max(s)}] BY <2>2
        <4> HIDE DEF e, pop
        <4> QED BY <3>2, <4>5, <4>6
      <3> QED BY <3>1, <3>2
    <2>3. Is(e)
      <3>1. e = [s \in SUBSET N |-> e[s]] OBVIOUS
      <3> HIDE DEF e
      <3> QED BY <2>2, <3>1
    <2>4. \E h : Is(h) BY <2>3
    <2> HIDE DEF Is
    <2> QED BY <2>4
  <1> DEFINE f == [k \in 0..n |-> it[1..k]]
  <1>13. StepsFrom(f, A, init, n, st)
    <2>1. it[{}] = init BY <1>12
    <2>2. ASSUME NEW s \in SUBSET (1..n), s # {}, it[s \ {T!Max(s)}] \in A
          PROVE  it[s] = st[<<it[s \ {T!Max(s)}], T!Max(s)>>]
      <3>1. T!Max(s) \in 1..n BY <1>3, <2>2, Greatest
      <3>2. it[s] = pop(it[s \ {T!Max(s)}])
        <4>1. s \in SUBSET N BY <1>3, <2>2
        <4> HIDE DEF it, pop
        <4> QED BY <1>12, <2>2, <4>1 DEF pop
      <3> HIDE DEF it, A, st, pop
      <3> QED BY <1>9, <2>2, <3>1, <3>2
    <2>3. \A s \in SUBSET (1..n) : s # {} /\ it[s \ {T!Max(s)}] \in A =>
             it[s] = st[<<it[s \ {T!Max(s)}], T!Max(s)>>]
      <3> HIDE DEF it, A, st, n
      <3> QED BY <2>2
    <2> HIDE DEF it, A, st, n
    <2> QED BY <1>3, <1>10, <1>11, <2>1, <2>3, FoldSteps
  <1>14. f[n] = it[N] BY <1>3
  <1> HIDE DEF f, it, pop, A, st
  <1> DEFINE P == {k \in 0..n : Inv(f[k], k)}
  <1>15. \A k \in 0..n : k \in P
    <2>1. 0 \in P BY <1>3, <1>6, <1>13 DEF StepsFrom
    <2>2. ASSUME NEW k \in 1..n, k - 1 \in P PROVE k \in P
      <3>1. f[k - 1] \in A /\ f[k] = st[<<f[k - 1], k>>] BY <1>13 DEF StepsFrom
      <3>2. f[k] = pop(f[k - 1]) BY <1>9, <3>1
      <3>3. Inv(f[k - 1], k - 1) /\ k - 1 \in Nat /\ (k - 1) + 1 = k BY <2>2
      <3>4. Inv(pop(f[k - 1]), (k - 1) + 1) BY <1>7, <3>3
      <3> QED BY <3>2, <3>3, <3>4
    <2>3. \A k \in 1..n : k - 1 \in P => k \in P BY <2>2
    <2> HIDE DEF P
    <2> QED BY <1>3, <2>1, <2>3, UpTo
  <1>16. Inv(f[n], n)
    <2>1. n \in 0..n BY <1>3
    <2> HIDE DEF n
    <2> QED BY <1>15, <2>1
  <1> DEFINE last == f[n]
  <1> HIDE DEF last
  <1>17. Searching(last, n, g, R, start, target, d, exclude) BY <1>16 DEF Inv, last
  <1>18. last.found => target \in R[d] BY <1>17 DEF Searching
  <1>19. ~last.found => target \notin R[d] BY <1>4, <1>5, <1>17, NoneLeft
  <1> QED BY <1>1, <1>4, <1>14, <1>18, <1>19 DEF last

\* A tainted pair is called sanitized exactly when the sink is out of reach of
\* depth calls that leave no sanitizer but the source.
THEOREM TaintVerdictIsReach ==
    ASSUME NEW g, IsGraph(g), NEW source \in DOMAIN g.node, NEW sink, NEW depth \in Nat \ {0},
           NEW sanitizers
    PROVE  T!pathSanitized(g, source, sink, depth, sanitizers).sanitized
             <=> sink \notin T!Avoiding(g, source, depth, sanitizers)
  <1> DEFINE found == T!ReachableExcluding(g, source, sink, "outbound", T!TaintTypes, depth, sanitizers)
             verdict == T!pathSanitized(g, source, sink, depth, sanitizers)
  <1>1. found <=> sink \in T!Avoiding(g, source, depth, sanitizers) BY SearchIsReach
  <1>2. CASE found
    <2>1. verdict = [sanitized |-> FALSE, by |-> Absent] BY <1>2 DEF T!pathSanitized
    <2> HIDE DEF verdict, found
    <2>2. verdict.sanitized = FALSE BY <2>1
    <2> QED BY <1>1, <1>2, <2>2 DEF verdict
  <1>3. CASE ~found
    <2>1. \E b : verdict = [sanitized |-> TRUE, by |-> b] BY <1>3 DEF T!pathSanitized
    <2> HIDE DEF verdict, found
    <2>2. verdict.sanitized = TRUE BY <2>1
    <2> QED BY <1>1, <1>3, <2>2 DEF verdict
  <1> QED BY <1>2, <1>3

-----------------------------------------------------------------------------
(* Traces.                                                                  *)

\* A row of a search: a node, and how far it is.
RowsOf(N) == [node : N, hop : Nat]

\* Rows at some places: as many as there are places, and the rows there.
Taken(s, rows, places, A) ==
    /\ s \in Seq(A) /\ Len(s) = Cardinality(places)
    /\ ElementsOf(s) = {rows[i] : i \in places}

LEMMA RowsTaken ==
    ASSUME NEW A, NEW rows \in Seq(A), NEW places \in SUBSET (1..Len(rows))
    PROVE  Taken(T!AtPlaces(rows, places), rows, places, A)
  <1> DEFINE n == Len(rows)
             kept == T!InOrder(places, n)
             s == [i \in DOMAIN kept |-> rows[kept[i]]]
  <1>1. n \in Nat OBVIOUS
  <1>10. places \cap (1..n) = places
    <2> HIDE DEF n
    <2> QED BY DEF n
  <1>2. /\ kept \in Seq(places) /\ Len(kept) = Cardinality(places)
        /\ \A i \in places : \E k \in 1..Len(kept) : kept[k] = i
    <2> HIDE DEF n
    <2> DEFINE some == places \cap (1..n)
    <2>1. Lists(kept, some) BY <1>1, OrderLists
    <2>2. some = places BY <1>10
    <2> HIDE DEF some, kept
    <2> QED BY <2>1, <2>2 DEF Lists
  <1>3. T!AtPlaces(rows, places) = s BY DEF T!AtPlaces
  <1> HIDE DEF kept
  <1>4. \A k \in 1..Len(kept) : kept[k] \in places BY <1>2
  <1>5. \A i \in places : rows[i] \in A OBVIOUS
  <1>6. DOMAIN kept = 1..Len(kept) /\ Len(kept) \in Nat BY <1>2
  <1>7. s \in Seq(A) /\ Len(s) = Len(kept) /\ DOMAIN s = DOMAIN kept
    <2>1. \A k \in 1..Len(kept) : rows[kept[k]] \in A BY <1>4, <1>5
    <2> QED BY <1>6, <2>1
  <1>8. \A k \in 1..Len(kept) : s[k] = rows[kept[k]] BY <1>6
  <1> HIDE DEF s
  <1>9. ElementsOf(s) = {rows[i] : i \in places}
    <2>1. ElementsOf(s) = {rows[kept[k]] : k \in 1..Len(kept)} BY <1>6, <1>7, <1>8 DEF ElementsOf
    <2> QED BY <1>2, <1>4, <2>1
  <1> QED BY <1>2, <1>3, <1>7, <1>9 DEF Taken

\* A set of numbers up to d that has, with each, the one before is an interval.
LEMMA AllBelow ==
    ASSUME NEW d \in Nat, NEW H \in SUBSET (1..d), \A h \in H : h = 1 \/ h - 1 \in H
    PROVE  \E m \in Nat : H = 1..m
  <1>1. CASE H = {}
    <2>1. 1..0 = {} OBVIOUS
    <2> QED BY <1>1, <2>1
  <1>2. CASE H # {}
    <2> DEFINE m == T!Max(H)
    <2>1. m \in H /\ \A h \in H : h <= m BY <1>2, Greatest
    <2> HIDE DEF m
    <2>2. m \in 1..d /\ m \in Nat /\ m - 1 \in Nat BY <2>1
    <2> DEFINE P == {k \in 0..(m - 1) : m - k \in H}
    <2>3. 0 \in P BY <2>1, <2>2
    <2>4. ASSUME NEW k \in 1..(m - 1), k - 1 \in P PROVE k \in P
      <3>1. m - (k - 1) \in H /\ m - (k - 1) # 1 BY <2>2, <2>4
      <3>2. m - (k - 1) - 1 \in H BY <3>1
      <3>3. m - (k - 1) - 1 = m - k BY <2>2
      <3>4. m - k \in H BY <3>2, <3>3
      <3> QED BY <2>2, <3>4
    <2>5. \A k \in 0..(m - 1) : k \in P
      <3>1. \A k \in 1..(m - 1) : k - 1 \in P => k \in P BY <2>4
      <3> HIDE DEF P
      <3> QED BY <2>2, <2>3, <3>1, UpTo
    <2>6. ASSUME NEW h \in 1..m PROVE h \in H
      <3>1. m - h \in 0..(m - 1) /\ m - (m - h) = h BY <2>2
      <3>2. m - h \in P BY <2>5, <3>1
      <3> QED BY <3>1, <3>2
    <2>7. H \subseteq 1..m BY <2>1, <2>2
    <2>8. H = 1..m BY <2>6, <2>7
    <2> QED BY <2>2, <2>8
  <1> QED BY <1>1, <1>2

\* The rows of hops up to h.
Within(s, h) == {i \in 1..Len(s) : s[i].hop \in 1..h}

\* Listed by hop, rows whose hops have no gap are all there.
LEMMA ListedByHop ==
    ASSUME NEW A, NEW s \in Seq(A), NEW m \in Nat, {s[i].hop : i \in 1..Len(s)} = 1..m
    PROVE  /\ T!FlattenSeq(T!buildHops(s)) \in Seq(A)
           /\ Len(T!FlattenSeq(T!buildHops(s))) = Len(s)
           /\ ElementsOf(T!FlattenSeq(T!buildHops(s))) = ElementsOf(s)
  <1> DEFINE n == Len(s)
             at(h) == {i \in 1..n : s[i].hop = h}
             q == [h \in 1..m |-> T!AtPlaces(s, at(h))]
  <1>1. n \in Nat /\ DOMAIN s = 1..n /\ IsFiniteSet(1..n) /\ Cardinality(1..n) = n
    <2>1. n \in Nat /\ DOMAIN s = 1..n OBVIOUS
    <2> HIDE DEF n
    <2> QED BY <2>1, FS_Interval
  <1>2. T!buildHops(s) = q
    <2>1. {r.hop : r \in T!ToSet(s)} = 1..m BY <1>1 DEF T!ToSet
    <2>2. T!Cardinality(1..m) = m
      <3>1. T!Cardinality(1..m) = Cardinality(1..m) BY DEF T!Cardinality, Cardinality
      <3> QED BY <3>1, FS_Interval
    <2>3. T!buildHops(s) = [h \in 1..m |-> T!AtPlaces(s, {i \in DOMAIN s : s[i].hop = h})]
      BY <2>1, <2>2 DEF T!buildHops
    <2> QED BY <1>1, <2>3
  <1>3. \A h \in 1..m : Taken(q[h], s, at(h), A)
    <2> TAKE h \in 1..m
    <2>1. at(h) \in SUBSET (1..Len(s)) OBVIOUS
    <2>2. q[h] = T!AtPlaces(s, at(h)) OBVIOUS
    <2> HIDE DEF at, q
    <2> QED BY <2>1, <2>2, RowsTaken
  <1> HIDE DEF q
  <1>4. q \in [1..m -> Seq(A)] BY <1>3 DEF Taken, q
  <1>5. PICK f : Chained(f, q, m, A) /\ T!FlattenSeq(q) = f[m] BY <1>4, FlattenSteps
  <1> DEFINE P == {h \in 0..m : /\ Len(f[h]) = Cardinality(Within(s, h))
                                /\ ElementsOf(f[h]) = {s[i] : i \in Within(s, h)}}
  <1>6. 0 \in P
    <2>1. Within(s, 0) = {} BY DEF Within
    <2>2. f[0] = <<>> /\ Len(f[0]) = 0 BY <1>5 DEF Chained
    <2>3. ElementsOf(f[0]) = {} BY <2>2 DEF ElementsOf
    <2>4. Cardinality({}) = 0 BY FS_EmptySet
    <2>5. {s[i] : i \in {}} = {} OBVIOUS
    <2>6. Len(f[0]) = Cardinality(Within(s, 0)) BY <2>1, <2>2, <2>4
    <2>7. ElementsOf(f[0]) = {s[i] : i \in Within(s, 0)} BY <2>1, <2>3, <2>5
    <2>8. 0 \in 0..m OBVIOUS
    <2> QED BY <2>6, <2>7, <2>8
  <1>7. ASSUME NEW h \in 1..m, h - 1 \in P PROVE h \in P
    <2>1. h - 1 \in 0..m /\ h \in 0..m OBVIOUS
    <2>2. f[h] = f[h - 1] \o q[h] /\ f[h - 1] \in Seq(A) /\ q[h] \in Seq(A)
      BY <1>4, <1>5, <2>1 DEF Chained
    <2>3. Within(s, h) = Within(s, h - 1) \cup at(h) BY DEF Within
    <2>4. Within(s, h - 1) \cap at(h) = {} BY DEF Within
    <2>5. IsFiniteSet(Within(s, h - 1)) /\ IsFiniteSet(at(h))
      <3>1. Within(s, h - 1) \subseteq 1..n /\ at(h) \subseteq 1..n BY DEF Within
      <3> HIDE DEF n, at
      <3> QED BY <1>1, <3>1, FS_Subset
    <2>6. Cardinality(Within(s, h)) = Cardinality(Within(s, h - 1)) + Cardinality(at(h))
      <3> DEFINE before == Within(s, h - 1)
                 here == at(h)
      <3> HIDE DEF before, here
      <3>1. IsFiniteSet(before) /\ IsFiniteSet(here) /\ before \cap here = {}
        BY <2>4, <2>5 DEF before, here
      <3>2. Cardinality(before \cup here) = Cardinality(before) + Cardinality(here) - Cardinality(before \cap here)
        BY <3>1, FS_Union
      <3>3. /\ Cardinality(before) \in Nat /\ Cardinality(here) \in Nat
            /\ Cardinality(before \cap here) = 0
        BY <3>1, FS_CardinalityType, FS_EmptySet
      <3>4. Cardinality(before \cup here) = Cardinality(before) + Cardinality(here) BY <3>1, <3>2, <3>3
      <3> QED BY <2>3, <3>4 DEF before, here
    <2>7. Len(f[h]) = Len(f[h - 1]) + Len(q[h]) BY <2>2
    <2>8. Len(q[h]) = Cardinality(at(h)) /\ ElementsOf(q[h]) = {s[i] : i \in at(h)} BY <1>3 DEF Taken
    <2>9. ElementsOf(f[h]) = ElementsOf(f[h - 1]) \cup ElementsOf(q[h]) BY <2>2, ElementsOfBoth
    <2>10. /\ Len(f[h - 1]) = Cardinality(Within(s, h - 1))
           /\ ElementsOf(f[h - 1]) = {s[i] : i \in Within(s, h - 1)}
      BY <1>7
    <2>11. Len(f[h]) = Cardinality(Within(s, h)) BY <2>6, <2>7, <2>8, <2>10
    <2>12. ElementsOf(f[h]) = {s[i] : i \in Within(s, h)} BY <2>3, <2>8, <2>9, <2>10
    <2> QED BY <2>11, <2>12
  <1>8. m \in P
    <2>1. \A h \in 1..m : h - 1 \in P => h \in P BY <1>7
    <2>2. m \in 0..m OBVIOUS
    <2> HIDE DEF P
    <2> QED BY <1>6, <2>1, <2>2, UpTo
  <1>9. Within(s, m) = 1..n BY DEF Within
  <1>10. f[m] \in Seq(A) BY <1>5 DEF Chained
  <1>11. Len(f[m]) = n BY <1>1, <1>8, <1>9
  <1>12. ElementsOf(f[m]) = ElementsOf(s) BY <1>1, <1>8, <1>9 DEF ElementsOf
  <1> QED BY <1>2, <1>5, <1>10, <1>11, <1>12

\* Each node of the rows once, at its nearest.
Deduplicated(s, rows, N) ==
    /\ s \in Seq(RowsOf(N)) /\ ElementsOf(s) \subseteq ElementsOf(rows)
    /\ Len(s) = Cardinality({r.node : r \in ElementsOf(rows)})
    /\ \A d \in ElementsOf(s), r \in ElementsOf(rows) : r.node = d.node => d.hop <= r.hop
    /\ \A r \in ElementsOf(rows) : \E d \in ElementsOf(s) : d.node = r.node

LEMMA EachOnce ==
    ASSUME NEW N, NEW rows \in Seq(RowsOf(N))
    PROVE  Deduplicated(T!DeduplicateHops(rows), rows, N)
  <1> DEFINE n == Len(rows)
             best(i) == \A j \in DOMAIN rows : rows[j].node = rows[i].node =>
                          rows[i].hop < rows[j].hop \/ (rows[i].hop = rows[j].hop /\ i <= j)
             B == {i \in 1..n : best(i)}
             s == T!AtPlaces(rows, B)
             nodes == {r.node : r \in ElementsOf(rows)}
             node == [i \in B |-> rows[i].node]
  <1>1. n \in Nat /\ DOMAIN rows = 1..n OBVIOUS
  <1>2. T!DeduplicateHops(rows) = s BY <1>1 DEF T!DeduplicateHops
  <1>3. Taken(s, rows, B, RowsOf(N))
    <2>1. B \in SUBSET (1..Len(rows)) OBVIOUS
    <2> HIDE DEF B
    <2> QED BY <2>1, RowsTaken
  <1>4. \A i \in 1..n : rows[i].hop \in Nat /\ rows[i].node \in N
    <2>1. \A i \in 1..n : rows[i] \in RowsOf(N) OBVIOUS
    <2> QED BY <2>1 DEF RowsOf
  <1>5. ASSUME NEW i \in 1..n PROVE \E j \in B : rows[j].node = rows[i].node
    <2> DEFINE same == {j \in 1..n : rows[j].node = rows[i].node}
               hops == {rows[j].hop : j \in same}
    <2>1. hops \in SUBSET Nat /\ hops # {} BY <1>4, <1>5
    <2>2. PICK h \in hops : \A k \in hops : h <= k
      <3> HIDE DEF hops
      <3> QED BY <2>1, LeastNat
    <2> DEFINE close == {j \in same : rows[j].hop = h}
    <2>3. close \in SUBSET Nat /\ close # {} BY <1>1, <2>2
    <2>4. PICK j \in close : \A k \in close : j <= k
      <3> HIDE DEF close
      <3> QED BY <2>3, LeastNat
    <2>5. j \in 1..n /\ rows[j].node = rows[i].node /\ rows[j].hop = h BY <2>4
    <2>6. ASSUME NEW k \in DOMAIN rows, rows[k].node = rows[j].node
          PROVE  rows[j].hop < rows[k].hop \/ (rows[j].hop = rows[k].hop /\ j <= k)
      <3>1. k \in same BY <1>1, <2>5, <2>6
      <3>2. h <= rows[k].hop /\ rows[k].hop \in Nat /\ h \in Nat BY <1>4, <2>1, <2>2, <3>1
      <3>3. rows[k].hop = h => j <= k BY <2>4, <3>1
      <3> QED BY <2>5, <3>2, <3>3
    <2>7. best(j) BY <2>6
    <2> QED BY <2>5, <2>7
  <1>6. ASSUME NEW i \in B, NEW j \in B, rows[i].node = rows[j].node PROVE i = j
    <2>1. i \in 1..n /\ j \in 1..n /\ i \in Nat /\ j \in Nat BY <1>1
    <2>2. rows[i].hop < rows[j].hop \/ (rows[i].hop = rows[j].hop /\ i <= j) BY <1>1, <1>6
    <2>3. rows[j].hop < rows[i].hop \/ (rows[j].hop = rows[i].hop /\ j <= i) BY <1>1, <1>6
    <2>4. rows[i].hop \in Nat /\ rows[j].hop \in Nat BY <1>4, <2>1
    <2> HIDE DEF B
    <2> QED BY <2>1, <2>2, <2>3, <2>4
  <1>7. B \subseteq 1..n /\ IsFiniteSet(B)
    <2>1. B \subseteq 1..n /\ IsFiniteSet(1..n) BY <1>1, FS_Interval
    <2> HIDE DEF B
    <2> QED BY <2>1, FS_Subset
  <1>8. nodes = {rows[i].node : i \in 1..n} BY <1>1 DEF ElementsOf
  <1>9. \A i \in B, d \in ElementsOf(rows) : d.node = rows[i].node => rows[i].hop <= d.hop
    <2> TAKE i \in B, d \in ElementsOf(rows)
    <2>1. PICK j \in 1..n : d = rows[j] BY <1>1 DEF ElementsOf
    <2>2. rows[i].hop \in Nat /\ rows[j].hop \in Nat BY <1>4, <1>7
    <2>3. d.node = rows[i].node => rows[i].hop < rows[j].hop \/ rows[i].hop = rows[j].hop BY <1>1, <2>1
    <2> QED BY <2>1, <2>2, <2>3
  <1> HIDE DEF B, s
  <1>10. Cardinality(B) = Cardinality(nodes)
    <2> HIDE DEF nodes
    <2>1. node \in [B -> nodes] BY <1>7, <1>8
    <2>2. \A x \in nodes : \E i \in B : node[i] = x
      <3> TAKE x \in nodes
      <3>1. PICK i \in 1..n : x = rows[i].node BY <1>8
      <3> QED BY <1>5, <3>1
    <2>3. \A i, j \in B : node[i] = node[j] => i = j BY <1>6
    <2> HIDE DEF node
    <2>4. node \in Surjection(B, nodes) BY <2>1, <2>2 DEF Surjection
    <2>5. node \in Injection(B, nodes) BY <2>1, <2>3 DEF Injection, IsInjective
    <2> QED BY <1>7, <2>4, <2>5, FS_Surjection
  <1>11. ElementsOf(s) \subseteq ElementsOf(rows) BY <1>1, <1>3, <1>7 DEF Taken, ElementsOf
  <1>12. \A d \in ElementsOf(s), r \in ElementsOf(rows) : r.node = d.node => d.hop <= r.hop
    BY <1>3, <1>9 DEF Taken
  <1>13. ASSUME NEW r \in ElementsOf(rows) PROVE \E d \in ElementsOf(s) : d.node = r.node
    <2>1. PICK i \in 1..n : r = rows[i] BY <1>1 DEF ElementsOf
    <2>2. PICK j \in B : rows[j].node = rows[i].node BY <1>5
    <2>3. rows[j] \in ElementsOf(s) BY <1>3 DEF Taken
    <2> QED BY <2>1, <2>2, <2>3
  <1>14. s \in Seq(RowsOf(N)) /\ Len(s) = Cardinality(nodes) BY <1>3, <1>10 DEF Taken
  <1> QED BY <1>2, <1>11, <1>12, <1>13, <1>14 DEF Deduplicated

\* The sets at each distance from the start.
Layers(at, g, start, dir, es, d) ==
    /\ at[0] = {start}
    /\ \A h \in 1..d : at[h] = {T!Target(g, e, dir) : e \in {e \in es : T!Source(g, e, dir) \in at[h - 1]}}
    /\ \A h \in 0..d : at[h] \in SUBSET (DOMAIN g.node)

LEMMA LevelsAreLayers ==
    ASSUME NEW g, IsGraph(g), NEW start \in DOMAIN g.node, NEW dir, NEW types, NEW d \in Nat, NEW min
    PROVE  Layers(T!Levels(g, start, dir, types, d, min), g, start, dir, T!Selected(g, types, min), d)
  <1> DEFINE N == DOMAIN g.node
             es == T!Selected(g, types, min)
             next(U) == {T!Target(g, e, dir) : e \in {e \in es : T!Source(g, e, dir) \in U}}
             Is(f) == f = [h \in 0..d |-> IF h = 0 THEN {start} ELSE next(f[h - 1])]
             R == CHOOSE f : Is(f)
             st == [w \in (SUBSET N) \X (1..d) |-> next(w[1])]
  <1>1. T!Levels(g, start, dir, types, d, min) = R BY DEF T!Levels
  <1>2. \A U : next(U) \in SUBSET N
    <2>1. es \subseteq DOMAIN g.edge BY DEF T!Selected
    <2>2. \A e \in DOMAIN g.edge : T!Target(g, e, dir) \in N BY DEF T!Target, IsGraph
    <2> HIDE DEF es
    <2> QED BY <2>1, <2>2
  <1> HIDE DEF next
  <1>3. \A U \in SUBSET N : \A h \in 1..d : st[<<U, h>>] = next(U) OBVIOUS
  <1> HIDE DEF st
  <1>4. \E f : Is(f)
    <2>1. StaysIn(SUBSET N, d, st)
      <3> HIDE DEF N
      <3> QED BY <1>2, <1>3 DEF StaysIn
    <2>2. {start} \in SUBSET N OBVIOUS
    <2> HIDE DEF N
    <2>3. PICK f : StepsFrom(f, SUBSET N, {start}, d, st) BY <2>1, <2>2, StepByStep
    <2> DEFINE own == [h \in 0..d |-> f[h]]
    <2>4. ASSUME NEW h \in 0..d PROVE own[h] = IF h = 0 THEN {start} ELSE next(own[h - 1])
      <3>1. CASE h = 0 BY <2>3, <3>1 DEF StepsFrom
      <3>2. CASE h # 0
        <4>1. h \in 1..d /\ h - 1 \in 0..d BY <3>2
        <4>2. f[h] = st[<<f[h - 1], h>>] /\ f[h - 1] \in SUBSET N BY <2>3, <4>1 DEF StepsFrom
        <4>3. f[h] = next(f[h - 1]) BY <1>3, <4>1, <4>2
        <4>4. own[h] = f[h] /\ own[h - 1] = f[h - 1] BY <4>1
        <4> HIDE DEF own
        <4> QED BY <3>2, <4>3, <4>4
      <3> QED BY <3>1, <3>2
    <2>5. Is(own)
      <3>1. own = [h \in 0..d |-> own[h]] OBVIOUS
      <3> HIDE DEF own
      <3> QED BY <2>4, <3>1
    <2> HIDE DEF Is
    <2> QED BY <2>5
  <1>5. Is(R)
    <2> HIDE DEF Is
    <2> QED BY <1>4
  <1> HIDE DEF R
  <1>6. R[0] = {start} BY <1>5
  <1>7. ASSUME NEW h \in 1..d PROVE R[h] = next(R[h - 1])
    <2>1. h \in 0..d /\ h # 0 OBVIOUS
    <2> QED BY <1>5, <2>1
  <1>8. ASSUME NEW h \in 0..d PROVE R[h] \in SUBSET N
    <2>1. CASE h = 0 BY <1>6, <2>1
    <2>2. CASE h # 0
      <3>1. h \in 1..d BY <2>2
      <3> HIDE DEF N
      <3> QED BY <1>2, <1>7, <3>1
    <2> QED BY <2>1, <2>2
  <1> QED BY <1>1, <1>6, <1>7, <1>8 DEF Layers, next

\* Rows that tell, before one of a distance, of every node at a lesser one.
RowAt(x, h) == [node |-> x, hop |-> h]
Told(s, upto, x, h) == \E j \in 1..upto : s[j] = RowAt(x, h)
Nearer(s, at, d) ==
    \A i \in 1..Len(s) :
        /\ s[i].hop \in 1..d /\ s[i].node \in at[s[i].hop]
        /\ \A k \in 1..(s[i].hop - 1) : \A x \in at[k] : Told(s, i - 1, x, k)
Walked(rows, at, N, d) == rows \in Seq(RowsOf(N)) /\ Nearer(rows, at, d)
TellsAll(s, at, d) == \A h \in 1..d : \A x \in at[h] : Told(s, Len(s), x, h)

\* A level more.
LEMMA LevelMore ==
    ASSUME NEW N, NEW at, NEW h \in Nat \ {0}, at[h] \in SUBSET N,
           NEW s \in Seq(RowsOf(N)), Nearer(s, at, h - 1),
           \A k \in 1..(h - 1) : \A x \in at[k] : Told(s, Len(s), x, k),
           NEW t \in Seq(RowsOf(N)), ElementsOf(t) = {RowAt(x, h) : x \in at[h]}
    PROVE  /\ s \o t \in Seq(RowsOf(N)) /\ Nearer(s \o t, at, h)
           /\ \A k \in 1..h : \A x \in at[k] : Told(s \o t, Len(s \o t), x, k)
  <1> DEFINE u == s \o t
             n == Len(s)
  <1>1. /\ u \in Seq(RowsOf(N)) /\ n \in Nat /\ Len(t) \in Nat /\ Len(u) = n + Len(t)
        /\ \A i \in 1..n : u[i] = s[i]
        /\ \A i \in 1..Len(t) : u[n + i] = t[i]
    OBVIOUS
  <1> HIDE DEF u
  <1>2. \A j \in 1..n : j \in 1..Len(u) /\ u[j] = s[j] BY <1>1
  <1>3. \A k \in 1..(h - 1) : \A x \in at[k] : \E j \in 1..n : u[j] = RowAt(x, k)
    BY <1>2 DEF Told
  <1>4. ASSUME NEW i \in 1..Len(t) PROVE \E x \in at[h] : u[n + i] = RowAt(x, h)
    <2>1. t[i] \in ElementsOf(t) BY DEF ElementsOf
    <2> QED BY <1>1, <2>1
  <1>5. \A x \in at[h] : \E i \in 1..Len(t) : u[n + i] = RowAt(x, h)
    <2> TAKE x \in at[h]
    <2>1. RowAt(x, h) \in ElementsOf(t) OBVIOUS
    <2>2. PICK i \in 1..Len(t) : t[i] = RowAt(x, h) BY <2>1 DEF ElementsOf
    <2> QED BY <1>1, <2>2
  <1>6. ASSUME NEW k \in 1..h, NEW x \in at[k] PROVE Told(u, Len(u), x, k)
    <2>1. CASE k = h
      <3>1. PICK i \in 1..Len(t) : u[n + i] = RowAt(x, h) BY <1>5, <2>1
      <3>2. n + i \in 1..Len(u) BY <1>1
      <3> QED BY <2>1, <3>1, <3>2 DEF Told
    <2>2. CASE k # h
      <3>1. k \in 1..(h - 1) BY <2>2
      <3> QED BY <1>2, <1>3, <3>1 DEF Told
    <2> QED BY <2>1, <2>2
  <1>7. ASSUME NEW i \in 1..Len(u)
        PROVE  /\ u[i].hop \in 1..h /\ u[i].node \in at[u[i].hop]
               /\ \A k \in 1..(u[i].hop - 1) : \A x \in at[k] : Told(u, i - 1, x, k)
    <2>1. CASE i <= n
      <3>1. i \in 1..n /\ u[i] = s[i] BY <1>1, <2>1
      <3>2. /\ u[i].hop \in 1..(h - 1) /\ u[i].node \in at[u[i].hop]
            /\ \A k \in 1..(u[i].hop - 1) : \A x \in at[k] : Told(s, i - 1, x, k)
        BY <3>1 DEF Nearer
      <3>3. \A j \in 1..(i - 1) : u[j] = s[j] BY <1>2, <3>1
      <3>4. \A k, x : Told(s, i - 1, x, k) => Told(u, i - 1, x, k) BY <3>3 DEF Told
      <3> QED BY <3>2, <3>4
    <2>2. CASE ~(i <= n)
      <3>1. i - n \in 1..Len(t) /\ n + (i - n) = i BY <1>1, <2>2
      <3>2. PICK y \in at[h] : u[i] = RowAt(y, h) BY <1>4, <3>1
      <3>3. u[i].hop = h /\ u[i].node = y BY <3>2 DEF RowAt
      <3>4. \A j \in 1..n : j \in 1..(i - 1) BY <1>1, <2>2
      <3>5. \A k \in 1..(h - 1) : \A x \in at[k] : Told(u, i - 1, x, k) BY <1>3, <3>4 DEF Told
      <3> QED BY <3>3, <3>5
    <2> QED BY <2>1, <2>2
  <1>8. Nearer(u, at, h) BY <1>7 DEF Nearer
  <1> QED BY <1>1, <1>6, <1>8 DEF u

\* A search tells of nearer nodes first, also when it is cut off, and of all
\* when it is not.
LEMMA SearchWalks ==
    ASSUME NEW g, IsGraph(g), NEW start \in DOMAIN g.node, NEW dir, NEW types,
           NEW d \in Nat \ {0}, NEW cap \in Nat \ {0}, NEW min
    PROVE  LET found == T!bfsVisited(g, start, dir, types, d, cap, min)
               at == T!Levels(g, start, dir, types, d, min)
           IN  /\ Walked(found.visited, at, DOMAIN g.node, d)
               /\ ~found.truncated => TellsAll(found.visited, at, d)
  <1> DEFINE N == DOMAIN g.node
             n == Len(g.node)
             at == T!Levels(g, start, dir, types, d, min)
             list(h) == T!InOrder(at[h], n)
             level(ns, h) == [i \in DOMAIN ns |-> [node |-> ns[i], hop |-> h]]
             q == [h \in 1..d |-> level(list(h), h)]
             all == T!FlattenSeq(q)
  <1>0. d \in Nat /\ d # 0 /\ cap \in Nat /\ cap > 0 OBVIOUS
  <1>1. /\ T!bfsVisited(g, start, dir, types, d, cap, min).visited = T!First(all, cap)
        /\ T!bfsVisited(g, start, dir, types, d, cap, min).truncated = (Len(all) > cap)
    <2>1. T!Default(d, 3) = d /\ T!Default(cap, 200) = cap BY <1>0 DEF T!Default
    <2> QED BY <2>1 DEF T!bfsVisited
  <1>2. n \in Nat /\ N = 1..n BY DEF IsGraph, IsASequence
  <1>3. \A h \in 0..d : at[h] \in SUBSET N
    <2>1. Layers(at, g, start, dir, T!Selected(g, types, min), d) BY <1>0, LevelsAreLayers
    <2> QED BY <2>1 DEF Layers
  <1> HIDE DEF N, n, at
  <1>4. ASSUME NEW h \in 1..d PROVE q[h] \in Seq(RowsOf(N)) /\ ElementsOf(q[h]) = {RowAt(x, h) : x \in at[h]}
    <2> DEFINE ns == list(h)
               s == level(ns, h)
    <2>1. q[h] = s OBVIOUS
    <2>2. h \in 0..d /\ h \in Nat BY <1>0
    <2>3. Lists(ns, at[h])
      <3>1. at[h] \cap (1..n) = at[h] BY <1>2, <1>3, <2>2
      <3>2. Lists(ns, at[h] \cap (1..n)) BY <1>2, OrderLists
      <3> QED BY <3>1, <3>2
    <2> HIDE DEF ns
    <2>4. DOMAIN ns = 1..Len(ns) /\ Len(ns) \in Nat /\ \A i \in 1..Len(ns) : ns[i] \in at[h]
      BY <2>3 DEF Lists
    <2>5. \A i \in 1..Len(ns) : s[i] = RowAt(ns[i], h) BY <2>4 DEF RowAt
    <2>6. s \in Seq(RowsOf(N)) /\ DOMAIN s = 1..Len(ns)
      <3>1. \A i \in 1..Len(ns) : [node |-> ns[i], hop |-> h] \in RowsOf(N)
        BY <1>3, <2>2, <2>4 DEF RowsOf
      <3> QED BY <2>4, <3>1
    <2> HIDE DEF s
    <2>7. ElementsOf(s) = {RowAt(ns[i], h) : i \in 1..Len(ns)} BY <2>5, <2>6 DEF ElementsOf
    <2>8. \A x \in at[h] : \E i \in 1..Len(ns) : ns[i] = x BY <2>3 DEF Lists
    <2>9. ElementsOf(s) = {RowAt(x, h) : x \in at[h]} BY <2>4, <2>7, <2>8
    <2> QED BY <2>1, <2>6, <2>9
  <1>5. q \in [1..d -> Seq(RowsOf(N))] BY <1>4
  <1> HIDE DEF q
  <1>6. PICK f : Chained(f, q, d, RowsOf(N)) /\ all = f[d] BY <1>0, <1>5, FlattenSteps
  <1> HIDE DEF all
  <1> DEFINE Good(h) == /\ f[h] \in Seq(RowsOf(N)) /\ Nearer(f[h], at, h)
                        /\ \A k \in 1..h : \A x \in at[k] : Told(f[h], Len(f[h]), x, k)
             P == {h \in 0..d : Good(h)}
  <1>7. 0 \in P
    <2>1. f[0] = <<>> BY <1>6 DEF Chained
    <2>2. <<>> \in Seq(RowsOf(N)) /\ Len(<<>>) = 0 OBVIOUS
    <2>3. Nearer(f[0], at, 0) BY <2>1, <2>2 DEF Nearer
    <2>4. Good(0) BY <2>1, <2>2, <2>3
    <2> HIDE DEF Good
    <2> QED BY <1>0, <2>4
  <1>8. ASSUME NEW h \in 1..d, h - 1 \in P PROVE h \in P
    <2>1. h \in 0..d /\ h \in Nat \ {0} BY <1>0
    <2>2. Good(h - 1) BY <1>8
    <2> DEFINE s == f[h - 1]
               t == q[h]
    <2>3. f[h] = s \o t BY <1>6 DEF Chained
    <2>4. s \in Seq(RowsOf(N)) /\ Nearer(s, at, h - 1) BY <2>2
    <2>5. \A k \in 1..(h - 1) : \A x \in at[k] : Told(s, Len(s), x, k) BY <2>2
    <2>6. t \in Seq(RowsOf(N)) /\ ElementsOf(t) = {RowAt(x, h) : x \in at[h]} BY <1>4
    <2>7. at[h] \in SUBSET N BY <1>3, <2>1
    <2>8. /\ s \o t \in Seq(RowsOf(N)) /\ Nearer(s \o t, at, h)
          /\ \A k \in 1..h : \A x \in at[k] : Told(s \o t, Len(s \o t), x, k)
      <3> HIDE DEF s, t, Good, P
      <3> QED BY <2>1, <2>4, <2>5, <2>6, <2>7, LevelMore
    <2>9. Good(h) BY <2>3, <2>8
    <2> HIDE DEF Good
    <2> QED BY <2>1, <2>9
  <1>9. Good(d)
    <2>1. \A h \in 1..d : h - 1 \in P => h \in P BY <1>8
    <2>2. d \in 0..d BY <1>0
    <2>3. d \in P
      <3> HIDE DEF P
      <3> QED BY <1>0, <1>7, <2>1, <2>2, UpTo
    <2> HIDE DEF Good
    <2> QED BY <2>3
  <1>10. Walked(T!First(all, cap), at, N, d)
    <2> DEFINE m == IF cap < Len(all) THEN cap ELSE Len(all)
               r == SubSeq(all, 1, m)
    <2>1. T!First(all, cap) = r BY DEF T!First
    <2>2. all \in Seq(RowsOf(N)) /\ Nearer(all, at, d) BY <1>6, <1>9
    <2>3. m \in 0..Len(all) /\ Len(all) \in Nat BY <1>0, <2>2
    <2> HIDE DEF m
    <2>4. r \in Seq(RowsOf(N)) /\ Len(r) = m /\ \A i \in 1..m : r[i] = all[i]
      <3>1. \A i \in 1..m : all[i] \in RowsOf(N) BY <2>2, <2>3
      <3> QED BY <2>2, <2>3, <3>1
    <2> HIDE DEF r
    <2>5. ASSUME NEW i \in 1..Len(r)
          PROVE  /\ r[i].hop \in 1..d /\ r[i].node \in at[r[i].hop]
                 /\ \A k \in 1..(r[i].hop - 1) : \A x \in at[k] : Told(r, i - 1, x, k)
      <3>1. i \in 1..Len(all) /\ r[i] = all[i] BY <2>3, <2>4
      <3>2. \A j \in 1..(i - 1) : r[j] = all[j] BY <2>3, <2>4
      <3>3. \A k, x : Told(all, i - 1, x, k) => Told(r, i - 1, x, k) BY <3>2 DEF Told
      <3> QED BY <2>2, <3>1, <3>3 DEF Nearer
    <2>6. Nearer(r, at, d) BY <2>5 DEF Nearer
    <2> QED BY <2>1, <2>4, <2>6 DEF Walked
  <1>11. ~(Len(all) > cap) => TellsAll(T!First(all, cap), at, d)
    <2> HAVE ~(Len(all) > cap)
    <2>1. all \in Seq(RowsOf(N)) /\ \A k \in 1..d : \A x \in at[k] : Told(all, Len(all), x, k)
      BY <1>6, <1>9
    <2>2. T!First(all, cap) = all
      <3>1. Len(all) \in Nat /\ (IF cap < Len(all) THEN cap ELSE Len(all)) = Len(all) BY <1>0, <2>1
      <3>2. SubSeq(all, 1, Len(all)) = all BY <2>1
      <3> QED BY <3>1, <3>2 DEF T!First
    <2> QED BY <2>1, <2>2 DEF TellsAll
  <1> QED BY <1>1, <1>10, <1>11 DEF N, at

\* No hop is left out.
NoGap(s, d) ==
    \A i \in 1..Len(s) :
        s[i].hop \in 1..d /\ (s[i].hop = 1 \/ \E j \in 1..Len(s) : s[j].hop = s[i].hop - 1)

LEMMA WalksHaveNoGap ==
    ASSUME NEW g, NEW start, NEW dir, NEW es, NEW d \in Nat, NEW at, Layers(at, g, start, dir, es, d),
           NEW N, NEW rows, Walked(rows, at, N, d)
    PROVE  NoGap(rows, d)
  <1> SUFFICES ASSUME NEW i \in 1..Len(rows)
               PROVE  /\ rows[i].hop \in 1..d
                      /\ rows[i].hop = 1 \/ \E j \in 1..Len(rows) : rows[j].hop = rows[i].hop - 1
    BY DEF NoGap
  <1> DEFINE h == rows[i].hop
  <1>1. h \in 1..d /\ rows[i].node \in at[h] BY DEF Walked, Nearer
  <1>2. CASE h # 1
    <2>1. h - 1 \in 1..(h - 1) BY <1>1, <1>2
    <2>2. PICK e \in es : T!Source(g, e, dir) \in at[h - 1] BY <1>1 DEF Layers
    <2>3. Told(rows, i - 1, T!Source(g, e, dir), h - 1) BY <2>1, <2>2 DEF Walked, Nearer
    <2>4. PICK j \in 1..(i - 1) : rows[j] = RowAt(T!Source(g, e, dir), h - 1) BY <2>3 DEF Told
    <2>5. rows[j].hop = h - 1 BY <2>4 DEF RowAt
    <2>6. j \in 1..Len(rows) BY DEF Walked
    <2> QED BY <1>1, <2>5, <2>6
  <1> QED BY <1>1, <1>2

\* Nor when each node is told at its nearest only: the caller of a node that is
\* nearest at h is itself nearest at h - 1.
LEMMA NearestHaveNoGap ==
    ASSUME NEW g, NEW start, NEW dir, NEW es, NEW d \in Nat, NEW at, Layers(at, g, start, dir, es, d),
           NEW N, NEW rows, Walked(rows, at, N, d), NEW s, Deduplicated(s, rows, N)
    PROVE  NoGap(s, d)
  <1>1. ASSUME NEW r \in ElementsOf(rows)
        PROVE  /\ r.hop \in 1..d /\ r.node \in at[r.hop]
               /\ \A k \in 1..(r.hop - 1) : \A x \in at[k] : RowAt(x, k) \in ElementsOf(rows)
    <2>1. rows \in Seq(RowsOf(N)) BY DEF Walked
    <2>2. PICK i \in 1..Len(rows) : r = rows[i] BY <2>1 DEF ElementsOf
    <2>3. /\ r.hop \in 1..d /\ r.node \in at[r.hop]
          /\ \A k \in 1..(r.hop - 1) : \A x \in at[k] : Told(rows, i - 1, x, k)
      BY <2>2 DEF Walked, Nearer
    <2>4. \A k, x : Told(rows, i - 1, x, k) => RowAt(x, k) \in ElementsOf(rows)
      <3> TAKE k, x
      <3> HAVE Told(rows, i - 1, x, k)
      <3>1. PICK j \in 1..(i - 1) : rows[j] = RowAt(x, k) BY DEF Told
      <3>2. j \in DOMAIN rows BY <2>1
      <3> QED BY <3>1, <3>2 DEF ElementsOf
    <2> QED BY <2>3, <2>4
  <1> SUFFICES ASSUME NEW i \in 1..Len(s)
               PROVE  /\ s[i].hop \in 1..d
                      /\ s[i].hop = 1 \/ \E j \in 1..Len(s) : s[j].hop = s[i].hop - 1
    BY DEF NoGap
  <1>2. s \in Seq(RowsOf(N)) /\ ElementsOf(s) \subseteq ElementsOf(rows) BY DEF Deduplicated
  <1>3. s[i] \in ElementsOf(s) /\ s[i] \in ElementsOf(rows)
    <2>1. i \in DOMAIN s BY <1>2
    <2>2. s[i] \in ElementsOf(s) BY <2>1 DEF ElementsOf
    <2> QED BY <1>2, <2>2
  <1> DEFINE y == s[i].node
             h == s[i].hop
  <1>4. h \in 1..d /\ y \in at[h] BY <1>1, <1>3
  <1>5. CASE h # 1
    <2>1. h - 1 \in 1..(h - 1) BY <1>4, <1>5
    <2>2. PICK e \in es : T!Source(g, e, dir) \in at[h - 1] /\ T!Target(g, e, dir) = y
      BY <1>4 DEF Layers
    <2> DEFINE x == T!Source(g, e, dir)
    <2>3. RowAt(x, h - 1) \in ElementsOf(rows) BY <1>1, <1>3, <2>1, <2>2
    <2>4. RowAt(x, h - 1).node = x /\ RowAt(x, h - 1).hop = h - 1 BY DEF RowAt
    <2>5. PICK c \in ElementsOf(s) : c.node = x BY <2>3, <2>4 DEF Deduplicated
    <2>6. c.hop <= h - 1 BY <2>3, <2>4, <2>5 DEF Deduplicated
    <2>7. c \in ElementsOf(rows) BY <1>2, <2>5
    <2>8. c.hop \in 1..d /\ x \in at[c.hop] BY <1>1, <2>5, <2>7
    <2>9. c.hop = h - 1
      <3> SUFFICES ASSUME c.hop # h - 1 PROVE FALSE OBVIOUS
      <3>1. c.hop + 1 \in 1..(h - 1) /\ c.hop + 1 \in 1..d /\ (c.hop + 1) - 1 = c.hop
        BY <1>4, <2>6, <2>8
      <3>2. x \in at[(c.hop + 1) - 1] BY <2>8, <3>1
      <3>3. y \in at[c.hop + 1] BY <2>2, <3>1, <3>2 DEF Layers
      <3>4. RowAt(y, c.hop + 1) \in ElementsOf(rows) BY <1>1, <1>3, <3>1, <3>3
      <3>5. RowAt(y, c.hop + 1).node = y /\ RowAt(y, c.hop + 1).hop = c.hop + 1 BY DEF RowAt
      <3>6. h <= c.hop + 1 BY <1>3, <3>4, <3>5 DEF Deduplicated
      <3> QED BY <1>4, <2>8, <3>1, <3>6
    <2>10. PICK j \in 1..Len(s) : s[j] = c BY <1>2, <2>5 DEF ElementsOf
    <2> QED BY <1>4, <2>9, <2>10
  <1> QED BY <1>4, <1>5

\* Rows without a gap are all listed by hop.
LEMMA AllListed ==
    ASSUME NEW A, NEW s \in Seq(A), NEW d \in Nat, NoGap(s, d)
    PROVE  /\ T!FlattenSeq(T!buildHops(s)) \in Seq(A)
           /\ Len(T!FlattenSeq(T!buildHops(s))) = Len(s)
           /\ ElementsOf(T!FlattenSeq(T!buildHops(s))) = ElementsOf(s)
  <1> DEFINE H == {s[i].hop : i \in 1..Len(s)}
  <1>1. H \in SUBSET (1..d) BY DEF NoGap
  <1>2. \A h \in H : h = 1 \/ h - 1 \in H BY DEF NoGap
  <1>3. PICK m \in Nat : H = 1..m
    <2> HIDE DEF H
    <2> QED BY <1>1, <1>2, AllBelow
  <1> QED BY <1>3, ListedByHop

LEMMA BothHaveNoGap ==
    ASSUME NEW A, NEW s \in Seq(A), NEW t \in Seq(A), NEW d, NoGap(s, d), NoGap(t, d)
    PROVE  NoGap(s \o t, d)
  <1> DEFINE u == s \o t
             n == Len(s)
  <1>1. /\ n \in Nat /\ Len(t) \in Nat /\ Len(u) = n + Len(t)
        /\ \A i \in 1..n : u[i] = s[i]
        /\ \A i \in 1..Len(t) : u[n + i] = t[i]
    OBVIOUS
  <1> HIDE DEF u
  <1>2. \A i \in 1..n : i \in 1..Len(u) BY <1>1
  <1>3. \A i \in 1..Len(t) : n + i \in 1..Len(u) BY <1>1
  <1>4. ASSUME NEW i \in 1..Len(u)
        PROVE  u[i].hop \in 1..d /\ (u[i].hop = 1 \/ \E j \in 1..Len(u) : u[j].hop = u[i].hop - 1)
    <2>1. CASE i <= n
      <3>1. i \in 1..n BY <1>1, <2>1
      <3>2. u[i] = s[i] BY <1>1, <3>1
      <3>3. s[i].hop = 1 \/ \E j \in 1..Len(s) : s[j].hop = s[i].hop - 1 BY <3>1 DEF NoGap
      <3>4. s[i].hop \in 1..d BY <3>1 DEF NoGap
      <3> QED BY <1>1, <1>2, <3>2, <3>3, <3>4
    <2>2. CASE ~(i <= n)
      <3>1. i - n \in 1..Len(t) /\ n + (i - n) = i BY <1>1, <2>2
      <3>2. u[i] = t[i - n] BY <1>1, <3>1
      <3>3. t[i - n].hop = 1 \/ \E j \in 1..Len(t) : t[j].hop = t[i - n].hop - 1 BY <3>1 DEF NoGap
      <3>4. t[i - n].hop \in 1..d BY <3>1 DEF NoGap
      <3> QED BY <1>1, <1>3, <3>2, <3>3, <3>4
    <2> QED BY <2>1, <2>2
  <1> QED BY <1>4 DEF NoGap, u

\* For every graph, root, direction, types, depth and confidence: a trace loses
\* no row of its search when it lists them by hop, and with risk labels, in one
\* direction, tells each node once, at its nearest (trace.go, buildHops).
THEOREM TracesKeepTheirRows ==
    ASSUME BFSCap \in Nat \ {0},
           NEW g, IsGraph(g), NEW root \in DOMAIN g.node, NEW dir, NEW types, NEW depth \in Int, NEW min
    PROVE  T!TraceKeeps(g, root, dir, types, depth, min)
  <1> DEFINE N == DOMAIN g.node
             d == T!Clamp(depth, 1, 5)
             one(way) == T!bfsVisited(g, root, way, types, d, BFSCap, min).visited
             at(way) == T!Levels(g, root, way, types, d, min)
             rows == T!runTraceBFS(g, root, dir, types, d, min).visited
             once == T!DeduplicateHops(rows)
             hops(labels) == T!handleTraceCallPath(g, root, dir, types, depth, min, labels).hops
             listed(s) == T!FlattenSeq(T!buildHops(s))
  <1>1. d \in Nat \ {0} BY DEF T!Clamp
  <1>2. \A way : T!BFS(g, root, way, types, d, BFSCap, min).visited = one(way) BY DEF T!BFS
  <1>3. rows = IF dir = "both" THEN one("outbound") \o one("inbound") ELSE one(dir)
    BY <1>2 DEF T!runTraceBFS
  <1>4. hops(FALSE) = T!buildHops(rows) /\ hops(TRUE) = T!buildHops(once)
    BY DEF T!handleTraceCallPath
  <1> HIDE DEF d
  <1>5. ASSUME NEW way
        PROVE  /\ Walked(one(way), at(way), N, d)
               /\ Layers(at(way), g, root, way, T!Selected(g, types, min), d)
    BY <1>1, SearchWalks, LevelsAreLayers
  <1>6. \A way : one(way) \in Seq(RowsOf(N)) /\ NoGap(one(way), d)
    <2> TAKE way
    <2>1. d \in Nat BY <1>1
    <2>2. NoGap(one(way), d)
      <3> HIDE DEF at
      <3> QED BY <1>5, <2>1, WalksHaveNoGap
    <2> QED BY <1>5, <2>2 DEF Walked
  <1> HIDE DEF one, at, N, once, hops
  <1>7. rows \in Seq(RowsOf(N)) /\ NoGap(rows, d)
    <2>1. one("outbound") \o one("inbound") \in Seq(RowsOf(N))
      <3>1. one("outbound") \in Seq(RowsOf(N)) /\ one("inbound") \in Seq(RowsOf(N)) BY <1>6
      <3> QED BY <3>1
    <2>2. NoGap(one("outbound") \o one("inbound"), d) BY <1>6, BothHaveNoGap
    <2> QED BY <1>3, <1>6, <2>1, <2>2
  <1> HIDE DEF rows
  <1>8. d \in Nat BY <1>1
  <1>9. Len(listed(rows)) = Len(rows) BY <1>7, <1>8, AllListed
  <1>10. Deduplicated(once, rows, N) BY <1>7, EachOnce DEF once
  <1>11. ASSUME dir # "both"
         PROVE  /\ Len(listed(once)) = Cardinality({r.node : r \in ElementsOf(rows)})
                /\ \A i \in DOMAIN listed(once), r \in ElementsOf(rows) :
                      r.node = listed(once)[i].node => listed(once)[i].hop <= r.hop
    <2>1. Walked(rows, at(dir), N, d) BY <1>3, <1>5, <1>11
    <2>2. NoGap(once, d) BY <1>5, <1>8, <1>10, <2>1, NearestHaveNoGap
    <2>3. once \in Seq(RowsOf(N)) BY <1>10 DEF Deduplicated
    <2>4. Len(listed(once)) = Len(once) /\ ElementsOf(listed(once)) = ElementsOf(once)
      BY <1>8, <2>2, <2>3, AllListed
    <2>5. \A i \in DOMAIN listed(once) : listed(once)[i] \in ElementsOf(once)
      <3> HIDE DEF listed
      <3> QED BY <2>4 DEF ElementsOf
    <2> HIDE DEF listed
    <2> QED BY <1>10, <2>4, <2>5 DEF Deduplicated
  <1>12. ElementsOf(rows) = T!ToSet(rows) BY DEF ElementsOf, T!ToSet
  <1>13. \A A : T!Cardinality(A) = Cardinality(A) BY DEF T!Cardinality, Cardinality
  <1>14. Len(T!FlattenSeq(hops(FALSE))) = Len(rows) BY <1>4, <1>9
  <1>15. dir # "both" =>
           /\ Len(T!FlattenSeq(hops(TRUE))) = T!Cardinality({r.node : r \in T!ToSet(rows)})
           /\ \A i \in DOMAIN T!FlattenSeq(hops(TRUE)) : \A r \in T!ToSet(rows) :
                 r.node = T!FlattenSeq(hops(TRUE))[i].node => T!FlattenSeq(hops(TRUE))[i].hop <= r.hop
    <2>1. T!FlattenSeq(hops(TRUE)) = listed(once) BY <1>4
    <2> HIDE DEF listed
    <2> QED BY <1>11, <1>12, <1>13, <2>1
  <1> QED BY <1>14, <1>15 DEF T!TraceKeeps, hops, rows, d

-----------------------------------------------------------------------------
(* What a change touches.                                                   *)

\* A changed file's hunks are a list.
IsADiff(files) == IsASequence(files) /\ \A i \in DOMAIN files : IsASequence(files[i].hunks)

\* The symbols of a file are nodes.
LEMMA SymbolsAreNodes ==
    ASSUME NEW g, IsGraph(g), NEW f, IsASequence(f.hunks)
    PROVE  T!resolveFileSymbols(g, f) \in Seq(DOMAIN g.node)
  <1> DEFINE N == DOMAIN g.node
             n == Len(g.node)
             inFile == {x \in N : g.node[x].file = f.path}
             overlap(h) == {x \in inFile : g.node[x].lines \cap h # {}}
             q == [i \in DOMAIN f.hunks |-> T!InOrder(overlap(f.hunks[i]), n)]
  <1>1. n \in Nat /\ N = 1..n BY DEF IsGraph, IsASequence
  <1>2. \A U : T!InOrder(U, n) \in Seq(N)
    <2> TAKE U
    <2>1. Lists(T!InOrder(U, n), U \cap (1..n)) BY <1>1, OrderLists
    <2>2. T!InOrder(U, n) \in Seq(U \cap (1..n)) BY <2>1 DEF Lists
    <2>3. U \cap (1..n) \subseteq N BY <1>1
    <2> HIDE DEF N, n
    <2> QED BY <2>2, <2>3
  <1>3. T!resolveFileSymbols(g, f) = IF f.hunks = <<>> THEN T!InOrder(inFile, n) ELSE T!FlattenSeq(q)
    BY DEF T!resolveFileSymbols
  <1>4. T!FlattenSeq(q) \in Seq(N)
    <2> DEFINE m == Len(f.hunks)
    <2>1. m \in Nat /\ DOMAIN f.hunks = 1..m BY DEF IsASequence
    <2> HIDE DEF m, n, N, overlap
    <2>2. q \in [1..m -> Seq(N)] BY <1>2, <2>1
    <2> HIDE DEF q
    <2> QED BY <2>1, <2>2, FlattenHas
  <1> HIDE DEF q, N, n
  <1> QED BY <1>2, <1>3, <1>4 DEF N

\* So are the changed symbols.
LEMMA ChangedAreNodes ==
    ASSUME NEW g, IsGraph(g), NEW files, IsADiff(files)
    PROVE  T!mapChangesToSymbols(g, files) \in Seq(DOMAIN g.node)
  <1> DEFINE N == DOMAIN g.node
             S == Seq(N)
             m == Len(files)
             q == [i \in DOMAIN files |->
                     IF files[i].status = "D" THEN <<>> ELSE T!resolveFileSymbols(g, files[i])]
             all == T!FlattenSeq(q)
             n == Len(all)
             add(acc, x) == IF T!Contains(acc, x) THEN acc ELSE Append(acc, x)
             st == [w \in S \X (1..n) |-> add(w[1], all[w[2]])]
             Is(it) == it = [s \in SUBSET (1..n) |->
                 IF s = {} THEN <<>> ELSE add(it[s \ {T!Max(s)}], all[T!Max(s)])]
             it == CHOOSE it : Is(it)
  <1>1. all \in S
    <2>1. m \in Nat /\ DOMAIN files = 1..m BY DEF IsADiff, IsASequence
    <2>2. ASSUME NEW i \in 1..m PROVE q[i] \in S
      <3>1. T!resolveFileSymbols(g, files[i]) \in Seq(N) BY <2>1, SymbolsAreNodes DEF IsADiff
      <3>2. <<>> \in Seq(N) OBVIOUS
      <3>3. q[i] = IF files[i].status = "D" THEN <<>> ELSE T!resolveFileSymbols(g, files[i]) BY <2>1
      <3> HIDE DEF q, N
      <3> QED BY <3>1, <3>2, <3>3
    <2>3. q \in [1..m -> S] BY <2>1, <2>2
    <2> HIDE DEF q, N, m
    <2> QED BY <2>1, <2>3, FlattenHas
  <1>2. n \in Nat /\ DOMAIN all = 1..n /\ \A k \in 1..n : all[k] \in N
    <2> HIDE DEF all, N
    <2> QED BY <1>1
  <1>3. T!mapChangesToSymbols(g, files) = it[1..n]
    <2> HIDE DEF all
    <2>1. T!mapChangesToSymbols(g, files) = T!FoldLeft(add, <<>>, all) BY DEF T!mapChangesToSymbols, all
    <2> QED BY <1>2, <2>1 DEF T!FoldLeft, T!MapThenFoldSet
  <1> HIDE DEF all, n
  <1>4. \A a \in S : \A k \in 1..n : st[<<a, k>>] = add(a, all[k]) /\ st[<<a, k>>] \in S
    <2> TAKE a \in S
    <2> TAKE k \in 1..n
    <2>1. st[<<a, k>>] = add(a, all[k]) OBVIOUS
    <2>2. all[k] \in N BY <1>2
    <2>3. Append(a, all[k]) \in Seq(N)
      <3> HIDE DEF N
      <3> QED BY <2>2
    <2> HIDE DEF st
    <2> QED BY <2>1, <2>3
  <1> HIDE DEF st, add
  <1>5. StaysIn(S, n, st) /\ <<>> \in S BY <1>4 DEF StaysIn
  <1> HIDE DEF S
  <1>6. Is(it)
    <2>1. PICK f : FoldsOver(f, S, <<>>, n, st) BY <1>2, <1>5, FoldThere
    <2>2. \A s \in SUBSET (1..n) : f[s] = IF s = {} THEN <<>> ELSE add(f[s \ {T!Max(s)}], all[T!Max(s)])
      <3> TAKE s \in SUBSET (1..n)
      <3>1. CASE s = {} BY <2>1, <3>1 DEF FoldsOver
      <3>2. CASE s # {} BY <1>4, <2>1, <3>2 DEF FoldsOver
      <3> QED BY <3>1, <3>2
    <2>3. f = [s \in SUBSET (1..n) |-> f[s]] BY <2>1 DEF FoldsOver
    <2>4. Is(f) BY <2>2, <2>3
    <2> HIDE DEF Is
    <2> QED BY <2>4
  <1> HIDE DEF it
  <1>7. it[{}] = <<>> BY <1>6
  <1>8. ASSUME NEW s \in SUBSET (1..n), s # {}, it[s \ {T!Max(s)}] \in S
        PROVE  it[s] = st[<<it[s \ {T!Max(s)}], T!Max(s)>>]
    <2>1. T!Max(s) \in s BY <1>2, <1>8, Greatest
    <2>2. T!Max(s) \in 1..n BY <2>1
    <2>3. it[s] = add(it[s \ {T!Max(s)}], all[T!Max(s)]) BY <1>6, <1>8
    <2> QED BY <1>4, <1>8, <2>2, <2>3
  <1>9. PICK f : StepsFrom(f, S, <<>>, n, st) /\ it[1..n] = f[n]
    <2>1. Unfolds(it, S, <<>>, n, st) BY <1>7, <1>8 DEF Unfolds
    <2>2. EndsAt(it[1..n], S, <<>>, n, st) BY <1>2, <1>5, <2>1, FoldEnds
    <2> QED BY <2>2 DEF EndsAt
  <1>10. f[n] \in S BY <1>2, <1>9 DEF StepsFrom
  <1> QED BY <1>3, <1>9, <1>10 DEF S

\* What is known of a node in reach of a change: how far it is, and from where.
Entries(N) == [hop : Nat, by : N]
Bests(N) == UNION {[D -> Entries(N)] : D \in SUBSET N}
Hits(N) == [node : N, hop : Nat, by : N]

\* What better does to it.
Better(changed, best, p) ==
    IF T!Contains(changed, p.node) \/ (p.node \in DOMAIN best /\ best[p.node].hop <= p.hop) THEN best
    ELSE [n \in DOMAIN best \cup {p.node} |->
            IF n = p.node THEN [hop |-> p.hop, by |-> p.by] ELSE best[n]]
Bettered(changed, ps) ==
    (CHOOSE it : it = [s \in SUBSET (DOMAIN ps) |->
        IF s = {} THEN <<>> ELSE Better(changed, it[s \ {T!Max(s)}], ps[T!Max(s)])])[DOMAIN ps]

\* Of the first k hits: which nodes have an entry, whose it is, that none is nearer.
IsBest(best, ps, k, except) ==
    /\ DOMAIN best = {ps[j].node : j \in 1..k} \ except
    /\ \A n \in DOMAIN best :
          /\ \E j \in 1..k : ps[j].node = n /\ best[n] = [hop |-> ps[j].hop, by |-> ps[j].by]
          /\ \A j \in 1..k : ps[j].node = n => best[n].hop <= ps[j].hop

\* One more hit.
LEMMA BetterOne ==
    ASSUME NEW N, NEW changed \in Seq(N), NEW ps \in Seq(Hits(N)), NEW k \in 1..Len(ps),
           NEW best \in Bests(N), IsBest(best, ps, k - 1, ElementsOf(changed)),
           NEW r, r = Better(changed, best, ps[k])
    PROVE  r \in Bests(N) /\ IsBest(r, ps, k, ElementsOf(changed))
  <1> DEFINE p == ps[k]
             except == ElementsOf(changed)
             entry == [hop |-> p.hop, by |-> p.by]
  <1>1. k \in Nat /\ 1..k = (1..(k - 1)) \cup {k} /\ \A j \in 1..k : ps[j] \in Hits(N) OBVIOUS
  <1>2. \A j \in 1..k : ps[j].node \in N /\ ps[j].hop \in Nat /\ ps[j].by \in N BY <1>1 DEF Hits
  <1>3. p \in Hits(N) /\ p.node \in N /\ entry \in Entries(N) BY <1>1, <1>2 DEF Hits, Entries
  <1>4. DOMAIN best \in SUBSET N /\ \A n \in DOMAIN best : best[n] \in Entries(N) BY DEF Bests
  <1>5. T!Contains(changed, p.node) <=> p.node \in except
    <2>1. DOMAIN changed = 1..Len(changed) OBVIOUS
    <2> QED BY <2>1 DEF T!Contains, ElementsOf
  <1>6. \A n \in DOMAIN best :
          /\ \E j \in 1..(k - 1) : ps[j].node = n /\ best[n] = [hop |-> ps[j].hop, by |-> ps[j].by]
          /\ \A j \in 1..(k - 1) : ps[j].node = n => best[n].hop <= ps[j].hop
    BY DEF IsBest
  <1>7. DOMAIN best = {ps[j].node : j \in 1..(k - 1)} \ except BY DEF IsBest
  <1>8. {ps[j].node : j \in 1..k} = {ps[j].node : j \in 1..(k - 1)} \cup {p.node} BY <1>1
  <1>9. CASE p.node \in except
    <2>1. r = best BY <1>5, <1>9 DEF Better
    <2>2. DOMAIN best = {ps[j].node : j \in 1..k} \ except BY <1>7, <1>8, <1>9
    <2>3. \A n \in DOMAIN best : n # p.node BY <1>9, <2>2
    <2>4. \A n \in DOMAIN best :
            /\ \E j \in 1..k : ps[j].node = n /\ best[n] = [hop |-> ps[j].hop, by |-> ps[j].by]
            /\ \A j \in 1..k : ps[j].node = n => best[n].hop <= ps[j].hop
      BY <1>1, <1>6, <2>3
    <2>5. IsBest(best, ps, k, ElementsOf(changed))
      <3> HIDE DEF p
      <3> QED BY <2>2, <2>4 DEF IsBest
    <2> QED BY <2>1, <2>5
  <1>10. CASE p.node \notin except /\ p.node \in DOMAIN best /\ best[p.node].hop <= p.hop
    <2>1. r = best BY <1>5, <1>10 DEF Better
    <2>2. DOMAIN best = {ps[j].node : j \in 1..k} \ except BY <1>7, <1>8, <1>10
    <2>3. \A n \in DOMAIN best :
            /\ \E j \in 1..k : ps[j].node = n /\ best[n] = [hop |-> ps[j].hop, by |-> ps[j].by]
            /\ \A j \in 1..k : ps[j].node = n => best[n].hop <= ps[j].hop
      BY <1>1, <1>6, <1>10
    <2>4. IsBest(best, ps, k, ElementsOf(changed))
      <3> HIDE DEF p
      <3> QED BY <2>2, <2>3 DEF IsBest
    <2> QED BY <2>1, <2>4
  <1>11. CASE p.node \notin except /\ ~(p.node \in DOMAIN best /\ best[p.node].hop <= p.hop)
    <2> DEFINE D == DOMAIN best \cup {p.node}
    <2>1. r = [n \in D |-> IF n = p.node THEN entry ELSE best[n]] BY <1>5, <1>11 DEF Better
    <2>2. /\ DOMAIN r = D /\ r[p.node] = entry /\ \A n \in DOMAIN best : n # p.node => r[n] = best[n]
          /\ r \in [D -> Entries(N)]
      <3> HIDE DEF entry
      <3> QED BY <1>3, <1>4, <2>1
    <2>3. r \in Bests(N) BY <1>3, <1>4, <2>2 DEF Bests
    <2>4. D = {ps[j].node : j \in 1..k} \ except BY <1>7, <1>8, <1>11
    <2>5. entry.hop = p.hop OBVIOUS
    <2> HIDE DEF entry
    <2>6. ASSUME NEW n \in D, n # p.node
          PROVE  /\ \E j \in 1..k : ps[j].node = n /\ r[n] = [hop |-> ps[j].hop, by |-> ps[j].by]
                 /\ \A j \in 1..k : ps[j].node = n => r[n].hop <= ps[j].hop
      <3>1. n \in DOMAIN best /\ r[n] = best[n] BY <2>2, <2>6
      <3> QED BY <1>1, <1>6, <2>6, <3>1
    <2>7. ASSUME NEW j \in 1..k, ps[j].node = p.node PROVE r[p.node].hop <= ps[j].hop
      <3>1. CASE j = k BY <1>2, <2>2, <2>5, <3>1
      <3>2. CASE j # k
        <4>1. j \in 1..(k - 1) BY <1>1, <3>2
        <4>2. p.node \in DOMAIN best BY <1>7, <1>11, <2>7, <4>1
        <4>3. ~(best[p.node].hop <= p.hop) /\ best[p.node].hop <= ps[j].hop BY <1>6, <1>11, <2>7, <4>1, <4>2
        <4>4. best[p.node].hop \in Nat BY <1>4, <4>2 DEF Entries
        <4>5. p.hop \in Nat /\ ps[j].hop \in Nat BY <1>2
        <4> QED BY <2>2, <2>5, <4>3, <4>4, <4>5
      <3> QED BY <3>1, <3>2
    <2>8. \E j \in 1..k : ps[j].node = p.node /\ r[p.node] = [hop |-> ps[j].hop, by |-> ps[j].by]
      <3>1. k \in 1..k BY <1>1
      <3> QED BY <2>2, <3>1 DEF entry
    <2>9. DOMAIN r = {ps[j].node : j \in 1..k} \ except BY <2>2, <2>4
    <2>10. \A n \in DOMAIN r :
             /\ \E j \in 1..k : ps[j].node = n /\ r[n] = [hop |-> ps[j].hop, by |-> ps[j].by]
             /\ \A j \in 1..k : ps[j].node = n => r[n].hop <= ps[j].hop
      <3> SUFFICES ASSUME NEW n \in DOMAIN r
                   PROVE  /\ \E j \in 1..k : ps[j].node = n /\ r[n] = [hop |-> ps[j].hop, by |-> ps[j].by]
                          /\ \A j \in 1..k : ps[j].node = n => r[n].hop <= ps[j].hop
        OBVIOUS
      <3>1. DOMAIN r = D BY <2>2
      <3> HIDE DEF p, D
      <3>2. CASE n = p.node BY <2>7, <2>8, <3>2
      <3>3. CASE n # p.node BY <2>6, <3>1, <3>3
      <3> QED BY <3>2, <3>3
    <2> QED BY <2>3, <2>9, <2>10 DEF IsBest
  <1> QED BY <1>9, <1>10, <1>11

\* All the hits.
LEMMA BestOfAll ==
    ASSUME NEW N, NEW changed \in Seq(N), NEW ps \in Seq(Hits(N))
    PROVE  IsBest(Bettered(changed, ps), ps, Len(ps), ElementsOf(changed))
  <1> DEFINE n == Len(ps)
             except == ElementsOf(changed)
             S == Bests(N)
             st == [w \in S \X (1..n) |-> Better(changed, w[1], ps[w[2]])]
             Is(it) == it = [s \in SUBSET (1..n) |->
                 IF s = {} THEN <<>> ELSE Better(changed, it[s \ {T!Max(s)}], ps[T!Max(s)])]
             it == CHOOSE it : Is(it)
  <1>1. n \in Nat /\ DOMAIN ps = 1..n /\ \A k \in 1..n : ps[k] \in Hits(N) OBVIOUS
  <1>2. Bettered(changed, ps) = it[1..n] BY <1>1 DEF Bettered
  <1>3. \A a \in S : \A k \in 1..n : st[<<a, k>>] = Better(changed, a, ps[k]) OBVIOUS
  <1> HIDE DEF st
  <1>4. ASSUME NEW a \in S, NEW k \in 1..n PROVE Better(changed, a, ps[k]) \in S
    <2> DEFINE p == ps[k]
    <2>1. p \in Hits(N) BY <1>1
    <2>2. [hop |-> p.hop, by |-> p.by] \in Entries(N) /\ p.node \in N BY <2>1 DEF Hits, Entries
    <2>3. PICK D \in SUBSET N : a \in [D -> Entries(N)] BY DEF Bests
    <2>4. [x \in D \cup {p.node} |-> IF x = p.node THEN [hop |-> p.hop, by |-> p.by] ELSE a[x]]
             \in [D \cup {p.node} -> Entries(N)]
      <3> DEFINE entry == [hop |-> p.hop, by |-> p.by]
      <3>1. entry \in Entries(N) BY <2>2
      <3> HIDE DEF entry
      <3>2. \A x \in D : a[x] \in Entries(N) BY <2>3
      <3>3. [x \in D \cup {p.node} |-> IF x = p.node THEN entry ELSE a[x]] \in [D \cup {p.node} -> Entries(N)]
        BY <3>1, <3>2
      <3> QED BY <3>3 DEF entry
    <2>5. D \cup {p.node} \in SUBSET N BY <2>2
    <2>6. DOMAIN a = D BY <2>3
    <2> HIDE DEF p
    <2> QED BY <2>4, <2>5, <2>6 DEF Better, Bests, p
  <1>5. <<>> \in S
    <2>1. <<>> \in [{} -> Entries(N)] OBVIOUS
    <2> QED BY <2>1 DEF Bests
  <1> HIDE DEF S
  <1>6. StaysIn(S, n, st) BY <1>3, <1>4 DEF StaysIn
  <1>7. Is(it)
    <2>1. PICK f : FoldsOver(f, S, <<>>, n, st) BY <1>1, <1>5, <1>6, FoldThere
    <2>2. \A s \in SUBSET (1..n) :
             f[s] = IF s = {} THEN <<>> ELSE Better(changed, f[s \ {T!Max(s)}], ps[T!Max(s)])
      <3> TAKE s \in SUBSET (1..n)
      <3>1. CASE s = {} BY <2>1, <3>1 DEF FoldsOver
      <3>2. CASE s # {} BY <1>3, <2>1, <3>2 DEF FoldsOver
      <3> QED BY <3>1, <3>2
    <2>3. f = [s \in SUBSET (1..n) |-> f[s]] BY <2>1 DEF FoldsOver
    <2>4. Is(f) BY <2>2, <2>3
    <2> HIDE DEF Is
    <2> QED BY <2>4
  <1> HIDE DEF it
  <1>8. it[{}] = <<>> BY <1>7
  <1>9. ASSUME NEW s \in SUBSET (1..n), s # {}, it[s \ {T!Max(s)}] \in S
        PROVE  it[s] = st[<<it[s \ {T!Max(s)}], T!Max(s)>>]
    <2>1. T!Max(s) \in s BY <1>1, <1>9, Greatest
    <2>2. T!Max(s) \in 1..n BY <2>1
    <2>3. it[s] = Better(changed, it[s \ {T!Max(s)}], ps[T!Max(s)]) BY <1>7, <1>9
    <2> QED BY <1>3, <1>9, <2>2, <2>3
  <1>10. PICK f : StepsFrom(f, S, <<>>, n, st) /\ it[1..n] = f[n]
    <2>1. Unfolds(it, S, <<>>, n, st) BY <1>8, <1>9 DEF Unfolds
    <2>2. EndsAt(it[1..n], S, <<>>, n, st) BY <1>1, <1>5, <1>6, <2>1, FoldEnds
    <2> QED BY <2>2 DEF EndsAt
  <1> DEFINE P == {k \in 0..n : IsBest(f[k], ps, k, except)}
  <1>11. 0 \in P
    <2>1. f[0] = <<>> BY <1>10 DEF StepsFrom
    <2>2. DOMAIN <<>> = {} /\ {ps[j].node : j \in 1..0} = {} OBVIOUS
    <2>3. IsBest(f[0], ps, 0, except) BY <2>1, <2>2 DEF IsBest
    <2> QED BY <1>1, <2>3
  <1>12. ASSUME NEW k \in 1..n, k - 1 \in P PROVE k \in P
    <2>1. k \in 0..n /\ k - 1 \in 0..n BY <1>1
    <2>2. f[k] = st[<<f[k - 1], k>>] /\ f[k - 1] \in S BY <1>10, <2>1 DEF StepsFrom
    <2>3. f[k] = Better(changed, f[k - 1], ps[k]) BY <1>3, <2>2
    <2>4. IsBest(f[k - 1], ps, k - 1, except) BY <1>12
    <2>5. f[k - 1] \in Bests(N) BY <2>2 DEF S
    <2> DEFINE a == f[k - 1]
               r == f[k]
    <2>6. a \in Bests(N) /\ IsBest(a, ps, k - 1, ElementsOf(changed)) /\ r = Better(changed, a, ps[k])
      BY <2>3, <2>4, <2>5
    <2> HIDE DEF a, r, P
    <2>7. IsBest(r, ps, k, ElementsOf(changed)) BY <2>6, BetterOne
    <2> USE DEF r, P
    <2> QED BY <2>1, <2>7
  <1>13. n \in P
    <2>1. \A k \in 1..n : k - 1 \in P => k \in P BY <1>12
    <2>2. n \in 0..n BY <1>1
    <2> HIDE DEF P
    <2> QED BY <1>1, <1>11, <2>1, <2>2, UpTo
  <1> QED BY <1>2, <1>10, <1>13

\* The rows of one changed symbol's search, and of all.
HitAt(x, h, c) == [node |-> x, hop |-> h, by |-> c]
HitsOf(g, c, d) ==
    LET rows == T!bfsVisited(g, c, "inbound", T!TaintTypes, d, BFSCap, 0).visited
    IN  [j \in DOMAIN rows |-> HitAt(rows[j].node, rows[j].hop, c)]
AllHits(g, changed, d) == T!FlattenSeq([i \in DOMAIN changed |-> HitsOf(g, changed[i], d)])

IsCut(g, c, d) == T!bfsVisited(g, c, "inbound", T!TaintTypes, d, BFSCap, 0).truncated
Away(g, c, d, x) == T!Distances(g, c, "inbound", d, x)

\* Each hit is of a caller at its distance, and a search that was not cut off
\* has them all.
OfOne(s, g, c, d) ==
    /\ s \in Seq(Hits(DOMAIN g.node))
    /\ \A p \in ElementsOf(s) : p.by = c /\ p.hop \in Away(g, c, d, p.node)
    /\ ~IsCut(g, c, d) => \A x \in DOMAIN g.node : \A h \in Away(g, c, d, x) : HitAt(x, h, c) \in ElementsOf(s)
OfThem(s, g, cs, d) ==
    /\ s \in Seq(Hits(DOMAIN g.node))
    /\ \A p \in ElementsOf(s) : p.by \in cs /\ p.hop \in Away(g, p.by, d, p.node)
    /\ \A c \in cs : ~IsCut(g, c, d) =>
          \A x \in DOMAIN g.node : \A h \in Away(g, c, d, x) : HitAt(x, h, c) \in ElementsOf(s)

\* The rows of one search.
LEMMA HitsOfOne ==
    ASSUME BFSCap \in Nat \ {0}, NEW g, IsGraph(g), NEW c \in DOMAIN g.node, NEW d \in Nat \ {0}
    PROVE  OfOne(HitsOf(g, c, d), g, c, d)
  <1> DEFINE N == DOMAIN g.node
             found == T!bfsVisited(g, c, "inbound", T!TaintTypes, d, BFSCap, 0)
             rows == found.visited
             at == T!Levels(g, c, "inbound", T!TaintTypes, d, 0)
             s == [j \in DOMAIN rows |-> HitAt(rows[j].node, rows[j].hop, c)]
  <1>1. Walked(rows, at, N, d) /\ (~found.truncated => TellsAll(rows, at, d)) BY SearchWalks
  <1>2. HitsOf(g, c, d) = s BY DEF HitsOf
  <1>3. IsCut(g, c, d) = found.truncated BY DEF IsCut
  <1>4. \A x : Away(g, c, d, x) = {h \in 1..d : x \in at[h]} BY DEF Away, T!Distances
  <1> HIDE DEF rows, found, at, N
  <1>5. /\ rows \in Seq(RowsOf(N)) /\ Len(rows) \in Nat /\ DOMAIN rows = 1..Len(rows)
        /\ \A j \in 1..Len(rows) : rows[j].hop \in 1..d /\ rows[j].node \in at[rows[j].hop]
    BY <1>1 DEF Walked, Nearer
  <1>6. \A j \in 1..Len(rows) : rows[j].node \in N /\ rows[j].hop \in Nat
    <2>1. \A j \in 1..Len(rows) : rows[j] \in RowsOf(N) BY <1>5
    <2> QED BY <2>1 DEF RowsOf
  <1>7. \A j \in 1..Len(rows) : s[j] = HitAt(rows[j].node, rows[j].hop, c) BY <1>5
  <1>8. \A x, h : HitAt(x, h, c).node = x /\ HitAt(x, h, c).hop = h /\ HitAt(x, h, c).by = c BY DEF HitAt
  <1>9. s \in Seq(Hits(N)) /\ DOMAIN s = 1..Len(rows)
    <2>1. \A j \in 1..Len(rows) : HitAt(rows[j].node, rows[j].hop, c) \in Hits(N)
      BY <1>6 DEF HitAt, Hits, N
    <2> QED BY <1>5, <2>1
  <1> HIDE DEF s
  <1>10. ElementsOf(s) = {HitAt(rows[j].node, rows[j].hop, c) : j \in 1..Len(rows)}
    BY <1>7, <1>9 DEF ElementsOf
  <1>11. \A p \in ElementsOf(s) : p.by = c /\ p.hop \in Away(g, c, d, p.node)
    BY <1>4, <1>5, <1>8, <1>10
  <1>12. ASSUME ~found.truncated, NEW x \in N, NEW h \in Away(g, c, d, x) PROVE HitAt(x, h, c) \in ElementsOf(s)
    <2>1. h \in 1..d /\ x \in at[h] BY <1>4
    <2>2. Told(rows, Len(rows), x, h) BY <1>1, <1>12, <2>1 DEF TellsAll
    <2>3. PICK j \in 1..Len(rows) : rows[j] = RowAt(x, h) BY <2>2 DEF Told
    <2>4. rows[j].node = x /\ rows[j].hop = h BY <2>3 DEF RowAt
    <2> QED BY <1>10, <2>4
  <1> QED BY <1>2, <1>3, <1>9, <1>11, <1>12 DEF OfOne, N

\* The rows of all.
LEMMA HitsOfAll ==
    ASSUME BFSCap \in Nat \ {0}, NEW g, IsGraph(g), NEW changed \in Seq(DOMAIN g.node), NEW d \in Nat \ {0}
    PROVE  OfThem(AllHits(g, changed, d), g, ElementsOf(changed), d)
  <1> DEFINE N == DOMAIN g.node
             n == Len(changed)
             q == [i \in DOMAIN changed |-> HitsOf(g, changed[i], d)]
             s == T!FlattenSeq(q)
  <1>1. n \in Nat /\ DOMAIN changed = 1..n /\ \A i \in 1..n : changed[i] \in N OBVIOUS
  <1>2. \A i \in 1..n : OfOne(q[i], g, changed[i], d) BY <1>1, HitsOfOne
  <1>3. s \in Seq(Hits(N)) /\ ElementsOf(s) = UNION {ElementsOf(q[i]) : i \in 1..n}
    <2>1. \A i \in 1..n : q[i] \in Seq(Hits(N)) BY <1>2 DEF OfOne
    <2> DEFINE A == Hits(N)
    <2>2. q \in [1..n -> Seq(A)] BY <1>1, <2>1
    <2> HIDE DEF q, n, A
    <2>3. T!FlattenSeq(q) \in Seq(A) /\ ElementsOf(T!FlattenSeq(q)) = UNION {ElementsOf(q[i]) : i \in 1..n}
      BY <1>1, <2>2, FlattenHas
    <2> QED BY <2>3 DEF A
  <1>4. AllHits(g, changed, d) = s BY DEF AllHits
  <1> HIDE DEF q, s, n
  <1>5. ElementsOf(changed) = {changed[i] : i \in 1..n} BY <1>1 DEF ElementsOf
  <1>6. \A p \in ElementsOf(s) : p.by \in ElementsOf(changed) /\ p.hop \in Away(g, p.by, d, p.node)
    <2> TAKE p \in ElementsOf(s)
    <2>1. PICK i \in 1..n : p \in ElementsOf(q[i]) BY <1>3
    <2>2. p.by = changed[i] /\ p.hop \in Away(g, changed[i], d, p.node) BY <1>2, <2>1 DEF OfOne
    <2> QED BY <1>5, <2>2
  <1>7. ASSUME NEW c \in ElementsOf(changed), ~IsCut(g, c, d), NEW x \in N, NEW h \in Away(g, c, d, x)
        PROVE  HitAt(x, h, c) \in ElementsOf(s)
    <2>1. PICK i \in 1..n : c = changed[i] BY <1>5
    <2>2. HitAt(x, h, c) \in ElementsOf(q[i]) BY <1>2, <1>7, <2>1 DEF OfOne
    <2> QED BY <1>3, <2>2
  <1> QED BY <1>3, <1>4, <1>6, <1>7 DEF OfThem

\* Each node that a change reaches, at its nearest distance, and none else.
NearestOnly(impact, g, cs, d) ==
    LET near(n) == UNION {Away(g, c, d, n) : c \in cs}
    IN  /\ DOMAIN impact = {n \in DOMAIN g.node \ cs : near(n) # {}}
        /\ \A n \in DOMAIN impact :
              /\ impact[n].hop \in Away(g, impact[n].by, d, n)
              /\ T!Nearest(impact[n].hop, near(n))

\* That is what traceImpact finds.
LEMMA ImpactIsNearest ==
    ASSUME BFSCap \in Nat \ {0}, NEW g, IsGraph(g), NEW changed \in Seq(DOMAIN g.node), NEW d \in Nat \ {0},
           \A c \in ElementsOf(changed) : ~IsCut(g, c, d)
    PROVE  NearestOnly(T!traceImpact(g, changed, d).impact, g, ElementsOf(changed), d)
  <1> DEFINE N == DOMAIN g.node
             cs == ElementsOf(changed)
             near(n) == UNION {Away(g, c, d, n) : c \in cs}
             impact == T!traceImpact(g, changed, d).impact
             ps == AllHits(g, changed, d)
             k == Len(ps)
  <1>1. OfThem(ps, g, cs, d) BY HitsOfAll
  <1>2. impact = Bettered(changed, ps)
    <2> DEFINE better(best, p) == Better(changed, best, p)
    <2>1. \A c : T!BFS(g, c, "inbound", T!TaintTypes, d, BFSCap, 0).visited
                   = T!bfsVisited(g, c, "inbound", T!TaintTypes, d, BFSCap, 0).visited
      BY DEF T!BFS
    <2> DEFINE told(c) == T!BFS(g, c, "inbound", T!TaintTypes, d, BFSCap, 0)
               hits(c) == [j \in DOMAIN told(c).visited |-> [node |-> told(c).visited[j].node,
                                                            hop |-> told(c).visited[j].hop, by |-> c]]
               all == T!FlattenSeq([i \in DOMAIN changed |-> hits(changed[i])])
    <2>2. \A c : hits(c) = HitsOf(g, c, d)
      <3> HIDE DEF told
      <3> QED BY <2>1 DEF HitsOf, HitAt, told
    <2>3. all = ps
      <3> HIDE DEF hits
      <3> QED BY <2>2 DEF AllHits
    <2>4. T!traceImpact(g, changed, d) =
            [impact |-> T!FoldLeft(better, <<>>, all),
             edges |-> UNION {told(changed[i]).edges : i \in DOMAIN changed}]
      BY DEF T!traceImpact, Better
    <2>5. T!FoldLeft(better, <<>>, all) = Bettered(changed, all)
      <3> HIDE DEF all
      <3> QED BY DEF T!FoldLeft, T!MapThenFoldSet, Bettered
    <2>6. T!traceImpact(g, changed, d).impact = Bettered(changed, all)
      <3> DEFINE edges == UNION {told(changed[i]).edges : i \in DOMAIN changed}
                 best == T!FoldLeft(better, <<>>, all)
      <3>1. T!traceImpact(g, changed, d) = [impact |-> best, edges |-> edges] BY <2>4
      <3> HIDE DEF edges, best
      <3>2. T!traceImpact(g, changed, d).impact = best BY <3>1
      <3> QED BY <2>5, <3>2 DEF best
    <2> HIDE DEF all
    <2> QED BY <2>3, <2>6
  <1> HIDE DEF ps, impact
  <1>3. ps \in Seq(Hits(N)) /\ k \in Nat /\ DOMAIN ps = 1..k BY <1>1 DEF OfThem
  <1>4. IsBest(impact, ps, k, cs) BY <1>2, <1>3, BestOfAll
  <1>5. \A j \in 1..k : /\ ps[j].node \in N /\ ps[j].by \in cs
                        /\ ps[j].hop \in Away(g, ps[j].by, d, ps[j].node)
    <2>1. \A j \in 1..k : ps[j] \in Hits(N) /\ ps[j] \in ElementsOf(ps) BY <1>3 DEF ElementsOf
    <2> QED BY <1>1, <2>1 DEF OfThem, Hits
  <1>6. ASSUME NEW n \in N, NEW h \in near(n)
        PROVE  \E j \in 1..k : ps[j].node = n /\ ps[j].hop = h
    <2>1. PICK c \in cs : h \in Away(g, c, d, n) OBVIOUS
    <2>2. HitAt(n, h, c) \in ElementsOf(ps) BY <1>1, <2>1 DEF OfThem
    <2>3. PICK j \in 1..k : ps[j] = HitAt(n, h, c) BY <1>3, <2>2 DEF ElementsOf
    <2> QED BY <2>3 DEF HitAt
  <1> HIDE DEF k
  <1>7. {ps[j].node : j \in 1..k} = {n \in N : near(n) # {}}
    <2>1. \A j \in 1..k : ps[j].node \in N /\ ps[j].hop \in near(ps[j].node) BY <1>5
    <2> HIDE DEF near
    <2> QED BY <1>6, <2>1
  <1>8. DOMAIN impact = {n \in N \ cs : near(n) # {}}
    <2> HIDE DEF near
    <2> QED BY <1>4, <1>7 DEF IsBest
  <1>9. ASSUME NEW n \in DOMAIN impact
        PROVE  /\ impact[n].hop \in Away(g, impact[n].by, d, n)
               /\ T!Nearest(impact[n].hop, near(n))
    <2>1. PICK j \in 1..k : ps[j].node = n /\ impact[n] = [hop |-> ps[j].hop, by |-> ps[j].by]
      BY <1>4 DEF IsBest
    <2>2. impact[n].hop = ps[j].hop /\ impact[n].by = ps[j].by BY <2>1
    <2>3. impact[n].hop \in Away(g, impact[n].by, d, n) /\ impact[n].by \in cs BY <1>5, <2>1, <2>2
    <2>4. impact[n].hop \in near(n) BY <2>3
    <2>5. \A h \in near(n) : impact[n].hop <= h
      <3> TAKE h \in near(n)
      <3>1. n \in N BY <1>8
      <3>2. PICK i \in 1..k : ps[i].node = n /\ ps[i].hop = h BY <1>6, <3>1
      <3> QED BY <1>4, <3>2 DEF IsBest
    <2> HIDE DEF near
    <2> QED BY <2>3, <2>4, <2>5 DEF T!Nearest
  <1> QED BY <1>8, <1>9 DEF NearestOnly, impact

\* Lists as long as the parts of a set.
Parts(q, m, U, at) ==
    /\ IsFiniteSet(U) /\ \A x \in U : at[x] \in 1..m
    /\ \A h \in 1..m : Len(q[h]) = Cardinality({x \in U : at[x] = h})

\* Together they are as long as the set is large.
LEMMA PartsCounted ==
    ASSUME NEW A, NEW m \in Nat, NEW q \in [1..m -> Seq(A)], NEW U, NEW at, Parts(q, m, U, at)
    PROVE  Len(T!FlattenSeq(q)) = Cardinality(U)
  <1> DEFINE part(h) == {x \in U : at[x] = h}
             below(h) == {x \in U : at[x] \in 1..h}
  <1>1. PICK f : Chained(f, q, m, A) /\ T!FlattenSeq(q) = f[m] BY FlattenSteps
  <1>6. /\ IsFiniteSet(U) /\ \A x \in U : at[x] \in 1..m
        /\ \A h \in 1..m : Len(q[h]) = Cardinality(part(h))
    BY DEF Parts
  <1> DEFINE P == {h \in 0..m : Len(f[h]) = Cardinality(below(h))}
  <1>2. 0 \in P
    <2>1. below(0) = {} /\ 0 \in 0..m OBVIOUS
    <2>2. Len(f[0]) = 0 BY <1>1 DEF Chained
    <2>3. Cardinality({}) = 0 BY FS_EmptySet
    <2>4. Len(f[0]) = Cardinality(below(0)) BY <2>1, <2>2, <2>3
    <2> HIDE DEF below
    <2> QED BY <2>1, <2>4
  <1>3. ASSUME NEW h \in 1..m, h - 1 \in P PROVE h \in P
    <2>1. h - 1 \in 0..m /\ h \in 0..m OBVIOUS
    <2>2. f[h] = f[h - 1] \o q[h] /\ f[h - 1] \in Seq(A) /\ q[h] \in Seq(A) BY <1>1, <2>1 DEF Chained
    <2>3. Len(f[h]) = Len(f[h - 1]) + Len(q[h]) BY <2>2
    <2>4. Len(f[h - 1]) = Cardinality(below(h - 1)) BY <1>3
    <2>5. below(h) = below(h - 1) \cup part(h) /\ below(h - 1) \cap part(h) = {}
      <3>1. \A x \in U : at[x] \in Nat
        <4>1. \A x \in 1..m : x \in Nat OBVIOUS
        <4> QED BY <1>6, <4>1
      <3> QED BY <3>1
    <2>6. IsFiniteSet(below(h - 1)) /\ IsFiniteSet(part(h))
      <3>1. below(h - 1) \subseteq U /\ part(h) \subseteq U OBVIOUS
      <3> HIDE DEF below, part
      <3> QED BY <1>6, <3>1, FS_Subset
    <2>7. Len(q[h]) = Cardinality(part(h)) BY <1>6
    <2> HIDE DEF below, part, P
    <2>8. Cardinality(below(h)) = Cardinality(below(h - 1)) + Cardinality(part(h))
      <3> DEFINE b == below(h - 1)
                 p == part(h)
      <3>1. IsFiniteSet(b) /\ IsFiniteSet(p) /\ b \cap p = {} BY <2>5, <2>6
      <3> HIDE DEF b, p
      <3>2. Cardinality(b \cup p) = Cardinality(b) + Cardinality(p) - Cardinality(b \cap p) BY <3>1, FS_Union
      <3>3. Cardinality(b) \in Nat /\ Cardinality(p) \in Nat /\ Cardinality(b \cap p) = 0
        BY <3>1, FS_CardinalityType, FS_EmptySet
      <3>4. Cardinality(b \cup p) = Cardinality(b) + Cardinality(p) BY <3>2, <3>3
      <3> QED BY <2>5, <3>4 DEF b, p
    <2>9. Len(f[h]) = Cardinality(below(h)) BY <2>3, <2>4, <2>7, <2>8
    <2> QED BY <2>1, <2>9 DEF P
  <1>4. m \in P
    <2>1. \A h \in 1..m : h - 1 \in P => h \in P BY <1>3
    <2>2. m \in 0..m OBVIOUS
    <2> HIDE DEF P
    <2> QED BY <1>2, <2>1, <2>2, UpTo
  <1>5. below(m) = U BY <1>6
  <1> HIDE DEF below
  <1> QED BY <1>1, <1>4, <1>5

\* What a review lists and what it only counts are together all.
LEMMA BudgetCounts ==
    ASSUME NEW g, IsGraph(g), NEW changed, NEW impacted, DOMAIN impacted.impact \subseteq DOMAIN g.node,
           \A x \in DOMAIN impacted.impact : impacted.impact[x].hop \in 1..5, NEW maxTokens,
           NEW r, r = T!buildReviewMarkdown(g, changed, impacted, maxTokens)
    PROVE  Len(r.listed) + r.more = Cardinality(DOMAIN impacted.impact)
  <1> DEFINE N == DOMAIN g.node
             n == Len(g.node)
             U == DOMAIN impacted.impact
             at == [x \in U |-> impacted.impact[x].hop]
             part(h) == {x \in U : impacted.impact[x].hop = h}
             q == [h \in 1..5 |-> T!InOrder(part(h), n)]
             order == T!FlattenSeq(q)
             listed == T!First(order, T!Clamp(maxTokens \div 50, 5, 40))
  <1>1. n \in Nat /\ N = 1..n BY DEF IsGraph, IsASequence
  <1>2. IsFiniteSet(U)
    <2>1. IsFiniteSet(1..n) BY <1>1, FS_Interval
    <2> HIDE DEF n, U
    <2> QED BY <1>1, <2>1, FS_Subset DEF U
  <1>3. ASSUME NEW h \in 1..5 PROVE q[h] \in Seq(N) /\ Len(q[h]) = Cardinality({x \in U : at[x] = h})
    <2>1. part(h) \cap (1..n) = part(h) /\ part(h) \subseteq N BY <1>1
    <2>2. Lists(T!InOrder(part(h), n), part(h) \cap (1..n)) BY <1>1, OrderLists
    <2>3. q[h] = T!InOrder(part(h), n) OBVIOUS
    <2>4. part(h) = {x \in U : at[x] = h} OBVIOUS
    <2> DEFINE s == T!InOrder(part(h), n)
               here == part(h)
    <2>5. Lists(s, here)
      <3> HIDE DEF part, n
      <3> QED BY <2>1, <2>2
    <2> HIDE DEF s, here, N
    <2>6. s \in Seq(N)
      <3>1. s \in Seq(here) /\ here \subseteq N BY <2>1, <2>5 DEF Lists, here
      <3> QED BY <3>1
    <2>7. Len(s) = Cardinality(here) BY <2>5 DEF Lists
    <2>8. q[h] = s BY <2>3 DEF s
    <2>9. here = {x \in U : at[x] = h} BY <2>4 DEF here
    <2> HIDE DEF q, U, at
    <2> QED BY <2>6, <2>7, <2>8, <2>9
  <1>4. \A x \in U : at[x] \in 1..5 OBVIOUS
  <1>5. q \in [1..5 -> Seq(N)]
    <2> HIDE DEF N
    <2> QED BY <1>3
  <1>6. Len(order) = Cardinality(U) /\ order \in Seq(N)
    <2>1. 5 \in Nat OBVIOUS
    <2> HIDE DEF q, U, at, N
    <2>4. \A h \in 1..5 : Len(q[h]) = Cardinality({x \in U : at[x] = h}) BY <1>3
    <2>5. Parts(q, 5, U, at) BY <1>2, <1>4, <2>4 DEF Parts
    <2>2. Len(order) = Cardinality(U) BY <1>5, <2>1, <2>5, PartsCounted
    <2>3. order \in Seq(N) BY <1>5, <2>1, FlattenHas
    <2> QED BY <2>2, <2>3
  <1>7. r.listed = listed /\ r.more = Len(order) - Len(listed) BY DEF T!buildReviewMarkdown
  <1> HIDE DEF order, U
  <1>8. Len(order) \in Nat BY <1>6
  <1>9. Len(listed) \in Nat
    <2> DEFINE c == T!Clamp(maxTokens \div 50, 5, 40)
               k == IF c < Len(order) THEN c ELSE Len(order)
    <2>1. listed = SubSeq(order, 1, k) BY DEF T!First
    <2> QED BY <1>6, <2>1
  <1> QED BY <1>6, <1>7, <1>8, <1>9 DEF U

\* A symbol is untested when no TESTS edge leads to it.
LEMMA UntestedHasNone ==
    ASSUME NEW g, IsGraph(g), NEW c
    PROVE  Len(T!neighborIDs(g, c, "inbound", <<"TESTS">>)) = 0
             <=> \A e \in DOMAIN g.edge : ~(g.edge[e].type = "TESTS" /\ g.edge[e].tgt = c)
  <1> DEFINE m == Len(g.edge)
             E == DOMAIN g.edge
             types == <<"TESTS">>
             out == {e \in E : g.edge[e].type = "TESTS" /\ g.edge[e].tgt = c}
             s == T!InOrder(out, m)
             q == [i \in 1..1 |-> s]
             es == T!FlattenSeq(q)
             ns == [i \in DOMAIN es |-> g.edge[es[i]].src]
  <1>1. m \in Nat /\ E = 1..m BY DEF IsGraph, IsASequence
  <1>2. T!neighborIDs(g, c, "inbound", types) = ns
    <2>1. \A e : T!Source(g, e, "inbound") = g.edge[e].tgt /\ T!Target(g, e, "inbound") = g.edge[e].src
      BY DEF T!Source, T!Target
    <2>2. DOMAIN types = 1..1 /\ types[1] = "TESTS" /\ \A i \in 1..1 : i = 1 OBVIOUS
    <2> DEFINE of(t) == T!InOrder({e \in E : g.edge[e].type = t /\ g.edge[e].tgt = c}, m)
    <2>3. [i \in DOMAIN types |-> of(types[i])] = q
      <3>1. \A i \in 1..1 : of(types[i]) = s BY <2>2
      <3> HIDE DEF of, s, types
      <3> QED BY <2>2, <3>1
    <2>4. T!neighborIDs(g, c, "inbound", types) =
            LET fs == T!FlattenSeq([i \in DOMAIN types |-> of(types[i])])
            IN  [i \in DOMAIN fs |-> g.edge[fs[i]].src]
      <3> HIDE DEF types
      <3> QED BY <2>1 DEF T!neighborIDs
    <2> HIDE DEF q, of, types
    <2> QED BY <2>3, <2>4
  <1>3. s \in Seq(E) /\ ElementsOf(s) = out
    <2>1. out \cap (1..m) = out /\ out \subseteq E BY <1>1
    <2> HIDE DEF out, E, m
    <2>2. Lists(s, out) BY <1>1, <2>1, OrderLists
    <2> HIDE DEF s
    <2>3. s \in Seq(E) BY <2>1, <2>2 DEF Lists
    <2>4. ElementsOf(s) = out BY <2>2 DEF Lists, ElementsOf
    <2> QED BY <2>3, <2>4
  <1> HIDE DEF s
  <1>4. es \in Seq(E) /\ ElementsOf(es) = out
    <2>1. 1 \in Nat OBVIOUS
    <2>2. q \in [1..1 -> Seq(E)] /\ q[1] = s BY <1>3
    <2> HIDE DEF q, E
    <2>3. T!FlattenSeq(q) \in Seq(E) /\ ElementsOf(T!FlattenSeq(q)) = UNION {ElementsOf(q[i]) : i \in 1..1}
      BY <2>1, <2>2, FlattenHas
    <2>4. \A i \in 1..1 : i = 1 OBVIOUS
    <2>5. UNION {ElementsOf(q[i]) : i \in 1..1} = ElementsOf(q[1]) BY <2>4
    <2> QED BY <1>3, <2>2, <2>3, <2>5
  <1> HIDE DEF es
  <1>5. Len(ns) = Len(es) /\ Len(es) \in Nat /\ DOMAIN es = 1..Len(es)
    <2>1. Len(es) \in Nat /\ DOMAIN es = 1..Len(es) BY <1>4
    <2> QED BY <2>1
  <1> HIDE DEF ns
  <1>6. Len(es) = 0 <=> out = {}
    <2>1. ElementsOf(es) = {es[i] : i \in 1..Len(es)} BY <1>5 DEF ElementsOf
    <2>2. Len(es) # 0 => 1 \in 1..Len(es) BY <1>5
    <2> HIDE DEF out
    <2> QED BY <1>4, <1>5, <2>1, <2>2
  <1> QED BY <1>2, <1>5, <1>6

\* For every graph, diff, depth and budget: detect_changes shows every caller in
\* reach of a changed symbol at its nearest distance and no other, and a review
\* lists or counts each of them and calls untested what no test leads to, when no
\* search of a changed symbol was cut off (detect_changes.go, review_context.go).
THEOREM ImpactIsExact ==
    ASSUME BFSCap \in Nat \ {0},
           NEW g, IsGraph(g), NEW files, IsADiff(files), NEW depth \in Int, NEW maxTokens
    PROVE  T!ImpactNearest(g, files, depth, maxTokens)
  <1> DEFINE N == DOMAIN g.node
             d == T!Clamp(depth, 1, 5)
             changed == T!mapChangesToSymbols(g, files)
             impacted == T!traceImpact(g, changed, d)
             impact == impacted.impact
             a == T!handleDetectChanges(g, files, depth)
             r == T!handleGetReviewContext(g, files, depth, maxTokens)
             cs == ElementsOf(changed)
             near(n) == UNION {T!Distances(g, c, "inbound", d, n) : c \in cs}
  <1>1. d \in Nat \ {0} /\ d <= 5 BY DEF T!Clamp
  <1>2. a.changed = changed /\ a.impact = impact /\ a.summary.total = T!Cardinality(DOMAIN impact)
    BY DEF T!handleDetectChanges, T!buildDetectSummary
  <1>3. r = T!buildReviewMarkdown(g, changed, impacted, T!Clamp(maxTokens, 200, 2000))
    BY DEF T!handleGetReviewContext
  <1>4. r.untested = {changed[i] : i \in {i \in DOMAIN changed :
                         Len(T!neighborIDs(g, changed[i], "inbound", <<"TESTS">>)) = 0}}
    <2> DEFINE count(i) == Len(T!neighborIDs(g, changed[i], "inbound", <<"TESTS">>))
    <2> HIDE DEF changed, impacted
    <2>1. \A i \in DOMAIN changed : T!findTestCoverage(g, changed)[i].count = count(i)
      BY DEF T!findTestCoverage
    <2>2. r.untested = {changed[i] : i \in {i \in DOMAIN changed : T!findTestCoverage(g, changed)[i].count = 0}}
      BY <1>3 DEF T!buildReviewMarkdown
    <2> HIDE DEF count, r
    <2> QED BY <2>1, <2>2 DEF count
  <1>5. changed \in Seq(N) BY ChangedAreNodes
  <1>6. T!ToSet(changed) = cs BY DEF T!ToSet, ElementsOf
  <1> HIDE DEF changed, d, a, r
  <1>7. r.untested = {n \in cs : \A e \in DOMAIN g.edge : ~(g.edge[e].type = "TESTS" /\ g.edge[e].tgt = n)}
    <2>1. \A i \in DOMAIN changed :
            Len(T!neighborIDs(g, changed[i], "inbound", <<"TESTS">>)) = 0
              <=> \A e \in DOMAIN g.edge : ~(g.edge[e].type = "TESTS" /\ g.edge[e].tgt = changed[i])
      BY UntestedHasNone
    <2> QED BY <1>4, <2>1 DEF ElementsOf
  <1>8. SUFFICES ASSUME T!Uncut(g, cs, "inbound", d)
                 PROVE  /\ DOMAIN impact = {n \in N \ cs : near(n) # {}}
                        /\ \A n \in DOMAIN impact :
                              /\ impact[n].hop \in T!Distances(g, impact[n].by, "inbound", d, n)
                              /\ T!Nearest(impact[n].hop, near(n))
                        /\ T!Cardinality(DOMAIN impact) = Len(r.listed) + r.more
    <2> HIDE DEF cs, impact, N
    <2> QED BY <1>2, <1>6, <1>7 DEF T!ImpactNearest, d, a, r, N
  <1>9. \A c \in cs : ~IsCut(g, c, d) BY <1>8 DEF T!Uncut, IsCut
  <1>10. /\ DOMAIN impact = {n \in N \ cs : near(n) # {}}
         /\ \A n \in DOMAIN impact :
               /\ impact[n].hop \in T!Distances(g, impact[n].by, "inbound", d, n)
               /\ T!Nearest(impact[n].hop, near(n))
    <2>1. NearestOnly(impact, g, cs, d) BY <1>1, <1>5, <1>9, ImpactIsNearest
    <2> HIDE DEF impact, cs
    <2> QED BY <2>1 DEF NearestOnly, Away
  <1>11. \A n \in DOMAIN impact : impact[n].hop \in 1..5
    <2>1. \A c, n : T!Distances(g, c, "inbound", d, n) \subseteq 1..d BY DEF T!Distances
    <2>2. 1..d \subseteq 1..5 BY <1>1
    <2> HIDE DEF impact
    <2> QED BY <1>10, <2>1, <2>2
  <1>12. Len(r.listed) + r.more = Cardinality(DOMAIN impact)
    <2>1. DOMAIN impacted.impact \subseteq N BY <1>10
    <2> HIDE DEF impacted
    <2> QED BY <1>3, <1>11, <2>1, BudgetCounts
  <1>13. T!Cardinality(DOMAIN impact) = Cardinality(DOMAIN impact) BY DEF T!Cardinality, Cardinality
  <1> QED BY <1>10, <1>12, <1>13

-----------------------------------------------------------------------------
(* Tainted paths.                                                         *)

\* A row that a source's search tells, as a pair.
PairOf(g, src, row, d) ==
    LET v == T!pathSanitized(g, src, row.node, d, T!Sanitizers(g))
    IN  [source |-> src, sink |-> row.node, hops |-> row.hop, sanitized |-> v.sanitized, by |-> v.by]
PairsOf(g, d) == {PairOf(g, w[1], w[2], d) : w \in (DOMAIN g.node) \X RowsOf(DOMAIN g.node)}
LEMMA PairFields ==
    ASSUME NEW g, NEW src, NEW row, NEW d
    PROVE  /\ PairOf(g, src, row, d).source = src /\ PairOf(g, src, row, d).sink = row.node
           /\ PairOf(g, src, row, d).hops = row.hop
           /\ PairOf(g, src, row, d).sanitized
                = T!pathSanitized(g, src, row.node, d, T!Sanitizers(g)).sanitized
           /\ PairOf(g, src, row, d).by = T!pathSanitized(g, src, row.node, d, T!Sanitizers(g)).by
  <1> DEFINE v == T!pathSanitized(g, src, row.node, d, T!Sanitizers(g))
             p == PairOf(g, src, row, d)
  <1> HIDE DEF v
  <1>1. p = [source |-> src, sink |-> row.node, hops |-> row.hop, sanitized |-> v.sanitized, by |-> v.by]
    BY DEF PairOf, v
  <1> HIDE DEF p
  <1>2. p.source = src /\ p.sink = row.node /\ p.hops = row.hop /\ p.sanitized = v.sanitized /\ p.by = v.by
    BY <1>1
  <1> QED BY <1>2 DEF p, v

\* What add does to the pairs told so far.
AddPair(g, sinks, max, d, src, acc, row) ==
    IF \/ Len(acc) >= max \/ row.node \notin sinks
       \/ \E i \in DOMAIN acc : acc[i].source = src /\ acc[i].sink = row.node
      THEN acc ELSE Append(acc, PairOf(g, src, row, d))
AddPairs(g, sinks, max, d, src, acc, rows) ==
    (CHOOSE it : it = [s \in SUBSET (DOMAIN rows) |->
        IF s = {} THEN acc
        ELSE AddPair(g, sinks, max, d, src, it[s \ {T!Max(s)}], rows[T!Max(s)])])[DOMAIN rows]

\* Pairs told once each, with their distances; and all that are due, unless the
\* list is full.
Tells(acc, u) == \E i \in 1..Len(acc) : acc[i].source = u[1] /\ acc[i].sink = u[2]
Once(acc) == \A i, j \in 1..Len(acc) : acc[i].source = acc[j].source /\ acc[i].sink = acc[j].sink => i = j
AtDistance(p, g, d) == T!Nearest(p.hops, T!Distances(g, p.source, "outbound", d, p.sink))
ToldOnce(acc, g, d) ==
    /\ acc \in Seq(PairsOf(g, d)) /\ Once(acc)
    /\ \A i \in 1..Len(acc) : AtDistance(acc[i], g, d)
Paid(acc, max, due) == Len(acc) >= max \/ \A u \in due : Tells(acc, u)
Due(src, rows, sinks, k) == {<<src, rows[j].node>> : j \in {j \in 1..k : rows[j].node \in sinks}}

\* One more row.
LEMMA AddPairOne ==
    ASSUME NEW g, NEW sinks, NEW max \in Int, NEW d \in Nat, NEW src \in DOMAIN g.node, NEW rows,
           Walked(rows, T!Levels(g, src, "outbound", T!TaintTypes, d, 0), DOMAIN g.node, d),
           NEW k \in 1..Len(rows), NEW due, NEW acc, ToldOnce(acc, g, d),
           Paid(acc, max, due \cup Due(src, rows, sinks, k - 1)),
           NEW r, r = AddPair(g, sinks, max, d, src, acc, rows[k])
    PROVE  ToldOnce(r, g, d) /\ Paid(r, max, due \cup Due(src, rows, sinks, k))
  <1> DEFINE N == DOMAIN g.node
             at == T!Levels(g, src, "outbound", T!TaintTypes, d, 0)
             row == rows[k]
             x == row.node
             p == PairOf(g, src, row, d)
             n == Len(acc)
             older == Due(src, rows, sinks, k - 1)
             newer == Due(src, rows, sinks, k)
  <1>1. rows \in Seq(RowsOf(N)) /\ Nearer(rows, at, d) BY DEF Walked
  <1>2. k \in Nat /\ 1..k = (1..(k - 1)) \cup {k} /\ row \in RowsOf(N) BY <1>1
  <1>3. x \in N /\ row.hop \in Nat BY <1>2 DEF RowsOf
  <1>4. acc \in Seq(PairsOf(g, d)) /\ n \in Nat /\ DOMAIN acc = 1..n BY DEF ToldOnce
  <1>5. newer = IF x \in sinks THEN older \cup {<<src, x>>} ELSE older
    <2>1. \A j \in 1..k : j \in 1..(k - 1) \/ j = k BY <1>2
    <2>2. 1..(k - 1) \subseteq 1..k /\ k \in 1..k BY <1>2
    <2> QED BY <2>1, <2>2 DEF Due
  <1> HIDE DEF older, newer
  <1>6. Paid(acc, max, due \cup older) BY DEF older
  <1>7. CASE n >= max
    <2>1. r = acc BY <1>7 DEF AddPair
    <2> QED BY <1>7, <2>1 DEF Paid
  <1>8. CASE x \notin sinks
    <2>1. r = acc BY <1>8 DEF AddPair
    <2> QED BY <1>5, <1>6, <1>8, <2>1 DEF newer
  <1>9. CASE Tells(acc, <<src, x>>)
    <2>1. r = acc BY <1>4, <1>9 DEF AddPair, Tells
    <2>2. Paid(acc, max, due \cup newer) BY <1>5, <1>6, <1>9 DEF Paid
    <2> QED BY <2>1, <2>2 DEF newer
  <1>10. CASE ~(n >= max) /\ x \in sinks /\ ~Tells(acc, <<src, x>>)
    <2>1. r = Append(acc, p) BY <1>4, <1>10 DEF AddPair, Tells
    <2>2. p.source = src /\ p.sink = x /\ p.hops = row.hop BY PairFields
    <2>3. p \in PairsOf(g, d)
      <3>1. <<src, row>> \in N \X RowsOf(N) /\ <<src, row>>[1] = src /\ <<src, row>>[2] = row BY <1>2
      <3> QED BY <3>1 DEF PairsOf
    <2> HIDE DEF p
    <2>4. /\ r \in Seq(PairsOf(g, d)) /\ Len(r) = n + 1 /\ r[n + 1] = p
          /\ \A i \in 1..n : r[i] = acc[i]
      BY <1>4, <2>1, <2>3
    <2>5. \A i \in 1..Len(r) : i \in 1..n \/ i = n + 1 BY <1>4, <2>4
    <2>6. \A i \in 1..n : ~(acc[i].source = src /\ acc[i].sink = x) BY <1>10 DEF Tells
    <2>7. Once(r)
      <3> SUFFICES ASSUME NEW i \in 1..Len(r), NEW j \in 1..Len(r),
                          r[i].source = r[j].source, r[i].sink = r[j].sink
                   PROVE  i = j
        BY DEF Once
      <3>1. CASE i \in 1..n /\ j \in 1..n BY <2>4, <3>1 DEF ToldOnce, Once
      <3>2. CASE i \in 1..n /\ j = n + 1 BY <2>2, <2>4, <2>6, <3>2
      <3>3. CASE i = n + 1 /\ j \in 1..n BY <2>2, <2>4, <2>6, <3>3
      <3> QED BY <2>5, <3>1, <3>2, <3>3
    <2>8. AtDistance(p, g, d)
      <3> DEFINE D == T!Distances(g, src, "outbound", d, x)
      <3>1. D = {h \in 1..d : x \in at[h]} BY DEF T!Distances
      <3>2. row.hop \in D BY <1>1, <3>1 DEF Nearer
      <3>3. ASSUME NEW h \in D, ~(row.hop <= h) PROVE FALSE
        <4>1. h \in 1..(row.hop - 1) /\ x \in at[h] BY <1>3, <3>1, <3>3
        <4>2. Told(rows, k - 1, x, h) BY <1>1, <4>1 DEF Nearer
        <4>3. PICK j \in 1..(k - 1) : rows[j] = RowAt(x, h) BY <4>2 DEF Told
        <4>4. rows[j].node = x BY <4>3 DEF RowAt
        <4>5. <<src, x>> \in older BY <1>10, <4>4 DEF older, Due
        <4> QED BY <1>6, <1>10, <4>5 DEF Paid
      <3> HIDE DEF D
      <3>4. T!Nearest(row.hop, D) BY <3>2, <3>3 DEF T!Nearest
      <3> QED BY <2>2, <3>4 DEF AtDistance, D
    <2>9. ToldOnce(r, g, d)
      <3>1. \A i \in 1..Len(r) : AtDistance(r[i], g, d)
        <4> TAKE i \in 1..Len(r)
        <4>1. CASE i \in 1..n BY <2>4, <4>1 DEF ToldOnce
        <4>2. CASE i = n + 1 BY <2>4, <2>8, <4>2
        <4> QED BY <2>5, <4>1, <4>2
      <3> QED BY <2>4, <2>7, <3>1 DEF ToldOnce
    <2>10. \A u \in due \cup newer : Tells(r, u)
      <3> TAKE u \in due \cup newer
      <3>1. 1..n \subseteq 1..Len(r) /\ n + 1 \in 1..Len(r) BY <1>4, <2>4
      <3>2. CASE u \in due \cup older
        <4>1. Tells(acc, u) BY <1>6, <1>10, <3>2 DEF Paid
        <4> QED BY <2>4, <3>1, <4>1 DEF Tells
      <3>3. CASE u = <<src, x>>
        <4>1. u[1] = src /\ u[2] = x BY <3>3
        <4> QED BY <2>2, <2>4, <3>1, <4>1 DEF Tells
      <3> QED BY <1>5, <3>2, <3>3
    <2> QED BY <2>9, <2>10 DEF Paid, newer
  <1> QED BY <1>7, <1>8, <1>9, <1>10

\* All the rows of a source.
LEMMA AddPairsAll ==
    ASSUME NEW g, NEW sinks, NEW max \in Int, NEW d \in Nat, NEW src \in DOMAIN g.node, NEW rows,
           Walked(rows, T!Levels(g, src, "outbound", T!TaintTypes, d, 0), DOMAIN g.node, d),
           NEW due, NEW acc, ToldOnce(acc, g, d), Paid(acc, max, due),
           NEW r, r = AddPairs(g, sinks, max, d, src, acc, rows)
    PROVE  ToldOnce(r, g, d) /\ Paid(r, max, due \cup Due(src, rows, sinks, Len(rows)))
  <1> DEFINE N == DOMAIN g.node
             n == Len(rows)
             S == Seq(PairsOf(g, d))
             add(a, row) == AddPair(g, sinks, max, d, src, a, row)
             st == [w \in S \X (1..n) |-> add(w[1], rows[w[2]])]
             Is(it) == it = [s \in SUBSET (1..n) |->
                 IF s = {} THEN acc ELSE add(it[s \ {T!Max(s)}], rows[T!Max(s)])]
             it == CHOOSE it : Is(it)
  <1>1. n \in Nat /\ DOMAIN rows = 1..n /\ \A k \in 1..n : rows[k] \in RowsOf(N) BY DEF Walked
  <1>2. r = it[1..n] BY <1>1 DEF AddPairs
  <1>3. \A a \in S : \A k \in 1..n : st[<<a, k>>] = add(a, rows[k]) OBVIOUS
  <1> HIDE DEF st
  <1>4. ASSUME NEW a \in S, NEW k \in 1..n PROVE add(a, rows[k]) \in S
    <2> DEFINE p == PairOf(g, src, rows[k], d)
    <2>1. <<src, rows[k]>> \in N \X RowsOf(N) /\ <<src, rows[k]>>[1] = src /\ <<src, rows[k]>>[2] = rows[k]
      BY <1>1
    <2>2. p \in PairsOf(g, d) BY <2>1 DEF PairsOf
    <2>3. Append(a, p) \in S
      <3> HIDE DEF p
      <3> QED BY <2>2
    <2> HIDE DEF p, S
    <2> QED BY <2>3 DEF AddPair, p
  <1> HIDE DEF S, add
  <1>5. acc \in S BY DEF ToldOnce, S
  <1>6. StaysIn(S, n, st) BY <1>3, <1>4 DEF StaysIn
  <1>7. Is(it)
    <2>1. PICK f : FoldsOver(f, S, acc, n, st) BY <1>1, <1>5, <1>6, FoldThere
    <2>2. \A s \in SUBSET (1..n) :
             f[s] = IF s = {} THEN acc ELSE add(f[s \ {T!Max(s)}], rows[T!Max(s)])
      <3> TAKE s \in SUBSET (1..n)
      <3>1. CASE s = {} BY <2>1, <3>1 DEF FoldsOver
      <3>2. CASE s # {} BY <1>3, <2>1, <3>2 DEF FoldsOver
      <3> QED BY <3>1, <3>2
    <2>3. f = [s \in SUBSET (1..n) |-> f[s]] BY <2>1 DEF FoldsOver
    <2>4. Is(f) BY <2>2, <2>3
    <2> HIDE DEF Is
    <2> QED BY <2>4
  <1> HIDE DEF it
  <1>8. it[{}] = acc BY <1>7
  <1>9. ASSUME NEW s \in SUBSET (1..n), s # {}, it[s \ {T!Max(s)}] \in S
        PROVE  it[s] = st[<<it[s \ {T!Max(s)}], T!Max(s)>>]
    <2>1. T!Max(s) \in s BY <1>1, <1>9, Greatest
    <2>2. T!Max(s) \in 1..n BY <2>1
    <2>3. it[s] = add(it[s \ {T!Max(s)}], rows[T!Max(s)]) BY <1>7, <1>9
    <2> QED BY <1>3, <1>9, <2>2, <2>3
  <1>10. PICK f : StepsFrom(f, S, acc, n, st) /\ it[1..n] = f[n]
    <2>1. Unfolds(it, S, acc, n, st) BY <1>8, <1>9 DEF Unfolds
    <2>2. EndsAt(it[1..n], S, acc, n, st) BY <1>1, <1>5, <1>6, <2>1, FoldEnds
    <2> QED BY <2>2 DEF EndsAt
  <1> DEFINE upto(k) == due \cup Due(src, rows, sinks, k)
             P == {k \in 0..n : ToldOnce(f[k], g, d) /\ Paid(f[k], max, upto(k))}
  <1>11. 0 \in P
    <2>1. f[0] = acc BY <1>10 DEF StepsFrom
    <2>2. upto(0) = due BY DEF Due
    <2> HIDE DEF upto
    <2> QED BY <1>1, <2>1, <2>2
  <1>12. ASSUME NEW k \in 1..n, k - 1 \in P PROVE k \in P
    <2>1. k \in 0..n /\ k - 1 \in 0..n BY <1>1
    <2>2. f[k] = st[<<f[k - 1], k>>] /\ f[k - 1] \in S BY <1>10, <2>1 DEF StepsFrom
    <2>3. f[k] = AddPair(g, sinks, max, d, src, f[k - 1], rows[k]) BY <1>3, <2>2 DEF add
    <2> DEFINE a == f[k - 1]
               b == f[k]
    <2>4. ToldOnce(a, g, d) /\ Paid(a, max, due \cup Due(src, rows, sinks, k - 1)) BY <1>12
    <2>5. b = AddPair(g, sinks, max, d, src, a, rows[k]) BY <2>3
    <2> HIDE DEF a, b, P, n
    <2>6. k \in 1..Len(rows) BY DEF n
    <2>7. ToldOnce(b, g, d) /\ Paid(b, max, due \cup Due(src, rows, sinks, k))
      BY <2>4, <2>5, <2>6, AddPairOne
    <2> QED BY <2>1, <2>7 DEF b, P
  <1>13. n \in P
    <2>1. \A k \in 1..n : k - 1 \in P => k \in P BY <1>12
    <2>2. n \in 0..n BY <1>1
    <2> HIDE DEF P
    <2> QED BY <1>1, <1>11, <2>1, <2>2, UpTo
  <1> QED BY <1>2, <1>10, <1>13

\* What all the sources find.
RowsFrom(g, src, d) == T!BFS(g, src, "outbound", T!TaintTypes, d, BFSCap, 0).visited
LEMMA RowsAreVisited ==
    ASSUME NEW g, NEW src, NEW d
    PROVE  RowsFrom(g, src, d) = T!bfsVisited(g, src, "outbound", T!TaintTypes, d, BFSCap, 0).visited
  <1> DEFINE found == T!bfsVisited(g, src, "outbound", T!TaintTypes, d, BFSCap, 0)
             told == T!BFS(g, src, "outbound", T!TaintTypes, d, BFSCap, 0)
  <1>1. \E e : told = [visited |-> found.visited, truncated |-> found.truncated, edges |-> e] BY DEF T!BFS
  <1> HIDE DEF found, told
  <1>2. told.visited = found.visited BY <1>1
  <1> QED BY <1>2 DEF RowsFrom, told, found

AddSource(g, sinks, max, d, acc, src) == AddPairs(g, sinks, max, d, src, acc, RowsFrom(g, src, d))
AddSources(g, sinks, max, d, srcs) ==
    (CHOOSE it : it = [s \in SUBSET (DOMAIN srcs) |->
        IF s = {} THEN <<>>
        ELSE AddSource(g, sinks, max, d, it[s \ {T!Max(s)}], srcs[T!Max(s)])])[DOMAIN srcs]
DueOf(g, src, sinks, d) == Due(src, RowsFrom(g, src, d), sinks, Len(RowsFrom(g, src, d)))
AllDue(g, srcs, sinks, d) == UNION {DueOf(g, srcs[i], sinks, d) : i \in 1..Len(srcs)}

LEMMA AddSourcesAll ==
    ASSUME BFSCap \in Nat \ {0}, NEW g, IsGraph(g), NEW sinks, NEW max \in Int, NEW d \in Nat \ {0},
           NEW srcs \in Seq(DOMAIN g.node), NEW r, r = AddSources(g, sinks, max, d, srcs)
    PROVE  ToldOnce(r, g, d) /\ Paid(r, max, AllDue(g, srcs, sinks, d))
  <1> DEFINE N == DOMAIN g.node
             n == Len(srcs)
             S == {acc \in Seq(PairsOf(g, d)) : ToldOnce(acc, g, d)}
             add(a, src) == AddSource(g, sinks, max, d, a, src)
             st == [w \in S \X (1..n) |-> add(w[1], srcs[w[2]])]
             Is(it) == it = [s \in SUBSET (1..n) |->
                 IF s = {} THEN <<>> ELSE add(it[s \ {T!Max(s)}], srcs[T!Max(s)])]
             it == CHOOSE it : Is(it)
  <1>1. n \in Nat /\ DOMAIN srcs = 1..n /\ \A k \in 1..n : srcs[k] \in N OBVIOUS
  <1>2. r = it[1..n] BY <1>1 DEF AddSources
  <1>3. \A a \in S : \A k \in 1..n : st[<<a, k>>] = add(a, srcs[k]) OBVIOUS
  <1> HIDE DEF st
  <1>4. ASSUME NEW a, ToldOnce(a, g, d), NEW due, Paid(a, max, due), NEW src \in N
        PROVE  ToldOnce(add(a, src), g, d) /\ Paid(add(a, src), max, due \cup DueOf(g, src, sinks, d))
    <2> DEFINE rows == RowsFrom(g, src, d)
               b == add(a, src)
    <2>1. Walked(rows, T!Levels(g, src, "outbound", T!TaintTypes, d, 0), N, d)
      BY SearchWalks, RowsAreVisited
    <2>2. b = AddPairs(g, sinks, max, d, src, a, rows) BY DEF AddSource
    <2>3. d \in Nat OBVIOUS
    <2> HIDE DEF rows, b
    <2>4. ToldOnce(b, g, d) /\ Paid(b, max, due \cup Due(src, rows, sinks, Len(rows)))
      BY <1>4, <2>1, <2>2, <2>3, AddPairsAll
    <2> QED BY <2>4 DEF DueOf, rows, b
  <1>5. \A a \in S : \A k \in 1..n : add(a, srcs[k]) \in S
    <2> TAKE a \in S
    <2> TAKE k \in 1..n
    <2>1. Paid(a, max, {}) /\ srcs[k] \in N BY <1>1 DEF Paid
    <2> DEFINE src == srcs[k]
    <2> HIDE DEF add, src
    <2>2. ToldOnce(add(a, src), g, d) BY <1>4, <2>1 DEF src
    <2> QED BY <2>2 DEF src, ToldOnce
  <1> HIDE DEF add
  <1>6. <<>> \in S /\ ToldOnce(<<>>, g, d) BY DEF ToldOnce, Once
  <1> HIDE DEF S
  <1>7. StaysIn(S, n, st) BY <1>3, <1>5 DEF StaysIn
  <1>8. Is(it)
    <2>1. PICK f : FoldsOver(f, S, <<>>, n, st) BY <1>1, <1>6, <1>7, FoldThere
    <2>2. \A s \in SUBSET (1..n) :
             f[s] = IF s = {} THEN <<>> ELSE add(f[s \ {T!Max(s)}], srcs[T!Max(s)])
      <3> TAKE s \in SUBSET (1..n)
      <3>1. CASE s = {} BY <2>1, <3>1 DEF FoldsOver
      <3>2. CASE s # {} BY <1>3, <2>1, <3>2 DEF FoldsOver
      <3> QED BY <3>1, <3>2
    <2>3. f = [s \in SUBSET (1..n) |-> f[s]] BY <2>1 DEF FoldsOver
    <2>4. Is(f) BY <2>2, <2>3
    <2> HIDE DEF Is
    <2> QED BY <2>4
  <1> HIDE DEF it
  <1>9. it[{}] = <<>> BY <1>8
  <1>10. ASSUME NEW s \in SUBSET (1..n), s # {}, it[s \ {T!Max(s)}] \in S
         PROVE  it[s] = st[<<it[s \ {T!Max(s)}], T!Max(s)>>]
    <2>1. T!Max(s) \in s BY <1>1, <1>10, Greatest
    <2>2. T!Max(s) \in 1..n BY <2>1
    <2>3. it[s] = add(it[s \ {T!Max(s)}], srcs[T!Max(s)]) BY <1>8, <1>10
    <2> QED BY <1>3, <1>10, <2>2, <2>3
  <1>11. PICK f : StepsFrom(f, S, <<>>, n, st) /\ it[1..n] = f[n]
    <2>1. Unfolds(it, S, <<>>, n, st) BY <1>9, <1>10 DEF Unfolds
    <2>2. EndsAt(it[1..n], S, <<>>, n, st) BY <1>1, <1>6, <1>7, <2>1, FoldEnds
    <2> QED BY <2>2 DEF EndsAt
  <1> DEFINE of(i) == DueOf(g, srcs[i], sinks, d)
             upto(k) == UNION {of(i) : i \in 1..k}
             P == {k \in 0..n : ToldOnce(f[k], g, d) /\ Paid(f[k], max, upto(k))}
  <1> HIDE DEF of
  <1>12. 0 \in P
    <2>1. f[0] = <<>> BY <1>11 DEF StepsFrom
    <2>2. upto(0) = {} OBVIOUS
    <2>3. Paid(f[0], max, {}) BY DEF Paid
    <2>4. 0 \in 0..n /\ ToldOnce(f[0], g, d) BY <1>1, <1>6, <2>1
    <2> HIDE DEF upto
    <2>5. Paid(f[0], max, upto(0)) BY <2>2, <2>3
    <2> QED BY <2>4, <2>5
  <1>13. ASSUME NEW k \in 1..n, k - 1 \in P PROVE k \in P
    <2>1. k \in 0..n /\ k - 1 \in 0..n BY <1>1
    <2>2. f[k] = st[<<f[k - 1], k>>] /\ f[k - 1] \in S BY <1>11, <2>1 DEF StepsFrom
    <2>3. f[k] = add(f[k - 1], srcs[k]) BY <1>3, <2>2
    <2> DEFINE a == f[k - 1]
               src == srcs[k]
               due == upto(k - 1)
    <2>4. ToldOnce(a, g, d) /\ Paid(a, max, due) BY <1>13
    <2>5. src \in N BY <1>1
    <2>6. upto(k) = due \cup of(k)
      <3>1. 1..k = (1..(k - 1)) \cup {k} BY <1>1
      <3> QED BY <3>1
    <2> HIDE DEF a, src, due, upto, P
    <2>7. ToldOnce(add(a, src), g, d) /\ Paid(add(a, src), max, due \cup DueOf(g, src, sinks, d))
      BY <1>4, <2>4, <2>5
    <2>8. of(k) = DueOf(g, src, sinks, d) BY DEF of, src
    <2>9. f[k] = add(a, src) BY <2>3 DEF a, src
    <2>10. ToldOnce(f[k], g, d) /\ Paid(f[k], max, upto(k)) BY <2>6, <2>7, <2>8, <2>9
    <2> QED BY <2>1, <2>10 DEF P
  <1>14. n \in P
    <2>1. \A k \in 1..n : k - 1 \in P => k \in P BY <1>13
    <2>2. n \in 0..n BY <1>1
    <2> HIDE DEF P
    <2> QED BY <1>1, <1>12, <2>1, <2>2, UpTo
  <1> QED BY <1>2, <1>11, <1>14 DEF of, AllDue

\* The nodes next to a node are nodes.
LEMMA NeighborsAreNodes ==
    ASSUME NEW g, IsGraph(g), NEW n, NEW dir, NEW types, IsASequence(types)
    PROVE  T!neighborIDs(g, n, dir, types) \in Seq(DOMAIN g.node)
  <1> DEFINE m == Len(g.edge)
             E == DOMAIN g.edge
             N == DOMAIN g.node
             l == Len(types)
             of(t) == T!InOrder({e \in DOMAIN g.edge :
                                    g.edge[e].type = t /\ T!Source(g, e, dir) = n}, Len(g.edge))
             q == [i \in DOMAIN types |-> of(types[i])]
             es == T!FlattenSeq(q)
             ns == [i \in DOMAIN es |-> T!Target(g, es[i], dir)]
  <1>1. m \in Nat /\ E = 1..m BY DEF IsGraph, IsASequence
  <1>2. T!neighborIDs(g, n, dir, types) = ns BY DEF T!neighborIDs
  <1>3. ASSUME NEW t PROVE of(t) \in Seq(E)
    <2> DEFINE U == {e \in DOMAIN g.edge : g.edge[e].type = t /\ T!Source(g, e, dir) = n}
    <2>1. U \cap (1..m) = U BY <1>1
    <2> DEFINE s == T!InOrder(U, m)
    <2>2. U \subseteq E OBVIOUS
    <2> HIDE DEF U, E, m
    <2>3. Lists(s, U \cap (1..m)) BY <1>1, OrderLists
    <2> HIDE DEF s
    <2>4. s \in Seq(U) BY <2>1, <2>3 DEF Lists
    <2>5. s \in Seq(E) BY <2>2, <2>4
    <2> QED BY <2>5 DEF s, U, m
  <1> HIDE DEF of
  <1>4. es \in Seq(E)
    <2>1. l \in Nat /\ DOMAIN types = 1..l BY DEF IsASequence
    <2>2. q \in [1..l -> Seq(E)] BY <1>3, <2>1
    <2> HIDE DEF q, E, l
    <2> QED BY <2>1, <2>2, FlattenHas
  <1> HIDE DEF es
  <1>5. \A e \in E : T!Target(g, e, dir) \in N BY DEF IsGraph, T!Target
  <1>6. ns \in Seq(N)
    <2> HIDE DEF E, N
    <2>1. Len(es) \in Nat /\ DOMAIN es = 1..Len(es) /\ \A i \in DOMAIN es : es[i] \in E BY <1>4
    <2> QED BY <1>5, <2>1
  <1> QED BY <1>2, <1>6

\* The sources without main: what enter, callee and refine do.
Enter(acc, n) ==
    IF n \in acc.seen THEN acc
    ELSE [seen |-> acc.seen \cup {n}, refined |-> Append(acc.refined, n)]
Callee(g, acc, n) == IF g.node[n].infra THEN acc ELSE Enter(acc, n)
Callees(g, acc, ns) ==
    (CHOOSE it : it = [s \in SUBSET (DOMAIN ns) |->
        IF s = {} THEN acc ELSE Callee(g, it[s \ {T!Max(s)}], ns[T!Max(s)])])[DOMAIN ns]
Refine(g, acc, n) ==
    LET more == Callees(g, acc, T!neighborIDs(g, n, "outbound", <<"CALLS">>))
    IN  IF g.node[n].name # "main" \/ more.refined = acc.refined THEN Enter(acc, n) ELSE more
Refined(g, srcs) ==
    (CHOOSE it : it = [s \in SUBSET (DOMAIN srcs) |->
        IF s = {} THEN [seen |-> {}, refined |-> <<>>]
        ELSE Refine(g, it[s \ {T!Max(s)}], srcs[T!Max(s)])])[DOMAIN srcs].refined
Sorted(N) == [seen : SUBSET N, refined : Seq(N)]

LEMMA EnterSorts ==
    ASSUME NEW g, NEW N, NEW acc \in Sorted(N), NEW n \in N
    PROVE  Enter(acc, n) \in Sorted(N) /\ Callee(g, acc, n) \in Sorted(N)
  <1>1. acc.seen \in SUBSET N /\ acc.refined \in Seq(N) BY DEF Sorted
  <1>2. Append(acc.refined, n) \in Seq(N) BY <1>1
  <1>3. Enter(acc, n) \in Sorted(N) BY <1>1, <1>2 DEF Enter, Sorted
  <1> QED BY <1>3 DEF Callee

LEMMA CalleesSort ==
    ASSUME NEW g, NEW N, NEW acc \in Sorted(N), NEW ns \in Seq(N)
    PROVE  Callees(g, acc, ns) \in Sorted(N)
  <1> DEFINE n == Len(ns)
             S == Sorted(N)
             st == [w \in S \X (1..n) |-> Callee(g, w[1], ns[w[2]])]
             Is(it) == it = [s \in SUBSET (1..n) |->
                 IF s = {} THEN acc ELSE Callee(g, it[s \ {T!Max(s)}], ns[T!Max(s)])]
             it == CHOOSE it : Is(it)
  <1>1. n \in Nat /\ DOMAIN ns = 1..n /\ \A k \in 1..n : ns[k] \in N OBVIOUS
  <1>2. Callees(g, acc, ns) = it[1..n] BY <1>1 DEF Callees
  <1>3. \A a \in S : \A k \in 1..n : st[<<a, k>>] = Callee(g, a, ns[k]) OBVIOUS
  <1> HIDE DEF st
  <1>4. \A a \in S : \A k \in 1..n : Callee(g, a, ns[k]) \in S BY <1>1, EnterSorts
  <1> HIDE DEF S
  <1>5. acc \in S BY DEF S
  <1>6. StaysIn(S, n, st) BY <1>3, <1>4 DEF StaysIn
  <1>7. Is(it)
    <2>1. PICK f : FoldsOver(f, S, acc, n, st) BY <1>1, <1>5, <1>6, FoldThere
    <2>2. \A s \in SUBSET (1..n) :
             f[s] = IF s = {} THEN acc ELSE Callee(g, f[s \ {T!Max(s)}], ns[T!Max(s)])
      <3> TAKE s \in SUBSET (1..n)
      <3>1. CASE s = {} BY <2>1, <3>1 DEF FoldsOver
      <3>2. CASE s # {} BY <1>3, <2>1, <3>2 DEF FoldsOver
      <3> QED BY <3>1, <3>2
    <2>3. f = [s \in SUBSET (1..n) |-> f[s]] BY <2>1 DEF FoldsOver
    <2>4. Is(f) BY <2>2, <2>3
    <2> HIDE DEF Is
    <2> QED BY <2>4
  <1> HIDE DEF it
  <1>8. it[{}] = acc BY <1>7
  <1>9. ASSUME NEW s \in SUBSET (1..n), s # {}, it[s \ {T!Max(s)}] \in S
        PROVE  it[s] = st[<<it[s \ {T!Max(s)}], T!Max(s)>>]
    <2>1. T!Max(s) \in s BY <1>1, <1>9, Greatest
    <2>2. T!Max(s) \in 1..n BY <2>1
    <2>3. it[s] = Callee(g, it[s \ {T!Max(s)}], ns[T!Max(s)]) BY <1>7, <1>9
    <2> QED BY <1>3, <1>9, <2>2, <2>3
  <1>10. PICK f : StepsFrom(f, S, acc, n, st) /\ it[1..n] = f[n]
    <2>1. Unfolds(it, S, acc, n, st) BY <1>8, <1>9 DEF Unfolds
    <2>2. EndsAt(it[1..n], S, acc, n, st) BY <1>1, <1>5, <1>6, <2>1, FoldEnds
    <2> QED BY <2>2 DEF EndsAt
  <1>11. n \in 0..n BY <1>1
  <1> QED BY <1>2, <1>10, <1>11 DEF StepsFrom, S

LEMMA RefinedAreNodes ==
    ASSUME NEW g, IsGraph(g), NEW srcs \in Seq(DOMAIN g.node)
    PROVE  Refined(g, srcs) \in Seq(DOMAIN g.node)
  <1> DEFINE N == DOMAIN g.node
             n == Len(srcs)
             S == Sorted(N)
             b == [seen |-> {}, refined |-> <<>>]
             st == [w \in S \X (1..n) |-> Refine(g, w[1], srcs[w[2]])]
             Is(it) == it = [s \in SUBSET (1..n) |->
                 IF s = {} THEN b ELSE Refine(g, it[s \ {T!Max(s)}], srcs[T!Max(s)])]
             it == CHOOSE it : Is(it)
  <1>1. n \in Nat /\ DOMAIN srcs = 1..n /\ \A k \in 1..n : srcs[k] \in N OBVIOUS
  <1>2. Refined(g, srcs) = it[1..n].refined BY <1>1 DEF Refined
  <1>3. \A a \in S : \A k \in 1..n : st[<<a, k>>] = Refine(g, a, srcs[k]) OBVIOUS
  <1> HIDE DEF st
  <1>4. ASSUME NEW a \in S, NEW x \in N PROVE Refine(g, a, x) \in S
    <2> DEFINE ns == T!neighborIDs(g, x, "outbound", <<"CALLS">>)
    <2>1. IsASequence(<<"CALLS">>) BY DEF IsASequence, ElementsOf
    <2>2. ns \in Seq(N) BY <2>1, NeighborsAreNodes
    <2> HIDE DEF ns
    <2>3. Callees(g, a, ns) \in S BY <2>2, CalleesSort
    <2>4. Enter(a, x) \in S BY EnterSorts
    <2> QED BY <2>3, <2>4 DEF Refine, ns
  <1>5. b \in S BY DEF Sorted
  <1> HIDE DEF S, b
  <1>6. StaysIn(S, n, st) BY <1>1, <1>3, <1>4 DEF StaysIn
  <1>7. Is(it)
    <2>1. PICK f : FoldsOver(f, S, b, n, st) BY <1>1, <1>5, <1>6, FoldThere
    <2>2. \A s \in SUBSET (1..n) :
             f[s] = IF s = {} THEN b ELSE Refine(g, f[s \ {T!Max(s)}], srcs[T!Max(s)])
      <3> TAKE s \in SUBSET (1..n)
      <3>1. CASE s = {} BY <2>1, <3>1 DEF FoldsOver
      <3>2. CASE s # {} BY <1>3, <2>1, <3>2 DEF FoldsOver
      <3> QED BY <3>1, <3>2
    <2>3. f = [s \in SUBSET (1..n) |-> f[s]] BY <2>1 DEF FoldsOver
    <2>4. Is(f) BY <2>2, <2>3
    <2> HIDE DEF Is
    <2> QED BY <2>4
  <1> HIDE DEF it
  <1>8. it[{}] = b BY <1>7
  <1>9. ASSUME NEW s \in SUBSET (1..n), s # {}, it[s \ {T!Max(s)}] \in S
        PROVE  it[s] = st[<<it[s \ {T!Max(s)}], T!Max(s)>>]
    <2>1. T!Max(s) \in s BY <1>1, <1>9, Greatest
    <2>2. T!Max(s) \in 1..n BY <2>1
    <2>3. it[s] = Refine(g, it[s \ {T!Max(s)}], srcs[T!Max(s)]) BY <1>7, <1>9
    <2> QED BY <1>3, <1>9, <2>2, <2>3
  <1>10. PICK f : StepsFrom(f, S, b, n, st) /\ it[1..n] = f[n]
    <2>1. Unfolds(it, S, b, n, st) BY <1>8, <1>9 DEF Unfolds
    <2>2. EndsAt(it[1..n], S, b, n, st) BY <1>1, <1>5, <1>6, <2>1, FoldEnds
    <2> QED BY <2>2 DEF EndsAt
  <1>11. n \in 0..n BY <1>1
  <1>12. it[1..n] \in Sorted(N) BY <1>10, <1>11 DEF StepsFrom, S
  <1> DEFINE last == it[1..n]
  <1> HIDE DEF last
  <1>13. last.refined \in Seq(N) BY <1>12 DEF Sorted, last
  <1> QED BY <1>2, <1>13 DEF last

\* The model's sources and sinks are nodes, and its sanitizers.
Entering(g, excludeTests) == T!filterTestNodes(g, T!ByRole(g, "input_entry_point"), excludeTests)
Sensitive(g, excludeTests) == T!filterTestNodes(g, T!ByRole(g, "sensitive_sink"), excludeTests)
LEMMA RolesAreNodes ==
    ASSUME NEW g, IsGraph(g), NEW role, NEW ex
    PROVE  T!filterTestNodes(g, T!ByRole(g, role), ex) \in Seq(DOMAIN g.node)
  <1> DEFINE N == DOMAIN g.node
             n == Len(g.node)
             U == {x \in N : g.node[x].role = role}
             ns == T!InOrder(U, n)
             places == {i \in DOMAIN ns : ~ex \/ ~g.node[ns[i]].test}
  <1>1. n \in Nat /\ N = 1..n BY DEF IsGraph, IsASequence
  <1>2. ns \in Seq(N)
    <2>1. U \cap (1..n) = U /\ U \subseteq N BY <1>1
    <2> HIDE DEF U, n, N
    <2>2. Lists(ns, U \cap (1..n)) BY <1>1, OrderLists
    <2> HIDE DEF ns
    <2>3. ns \in Seq(U) BY <2>1, <2>2 DEF Lists
    <2> QED BY <2>1, <2>3
  <1>3. T!filterTestNodes(g, T!ByRole(g, role), ex) = T!AtPlaces(ns, places)
    BY DEF T!filterTestNodes, T!ByRole
  <1> HIDE DEF ns, N
  <1>4. places \in SUBSET (1..Len(ns)) BY <1>2
  <1> HIDE DEF places
  <1>5. Taken(T!AtPlaces(ns, places), ns, places, N) BY <1>2, <1>4, RowsTaken
  <1> QED BY <1>3, <1>5 DEF Taken, N

\* What handleTaintedPaths shows is told once each, and all that is due.
LEMMA PathsAreTold ==
    ASSUME BFSCap \in Nat \ {0}, NEW g, IsGraph(g), NEW max \in Int, NEW depth \in Int, NEW ex
    PROVE  LET d == T!Clamp(depth, 1, 6)
               sinks == T!ToSet(Sensitive(g, ex))
               srcs == T!refineSources(g, Entering(g, ex))
               paths == T!handleTaintedPaths(g, max, depth, ex).paths
           IN  /\ srcs \in Seq(DOMAIN g.node) /\ d \in Nat \ {0}
               /\ ToldOnce(paths, g, d)
               /\ sinks # {} => Paid(paths, max, AllDue(g, srcs, sinks, d))
  <1> DEFINE d == T!Clamp(depth, 1, 6)
             sinks == T!ToSet(Sensitive(g, ex))
             entry == Entering(g, ex)
             srcs == T!refineSources(g, entry)
             paths == T!handleTaintedPaths(g, max, depth, ex).paths
  <1>1. d \in Nat \ {0} BY DEF T!Clamp
  <1>2. entry \in Seq(DOMAIN g.node) BY RolesAreNodes DEF Entering
  <1>3. srcs = Refined(g, entry)
    BY DEF T!refineSources, T!FoldLeft, T!MapThenFoldSet, Refined, Refine, Callees, Callee, Enter
  <1>4. srcs \in Seq(DOMAIN g.node)
    <2> HIDE DEF entry
    <2> QED BY <1>2, <1>3, RefinedAreNodes
  <1>5. paths = IF sinks = {} THEN <<>> ELSE AddSources(g, sinks, max, d, srcs)
    <2> DEFINE other == IF sinks = {} THEN <<>> ELSE AddSources(g, sinks, max, d, srcs)
               told == T!handleTaintedPaths(g, max, depth, ex)
    <2>1. \E k : told = [paths |-> other, sanitized |-> k]
      BY DEF T!handleTaintedPaths, T!FoldLeft, T!MapThenFoldSet, AddSources, AddSource, AddPairs,
             AddPair, PairOf, RowsFrom, Entering, Sensitive
    <2> HIDE DEF other, told
    <2>2. told.paths = other BY <2>1
    <2> QED BY <2>2 DEF other, told
  <1> HIDE DEF d, sinks, entry, srcs, paths
  <1>6. CASE sinks = {}
    <2>1. paths = <<>> BY <1>5, <1>6
    <2>2. ToldOnce(<<>>, g, d) BY DEF ToldOnce, Once
    <2> QED BY <1>1, <1>4, <1>6, <2>1, <2>2 DEF d, sinks, entry, srcs, paths
  <1>7. CASE sinks # {}
    <2>1. paths = AddSources(g, sinks, max, d, srcs) BY <1>5, <1>7
    <2>2. /\ ToldOnce(paths, g, d)
          /\ Paid(paths, max, AllDue(g, srcs, sinks, d))
      BY <1>1, <1>4, <2>1, AddSourcesAll
    <2> QED BY <1>1, <1>4, <2>2 DEF d, sinks, entry, srcs, paths
  <1> QED BY <1>6, <1>7

\* The state of a search that keeps parents; what its visit and its pop do.
Trails(N) == [parent : UNION {[D -> N] : D \in SUBSET N}, queue : Seq(Items(N))]
Going(N) == {b \in Trails(N) : b.queue # <<>>}
Grow(target, b, n) ==
    IF target \in DOMAIN b.parent \/ n \in DOMAIN b.parent THEN b
    ELSE [b EXCEPT !.parent = [m \in DOMAIN @ \cup {n} |-> IF m = n THEN b.queue[1].id ELSE @[m]],
                   !.queue = Append(@, [id |-> n, depth |-> b.queue[1].depth + 1])]
Grows(target, b, ns) ==
    (CHOOSE it : it = [s \in SUBSET (DOMAIN ns) |->
        IF s = {} THEN b ELSE Grow(target, it[s \ {T!Max(s)}], ns[T!Max(s)])])[DOMAIN ns]
PopTrail(g, target, depth, b) ==
    IF b.queue = <<>> THEN b
    ELSE T!Popped(Grows(target, b, T!Entered(g, Head(b.queue), "outbound", T!TaintTypes, depth)))

\* The search it is without the parents.
Seen(b) == [found |-> FALSE, visited |-> DOMAIN b.parent, queue |-> b.queue]

\* The parents lead back to the start, as many calls as r says.
RootedBy(b, r, g, start, d) ==
    LET D == DOMAIN b.parent
    IN  /\ start \in D /\ r[start] = 0 /\ b.parent[start] = start
        /\ \A n \in D : r[n] <= d /\ r[n] < Cardinality(D)
        /\ \A n \in D \ {start} :
              b.parent[n] \in D /\ r[n] = r[b.parent[n]] + 1 /\ n \in Called(g, b.parent[n])
        /\ \A j \in 1..Len(b.queue) : b.queue[j].id \in D /\ b.queue[j].depth = r[b.queue[j].id]
Rooted(b, g, start, d) == \E r \in [DOMAIN b.parent -> Nat] : RootedBy(b, r, g, start, d)

LEMMA GrowStays ==
    ASSUME NEW N, NEW target, NEW b \in Going(N), NEW n \in N
    PROVE  Grow(target, b, n) \in Going(N)
  <1> DEFINE D == DOMAIN b.parent
             item == [id |-> n, depth |-> b.queue[1].depth + 1]
             p == [m \in D \cup {n} |-> IF m = n THEN b.queue[1].id ELSE b.parent[m]]
             q == Append(b.queue, item)
  <1>1. /\ D \in SUBSET N /\ \A m \in D : b.parent[m] \in N
        /\ b.queue \in Seq(Items(N)) /\ Len(b.queue) \in Nat \ {0}
        /\ b = [parent |-> b.parent, queue |-> b.queue]
    BY DEF Going, Trails
  <1>2. b.queue[1] \in Items(N) BY <1>1
  <1>3. b.queue[1].id \in N /\ b.queue[1].depth \in Nat BY <1>2 DEF Items
  <1>4. CASE target \in D \/ n \in D BY <1>4 DEF Grow
  <1>5. CASE ~(target \in D \/ n \in D)
    <2>1. item \in Items(N) BY <1>3 DEF Items
    <2> HIDE DEF item
    <2>2. q \in Seq(Items(N)) /\ q # <<>> BY <1>1, <2>1
    <2>3. p \in [D \cup {n} -> N] BY <1>1, <1>3
    <2>4. D \cup {n} \in SUBSET N BY <1>1
    <2>5. Grow(target, b, n) = [parent |-> p, queue |-> q] BY <1>1, <1>5 DEF Grow, item
    <2> HIDE DEF p, q, D
    <2>6. p \in UNION {[U -> N] : U \in SUBSET N} BY <2>3, <2>4
    <2> QED BY <2>2, <2>5, <2>6 DEF Going, Trails
  <1> QED BY <1>4, <1>5

\* A node entered in the queue.
LEMMA EntersAs ==
    ASSUME NEW D, NEW q, NEW n, NEW item,
           NEW s, s = [found |-> FALSE, visited |-> D, queue |-> q],
           NEW t, t = [s EXCEPT !.visited = @ \cup {n}, !.queue = Append(@, item)]
    PROVE  t = [found |-> FALSE, visited |-> D \cup {n}, queue |-> Append(q, item)]
  <1>1. s.found = FALSE /\ s.visited = D /\ s.queue = q OBVIOUS
  <1>2. t.found = FALSE /\ t.visited = D \cup {n} /\ t.queue = Append(q, item) BY <1>1
  <1>3. t = [found |-> t.found, visited |-> t.visited, queue |-> t.queue] OBVIOUS
  <1> QED BY <1>2, <1>3

\* One more node called.
LEMMA GrowOne ==
    ASSUME NEW g, NEW N, IsFiniteSet(N), NEW target, NEW start, NEW d \in Nat, NEW n \in N,
           NEW b \in Going(N), Rooted(b, g, start, d),
           n \in Called(g, b.queue[1].id), b.queue[1].depth < d,
           NEW b1, b1 = Grow(target, b, n)
    PROVE  /\ b1.queue[1] = b.queue[1] /\ Rooted(b1, g, start, d)
           /\ target \notin DOMAIN b1.parent =>
                target \notin DOMAIN b.parent /\ Seen(b1) = Visit(target, {}, Seen(b), n)
  <1> DEFINE D == DOMAIN b.parent
             cur == b.queue[1]
             item == [id |-> n, depth |-> cur.depth + 1]
             p == [m \in D \cup {n} |-> IF m = n THEN cur.id ELSE b.parent[m]]
             q == Append(b.queue, item)
             l == Len(b.queue)
  <1>1. /\ D \in SUBSET N /\ b.queue \in Seq(Items(N)) /\ l \in Nat \ {0}
        /\ b = [parent |-> b.parent, queue |-> b.queue]
    BY DEF Going, Trails
  <1>2. PICK r \in [D -> Nat] : RootedBy(b, r, g, start, d) BY DEF Rooted
  <1>3. cur \in Items(N) /\ 1 \in 1..l BY <1>1
  <1>4. cur.id \in D /\ cur.depth = r[cur.id] /\ r[cur.id] \in Nat /\ r[cur.id] < Cardinality(D)
    BY <1>2, <1>3 DEF RootedBy
  <1>5. IsFiniteSet(D) /\ Cardinality(D) \in Nat BY <1>1, FS_Subset, FS_CardinalityType
  <1>6. Seen(b).found = FALSE /\ Seen(b).visited = D /\ Seen(b).queue = b.queue BY DEF Seen
  <1>7. CASE target \in D \/ n \in D
    <2>1. b1 = b BY <1>7 DEF Grow
    <2>2. ASSUME target \notin D PROVE Seen(b) = Visit(target, {}, Seen(b), n)
      <3>1. n \in D /\ n # target BY <1>7, <2>2
      <3> QED BY <1>6, <3>1 DEF Visit
    <2> QED BY <2>1, <2>2
  <1>8. CASE ~(target \in D \/ n \in D)
    <2>1. b1 = [parent |-> p, queue |-> q] BY <1>1, <1>8 DEF Grow
    <2>2. b1.parent = p /\ b1.queue = q BY <2>1
    <2>3. DOMAIN p = D \cup {n} /\ p[n] = cur.id /\ \A m \in D : p[m] = b.parent[m] BY <1>8
    <2>4. item.id = n /\ item.depth = cur.depth + 1 OBVIOUS
    <2>5. item \in Items(N)
      <3>1. cur.depth \in Nat BY <1>3 DEF Items
      <3> QED BY <3>1 DEF Items
    <2> DEFINE r1 == [m \in D \cup {n} |-> IF m = n THEN r[cur.id] + 1 ELSE r[m]]
    <2>6. r1[n] = r[cur.id] + 1 /\ \A m \in D : r1[m] = r[m] BY <1>8
    <2>7. r1 \in [D \cup {n} -> Nat] BY <1>4
    <2> HIDE DEF item, p, r1, cur
    <2>8. Len(q) = l + 1 /\ q[l + 1] = item /\ \A j \in 1..l : q[j] = b.queue[j] BY <1>1, <2>5
    <2> HIDE DEF q
    <2>9. Cardinality(D \cup {n}) = Cardinality(D) + 1 BY <1>5, <1>8, FS_AddElement
    <2>10. start \in D /\ r[start] = 0 /\ b.parent[start] = start BY <1>2 DEF RootedBy
    <2>11. \A m \in D \cup {n} : r1[m] <= d /\ r1[m] < Cardinality(D \cup {n})
      <3> TAKE m \in D \cup {n}
      <3>1. CASE m = n BY <1>4, <1>5, <2>6, <2>9, <3>1 DEF cur
      <3>2. CASE m \in D
        <4>1. r[m] <= d /\ r[m] < Cardinality(D) /\ r[m] \in Nat BY <1>2, <3>2 DEF RootedBy
        <4> QED BY <1>5, <2>6, <2>9, <3>2, <4>1
      <3> QED BY <3>1, <3>2
    <2>12. \A m \in (D \cup {n}) \ {start} :
              p[m] \in D \cup {n} /\ r1[m] = r1[p[m]] + 1 /\ m \in Called(g, p[m])
      <3> TAKE m \in (D \cup {n}) \ {start}
      <3>1. CASE m = n BY <1>4, <2>3, <2>6, <3>1 DEF cur
      <3>2. CASE m \in D
        <4>1. b.parent[m] \in D /\ r[m] = r[b.parent[m]] + 1 /\ m \in Called(g, b.parent[m])
          BY <1>2, <3>2 DEF RootedBy
        <4> QED BY <2>3, <2>6, <3>2, <4>1
      <3> QED BY <3>1, <3>2
    <2>13. \A j \in 1..Len(q) : q[j].id \in D \cup {n} /\ q[j].depth = r1[q[j].id]
      <3> TAKE j \in 1..Len(q)
      <3>1. CASE j \in 1..l
        <4>1. b.queue[j].id \in D /\ b.queue[j].depth = r[b.queue[j].id] BY <1>2, <3>1 DEF RootedBy
        <4> QED BY <2>6, <2>8, <3>1, <4>1
      <3>2. CASE j = l + 1 BY <1>4, <2>4, <2>6, <2>8, <3>2
      <3> QED BY <1>1, <2>8, <3>1, <3>2
    <2>14. RootedBy(b1, r1, g, start, d)
      <3>1. start \in D \cup {n} /\ r1[start] = 0 /\ p[start] = start BY <2>3, <2>6, <2>10
      <3> HIDE DEF D
      <3> QED BY <2>2, <2>3, <2>11, <2>12, <2>13, <3>1 DEF RootedBy
    <2>15. Rooted(b1, g, start, d)
      <3>1. r1 \in [DOMAIN b1.parent -> Nat] BY <2>2, <2>3, <2>7
      <3> QED BY <2>14, <3>1 DEF Rooted
    <2>16. b1.queue[1] = cur
      <3>1. 1 \in 1..l BY <1>1
      <3> QED BY <2>2, <2>8, <3>1 DEF cur
    <2>17. ASSUME target \notin DOMAIN b1.parent PROVE Seen(b1) = Visit(target, {}, Seen(b), n)
      <3>1. n # target /\ n \notin D BY <1>8, <2>2, <2>3, <2>17
      <3>2. Seen(b1) = [found |-> FALSE, visited |-> D \cup {n}, queue |-> q] BY <2>2, <2>3 DEF Seen
      <3>3. Visit(target, {}, Seen(b), n)
              = [Seen(b) EXCEPT !.visited = @ \cup {n}, !.queue = Append(@, item)]
        BY <1>6, <3>1 DEF Visit, item, cur
      <3>4. [Seen(b) EXCEPT !.visited = @ \cup {n}, !.queue = Append(@, item)]
              = [found |-> FALSE, visited |-> D \cup {n}, queue |-> Append(b.queue, item)]
        <4> DEFINE waiting == b.queue
                   before == Seen(b)
                   after == [before EXCEPT !.visited = @ \cup {n}, !.queue = Append(@, item)]
        <4>1. before = [found |-> FALSE, visited |-> D, queue |-> waiting] BY DEF Seen
        <4>2. after = [before EXCEPT !.visited = @ \cup {n}, !.queue = Append(@, item)] OBVIOUS
        <4> HIDE DEF D, waiting, before, after
        <4>3. after = [found |-> FALSE, visited |-> D \cup {n}, queue |-> Append(waiting, item)]
          BY <4>1, <4>2, EntersAs
        <4> QED BY <4>3 DEF after, before, waiting
      <3> QED BY <3>2, <3>3, <3>4 DEF q
    <2> QED BY <1>8, <2>15, <2>16, <2>17 DEF cur
  <1> QED BY <1>7, <1>8

\* All the nodes called.
AllCalled(ns, b, g, d) ==
    \A x \in ElementsOf(ns) : x \in Called(g, b.queue[1].id) /\ b.queue[1].depth < d
Grown(b1, b, N, g, target, start, d, ns) ==
    /\ b1 \in Going(N) /\ b1.queue[1] = b.queue[1] /\ Rooted(b1, g, start, d)
    /\ target \notin DOMAIN b1.parent =>
         target \notin DOMAIN b.parent /\ Seen(b1) = Visits(target, {}, Seen(b), ns)
LEMMA GrowsAll ==
    ASSUME NEW g, NEW N, IsFiniteSet(N), NEW target, NEW start, NEW d \in Nat, NEW ns \in Seq(N),
           NEW b \in Going(N), Rooted(b, g, start, d),
           AllCalled(ns, b, g, d), NEW b1, b1 = Grows(target, b, ns)
    PROVE  Grown(b1, b, N, g, target, start, d, ns)
  <1> DEFINE n == Len(ns)
             S == Going(N)
             st == [w \in S \X (1..n) |-> Grow(target, w[1], ns[w[2]])]
             Is(it) == it = [s \in SUBSET (1..n) |->
                 IF s = {} THEN b ELSE Grow(target, it[s \ {T!Max(s)}], ns[T!Max(s)])]
             it == CHOOSE it : Is(it)
             seen == VisitStep(N, target, {}, ns)
  <1>1. n \in Nat /\ DOMAIN ns = 1..n /\ \A k \in 1..n : ns[k] \in N OBVIOUS
  <1>2. b1 = it[1..n] BY <1>1 DEF Grows
  <1>3. \A a \in S : \A k \in 1..n : st[<<a, k>>] = Grow(target, a, ns[k]) OBVIOUS
  <1> HIDE DEF st
  <1>4. \A a \in S : \A k \in 1..n : Grow(target, a, ns[k]) \in S BY <1>1, GrowStays
  <1> HIDE DEF S
  <1>5. b \in S BY DEF S
  <1>6. StaysIn(S, n, st) BY <1>3, <1>4 DEF StaysIn
  <1>7. Is(it)
    <2>1. PICK f : FoldsOver(f, S, b, n, st) BY <1>1, <1>5, <1>6, FoldThere
    <2>2. \A s \in SUBSET (1..n) :
             f[s] = IF s = {} THEN b ELSE Grow(target, f[s \ {T!Max(s)}], ns[T!Max(s)])
      <3> TAKE s \in SUBSET (1..n)
      <3>1. CASE s = {} BY <2>1, <3>1 DEF FoldsOver
      <3>2. CASE s # {} BY <1>3, <2>1, <3>2 DEF FoldsOver
      <3> QED BY <3>1, <3>2
    <2>3. f = [s \in SUBSET (1..n) |-> f[s]] BY <2>1 DEF FoldsOver
    <2>4. Is(f) BY <2>2, <2>3
    <2> HIDE DEF Is
    <2> QED BY <2>4
  <1> HIDE DEF it
  <1>8. it[{}] = b BY <1>7
  <1>9. ASSUME NEW s \in SUBSET (1..n), s # {}, it[s \ {T!Max(s)}] \in S
        PROVE  it[s] = st[<<it[s \ {T!Max(s)}], T!Max(s)>>]
    <2>1. T!Max(s) \in s BY <1>1, <1>9, Greatest
    <2>2. T!Max(s) \in 1..n BY <2>1
    <2>3. it[s] = Grow(target, it[s \ {T!Max(s)}], ns[T!Max(s)]) BY <1>7, <1>9
    <2> QED BY <1>3, <1>9, <2>2, <2>3
  <1>10. PICK f : StepsFrom(f, S, b, n, st) /\ it[1..n] = f[n]
    <2>1. Unfolds(it, S, b, n, st) BY <1>8, <1>9 DEF Unfolds
    <2>2. EndsAt(it[1..n], S, b, n, st) BY <1>1, <1>5, <1>6, <2>1, FoldEnds
    <2> QED BY <2>2 DEF EndsAt
  <1>11. Seen(b) \in Busy(N)
    <2>1. DOMAIN b.parent \in SUBSET N /\ b.queue \in Seq(Items(N)) /\ b.queue # <<>> BY DEF Going, Trails
    <2> QED BY <2>1 DEF Seen, Busy, Searches
  <1>12. PICK v : StepsFrom(v, Busy(N), Seen(b), n, seen) /\ Visits(target, {}, Seen(b), ns) = v[n]
    <2>1. EndsAt(Visits(target, {}, Seen(b), ns), Busy(N), Seen(b), Len(ns), VisitStep(N, target, {}, ns))
      BY <1>11, VisitsEnd
    <2> QED BY <2>1 DEF EndsAt
  <1>13. \A a \in Busy(N) : \A k \in 1..n : seen[<<a, k>>] = Visit(target, {}, a, ns[k]) BY DEF VisitStep
  <1> HIDE DEF seen
  <1> DEFINE Good(k) == /\ f[k].queue[1] = b.queue[1] /\ Rooted(f[k], g, start, d)
                        /\ target \notin DOMAIN f[k].parent =>
                             target \notin DOMAIN b.parent /\ Seen(f[k]) = v[k]
             P == {k \in 0..n : Good(k)}
  <1>14. 0 \in P
    <2>1. f[0] = b /\ v[0] = Seen(b) BY <1>10, <1>12 DEF StepsFrom
    <2>2. Good(0) BY <2>1
    <2> HIDE DEF Good
    <2> QED BY <1>1, <2>2
  <1>15. ASSUME NEW k \in 1..n, k - 1 \in P PROVE k \in P
    <2>1. k \in 0..n /\ k - 1 \in 0..n BY <1>1
    <2>2. f[k] = st[<<f[k - 1], k>>] /\ f[k - 1] \in S BY <1>10, <2>1 DEF StepsFrom
    <2>3. f[k] = Grow(target, f[k - 1], ns[k]) BY <1>3, <2>2
    <2>4. v[k] = Visit(target, {}, v[k - 1], ns[k])
      <3>1. v[k] = seen[<<v[k - 1], k>>] /\ v[k - 1] \in Busy(N) BY <1>12, <2>1 DEF StepsFrom
      <3> QED BY <1>13, <3>1
    <2>5. Good(k - 1) BY <1>15
    <2> DEFINE a == f[k - 1]
               c == f[k]
               x == ns[k]
    <2>6. a \in Going(N) /\ Rooted(a, g, start, d) /\ a.queue[1] = b.queue[1] BY <2>2, <2>5 DEF S
    <2>7. x \in N /\ x \in Called(g, a.queue[1].id) /\ a.queue[1].depth < d
      <3>1. x \in ElementsOf(ns) BY <1>1 DEF ElementsOf
      <3> QED BY <1>1, <2>6, <3>1 DEF AllCalled
    <2>8. c = Grow(target, a, x) BY <2>3
    <2> HIDE DEF a, c, x, Good
    <2>9. /\ c.queue[1] = a.queue[1] /\ Rooted(c, g, start, d)
          /\ target \notin DOMAIN c.parent =>
               target \notin DOMAIN a.parent /\ Seen(c) = Visit(target, {}, Seen(a), x)
      BY <2>6, <2>7, <2>8, GrowOne
    <2>10. target \notin DOMAIN c.parent => target \notin DOMAIN b.parent /\ Seen(c) = v[k]
      <3> HAVE target \notin DOMAIN c.parent
      <3>1. target \notin DOMAIN a.parent /\ Seen(c) = Visit(target, {}, Seen(a), x) BY <2>9
      <3>2. target \notin DOMAIN b.parent /\ Seen(a) = v[k - 1] BY <2>5, <3>1 DEF Good, a
      <3> QED BY <2>4, <3>1, <3>2 DEF x
    <2>11. Good(k) BY <2>6, <2>9, <2>10 DEF Good, c
    <2> QED BY <2>1, <2>11
  <1>16. Good(n)
    <2>1. \A k \in 1..n : k - 1 \in P => k \in P BY <1>15
    <2>2. n \in 0..n BY <1>1
    <2>3. n \in P
      <3> HIDE DEF P
      <3> QED BY <1>1, <1>14, <2>1, <2>2, UpTo
    <2> QED BY <2>3
  <1>17. f[n] \in Going(N)
    <2>1. n \in 0..n BY <1>1
    <2> QED BY <1>10, <2>1 DEF StepsFrom, S
  <1> QED BY <1>2, <1>10, <1>12, <1>16, <1>17 DEF Grown

\* After i pops, the parents and the search they are part of.
Trailing(b, i, g, R, start, target, d) ==
    /\ b \in Trails(DOMAIN g.node) /\ Rooted(b, g, start, d)
    /\ target \notin DOMAIN b.parent => Searching(Seen(b), i, g, R, start, target, d, {})

\* One more pop.
LEMMA PopTrailOne ==
    ASSUME NEW g, IsGraph(g), IsFiniteSet(DOMAIN g.node), NEW start \in DOMAIN g.node, NEW target,
           NEW d \in Nat \ {0}, NEW R, Reaches(R, g, start, d, {}), NEW i \in Nat,
           NEW b, Trailing(b, i, g, R, start, target, d),
           NEW r, r = PopTrail(g, target, d, b)
    PROVE  Trailing(r, i + 1, g, R, start, target, d)
  <1> DEFINE N == DOMAIN g.node
             sb == Seen(b)
  <1>1. b \in Trails(N) /\ Rooted(b, g, start, d) BY DEF Trailing
  <1>2. sb.found = FALSE /\ sb.queue = b.queue BY DEF Seen
  <1> HIDE DEF sb
  <1> DEFINE ps == Pop(g, target, d, {}, sb)
  <1>3. ASSUME target \notin DOMAIN b.parent PROVE Searching(ps, i + 1, g, R, start, target, d, {})
    <2>1. Searching(sb, i, g, R, start, target, d, {}) BY <1>3 DEF Trailing, sb
    <2>2. ps = Pop(g, target, d, {}, sb) OBVIOUS
    <2> HIDE DEF ps
    <2> QED BY <2>1, <2>2, PopOne
  <1>4. CASE b.queue = <<>>
    <2>1. r = b BY <1>4 DEF PopTrail
    <2>2. ps = sb BY <1>2, <1>4 DEF Pop
    <2> QED BY <1>1, <1>3, <2>1, <2>2 DEF Trailing, sb
  <1>5. CASE b.queue # <<>>
    <2> DEFINE cur == Head(b.queue)
               ns == T!Entered(g, cur, "outbound", T!TaintTypes, d)
               b1 == Grows(target, b, ns)
    <2>1. b \in Going(N) BY <1>1, <1>5 DEF Going
    <2>2. cur = b.queue[1] /\ cur \in Items(N)
      <3>1. b.queue \in Seq(Items(N)) BY <1>1 DEF Trails
      <3> QED BY <1>5, <3>1
    <2>3. cur.depth \in Nat BY <2>2 DEF Items
    <2>4. ns \in Seq(N) /\ ElementsOf(ns) = IF cur.depth >= d THEN {} ELSE Called(g, cur.id)
      <3>1. d \in Nat OBVIOUS
      <3> HIDE DEF cur
      <3> QED BY <2>2, <3>1, EnteredAre
    <2>5. b1 = Grows(target, b, ns) OBVIOUS
    <2>6. r = T!Popped(b1) BY <1>5 DEF PopTrail
    <2>7. ps = T!Popped(Visits(target, {}, sb, ns)) BY <1>2, <1>5 DEF Pop
    <2> HIDE DEF ns, b1, ps
    <2>8. AllCalled(ns, b, g, d)
      <3> HIDE DEF cur
      <3> QED BY <2>2, <2>3, <2>4 DEF AllCalled
    <2>9. /\ b1 \in Going(N) /\ b1.queue[1] = b.queue[1] /\ Rooted(b1, g, start, d)
          /\ target \notin DOMAIN b1.parent =>
               target \notin DOMAIN b.parent /\ Seen(b1) = Visits(target, {}, Seen(b), ns)
      <3>1. d \in Nat /\ ns \in Seq(N) BY <2>4
      <3>2. Rooted(b, g, start, d) BY <1>1
      <3> HIDE DEF cur, N
      <3>3. IsFiniteSet(N) BY DEF N
      <3>4. Grown(b1, b, N, g, target, start, d, ns)
        BY <2>1, <2>5, <2>8, <3>1, <3>2, <3>3, GrowsAll
      <3> QED BY <3>4 DEF Grown
    <2>10. b1 \in Trails(N) /\ b1.queue # <<>> BY <2>9 DEF Going
    <2>11. r.parent = b1.parent /\ r.queue = Tail(b1.queue) /\ r \in Trails(N)
      <3>1. b1.queue \in Seq(Items(N)) BY <2>10 DEF Trails
      <3>2. Tail(b1.queue) \in Seq(Items(N))
        <4> DEFINE q == b1.queue
                   I == Items(N)
        <4>1. q \in Seq(I) /\ q # <<>> BY <2>10, <3>1
        <4> HIDE DEF q, I
        <4>2. Tail(q) \in Seq(I) BY <4>1
        <4> QED BY <4>2 DEF q, I
      <3>3. r = [b1 EXCEPT !.queue = Tail(@)] BY <2>6 DEF T!Popped
      <3> QED BY <2>10, <3>2, <3>3 DEF Trails
    <2>12. Rooted(r, g, start, d)
      <3>1. PICK s \in [DOMAIN b1.parent -> Nat] : RootedBy(b1, s, g, start, d) BY <2>9 DEF Rooted
      <3>2. b1.queue \in Seq(Items(N)) BY <2>10 DEF Trails
      <3>3. \A j \in 1..Len(r.queue) : j + 1 \in 1..Len(b1.queue) /\ r.queue[j] = b1.queue[j + 1]
        BY <2>10, <2>11, <3>2
      <3>4. \A j \in 1..Len(r.queue) :
               r.queue[j].id \in DOMAIN r.parent /\ r.queue[j].depth = s[r.queue[j].id]
        BY <2>11, <3>1, <3>3 DEF RootedBy
      <3>5. RootedBy(r, s, g, start, d) BY <2>11, <3>1, <3>4 DEF RootedBy
      <3> QED BY <2>11, <3>1, <3>5 DEF Rooted
    <2>13. ASSUME target \notin DOMAIN r.parent PROVE Searching(Seen(r), i + 1, g, R, start, target, d, {})
      <3>1. target \notin DOMAIN b.parent /\ Seen(b1) = Visits(target, {}, sb, ns)
        BY <2>9, <2>11, <2>13 DEF sb
      <3>2. Seen(r) = T!Popped(Seen(b1))
        <4> DEFINE D == DOMAIN b1.parent
                   q == b1.queue
                   seen == Seen(b1)
                   popped == T!Popped(seen)
        <4>1. Seen(r) = [found |-> FALSE, visited |-> D, queue |-> Tail(q)] BY <2>11 DEF Seen
        <4>2. seen = [found |-> FALSE, visited |-> D, queue |-> q] BY DEF Seen
        <4>3. popped = [seen EXCEPT !.queue = Tail(@)] BY DEF T!Popped
        <4> HIDE DEF D, q, seen, popped
        <4>4. popped = [found |-> popped.found, visited |-> popped.visited, queue |-> popped.queue]
          BY <4>2, <4>3
        <4>5. popped.found = FALSE /\ popped.visited = D /\ popped.queue = Tail(q) BY <4>2, <4>3
        <4> QED BY <4>1, <4>4, <4>5 DEF popped, seen
      <3> QED BY <1>3, <2>7, <3>1, <3>2
    <2> QED BY <2>11, <2>12, <2>13 DEF Trailing
  <1> QED BY <1>4, <1>5

\* A path of at most d calls.
IsCallPath(p, g, start, target, d) ==
    /\ p \in Seq(DOMAIN g.node) /\ Len(p) \in 1..(d + 1)
    /\ p[1] = start /\ p[Len(p)] = target
    /\ \A i \in 1..(Len(p) - 1) : p[i + 1] \in Called(g, p[i])

\* The parents lead back along such a path.
LEMMA BackIsAPath ==
    ASSUME NEW g, IsGraph(g), IsFiniteSet(DOMAIN g.node), NEW start, NEW target, NEW d \in Nat,
           NEW b \in Trails(DOMAIN g.node), Rooted(b, g, start, d), target \in DOMAIN b.parent,
           NEW p, p = T!PathBack(b.parent, start, target, Len(g.node))
    PROVE  IsCallPath(p, g, start, target, d)
  <1> DEFINE N == DOMAIN g.node
             n == Len(g.node)
             D == DOMAIN b.parent
             parent == b.parent
             Is(f) == f = [k \in 0..n |-> IF k = 0 THEN target ELSE parent[f[k - 1]]]
             back == CHOOSE f : Is(f)
             IsLength(k) == back[k] = start /\ \A j \in 0..(k - 1) : back[j] # start
             length == CHOOSE k \in 0..n : IsLength(k)
  <1>1. p = [i \in 1..(length + 1) |-> back[length + 1 - i]] BY DEF T!PathBack
  <1>2. n \in Nat /\ N = 1..n BY DEF IsGraph, IsASequence
  <1>3. D \in SUBSET N /\ \A m \in D : parent[m] \in N BY DEF Trails
  <1>4. IsFiniteSet(D) /\ Cardinality(D) \in Nat /\ Cardinality(D) <= n
    <2>1. Cardinality(N) = n
      <3> HIDE DEF n, N
      <3> QED BY <1>2, FS_Interval
    <2> HIDE DEF n, N, D
    <2>2. IsFiniteSet(N) BY DEF N
    <2> QED BY <1>2, <1>3, <2>1, <2>2, FS_Subset, FS_CardinalityType
  <1>5. PICK r \in [D -> Nat] : RootedBy(b, r, g, start, d) BY DEF Rooted
  <1>6. /\ start \in D /\ r[start] = 0 /\ parent[start] = start
        /\ \A m \in D : r[m] <= d /\ r[m] < Cardinality(D)
        /\ \A m \in D \ {start} : parent[m] \in D /\ r[m] = r[parent[m]] + 1 /\ m \in Called(g, parent[m])
    BY <1>5 DEF RootedBy
  <1>7. \A m \in D : r[m] \in Nat /\ parent[m] \in D BY <1>5, <1>6
  <1> HIDE DEF D, parent, N, n
  <1> DEFINE st == [w \in D \X (1..n) |-> parent[w[1]]]
  <1>8. \A m \in D : \A k \in 1..n : st[<<m, k>>] = parent[m] OBVIOUS
  <1> HIDE DEF st
  <1>9. target \in D BY DEF D
  <1>10. Is(back)
    <2>1. StaysIn(D, n, st) BY <1>7, <1>8 DEF StaysIn
    <2>2. PICK f : StepsFrom(f, D, target, n, st) BY <1>2, <1>9, <2>1, StepByStep
    <2> DEFINE e == [k \in 0..n |-> f[k]]
    <2>3. ASSUME NEW k \in 0..n PROVE e[k] = IF k = 0 THEN target ELSE parent[e[k - 1]]
      <3>1. CASE k = 0 BY <2>2, <3>1 DEF StepsFrom
      <3>2. CASE k # 0
        <4>1. k \in 1..n /\ k - 1 \in 0..n BY <1>2, <3>2
        <4>2. f[k] = st[<<f[k - 1], k>>] /\ f[k - 1] \in D BY <2>2, <4>1 DEF StepsFrom
        <4>3. f[k] = parent[f[k - 1]] BY <1>8, <4>1, <4>2
        <4>4. e[k] = f[k] /\ e[k - 1] = f[k - 1] BY <4>1
        <4> HIDE DEF e
        <4> QED BY <3>2, <4>3, <4>4
      <3> QED BY <3>1, <3>2
    <2>4. Is(e)
      <3>1. e = [k \in 0..n |-> e[k]] OBVIOUS
      <3> HIDE DEF e
      <3> QED BY <2>3, <3>1
    <2>5. \E f1 : Is(f1) BY <2>4
    <2> HIDE DEF Is
    <2> QED BY <2>5
  <1> HIDE DEF back
  <1>11. back[0] = target /\ \A k \in 1..n : back[k] = parent[back[k - 1]]
    <2>1. 0 \in 0..n /\ \A k \in 1..n : k \in 0..n /\ k # 0 BY <1>2
    <2> QED BY <1>10, <2>1
  <1> DEFINE l == r[target]
             P == {k \in 0..l : back[k] \in D /\ r[back[k]] = l - k}
  <1>12. l \in Nat /\ l <= d /\ l < n
    <2>1. l \in Nat /\ l <= d /\ l < Cardinality(D) BY <1>6, <1>7, <1>9
    <2> HIDE DEF l
    <2> QED BY <1>2, <1>4, <2>1
  <1>13. \A k \in 0..l : k \in P
    <2>1. 0 \in P BY <1>9, <1>11, <1>12
    <2>2. ASSUME NEW k \in 1..l, k - 1 \in P PROVE k \in P
      <3>1. back[k - 1] \in D /\ r[back[k - 1]] = l - (k - 1) BY <2>2
      <3>2. k \in 1..n /\ k \in 0..l BY <1>2, <1>12
      <3>3. back[k] = parent[back[k - 1]] BY <1>11, <3>2
      <3>4. back[k - 1] # start
        <4>1. l - (k - 1) > 0 BY <1>12, <2>2
        <4> QED BY <1>6, <3>1, <4>1
      <3>5. back[k] \in D /\ r[back[k - 1]] = r[back[k]] + 1 BY <1>6, <3>1, <3>3, <3>4
      <3>6. r[back[k]] \in Nat BY <1>7, <3>5
      <3>7. r[back[k]] = l - k
        <4> HIDE DEF l
        <4> QED BY <1>12, <3>1, <3>5, <3>6
      <3> QED BY <3>2, <3>5, <3>7
    <2>3. \A k \in 1..l : k - 1 \in P => k \in P BY <2>2
    <2> HIDE DEF P, l
    <2> QED BY <1>12, <2>1, <2>3, UpTo
  <1>14. \A k \in 0..l : back[k] \in D /\ r[back[k]] = l - k BY <1>13
  <1> HIDE DEF P, l
  <1>15. \A k \in 0..(l - 1) : back[k] # start
    <2> TAKE k \in 0..(l - 1)
    <2>1. k \in 0..l /\ l - k > 0 BY <1>12
    <2> QED BY <1>6, <1>14, <2>1
  <1>16. back[l] = start
    <2>1. l \in 0..l /\ l - l = 0 BY <1>12
    <2>2. back[l] \in D /\ r[back[l]] = 0 BY <1>14, <2>1
    <2>3. ASSUME back[l] # start PROVE FALSE
      <3>1. parent[back[l]] \in D /\ r[back[l]] = r[parent[back[l]]] + 1 BY <1>6, <2>2, <2>3
      <3>2. r[parent[back[l]]] \in Nat BY <1>7, <3>1
      <3> QED BY <2>2, <3>1, <3>2
    <2> QED BY <2>3
  <1>17. length = l
    <2>1. l \in 0..n /\ IsLength(l) BY <1>2, <1>12, <1>15, <1>16
    <2>2. ASSUME NEW k \in 0..n, IsLength(k) PROVE k = l
      <3>1. CASE k < l
        <4>1. k \in 0..(l - 1) BY <1>12, <3>1
        <4> QED BY <1>15, <2>2, <4>1
      <3>2. CASE k > l
        <4>1. l \in 0..(k - 1) BY <1>12, <3>2
        <4> QED BY <1>16, <2>2, <4>1
      <3> QED BY <1>12, <3>1, <3>2
    <2> HIDE DEF IsLength
    <2> QED BY <2>1, <2>2
  <1> HIDE DEF length
  <1>18. p = [i \in 1..(l + 1) |-> back[l + 1 - i]] BY <1>1, <1>17
  <1>19. \A i \in 1..(l + 1) : l + 1 - i \in 0..l /\ p[i] = back[l + 1 - i] BY <1>12, <1>18
  <1>20. \A i \in 1..(l + 1) : p[i] \in N BY <1>3, <1>14, <1>19
  <1>21. p \in Seq(N) /\ Len(p) = l + 1 BY <1>12, <1>18, <1>20
  <1>22. p[1] = start /\ p[l + 1] = target
    <2>1. 1 \in 1..(l + 1) /\ l + 1 \in 1..(l + 1) /\ l + 1 - 1 = l /\ l + 1 - (l + 1) = 0 BY <1>12
    <2> QED BY <1>11, <1>16, <1>19, <2>1
  <1>23. ASSUME NEW i \in 1..l PROVE p[i + 1] \in Called(g, p[i])
    <2>1. i \in 1..(l + 1) /\ i + 1 \in 1..(l + 1) BY <1>12
    <2> DEFINE k == l - i
    <2>2. k \in 0..(l - 1) /\ k \in 0..l /\ l + 1 - (i + 1) = k /\ l + 1 - i = k + 1 BY <1>12
    <2>3. k + 1 \in 1..n /\ (k + 1) - 1 = k BY <1>2, <1>12, <2>2
    <2>4. p[i + 1] = back[k] /\ p[i] = back[k + 1] BY <1>19, <2>1, <2>2
    <2>5. back[k + 1] = parent[back[k]] BY <1>11, <2>3
    <2>6. back[k] \in D /\ back[k] # start BY <1>14, <1>15, <2>2
    <2> QED BY <1>6, <2>4, <2>5, <2>6
  <1>24. Len(p) \in 1..(d + 1) /\ Len(p) - 1 = l BY <1>12, <1>21
  <1> QED BY <1>21, <1>22, <1>23, <1>24 DEF IsCallPath, N

\* A path that meets no cut before its end shows that the end is in reach.
LEMMA PathAvoids ==
    ASSUME NEW g, NEW start, NEW target, NEW d \in Nat, NEW cut, NEW R, Reaches(R, g, start, d, cut),
           NEW p, IsCallPath(p, g, start, target, d),
           \A i \in 1..Len(p) : p[i] \notin cut \ {start, target}
    PROVE  target \in R[d]
  <1> DEFINE l == Len(p) - 1
             P == {h \in 0..l : p[h + 1] \in R[h] \/ target \in R[h]}
  <1>1. l \in 0..d /\ l \in Nat /\ p[1] = start /\ p[l + 1] = target
        /\ \A i \in 1..l : p[i + 1] \in Called(g, p[i])
    BY DEF IsCallPath
  <1>2. 0 \in P BY <1>1 DEF Reaches
  <1>3. ASSUME NEW h \in 1..l, h - 1 \in P PROVE h \in P
    <2>1. h \in 1..d /\ h \in 0..l /\ h \in 1..Len(p) /\ (h - 1) + 1 = h BY <1>1
    <2>2. R[h] = R[h - 1] \cup UNION {Called(g, n) : n \in R[h - 1] \ (cut \ {start})}
      BY <2>1 DEF Reaches
    <2>3. p[h] \in R[h - 1] \/ target \in R[h - 1] BY <1>3, <2>1
    <2>4. CASE target \in R[h - 1] BY <2>1, <2>2, <2>4
    <2>5. CASE target \notin R[h - 1]
      <3>1. p[h] \in R[h - 1] /\ p[h] # target BY <2>3, <2>5
      <3>2. p[h] \notin cut \ {start} BY <2>1, <3>1
      <3>3. p[h + 1] \in Called(g, p[h]) BY <1>1
      <3> QED BY <2>1, <2>2, <3>1, <3>2, <3>3
    <2> QED BY <2>4, <2>5
  <1>4. target \in R[l]
    <2>1. \A h \in 1..l : h - 1 \in P => h \in P BY <1>3
    <2>2. l \in 0..l BY <1>1
    <2>3. l \in P
      <3> HIDE DEF P, l
      <3> QED BY <1>1, <1>2, <2>1, <2>2, UpTo
    <2> QED BY <1>1, <2>3
  <1>5. R[l] \subseteq R[d]
    <2>1. d \in l..d BY <1>1
    <2> HIDE DEF l
    <2> QED BY <1>1, <2>1, ReachGrows
  <1> QED BY <1>4, <1>5

\* ShortestPath reads back the parents of a search that meets the target when
\* it is in reach.
Trailed(b, g, start, target, d) ==
    /\ b \in Trails(DOMAIN g.node) /\ Rooted(b, g, start, d)
    /\ target \in T!Avoiding(g, start, d, {}) => target \in DOMAIN b.parent
    /\ T!ShortestPath(g, start, target, "outbound", T!TaintTypes, d)
         = T!PathBack(b.parent, start, target, Len(g.node))
LEMMA ShortestPathTrails ==
    ASSUME NEW g, IsGraph(g), NEW start \in DOMAIN g.node, NEW target, start # target,
           NEW d \in Nat \ {0}
    PROVE  \E b : Trailed(b, g, start, target, d)
  <1> DEFINE N == DOMAIN g.node
             n == Len(g.node)
             dd == T!Default(d, 3)
             init == [parent |-> [m \in {start} |-> start], queue |-> <<[id |-> start, depth |-> 0]>>]
             Is(it) == it = [s \in SUBSET (DOMAIN g.node) |->
                        IF s = {} THEN init ELSE PopTrail(g, target, dd, it[s \ {T!Max(s)}])]
             it == CHOOSE it : Is(it)
  <1>1. T!ShortestPath(g, start, target, "outbound", T!TaintTypes, d)
          = T!PathBack(it[N].parent, start, target, n)
    BY DEF T!ShortestPath, T!FoldLeft, T!MapThenFoldSet, PopTrail, Grows, Grow
  <1>2. dd = d BY DEF T!Default
  <1>3. n \in Nat /\ N = 1..n /\ IsFiniteSet(N)
    <2>1. n \in Nat /\ N = 1..n BY DEF IsGraph, IsASequence
    <2> QED BY <2>1, FS_Interval
  <1>4. PICK R : /\ Reaches(R, g, start, d, {})
                 /\ T!Avoiding(g, start, d, {}) = R[d]
                 /\ \A h \in 0..d : R[h] \subseteq N
    <2>1. d \in Nat OBVIOUS
    <2> QED BY <2>1, AvoidingReaches
  <1> HIDE DEF dd
  <1> DEFINE Inv(b, i) == Trailing(b, i, g, R, start, target, d)
  <1>5. Inv(init, 0)
    <2> DEFINE a == init
               sa == Seen(a)
               item == [id |-> start, depth |-> 0]
    <2>1. a.parent = [m \in {start} |-> start] /\ a.queue = <<item>> OBVIOUS
    <2>2. item \in Items(N) /\ item.id = start /\ item.depth = 0 BY DEF Items
    <2>3. DOMAIN a.parent = {start} /\ a.parent[start] = start BY <2>1
    <2>4. Len(a.queue) = 1 /\ a.queue[1] = item /\ a.queue \in Seq(Items(N))
      <3> HIDE DEF a, item
      <3> QED BY <2>1, <2>2
    <2>5. a \in Trails(N)
      <3>1. a = [parent |-> a.parent, queue |-> a.queue] OBVIOUS
      <3>2. a.parent \in [{start} -> N] /\ {start} \in SUBSET N BY <2>1
      <3> HIDE DEF a
      <3>3. a.parent \in UNION {[U -> N] : U \in SUBSET N} BY <3>2
      <3> QED BY <2>4, <3>1, <3>3 DEF Trails
    <2>6. sa.found = FALSE /\ sa.visited = {start} /\ sa.queue = a.queue BY <2>3 DEF Seen
    <2>7. sa \in Searches(N)
      <3>1. sa = [found |-> sa.found, visited |-> sa.visited, queue |-> sa.queue] BY DEF Seen
      <3> HIDE DEF sa, a
      <3> QED BY <2>4, <2>6, <3>1 DEF Searches
    <2> HIDE DEF a, sa, item
    <2>8. Rooted(a, g, start, d)
      <3> DEFINE r == [m \in {start} |-> 0]
      <3>1. r[start] = 0 /\ r \in [DOMAIN a.parent -> Nat] BY <2>3
      <3> HIDE DEF r
      <3>2. Cardinality({start}) = 1 BY FS_Singleton
      <3>3. RootedBy(a, r, g, start, d) BY <2>2, <2>3, <2>4, <3>1, <3>2 DEF RootedBy
      <3> QED BY <3>1, <3>3 DEF Rooted
    <2>9. R[0] = {start} BY <1>4 DEF Reaches
    <2>10. Queued(sa, R, start, d, {}) BY <2>2, <2>4, <2>6, <2>9 DEF Queued
    <2>11. Left(sa, g, R, target, d, {})
      <3>1. 1 \in 1..Len(sa.queue) /\ sa.queue[1].id = start BY <2>2, <2>4, <2>6
      <3>2. \A u \in sa.visited : \E j \in 1..Len(sa.queue) : sa.queue[j].id = u BY <2>6, <3>1
      <3> QED BY <3>2 DEF Left
    <2>12. Len(sa.queue) + 0 <= Cardinality(sa.visited)
      <3>1. Len(sa.queue) = 1 BY <2>4, <2>6
      <3>2. Cardinality(sa.visited) = 1 BY <2>6, FS_Singleton
      <3> QED BY <3>1, <3>2
    <2>13. Searching(sa, 0, g, R, start, target, d, {})
      BY <2>6, <2>7, <2>10, <2>11, <2>12 DEF Searching
    <2> QED BY <2>5, <2>8, <2>13 DEF Trailing, a, sa
  <1> DEFINE pop(b) == PopTrail(g, target, dd, b)
  <1>6. ASSUME NEW b, NEW i \in Nat, Inv(b, i) PROVE Inv(pop(b), i + 1)
    <2> DEFINE r == pop(b)
    <2>1. r = PopTrail(g, target, d, b) BY <1>2
    <2> HIDE DEF r
    <2>2. Inv(r, i + 1) BY <1>3, <1>4, <1>6, <2>1, PopTrailOne
    <2> QED BY <2>2 DEF r
  <1> HIDE DEF Inv, init
  <1> DEFINE S == {b \in Trails(N) : \E i \in Nat : Inv(b, i)}
             st == [w \in S \X (1..n) |-> pop(w[1])]
  <1>7. \A b : \A i \in Nat : Inv(b, i) => b \in S BY DEF Inv, Trailing
  <1>8. \A b \in S : \A k \in 1..n : st[<<b, k>>] = pop(b) OBVIOUS
  <1>9. init \in S BY <1>5, <1>7
  <1>10. StaysIn(S, n, st)
    <2>1. ASSUME NEW b \in S PROVE pop(b) \in S
      <3>1. PICK i \in Nat : Inv(b, i) OBVIOUS
      <3>2. Inv(pop(b), i + 1) /\ i + 1 \in Nat BY <1>6, <3>1
      <3> HIDE DEF S, pop
      <3> QED BY <1>7, <3>2
    <2> HIDE DEF S, st, pop
    <2> QED BY <1>8, <2>1 DEF StaysIn
  <1> HIDE DEF S, st
  <1>11. Is(it)
    <2>1. PICK f : FoldsOver(f, S, init, n, st) BY <1>3, <1>9, <1>10, FoldThere
    <2>2. \A s \in SUBSET N : f[s] = IF s = {} THEN init ELSE pop(f[s \ {T!Max(s)}])
      <3> TAKE s \in SUBSET N
      <3>0. s \in SUBSET (1..n) BY <1>3
      <3> HIDE DEF pop
      <3>1. CASE s = {} BY <2>1, <3>0, <3>1 DEF FoldsOver
      <3>2. CASE s # {} BY <1>8, <2>1, <3>0, <3>2 DEF FoldsOver
      <3> QED BY <3>1, <3>2
    <2>3. f = [s \in SUBSET N |-> f[s]] BY <1>3, <2>1 DEF FoldsOver
    <2>4. Is(f) BY <2>2, <2>3
    <2>5. \E h : Is(h) BY <2>4
    <2> HIDE DEF Is
    <2> QED BY <2>5
  <1> HIDE DEF it
  <1>12. it[{}] = init BY <1>11
  <1>13. ASSUME NEW s \in SUBSET (1..n), s # {}, it[s \ {T!Max(s)}] \in S
         PROVE  it[s] = st[<<it[s \ {T!Max(s)}], T!Max(s)>>]
    <2>1. T!Max(s) \in s BY <1>3, <1>13, Greatest
    <2>2. T!Max(s) \in 1..n BY <2>1
    <2>3. it[s] = pop(it[s \ {T!Max(s)}])
      <3>1. s \in SUBSET N BY <1>3
      <3> QED BY <1>11, <1>13, <3>1
    <2> HIDE DEF pop
    <2> QED BY <1>8, <1>13, <2>2, <2>3
  <1>14. PICK f : StepsFrom(f, S, init, n, st) /\ it[1..n] = f[n]
    <2>1. Unfolds(it, S, init, n, st) BY <1>12, <1>13 DEF Unfolds
    <2>2. EndsAt(it[1..n], S, init, n, st) BY <1>3, <1>9, <1>10, <2>1, FoldEnds
    <2> QED BY <2>2 DEF EndsAt
  <1> HIDE DEF pop
  <1> DEFINE P == {k \in 0..n : Inv(f[k], k)}
  <1>15. 0 \in P BY <1>3, <1>5, <1>14 DEF StepsFrom
  <1>16. ASSUME NEW k \in 1..n, k - 1 \in P PROVE k \in P
    <2>1. f[k - 1] \in S /\ f[k] = st[<<f[k - 1], k>>] /\ k \in 0..n BY <1>3, <1>14 DEF StepsFrom
    <2>2. f[k] = pop(f[k - 1]) BY <1>8, <2>1
    <2>3. Inv(f[k - 1], k - 1) /\ k - 1 \in Nat /\ (k - 1) + 1 = k BY <1>16
    <2>4. Inv(pop(f[k - 1]), (k - 1) + 1) BY <1>6, <2>3
    <2> QED BY <2>1, <2>2, <2>3, <2>4
  <1>17. Inv(f[n], n)
    <2>1. \A k \in 1..n : k - 1 \in P => k \in P BY <1>16
    <2>2. n \in 0..n BY <1>3
    <2>3. n \in P
      <3> HIDE DEF P, n
      <3> QED BY <1>3, <1>15, <2>1, <2>2, UpTo
    <2> QED BY <2>3
  <1> DEFINE b == f[n]
             path == T!ShortestPath(g, start, target, "outbound", T!TaintTypes, d)
  <1>18. path = T!PathBack(b.parent, start, target, n) BY <1>1, <1>3, <1>14
  <1> HIDE DEF b, path
  <1>19. Trailing(b, Len(g.node), g, R, start, target, d) BY <1>17 DEF Inv, b
  <1>20. ASSUME target \in T!Avoiding(g, start, d, {}), target \notin DOMAIN b.parent PROVE FALSE
    <2> DEFINE acc == Seen(b)
    <2>1. Searching(acc, Len(g.node), g, R, start, target, d, {}) BY <1>19, <1>20 DEF Trailing
    <2>2. ~acc.found BY DEF Seen
    <2> HIDE DEF acc
    <2>3. target \notin R[d] BY <1>4, <2>1, <2>2, NoneLeft
    <2> QED BY <1>4, <1>20, <2>3
  <1>21. b \in Trails(DOMAIN g.node) /\ Rooted(b, g, start, d) BY <1>19 DEF Trailing
  <1> HIDE DEF n
  <1>22. Trailed(b, g, start, target, d) BY <1>18, <1>20, <1>21 DEF Trailed, path, n
  <1> QED BY <1>22

\* A sanitized pair that a path connects has a sanitizer on it, and is told it.
LEMMA SanitizerIsNamed ==
    ASSUME NEW g, IsGraph(g), \A s \in Seq(Nat) : s # Absent,
           NEW source \in DOMAIN g.node, NEW sink, NEW d \in Nat \ {0}, NEW sanitizers,
           T!pathSanitized(g, source, sink, d, sanitizers).sanitized,
           sink \in T!Avoiding(g, source, d, {})
    PROVE  T!pathSanitized(g, source, sink, d, sanitizers).by \in sanitizers
  <1> DEFINE found == T!ReachableExcluding(g, source, sink, "outbound", T!TaintTypes, d, sanitizers)
             path == T!ShortestPath(g, source, sink, "outbound", T!TaintTypes, d)
             places == {i \in DOMAIN path : path[i] \in sanitizers \ {source, sink}}
             on == T!AtPlaces(path, places)
             verdict == T!pathSanitized(g, source, sink, d, sanitizers)
  <1>1. sink \notin T!Avoiding(g, source, d, sanitizers) BY TaintVerdictIsReach
  <1>2. ~found BY <1>1, SearchIsReach
  <1>3. PICK R : Reaches(R, g, source, d, sanitizers) /\ T!Avoiding(g, source, d, sanitizers) = R[d]
    <2>1. d \in Nat OBVIOUS
    <2> QED BY <2>1, AvoidingReaches
  <1>4. source # sink
    <2>1. d \in Nat /\ 0 \in 0..d /\ d \in 0..d OBVIOUS
    <2>2. R[0] \subseteq R[d] BY <1>3, <2>1, ReachGrows
    <2>3. source \in R[0] BY <1>3 DEF Reaches
    <2> QED BY <1>1, <1>3, <2>2, <2>3
  <1> HIDE DEF path
  <1>5. IsCallPath(path, g, source, sink, d)
    <2>1. PICK b : Trailed(b, g, source, sink, d) BY <1>4, ShortestPathTrails
    <2>2. /\ b \in Trails(DOMAIN g.node) /\ Rooted(b, g, source, d) /\ sink \in DOMAIN b.parent
          /\ path = T!PathBack(b.parent, source, sink, Len(g.node))
      BY <2>1 DEF Trailed, path
    <2>3. IsFiniteSet(DOMAIN g.node)
      <3> DEFINE n == Len(g.node)
      <3>1. n \in Nat /\ DOMAIN g.node = 1..n BY DEF IsGraph, IsASequence
      <3> HIDE DEF n
      <3> QED BY <3>1, FS_Interval
    <2>4. d \in Nat OBVIOUS
    <2> QED BY <2>2, <2>3, <2>4, BackIsAPath
  <1>6. path \in Seq(Nat)
    <2>1. DOMAIN g.node \subseteq Nat BY DEF IsGraph, IsASequence
    <2>2. path \in Seq(DOMAIN g.node) BY <1>5 DEF IsCallPath
    <2> QED BY <2>1, <2>2
  <1>7. path # Absent BY <1>6
  <1>8. PICK i \in 1..Len(path) : path[i] \in sanitizers \ {source, sink}
    <2>1. d \in Nat OBVIOUS
    <2>2. ~(\A i \in 1..Len(path) : path[i] \notin sanitizers \ {source, sink})
      BY <1>1, <1>3, <1>5, <2>1, PathAvoids
    <2> QED BY <2>2
  <1>9. on \in Seq(sanitizers) /\ on # <<>>
    <2> DEFINE m == Len(path)
               kept == T!InOrder(places, m)
    <2>1. m \in Nat /\ DOMAIN path = 1..m BY <1>6
    <2>2. on = [k \in DOMAIN kept |-> path[kept[k]]] BY DEF T!AtPlaces
    <2>3. i \in places BY <1>8, <2>1
    <2>4. \A j \in places : path[j] \in sanitizers /\ j \in 1..m BY <2>1
    <2> HIDE DEF places, m, on
    <2>5. Lists(kept, places \cap (1..m)) BY <2>1, OrderLists
    <2> HIDE DEF kept
    <2>6. kept \in Seq(places \cap (1..m)) /\ \E k \in 1..Len(kept) : kept[k] = i
      BY <2>3, <2>4, <2>5 DEF Lists
    <2>7. Len(kept) \in Nat /\ DOMAIN kept = 1..Len(kept) BY <2>6
    <2>8. \A k \in DOMAIN kept : path[kept[k]] \in sanitizers BY <2>4, <2>6, <2>7
    <2>9. on \in Seq(sanitizers) /\ Len(on) = Len(kept) BY <2>2, <2>7, <2>8
    <2>10. Len(on) # 0 BY <2>6, <2>7, <2>9
    <2> QED BY <2>9, <2>10
  <1>10. verdict = [sanitized |-> TRUE, by |-> Head(on)]
    <2>1. verdict = [sanitized |-> TRUE, by |-> IF on = <<>> THEN Absent ELSE Head(on)]
      BY <1>2, <1>7 DEF T!pathSanitized, path
    <2> HIDE DEF on
    <2> QED BY <1>9, <2>1
  <1> HIDE DEF on, verdict
  <1>11. verdict.by = Head(on) BY <1>10
  <1>12. Head(on) \in sanitizers BY <1>9
  <1> QED BY <1>11, <1>12 DEF verdict

\* What a search finds at some distance is in reach of as many calls.
LEMMA LevelsWithin ==
    ASSUME NEW g, IsGraph(g), NEW start \in DOMAIN g.node, NEW d \in Nat, NEW h \in 0..d,
           NEW x \in T!Levels(g, start, "outbound", T!TaintTypes, d, 0)[h]
    PROVE  x \in T!Avoiding(g, start, d, {})
  <1> DEFINE at == T!Levels(g, start, "outbound", T!TaintTypes, d, 0)
             es == T!Selected(g, T!TaintTypes, 0)
  <1>1. PICK R : Reaches(R, g, start, d, {}) /\ T!Avoiding(g, start, d, {}) = R[d] BY AvoidingReaches
  <1>2. Layers(at, g, start, "outbound", es, d) BY LevelsAreLayers
  <1>3. es = {e \in DOMAIN g.edge : g.edge[e].type \in ElementsOf(T!TaintTypes)}
    BY DEF T!Selected, T!Contains, T!TaintTypes, ElementsOf
  <1> HIDE DEF at, es
  <1> DEFINE P == {k \in 0..d : at[k] \subseteq R[k]}
  <1>4. 0 \in P BY <1>1, <1>2 DEF Layers, Reaches
  <1>5. ASSUME NEW k \in 1..d, k - 1 \in P PROVE k \in P
    <2>1. R[k] = R[k - 1] \cup UNION {Called(g, n) : n \in R[k - 1] \ ({} \ {start})} BY <1>1 DEF Reaches
    <2>2. at[k] = {g.edge[e].tgt : e \in {e \in es : g.edge[e].src \in at[k - 1]}}
      BY <1>2 DEF Layers, T!Source, T!Target
    <2>3. ASSUME NEW e \in es, g.edge[e].src \in at[k - 1] PROVE g.edge[e].tgt \in R[k]
      <3>1. g.edge[e].src \in R[k - 1] BY <1>5, <2>3
      <3>2. g.edge[e].tgt \in Called(g, g.edge[e].src) BY <1>3 DEF Called
      <3> QED BY <2>1, <3>1, <3>2
    <2>4. at[k] \subseteq R[k] BY <2>2, <2>3
    <2> QED BY <2>4
  <1>6. \A k \in 0..d : k \in P
    <2>1. \A k \in 1..d : k - 1 \in P => k \in P BY <1>5
    <2> HIDE DEF P
    <2> QED BY <1>4, <2>1, UpTo
  <1>7. x \in R[h] BY <1>6 DEF at
  <1>8. R[h] \subseteq R[d]
    <2>1. d \in h..d OBVIOUS
    <2> QED BY <1>1, <2>1, ReachGrows
  <1> QED BY <1>1, <1>7, <1>8

\* What is said of a pair is so.
LEMMA PairIsSound ==
    ASSUME NEW g, IsGraph(g), \A s \in Seq(Nat) : s # Absent, NEW d \in Nat \ {0},
           NEW p \in PairsOf(g, d), AtDistance(p, g, d)
    PROVE  /\ p.sanitized <=> p.sink \notin T!Avoiding(g, p.source, d, T!Sanitizers(g))
           /\ p.sanitized => p.by \in T!Sanitizers(g)
  <1>1. PICK w \in (DOMAIN g.node) \X RowsOf(DOMAIN g.node) : p = PairOf(g, w[1], w[2], d) BY DEF PairsOf
  <1> DEFINE src == w[1]
             sink == w[2].node
             verdict == T!pathSanitized(g, src, sink, d, T!Sanitizers(g))
             at == T!Levels(g, src, "outbound", T!TaintTypes, d, 0)
  <1>2. /\ p.source = src /\ p.sink = sink
        /\ p.sanitized = verdict.sanitized /\ p.by = verdict.by
    BY <1>1, PairFields
  <1>3. src \in DOMAIN g.node OBVIOUS
  <1>4. p.hops \in 1..d /\ sink \in at[p.hops]
    <2>1. p.hops \in T!Distances(g, src, "outbound", d, sink) BY <1>2 DEF AtDistance, T!Nearest
    <2> QED BY <2>1 DEF T!Distances
  <1> HIDE DEF src, sink
  <1>5. sink \in T!Avoiding(g, src, d, {})
    <2> DEFINE h == p.hops
    <2>1. d \in Nat /\ h \in 0..d /\ sink \in at[h] BY <1>4
    <2> HIDE DEF h
    <2> QED BY <1>3, <2>1, LevelsWithin
  <1>6. verdict.sanitized <=> sink \notin T!Avoiding(g, src, d, T!Sanitizers(g))
    BY <1>3, TaintVerdictIsReach
  <1>7. verdict.sanitized => verdict.by \in T!Sanitizers(g)
    <2> HAVE verdict.sanitized
    <2> QED BY <1>3, <1>5, SanitizerIsNamed
  <1> QED BY <1>2, <1>6, <1>7

\* Whatever the graph, the tainted paths that are told are true: each pair of a
\* source and a sink once, at its distance, called sanitized exactly when the
\* sanitizers cut the sink off, with one of them named; and none is left out
\* unless the list is full or a search was cut off.
THEOREM TaintVerdictsAreExact ==
    ASSUME BFSCap \in Nat \ {0}, \A s \in Seq(Nat) : s # Absent, NEW g, IsGraph(g),
           NEW maxPaths \in Int, NEW depth \in Int, NEW excludeTests
    PROVE  T!TaintVerdicts(g, maxPaths, depth, excludeTests)
  <1> DEFINE d == T!Clamp(depth, 1, 6)
             srcs == T!refineSources(g, Entering(g, excludeTests))
             refined == T!ToSet(srcs)
             sinks == T!ToSet(Sensitive(g, excludeTests))
             paths == T!handleTaintedPaths(g, maxPaths, depth, excludeTests).paths
             n == Len(paths)
             N == DOMAIN g.node
             pairs == {<<p.source, p.sink>> : p \in T!ToSet(paths)}
             told(p) ==
                /\ T!Nearest(p.hops, T!Distances(g, p.source, "outbound", d, p.sink))
                /\ p.sanitized <=> p.sink \notin T!Avoiding(g, p.source, d, T!Sanitizers(g))
                /\ p.sanitized => p.by \in T!Sanitizers(g)
  <1>1. /\ srcs \in Seq(N) /\ d \in Nat \ {0} /\ ToldOnce(paths, g, d)
        /\ sinks # {} => Paid(paths, maxPaths, AllDue(g, srcs, sinks, d))
    BY PathsAreTold
  <1> HIDE DEF d, srcs, sinks, paths
  <1>2. paths \in Seq(PairsOf(g, d)) /\ n \in Nat /\ DOMAIN paths = 1..n BY <1>1 DEF ToldOnce
  <1>3. T!ToSet(paths) = {paths[i] : i \in 1..n} BY <1>2 DEF T!ToSet
  <1>4. ASSUME NEW p \in T!ToSet(paths) PROVE told(p)
    <2>1. PICK i \in 1..n : p = paths[i] BY <1>3
    <2>2. p \in PairsOf(g, d) /\ AtDistance(p, g, d) BY <1>1, <1>2, <2>1 DEF ToldOnce
    <2>3. /\ p.sanitized <=> p.sink \notin T!Avoiding(g, p.source, d, T!Sanitizers(g))
          /\ p.sanitized => p.by \in T!Sanitizers(g)
      BY <1>1, <2>2, PairIsSound
    <2> QED BY <2>2, <2>3 DEF AtDistance
  <1>5. T!Cardinality(pairs) = n
    <2> DEFINE c == [i \in 1..n |-> <<paths[i].source, paths[i].sink>>]
    <2>1. NoneTwice(c, n) BY <1>1 DEF ToldOnce, Once, NoneTwice
    <2>2. pairs = {c[i] : i \in 1..n} BY <1>3
    <2> HIDE DEF c, pairs, n
    <2>3. Cardinality(pairs) = n BY <1>2, <2>1, <2>2, AsManyNodes
    <2> QED BY <2>3 DEF T!Cardinality, Cardinality
  <1>6. ASSUME n < maxPaths, T!Uncut(g, refined, "outbound", d),
               NEW source \in refined, NEW sink \in sinks,
               T!Distances(g, source, "outbound", d, sink) # {}
        PROVE  <<source, sink>> \in pairs
    <2> DEFINE rows == RowsFrom(g, source, d)
               found == T!bfsVisited(g, source, "outbound", T!TaintTypes, d, BFSCap, 0)
               at == T!Levels(g, source, "outbound", T!TaintTypes, d, 0)
    <2>1. PICK i \in 1..Len(srcs) : source = srcs[i] BY <1>1 DEF T!ToSet
    <2>2. source \in N BY <1>1, <2>1
    <2>3. rows = found.visited /\ ~found.truncated BY <1>6, RowsAreVisited DEF T!Uncut
    <2>4. TellsAll(rows, at, d)
      <3>1. ~found.truncated => TellsAll(found.visited, at, d) BY <1>1, <2>2, SearchWalks
      <3> QED BY <2>3, <3>1
    <2>5. PICK h \in 1..d : sink \in at[h] BY <1>6 DEF T!Distances
    <2> HIDE DEF rows, at, found
    <2>6. PICK j \in 1..Len(rows) : rows[j] = RowAt(sink, h) BY <2>4, <2>5 DEF TellsAll, Told
    <2>7. <<source, sink>> \in DueOf(g, source, sinks, d)
      <3>1. rows[j].node = sink BY <2>6 DEF RowAt
      <3> QED BY <1>6, <3>1 DEF DueOf, Due, rows
    <2>8. <<source, sink>> \in AllDue(g, srcs, sinks, d) BY <2>1, <2>7 DEF AllDue
    <2>9. Paid(paths, maxPaths, AllDue(g, srcs, sinks, d)) BY <1>1, <1>6
    <2>10. ~(n >= maxPaths) BY <1>2, <1>6
    <2>11. Tells(paths, <<source, sink>>) BY <2>8, <2>9, <2>10 DEF Paid
    <2>12. PICK k \in 1..n : paths[k].source = source /\ paths[k].sink = sink BY <2>11 DEF Tells
    <2> QED BY <1>3, <2>12
  <1> HIDE DEF n
  <1>7. Len(paths) = n BY DEF n
  <1> DEFINE sound ==
                /\ \A p \in T!ToSet(paths) : told(p)
                /\ T!Cardinality(pairs) = Len(paths)
                /\ Len(paths) < maxPaths /\ T!Uncut(g, refined, "outbound", d) =>
                     \A source \in refined, sink \in sinks :
                       T!Distances(g, source, "outbound", d, sink) # {} => <<source, sink>> \in pairs
  <1>8. sound
    <2> HIDE DEF told, pairs, refined
    <2> QED BY <1>4, <1>5, <1>6, <1>7
  <1>9. T!TaintVerdicts(g, maxPaths, depth, excludeTests) <=> sound
    BY DEF T!TaintVerdicts, d, srcs, sinks, paths, Entering, Sensitive
  <1> QED BY <1>8, <1>9

-----------------------------------------------------------------------------
(* The questions that are asked of walks.                                  *)

\* Whatever the calls among the five functions, they are a graph, whose nodes
\* are in a crate and a file or in none.
LEMMA CallsAreAGraph ==
    ASSUME NEW on
    PROVE  /\ IsGraph(OfCalls(on)) /\ DOMAIN OfCalls(on).node = 1..5
           /\ Contained(OfCalls(on), "crate") /\ Contained(OfCalls(on), "file")
  <1> DEFINE g == OfCalls(on)
             order == T!InOrder(on, 12)
  <1>1. order \in Seq(1..12)
    <2>1. Lists(order, on \cap (1..12)) BY OrderLists
    <2>2. order \in Seq(on \cap (1..12)) BY <2>1 DEF Lists
    <2> HIDE DEF order
    <2> QED BY <2>2
  <1>2. g.node = Codes /\ g.edge = [i \in DOMAIN order |-> Calls[order[i]]] BY DEF OfCalls
  <1>3. \A k \in 1..12 : Calls[k].src \in 1..5 /\ Calls[k].tgt \in 1..5
    BY DEF Calls, Call
  <1>4. Codes \in Seq({Codes[i] : i \in 1..5}) /\ DOMAIN Codes = 1..5 BY DEF Codes
  <1>5. \A i \in 1..5 : Codes[i].within["crate"] \in Nat \cup {Absent}
                        /\ Codes[i].within["file"] \in Nat \cup {Absent}
    BY DEF Codes, Code
  <1>6. IsASequence(g.node) BY <1>2, <1>4 DEF IsASequence, ElementsOf
  <1>7. /\ IsASequence(g.edge)
        /\ \A e \in DOMAIN g.edge : g.edge[e].src \in 1..5 /\ g.edge[e].tgt \in 1..5
    <2> HIDE DEF order
    <2>1. DOMAIN g.edge = 1..Len(order) /\ Len(order) \in Nat BY <1>1, <1>2
    <2>2. \A e \in 1..Len(order) : g.edge[e] = Calls[order[e]] /\ order[e] \in 1..12
      BY <1>1, <1>2
    <2>3. g.edge = [i \in 1..Len(order) |-> g.edge[i]] BY <1>1, <1>2
    <2>4. g.edge \in Seq({g.edge[i] : i \in 1..Len(order)})
      <3> DEFINE edges == g.edge
                 n == Len(order)
                 U == {edges[i] : i \in 1..n}
      <3>1. n \in Nat /\ edges = [i \in 1..n |-> edges[i]] BY <2>1, <2>3
      <3> HIDE DEF edges, g, n
      <3>2. edges \in [1..n -> U] BY <3>1
      <3> HIDE DEF U
      <3>3. edges \in Seq(U) BY <3>1, <3>2, SeqDef
      <3> QED BY <3>3 DEF edges, n, U
    <2> QED BY <2>1, <2>2, <2>4, <1>3 DEF IsASequence, ElementsOf
  <1> HIDE DEF g
  <1>8. IsGraph(g) BY <1>2, <1>4, <1>6, <1>7 DEF IsGraph
  <1>9. Contained(g, "crate") /\ Contained(g, "file") BY <1>2, <1>4, <1>5 DEF Contained
  <1> QED BY <1>2, <1>4, <1>8, <1>9 DEF g

\* The diffs that are asked about are diffs.
LEMMA DiffsAreDiffs == \A files \in Diffs : IsADiff(files)
  <1>1. IsASequence(<<>>) /\ IsASequence(<<{2}, {3}>>) /\ IsASequence(<<{9}>>) /\ IsASequence(<<{2}>>)
    BY DEF IsASequence, ElementsOf
  <1>2. \A a, b : IsASequence(<<a>>) /\ IsASequence(<<a, b>>) BY DEF IsASequence, ElementsOf
  <1>3. ASSUME NEW p, NEW s, NEW h, IsASequence(h), NEW p2, NEW s2, NEW h2, IsASequence(h2)
        PROVE  IsADiff(<<Changed(p, s, h)>>) /\ IsADiff(<<Changed(p, s, h), Changed(p2, s2, h2)>>)
    <2> DEFINE a == Changed(p, s, h)
               b == Changed(p2, s2, h2)
    <2>1. a.hunks = h /\ b.hunks = h2 BY DEF Changed
    <2> HIDE DEF a, b
    <2>2. IsADiff(<<a>>)
      <3>1. DOMAIN <<a>> = {1} /\ <<a>>[1] = a OBVIOUS
      <3> QED BY <1>2, <1>3, <2>1, <3>1 DEF IsADiff
    <2>3. IsADiff(<<a, b>>)
      <3>1. DOMAIN <<a, b>> = {1, 2} /\ <<a, b>>[1] = a /\ <<a, b>>[2] = b OBVIOUS
      <3> QED BY <1>2, <1>3, <2>1, <3>1 DEF IsADiff
    <2> QED BY <2>2, <2>3 DEF a, b
  <1>4. IsADiff(<<Changed("q", "M", <<>>)>>) BY <1>1, <1>3
  <1>5. IsADiff(<<Changed("p", "M", <<{2}, {3}>>), Changed("q", "D", <<>>)>>) BY <1>1, <1>3
  <1>6. IsADiff(<<Changed("r", "M", <<{9}>>), Changed("q", "M", <<{2}>>)>>) BY <1>1, <1>3
  <1> QED BY <1>4, <1>5, <1>6 DEF Diffs

\* What a walk is asked about.
AskedOfWalks == ask \in WalkSeeds \/ \E on : ask \in WalkQuestions(on)

\* Every answer about walks that the questions ask for is exact, whatever the
\* limits of the searches.
THEOREM WalksAreExact ==
    ASSUME \A s \in Seq(Nat) : s # Absent
    PROVE  WalkSpec => []WalksExact
  <1>1. ask \in WalkSeeds => AskedOfWalks BY DEF AskedOfWalks
  <1>2. AskedOfWalks /\ [AskWalk]_ask => AskedOfWalks' BY DEF AskedOfWalks, AskWalk
  <1>3. AskedOfWalks => WalksExact
    <2>1. BFSCap \in Nat \ {0} /\ CycleCap \in Nat \ {0} BY WalkCaps DEF T!TraversalCaps
    <2>2. CASE ask \in WalkSeeds BY <2>2 DEF WalkSeeds, WalksExact
    <2>3. ASSUME NEW on, ask \in WalkQuestions(on) PROVE WalksExact
      <3> DEFINE g == OfCalls(on)
      <3>1. IsGraph(g) /\ DOMAIN g.node = 1..5 /\ Contained(g, "crate") /\ Contained(g, "file")
        BY CallsAreAGraph
      <3> HIDE DEF g
      <3>2. CASE ask \in [topic : {"taint"}, on : {on}, paths : {1, 9}, depth : {0, 2, 4}, tests : {TRUE}]
        <4>1. T!TaintVerdicts(g, ask.paths, ask.depth, ask.tests)
          <5>1. ask.paths \in Int /\ ask.depth \in Int BY <3>2
          <5> QED BY <2>1, <3>1, <5>1, TaintVerdictsAreExact
        <4>2. ask.topic = "taint" /\ ask.on = on BY <3>2
        <4> QED BY <4>1, <4>2 DEF WalksExact, g
      <3>3. CASE ask \in [topic : {"impact"}, on : {on}, files : Diffs, depth : {1, 3}, tokens : {100}]
        <4>1. T!ImpactNearest(g, ask.files, ask.depth, ask.tokens)
          <5>1. ask.files \in Diffs /\ ask.depth \in Int BY <3>3
          <5>2. IsADiff(ask.files) BY <5>1, DiffsAreDiffs
          <5> QED BY <2>1, <3>1, <5>1, <5>2, ImpactIsExact
        <4>2. ask.topic = "impact" /\ ask.on = on BY <3>3
        <4> QED BY <4>1, <4>2 DEF WalksExact, g
      <3>4. CASE ask \in [topic : {"cycles"}, on : {on}, level : {"crate", "file"}, depth : {1, 3, 4}]
        <4>1. T!CyclesOnce(g, ask.level, ask.depth)
          <5>1. Contained(g, ask.level) /\ ask.depth \in Int BY <3>1, <3>4
          <5> QED BY <2>1, <3>1, <5>1, CyclesAreExact
        <4>2. ask.topic = "cycles" /\ ask.on = on BY <3>4
        <4> QED BY <4>1, <4>2 DEF WalksExact, g
      <3>5. CASE ask \in [topic : {"trace"}, on : {on}, root : {2, 5}, dir : {"inbound", "both"},
                          types : {<<"CALLS">>, T!TaintTypes}, depth : {3}, min : {0, 5}]
        <4>1. T!TraceKeeps(g, ask.root, ask.dir, ask.types, ask.depth, ask.min)
          <5>1. ask.root \in DOMAIN g.node /\ ask.depth \in Int BY <3>1, <3>5
          <5> QED BY <2>1, <3>1, <5>1, TracesKeepTheirRows
        <4>2. ask.topic = "trace" /\ ask.on = on BY <3>5
        <4> QED BY <4>1, <4>2 DEF WalksExact, g
      <3> QED BY <2>3, <3>2, <3>3, <3>4, <3>5 DEF WalkQuestions
    <2> QED BY <2>2, <2>3 DEF AskedOfWalks
  <1> QED BY <1>1, <1>2, <1>3, PTL DEF WalkSpec
=============================================================================
