--------------------------- MODULE Answers_proof ---------------------------
(***************************************************************************)
(* What the questions of Evidence, ScipIngest, Files, Traversal (cycles of *)
(* dependencies; Walks_proof has its walks) and Embedder answer, for every *)
(* input: the verdict on a bundle of observations (internal/evidence), the *)
(* ingestion of a compiler's index (pipeline/scip_ingest.go), the files of *)
(* a checkout and index_health (internal/discover, tools/health.go), the   *)
(* slices of read_file (locagent/readfile.go), detect_cycles               *)
(* (tools/cycles.go), settings and vectors of a list of texts              *)
(* (internal/embed).                                                       *)
(***************************************************************************)
EXTENDS Evidence, MCFilesWalks, FiniteSetTheorems, SequenceTheorems, WellFoundedInduction, TLAPS

CONSTANTS BatchSize, sort(_)            \* of ScipIngest
CONSTANTS MaxAttempts, TextBatch, Width(_)  \* of Embedder

Sc == INSTANCE ScipIngest
Em == INSTANCE Embedder WITH BatchSize <- TextBatch

-----------------------------------------------------------------------------
(* Sets.                                                                   *)

\* A finite set's image is finite.
LEMMA FiniteImage ==
    ASSUME NEW S, IsFiniteSet(S), NEW f
    PROVE  IsFiniteSet({f[x] : x \in S})
  <1> DEFINE U == {f[x] : x \in S}
             g == [x \in S |-> f[x]]
  <1>1. g \in Surjection(S, U) BY DEF Surjection
  <1> QED BY <1>1, FS_Surjection

\* Among natural numbers one is the least.
LEMMA LeastNat ==
    ASSUME NEW U \in SUBSET Nat, U # {}
    PROVE  \E n \in U : \A m \in U : n <= m
  <1> DEFINE R == {ss \in Nat \X Nat : ss[1] < ss[2]}
  <1>1. IsWellFoundedOn(R, Nat) BY NatLessThanWellFounded DEF OpToRel
  <1>2. PICK n \in U : \A m \in U : <<m, n>> \notin R
    <2> HIDE DEF R
    <2> QED BY <1>1, WFMin
  <1>3. \A m \in U : n <= m
    <2> TAKE m \in U
    <2>1. ~(m < n) BY <1>2
    <2> QED BY <2>1
  <1> QED BY <1>3

-----------------------------------------------------------------------------
(* Numbers, and functions by steps.                                        *)

\* Some numbers up to n have a greatest.
LEMMA Greatest ==
    ASSUME NEW n \in Nat, NEW s \in SUBSET (1..n), s # {}
    PROVE  T!Max(s) \in s /\ \A i \in s : i <= T!Max(s)
  <1> DEFINE R == {n - i : i \in s}
  <1>0. \A i \in s : i \in 1..n /\ n - i \in Nat OBVIOUS
  <1>1. R \in SUBSET Nat /\ R # {} BY <1>0
  <1>2. PICK r \in R : \A m \in R : r <= m
    <2> HIDE DEF R
    <2> QED BY <1>1, LeastNat
  <1>3. PICK i \in s : r = n - i BY <1>2
  <1>4. \A j \in s : i >= j
    <2> TAKE j \in s
    <2>1. n - j \in R /\ i \in Int /\ j \in Int BY <1>0, <1>3
    <2>2. r <= n - j BY <1>2, <2>1
    <2> QED BY <1>3, <2>1, <2>2
  <1>5. \A j \in s : T!Max(s) >= j /\ T!Max(s) \in s BY <1>4 DEF T!Max
  <1> QED BY <1>5

\* What holds at 0, and of a number when of the one before, holds up to n.
LEMMA UpTo ==
    ASSUME NEW n \in Nat, NEW P, 0 \in P, \A h \in 1..n : h - 1 \in P => h \in P
    PROVE  \A h \in 0..n : h \in P
  <1> DEFINE U == {h \in 0..n : h \notin P}
  <1>1. U = {}
    <2> SUFFICES ASSUME U # {} PROVE FALSE OBVIOUS
    <2>1. U \in SUBSET Nat OBVIOUS
    <2> HIDE DEF U
    <2>2. PICK h \in U : \A k \in U : h <= k BY <2>1, LeastNat
    <2>3. h \in 0..n /\ h \notin P BY <2>2 DEF U
    <2>4. h \in 1..n /\ h - 1 \in 0..n BY <2>3
    <2>5. h - 1 \notin U BY <2>2, <2>4
    <2>6. h - 1 \in P BY <2>4, <2>5 DEF U
    <2> QED BY <2>3, <2>4, <2>6
  <1> QED BY <1>1

\* Steps do not leave S; a function that takes them, from b on.
StaysIn(S, n, st) == \A x \in S : \A h \in 1..n : st[<<x, h>>] \in S
StepsFrom(f, S, b, n, st) ==
    /\ f[0] = b /\ \A h \in 1..n : f[h] = st[<<f[h - 1], h>>]
    /\ \A h \in 0..n : f[h] \in S

\* What is defined by steps from the one before is defined.
LEMMA StepByStep ==
    ASSUME NEW S, NEW b \in S, NEW n \in Nat, NEW st, StaysIn(S, n, st)
    PROVE  \E f : StepsFrom(f, S, b, n, st)
  <1> DEFINE Is(m, f) == f[0] = b /\ \A h \in 1..m : f[h] = st[<<f[h - 1], h>>]
             P == {m \in 0..n : \E f \in [0..m -> S] : Is(m, f)}
  <1>1. 0 \in P
    <2> DEFINE e == [k \in 0..0 |-> b]
    <2>1. e \in [0..0 -> S] /\ Is(0, e) OBVIOUS
    <2>2. 0 \in 0..n OBVIOUS
    <2> HIDE DEF e, Is
    <2> QED BY <2>1, <2>2
  <1>2. ASSUME NEW m \in 1..n, m - 1 \in P PROVE m \in P
    <2>1. PICK f \in [0..(m - 1) -> S] : Is(m - 1, f) BY <1>2
    <2> DEFINE e == [k \in 0..m |-> IF k = m THEN st[<<f[m - 1], m>>] ELSE f[k]]
    <2>2. e \in [0..m -> S] BY DEF StaysIn
    <2>3. e[0] = b BY <2>1
    <2>4. ASSUME NEW h \in 1..m PROVE e[h] = st[<<e[h - 1], h>>]
      <3>1. h - 1 \in 0..(m - 1) /\ h - 1 # m OBVIOUS
      <3>2. e[h - 1] = f[h - 1] BY <3>1
      <3>3. CASE h = m
        <4>1. e[m] = st[<<f[m - 1], m>>] OBVIOUS
        <4> HIDE DEF e
        <4> QED BY <3>2, <3>3, <4>1
      <3>4. CASE h # m
        <4>1. h \in 1..(m - 1) BY <3>4
        <4>2. e[h] = f[h] BY <3>4
        <4> QED BY <2>1, <3>2, <4>1, <4>2
      <3> QED BY <3>3, <3>4
    <2> HIDE DEF e
    <2> QED BY <2>2, <2>3, <2>4
  <1>3. \A m \in 0..n : m \in P
    <2>1. \A m \in 1..n : m - 1 \in P => m \in P BY <1>2
    <2> HIDE DEF P
    <2> QED BY <1>1, <2>1, UpTo
  <1>4. n \in P
    <2> HIDE DEF P
    <2> QED BY <1>3
  <1> QED BY <1>4 DEF StepsFrom

\* A function on the sets of places that takes the last step last.
GoesOver(it, S, b, n, st) ==
    /\ it[{}] = b
    /\ \A s \in SUBSET (1..n) : s # {} => it[s] = st[<<it[s \ {T!Max(s)}], T!Max(s)>>]
    /\ \A s \in SUBSET (1..n) : it[s] \in S

\* A fold goes through the subsets of the places of a sequence: without the
\* last place, and then that one.
LEMMA PlaceByPlace ==
    ASSUME NEW S, NEW b \in S, NEW n \in Nat, NEW st, StaysIn(S, n, st)
    PROVE  \E it : GoesOver(it, S, b, n, st)
  <1> DEFINE Is(m, it) ==
                 /\ it[{}] = b
                 /\ \A s \in SUBSET (1..m) : s # {} => it[s] = st[<<it[s \ {T!Max(s)}], T!Max(s)>>]
             P == {m \in 0..n : \E it \in [SUBSET (1..m) -> S] : Is(m, it)}
  <1>1. 0 \in P
    <2> DEFINE it == [s \in SUBSET (1..0) |-> b]
    <2>1. it \in [SUBSET (1..0) -> S] OBVIOUS
    <2>2. \A s \in SUBSET (1..0) : s = {} OBVIOUS
    <2>3. Is(0, it) BY <2>2
    <2>4. 0 \in 0..n OBVIOUS
    <2> HIDE DEF it, Is
    <2> QED BY <2>1, <2>3, <2>4
  <1>2. ASSUME NEW m \in 1..n, m - 1 \in P PROVE m \in P
    <2>4. m \in Nat OBVIOUS
    <2>5. PICK it \in [SUBSET (1..(m - 1)) -> S] : Is(m - 1, it) BY <1>2
    <2> DEFINE e == [s \in SUBSET (1..m) |-> IF m \in s THEN st[<<it[s \ {m}], m>>] ELSE it[s]]
    <2>6. e \in [SUBSET (1..m) -> S]
      <3>1. ASSUME NEW s \in SUBSET (1..m), m \in s PROVE st[<<it[s \ {m}], m>>] \in S
        <4>1. s \ {m} \in SUBSET (1..(m - 1)) BY <2>4, <3>1
        <4>2. it[s \ {m}] \in S BY <4>1
        <4> QED BY <2>4, <4>2 DEF StaysIn
      <3>2. ASSUME NEW s \in SUBSET (1..m), m \notin s PROVE it[s] \in S
        <4>1. s \in SUBSET (1..(m - 1)) BY <2>4, <3>2
        <4> QED BY <4>1
      <3> HIDE DEF Is
      <3> QED BY <3>1, <3>2
    <2>7. e[{}] = b BY <2>5
    <2>8. ASSUME NEW s \in SUBSET (1..m), s # {}
          PROVE  e[s] = st[<<e[s \ {T!Max(s)}], T!Max(s)>>]
      <3> DEFINE x == T!Max(s)
      <3>1. x \in s /\ \A i \in s : i <= x
        <4>1. m \in Nat BY <2>4
        <4> QED BY <2>8, <4>1, Greatest
      <3>2. CASE m \in s
        <4>1. x = m
          <5>1. s \subseteq 1..m /\ m \in Nat BY <2>4, <2>8
          <5> HIDE DEF x
          <5> QED BY <3>1, <3>2, <5>1
        <4>2. e[s \ {m}] = it[s \ {m}] BY <2>8
        <4>3. e[s] = st[<<it[s \ {m}], m>>] BY <2>8, <3>2
        <4> HIDE DEF e
        <4> QED BY <4>1, <4>2, <4>3
      <3>3. CASE m \notin s
        <4>1. s \in SUBSET (1..(m - 1)) BY <2>4, <2>8, <3>3
        <4>2. e[s] = it[s] /\ e[s \ {x}] = it[s \ {x}] BY <2>8, <3>3
        <4>3. it[s] = st[<<it[s \ {x}], x>>] BY <2>5, <2>8, <4>1
        <4> HIDE DEF e
        <4> QED BY <4>2, <4>3
      <3> QED BY <3>2, <3>3
    <2>9. Is(m, e) BY <2>7, <2>8
    <2> HIDE DEF e, Is
    <2> QED BY <2>6, <2>9
  <1>3. \A m \in 0..n : m \in P
    <2>1. \A m \in 1..n : m - 1 \in P => m \in P BY <1>2
    <2> HIDE DEF P
    <2> QED BY <1>1, <2>1, UpTo
  <1>4. n \in P
    <2> HIDE DEF P
    <2> QED BY <1>3
  <1> QED BY <1>4 DEF GoesOver

-----------------------------------------------------------------------------
(* Evidence.                                                               *)

\* What Go's types say of a bundle: finite lists, and numbers where they count.
IsASequence(s) == s \in Seq(ElementsOf(s))
BundleFields == {"version", "claim", "index", "search", "coverage", "invariant", "required", "observations"}
IsBundle(b) ==
    /\ b = [f \in BundleFields |-> b[f]]
    /\ IsASequence(b.observations)
    /\ b.coverage.unresolved \in Int
    /\ b.invariant # None => b.invariant.violations \in Int /\ b.invariant.unresolved \in Int
    /\ b.required # None => IsASequence(b.required)

\* An absent value is no word and no result.
NoneIsAbsent == None \notin {"support", "contradiction"} /\ \A b : Judged(b) # None

\* A result says its verdict, and a confidence of that and of the observations.
LEMMA JudgedFields ==
    ASSUME NEW b
    PROVE  /\ Judged(b).verdict = Verdict(b)
           /\ Judged(b).confidence = proofConfidence(Verdict(b), Supporting(b), Contradicting(b))
  BY DEF Judged, Extended, Identified, Proof

\* A bundle that is not refused is judged.
LEMMA EvaluatedIsJudged ==
    ASSUME NEW b, EvaluateProof(b) # None
    PROVE  Validate(b) /\ EvaluateProof(b) = Judged(b)
  BY DEF EvaluateProof

\* Whatever the bundle, a claim that BuildRelationshipProof calls verified has a
\* current index, a whole search, no contradiction, trusted support and every
\* capability it requires.
THEOREM VerdictsAreEarned ==
    ASSUME NoneIsAbsent
    PROVE  \A b : IsBundle(b) => VerifiedIsEarned(b)
  <1> SUFFICES ASSUME NEW b, IsBundle(b), EvaluateProof(b) # None, EvaluateProof(b).verdict = "verified"
               PROVE  /\ b.index.coherent /\ b.index.freshness = "current" /\ b.search.performed
                      /\ b.coverage.expected = b.coverage.examined /\ b.coverage.unresolved = 0
                      /\ b.invariant # None => b.invariant.violations + b.invariant.unresolved = 0
                      /\ \A i \in DOMAIN b.observations : b.observations[i].stance = "support"
                      /\ \E i \in DOMAIN b.observations : isTrustedSupport(b.observations[i])
                      /\ b.required # None =>
                            \A k \in DOMAIN b.required : \E i \in DOMAIN b.observations :
                               Canonical(b.required[k]) \in observationCapabilities(b.observations[i])
    BY DEF VerifiedIsEarned
  <1>1. Validate(b) /\ Verdict(b) = "verified" BY EvaluatedIsJudged, JudgedFields
  <1>2. Blockers(b) = {} /\ Caveats(b) = {} /\ ~Against(b) BY <1>1 DEF Verdict
  <1>3. incompleteProofCaveats(b, Supporting(b), InvariantUnresolved(b), Assured(b, "support")) = {}
    BY <1>2 DEF Caveats
  <1>4. /\ b.search.performed /\ b.coverage.state = "complete" /\ ~(b.coverage.unresolved > 0)
        /\ ~InvariantUnresolved(b) /\ Assured(b, "support")
        /\ \E o \in Supporting(b) : isTrustedSupport(o)
    BY <1>3 DEF incompleteProofCaveats
  <1>5. b.index.coherent /\ b.index.freshness = "current" BY <1>2 DEF Blockers
  <1>6. b.coverage.expected = b.coverage.examined /\ b.coverage.unresolved = 0
    BY <1>1, <1>4 DEF Validate, validateCoverage, IsBundle
  <1>7. b.invariant # None => b.invariant.violations + b.invariant.unresolved = 0
    BY <1>1, <1>2, <1>4 DEF Validate, validateInvariant, IsBundle, Against, InvariantFailed, InvariantUnresolved
  <1>8. \A i \in DOMAIN b.observations : b.observations[i].stance = "support"
    BY <1>1, <1>2 DEF Validate, validateObservations, validateObservationRef, Against, Contradicting, Observed, ElementsOf
  <1>9. \E i \in DOMAIN b.observations : isTrustedSupport(b.observations[i])
    BY <1>4 DEF Supporting, Observed, ElementsOf
  <1>10. ASSUME b.required # None, NEW k \in DOMAIN b.required
         PROVE  \E i \in DOMAIN b.observations :
                   Canonical(b.required[k]) \in observationCapabilities(b.observations[i])
    <2>1. Canonical(b.required[k]) \in Required(b) BY <1>10 DEF Required, ElementsOf, CanonicalAll
    <2>2. Satisfied(b) = "support" BY <1>4, <2>1 DEF Assured
    <2>3. Missing(Required(b), Supporting(b)) = {} BY <2>1, <2>2 DEF Satisfied, SatisfiedBy, NoneIsAbsent
    <2> QED BY <2>1, <2>3 DEF Missing, Supporting, Observed, ElementsOf
  <1> QED BY <1>4, <1>5, <1>6, <1>7, <1>8, <1>9, <1>10

-----------------------------------------------------------------------------
\* A bundle without its requirement has the rest.
LEMMA UnrequiredBundle ==
    ASSUME NEW b, IsBundle(b)
    PROVE  LET c == [b EXCEPT !.required = None]
           IN  /\ \A f \in BundleFields \ {"required"} : c[f] = b[f]
               /\ c.required = None
  BY DEF IsBundle, BundleFields

\* Whatever the bundle, a claim that requires nothing is decided as the same claim
\* was with a requirement, if that was decided.
THEOREM WeakerClaims ==
    ASSUME NoneIsAbsent
    PROVE  \A b : IsBundle(b) => WeakerClaimFollows(b)
  <1> SUFFICES ASSUME NEW b, IsBundle(b), EvaluateProof(b) # None,
                      EvaluateProof(b).verdict \in {"verified", "contradicted"}
               PROVE  LET q == EvaluateProof([b EXCEPT !.required = None])
                      IN  q # None /\ q.verdict = EvaluateProof(b).verdict
    BY DEF WeakerClaimFollows
  <1> DEFINE c == [b EXCEPT !.required = None]
  <1>0. /\ c.version = b.version /\ c.claim = b.claim /\ c.index = b.index /\ c.search = b.search
        /\ c.coverage = b.coverage /\ c.invariant = b.invariant /\ c.observations = b.observations
        /\ c.required = None
    BY UnrequiredBundle DEF BundleFields
  <1> HIDE DEF c
  <1>1. Validate(b) /\ Verdict(b) \in {"verified", "contradicted"} /\ EvaluateProof(b).verdict = Verdict(b)
    BY EvaluatedIsJudged, JudgedFields
  <1>2. Validate(c)
    BY <1>0, <1>1 DEF Validate, validateProofHeader, validateObservations, validateAssuranceRequirement
  <1>3. /\ Observed(c) = Observed(b) /\ Blockers(c) = Blockers(b) /\ Required(c) = {}
        /\ InvariantFailed(c) = InvariantFailed(b) /\ InvariantUnresolved(c) = InvariantUnresolved(b)
    BY <1>0 DEF Observed, Blockers, Required, InvariantFailed, InvariantUnresolved
  <1>4. Contradicting(c) = Contradicting(b) /\ Supporting(c) = Supporting(b) BY <1>3 DEF Contradicting, Supporting
  <1>5. Against(c) = Against(b) BY <1>3, <1>4 DEF Against
  <1>6. Assured(c, "support") /\ Assured(c, "contradiction") BY <1>3 DEF Assured
  <1>7. Caveats(c) \subseteq Caveats(b)
    BY <1>0, <1>3, <1>4, <1>5, <1>6 DEF Caveats, incompleteProofCaveats
  <1>8. Verdict(c) = Verdict(b) BY <1>1, <1>3, <1>5, <1>7 DEF Verdict
  <1>9. EvaluateProof(c) # None /\ EvaluateProof(c).verdict = Verdict(b)
    BY <1>2, <1>8, JudgedFields DEF EvaluateProof, NoneIsAbsent
  <1> QED BY Zenon, <1>1, <1>9 DEF c

-----------------------------------------------------------------------------
\* One more observation is appended, the rest of the bundle stays.
LEMMA BundleWith ==
    ASSUME NEW b, IsBundle(b), NEW o
    PROVE  /\ \A f \in BundleFields \ {"observations"} : With(b, o)[f] = b[f]
           /\ With(b, o).observations = Append(b.observations, o)
  BY DEF With, IsBundle, BundleFields

\* What is observed then, as a set, has it too.
LEMMA WithObserved ==
    ASSUME NEW b, IsBundle(b), NEW o
    PROVE  Observed(With(b, o)) = Observed(b) \cup {o} /\ IsFiniteSet(Observed(b))
  <1> DEFINE s == b.observations
             t == Append(s, o)
  <1>1. s \in Seq(ElementsOf(s) \cup {o}) /\ DOMAIN s = 1..Len(s) /\ Len(s) \in Nat
    BY DEF IsBundle, IsASequence
  <1>2. Observed(With(b, o)) = {t[i] : i \in DOMAIN t} BY BundleWith DEF Observed, ElementsOf
  <1>3. Observed(b) = {s[i] : i \in DOMAIN s} BY DEF Observed, ElementsOf
  <1> HIDE DEF s
  <1>4. /\ DOMAIN t = 1..(Len(s) + 1) /\ t[Len(s) + 1] = o
        /\ \A i \in 1..Len(s) : t[i] = s[i]
    BY <1>1
  <1> HIDE DEF t
  <1>5. {t[i] : i \in DOMAIN t} = {s[i] : i \in DOMAIN s} \cup {o}
    BY <1>1, <1>4
  <1>6. IsFiniteSet({s[i] : i \in DOMAIN s})
    <2>1. IsFiniteSet(DOMAIN s) BY <1>1, FS_Interval
    <2> QED BY <2>1, FiniteImage
  <1> QED BY <1>2, <1>3, <1>5, <1>6

\* All a result says.
LEMMA ResultFields ==
    ASSUME NEW b
    PROVE  LET r == Judged(b)
           IN  /\ r = [f \in {"claim", "gen", "verdict", "supporting", "contradicting", "blockers", "caveats",
                               "required", "satisfied", "version", "id", "confidence"} |-> r[f]]
               /\ r.claim = b.claim.id /\ r.gen = b.index.gen /\ r.verdict = Verdict(b)
               /\ r.supporting = {o.id : o \in Supporting(b)} /\ r.contradicting = {o.id : o \in Contradicting(b)}
               /\ r.blockers = Blockers(b) /\ r.caveats = Caveats(b)
               /\ r.required = Required(b) /\ r.satisfied = Satisfied(b)
               /\ r.version = SchemaVersion
               /\ r.confidence = proofConfidence(Verdict(b), Supporting(b), Contradicting(b))
  <1>1. DOMAIN Proof(b) = {"claim", "gen", "verdict", "supporting", "contradicting", "blockers", "caveats",
                           "required", "satisfied"}
    BY DEF Proof
  <1>2. Judged(b) = [f \in DOMAIN Proof(b) \cup {"version"} \cup {"id"} \cup {"confidence"} |-> Judged(b)[f]]
    BY DEF Judged, Extended, Identified
  <1>3. \A f \in DOMAIN Proof(b) : Judged(b)[f] = Proof(b)[f]
    BY <1>1 DEF Judged, Extended, Identified
  <1>6. Judged(b).version = SchemaVersion BY DEF Judged, Extended, Identified
  <1>4. DOMAIN Proof(b) \cup {"version"} \cup {"id"} \cup {"confidence"} =
           {"claim", "gen", "verdict", "supporting", "contradicting", "blockers", "caveats",
            "required", "satisfied", "version", "id", "confidence"}
    BY <1>1
  <1>5. Judged(b).confidence = proofConfidence(Verdict(b), Supporting(b), Contradicting(b)) BY JudgedFields
  <1> QED BY <1>1, <1>2, <1>3, <1>4, <1>5, <1>6 DEF Proof

\* One more observation changes none of what the verdict rests on beside.
LEMMA WithParts ==
    ASSUME NEW b, IsBundle(b), NEW o
    PROVE  LET c == With(b, o)
           IN  /\ Blockers(c) = Blockers(b) /\ Required(c) = Required(b)
               /\ InvariantFailed(c) = InvariantFailed(b) /\ InvariantUnresolved(c) = InvariantUnresolved(b)
               /\ c.search = b.search /\ c.coverage = b.coverage /\ c.claim = b.claim /\ c.index = b.index
               /\ o.stance = "support" => /\ Contradicting(c) = Contradicting(b)
                                          /\ Supporting(c) = Supporting(b) \cup {o}
               /\ o.stance = "contradict" => /\ Contradicting(c) = Contradicting(b) \cup {o}
                                             /\ Supporting(c) = Supporting(b)
  <1> DEFINE c == With(b, o)
  <1>1. /\ c.search = b.search /\ c.coverage = b.coverage /\ c.claim = b.claim /\ c.index = b.index
        /\ c.required = b.required /\ c.invariant = b.invariant
    BY BundleWith DEF BundleFields
  <1>2. Observed(c) = Observed(b) \cup {o} BY WithObserved
  <1> HIDE DEF c
  <1>3. Blockers(c) = Blockers(b) /\ Required(c) = Required(b) BY <1>1 DEF Blockers, Required
  <1>4. InvariantFailed(c) = InvariantFailed(b) /\ InvariantUnresolved(c) = InvariantUnresolved(b)
    BY <1>1 DEF InvariantFailed, InvariantUnresolved
  <1>5. o.stance = "support" => /\ Contradicting(c) = Contradicting(b)
                                /\ Supporting(c) = Supporting(b) \cup {o}
    BY <1>2 DEF Contradicting, Supporting
  <1>6. o.stance = "contradict" => /\ Contradicting(c) = Contradicting(b) \cup {o}
                                   /\ Supporting(c) = Supporting(b)
    BY <1>2 DEF Contradicting, Supporting
  <1> QED BY Zenon, <1>1, <1>3, <1>4, <1>5, <1>6 DEF c

\* When a requirement is met by those who contradict, and by those who support.
LEMMA SatisfiedMeans ==
    ASSUME NoneIsAbsent, NEW required, NEW supporting, NEW contradicting
    PROVE  /\ SatisfiedBy(required, supporting, contradicting) = "contradiction" <=>
                 required # {} /\ contradicting # {} /\ Missing(required, contradicting) = {}
           /\ SatisfiedBy(required, supporting, contradicting) = "support" <=>
                 /\ required # {} /\ ~(contradicting # {} /\ Missing(required, contradicting) = {})
                 /\ supporting # {} /\ Missing(required, supporting) = {}
  BY DEF SatisfiedBy, NoneIsAbsent

\* More observations leave less missing.
LEMMA MissingLess ==
    ASSUME NEW required, NEW few, NEW many, few \subseteq many
    PROVE  Missing(required, many) \subseteq Missing(required, few)
  BY DEF Missing

\* More observations come from as many engines and from as many authors.
LEMMA MoreAreAsMany ==
    ASSUME NEW few, NEW many, few \subseteq many, IsFiniteSet(many)
    PROVE  /\ Cardinality({o.engine : o \in few}) >= 2 => Cardinality({o.engine : o \in many}) >= 2
           /\ Cardinality({o.by : o \in few}) >= 2 => Cardinality({o.by : o \in many}) >= 2
  <1> DEFINE e == [o \in many |-> o.engine]
             y == [o \in many |-> o.by]
  <1>1. /\ {o.engine : o \in many} = {e[o] : o \in many} /\ {o.by : o \in many} = {y[o] : o \in many}
        /\ {o.engine : o \in few} \subseteq {o.engine : o \in many} /\ {o.by : o \in few} \subseteq {o.by : o \in many}
    OBVIOUS
  <1>2. IsFiniteSet({e[o] : o \in many}) /\ IsFiniteSet({y[o] : o \in many}) BY FiniteImage
  <1> DEFINE E1 == {o.engine : o \in few}
             E2 == {o.engine : o \in many}
             B1 == {o.by : o \in few}
             B2 == {o.by : o \in many}
  <1>3. IsFiniteSet(E2) /\ IsFiniteSet(B2) /\ E1 \subseteq E2 /\ B1 \subseteq B2 BY <1>1, <1>2
  <1> HIDE DEF E1, E2, B1, B2
  <1>4. IsFiniteSet(E1) /\ Cardinality(E1) <= Cardinality(E2) BY <1>3, FS_Subset
  <1>5. IsFiniteSet(B1) /\ Cardinality(B1) <= Cardinality(B2) BY <1>3, FS_Subset
  <1>6. {Cardinality(E1), Cardinality(E2), Cardinality(B1), Cardinality(B2)} \subseteq Nat
    BY <1>3, <1>4, <1>5, FS_CardinalityType
  <1>7. /\ Cardinality(E1) >= 2 => Cardinality(E2) >= 2
        /\ Cardinality(B1) >= 2 => Cardinality(B2) >= 2
    BY <1>4, <1>5, <1>6
  <1> QED BY <1>7 DEF E1, E2, B1, B2

\* Whatever the bundle, one more observation neither blocks nor unblocks it; a
\* supporting one undoes no verdict and no high confidence, a contradicting one
\* rules out "verified" and leaves a certain contradiction as it is.
THEOREM MoreEvidence ==
    ASSUME NoneIsAbsent
    PROVE  \A b, o : IsBundle(b) => MoreEvidenceAgrees(b, o)
  <1> SUFFICES ASSUME NEW b, NEW o, IsBundle(b), EvaluateProof(b) # None, EvaluateProof(With(b, o)) # None
               PROVE  LET p == EvaluateProof(b)
                          q == EvaluateProof(With(b, o))
                      IN  /\ (p.verdict = "blocked") <=> (q.verdict = "blocked")
                          /\ o.stance = "support" =>
                                /\ p.verdict \in {"contradicted", "verified"} => q.verdict = p.verdict
                                /\ p.verdict # "blocked" /\ q.verdict = "contradicted" => p.verdict = q.verdict
                                /\ p.confidence = "high" => q.confidence = "high"
                          /\ o.stance = "contradict" =>
                                /\ q.verdict # "verified"
                                /\ p.verdict = "contradicted" /\ p.confidence = "high" =>
                                      q = [p EXCEPT !.contradicting = q.contradicting, !.id = q.id]
    BY DEF MoreEvidenceAgrees
  <1> DEFINE c == With(b, o)
             p == Judged(b)
             q == Judged(c)
  <1>1. EvaluateProof(b) = p /\ EvaluateProof(c) = q BY EvaluatedIsJudged
  <1>2. /\ Blockers(c) = Blockers(b) /\ Required(c) = Required(b)
        /\ InvariantFailed(c) = InvariantFailed(b) /\ InvariantUnresolved(c) = InvariantUnresolved(b)
        /\ c.search = b.search /\ c.coverage = b.coverage /\ c.claim = b.claim /\ c.index = b.index
    BY WithParts
  <1>3. o.stance = "support" =>
          Contradicting(c) = Contradicting(b) /\ Supporting(c) = Supporting(b) \cup {o}
    BY WithParts
  <1>4. o.stance = "contradict" =>
          Contradicting(c) = Contradicting(b) \cup {o} /\ Supporting(c) = Supporting(b)
    BY WithParts
  <1>5. /\ p.verdict = Verdict(b) /\ p.confidence = proofConfidence(Verdict(b), Supporting(b), Contradicting(b))
        /\ q.verdict = Verdict(c) /\ q.confidence = proofConfidence(Verdict(c), Supporting(c), Contradicting(c))
    BY ResultFields
  <1>6. IsFiniteSet(Supporting(b)) BY WithObserved, FS_Subset DEF Supporting
  <1> HIDE DEF c, p, q
  <1>7. (Verdict(b) = "blocked") <=> (Verdict(c) = "blocked") BY <1>2 DEF Verdict
  <1>8. ASSUME o.stance = "support"
        PROVE  /\ Verdict(b) = "contradicted" <=> Verdict(c) = "contradicted"
               /\ Verdict(b) = "verified" => Verdict(c) = "verified"
    <2>1. Against(c) = Against(b) BY <1>2, <1>3, <1>8 DEF Against
    <2>2. Assured(c, "contradiction") = Assured(b, "contradiction")
      BY <1>2, <1>3, <1>8, SatisfiedMeans DEF Assured, Satisfied
    <2>3. Assured(b, "support") => Assured(c, "support")
      <3>1. Missing(Required(b), Supporting(c)) \subseteq Missing(Required(b), Supporting(b)) BY <1>3, <1>8, MissingLess
      <3> QED BY <1>2, <1>3, <1>8, <3>1, SatisfiedMeans DEF Assured, Satisfied
    <2>4. Against(b) => Caveats(c) = Caveats(b) BY <1>2, <2>1, <2>2 DEF Caveats
    <2>5. ~Against(b) /\ Caveats(b) = {} => Caveats(c) = {}
      BY <1>2, <1>3, <1>8, <2>1, <2>3 DEF Caveats, incompleteProofCaveats
    <2> QED BY <1>2, <2>1, <2>4, <2>5 DEF Verdict
  <1>9. ASSUME o.stance = "support", p.confidence = "high"
        PROVE  q.confidence = "high"
    <2>1. Verdict(b) \in {"contradicted", "verified"} BY <1>5, <1>9 DEF proofConfidence, Verdict
    <2>2. Verdict(c) = Verdict(b) BY <1>8, <1>9, <2>1
    <2>3. CASE Verdict(b) = "contradicted" BY <1>3, <1>5, <1>9, <2>2, <2>3 DEF proofConfidence
    <2>4. CASE Verdict(b) = "verified"
      <3>1. IsFiniteSet(Supporting(c)) /\ Supporting(b) \subseteq Supporting(c) BY <1>3, <1>6, <1>9, FS_AddElement
      <3> QED BY <1>5, <1>9, <2>2, <2>4, <3>1, MoreAreAsMany DEF proofConfidence
    <2> QED BY <2>1, <2>3, <2>4
  <1>10. ASSUME o.stance = "contradict" PROVE Verdict(c) # "verified" /\ Against(c)
    BY <1>4, <1>10 DEF Against, Verdict
  <1>11. ASSUME o.stance = "contradict", Verdict(b) = "contradicted", p.confidence = "high"
         PROVE  q = [p EXCEPT !.contradicting = q.contradicting, !.id = q.id]
    <2>1. Against(b) /\ Caveats(b) = {} /\ Blockers(b) = {} BY <1>11 DEF Verdict
    <2>2. Assured(b, "contradiction") BY <2>1 DEF Caveats
    <2>3. Required(b) # {} => Missing(Required(b), Contradicting(c)) \subseteq Missing(Required(b), Contradicting(b))
      BY <1>4, <1>11, MissingLess
    <2>4. Satisfied(c) = Satisfied(b)
      <3>1. CASE Required(b) = {} BY <1>2, <3>1 DEF Satisfied, SatisfiedBy
      <3>2. CASE Required(b) # {}
        <4>1. Satisfied(b) = "contradiction" BY <2>2, <3>2 DEF Assured
        <4>2. Missing(Required(b), Contradicting(b)) = {} BY <4>1, SatisfiedMeans DEF Satisfied
        <4>3. Satisfied(c) = "contradiction" BY <1>2, <1>4, <1>11, <2>3, <3>2, <4>2, SatisfiedMeans DEF Satisfied
        <4> QED BY <4>1, <4>3
      <3> QED BY <3>1, <3>2
    <2>5. Assured(c, "contradiction") BY <1>2, <2>2, <2>4 DEF Assured
    <2>6. Caveats(c) = {} BY <1>2, <1>10, <1>11, <2>1, <2>5 DEF Caveats
    <2>7. Verdict(c) = "contradicted" BY <1>2, <1>10, <1>11, <2>1, <2>6 DEF Verdict
    <2>8. q.confidence = "high" BY <1>4, <1>5, <1>11, <2>7 DEF proofConfidence
    <2>9. /\ q.claim = p.claim /\ q.gen = p.gen /\ q.verdict = p.verdict /\ q.confidence = p.confidence
          /\ q.supporting = p.supporting /\ q.blockers = p.blockers /\ q.caveats = p.caveats
          /\ q.required = p.required /\ q.satisfied = p.satisfied /\ q.version = p.version
      <3>1. /\ p.claim = b.claim.id /\ p.gen = b.index.gen /\ p.verdict = Verdict(b)
            /\ p.supporting = {x.id : x \in Supporting(b)} /\ p.blockers = Blockers(b)
            /\ p.caveats = Caveats(b) /\ p.required = Required(b) /\ p.satisfied = Satisfied(b)
            /\ p.version = SchemaVersion
        BY ResultFields DEF p
      <3>2. /\ q.claim = c.claim.id /\ q.gen = c.index.gen /\ q.verdict = Verdict(c)
            /\ q.supporting = {x.id : x \in Supporting(c)} /\ q.blockers = Blockers(c)
            /\ q.caveats = Caveats(c) /\ q.required = Required(c) /\ q.satisfied = Satisfied(c)
            /\ q.version = SchemaVersion
        BY ResultFields DEF q
      <3> QED BY <1>2, <1>4, <1>11, <2>1, <2>4, <2>6, <2>7, <2>8, <3>1, <3>2
    <2>10. LET Field == {"claim", "gen", "verdict", "supporting", "contradicting", "blockers", "caveats",
                         "required", "satisfied", "version", "id", "confidence"}
           IN  p = [f \in Field |-> p[f]] /\ q = [f \in Field |-> q[f]]
      BY ResultFields DEF p, q
    <2> QED BY <2>9, <2>10
  <1> QED BY <1>1, <1>5, <1>7, <1>8, <1>9, <1>10, <1>11 DEF c

-----------------------------------------------------------------------------
(* Compiler indexes.                                                       *)

\* scipDeleteBatchSize is a number of files, and sort.Strings lists every file of a
\* set and no other.
ScipAssumption ==
    /\ BatchSize \in Nat \ {0}
    /\ \A S : IsFiniteSet(S) => /\ sort(S) \in Seq(S)
                                /\ \A f \in S : \E i \in DOMAIN sort(S) : sort(S)[i] = f

\* The batches of n files are at most n, and the last pair of them comes last.
LEMMA BatchesAreReached ==
    ASSUME BatchSize \in Nat \ {0}, NEW n \in Nat, NEW i \in 1..n, NEW j \in 1..n
    PROVE  LET batch(k) == (k - 1) \div BatchSize
               batches == batch(n) + 1
           IN  batch(i) * batches + batch(j) < n * n
  <1> DEFINE batch(k) == (k - 1) \div BatchSize
             m == batch(n)
  <1>1. \A k \in 1..n : /\ batch(k) \in Nat /\ batch(k) <= k - 1
                        /\ BatchSize * batch(k) <= k - 1 /\ k - 1 < BatchSize * (batch(k) + 1)
    OBVIOUS
  <1>2. \A k \in 1..n : batch(k) <= m
    <2> SUFFICES ASSUME NEW k \in 1..n, batch(k) > m PROVE FALSE BY <1>1
    <2>1. batch(k) >= m + 1 /\ m + 1 \in Nat /\ batch(k) \in Nat BY <1>1
    <2>2. BatchSize * batch(k) >= BatchSize * (m + 1) BY <2>1
    <2> QED BY <1>1, <2>2
  <1>3. m \in Nat /\ batch(i) \in Nat /\ batch(j) \in Nat /\ batch(i) <= m /\ batch(j) <= m /\ m + 1 <= n
    BY <1>1, <1>2
  <1> HIDE DEF batch, m
  <1>4. batch(i) * (m + 1) <= m * (m + 1) BY <1>3
  <1>5. batch(i) * (m + 1) + batch(j) < (m + 1) * (m + 1) BY <1>3, <1>4
  <1>6. (m + 1) * (m + 1) <= n * n
    <2>1. (m + 1) * (m + 1) <= (m + 1) * n BY <1>3
    <2>2. (m + 1) * n <= n * n BY <1>3
    <2> QED BY <1>3, <2>1, <2>2
  <1>7. /\ batch(i) * (m + 1) \in Int /\ (m + 1) * (m + 1) \in Int /\ n * n \in Int BY <1>3
  <1>8. batch(i) * (m + 1) + batch(j) < n * n BY <1>3, <1>5, <1>6, <1>7
  <1> QED BY <1>8 DEF batch, m

\* What FirstOf finds is a member.
LEMMA FirstIsMember ==
    ASSUME NEW S \in SUBSET Nat, Sc!FirstOf(S) # None
    PROVE  Sc!FirstOf(S) \in S
  <1>1. S # {} BY DEF Sc!FirstOf
  <1>2. \E i \in S : \A j \in S : i <= j BY <1>1, LeastNat
  <1> QED BY <1>1, <1>2 DEF Sc!FirstOf

\* A span that was found for a line of a file is one of the file's.
LEMMA SpansAreOfTheFile ==
    ASSUME NEW spans, DOMAIN spans \subseteq Nat, NEW file, NEW line
    PROVE  /\ Sc!innermost(spans, file, line) # None => spans[Sc!innermost(spans, file, line)].file = file
           /\ Sc!Located(spans, file, line) # None => spans[Sc!Located(spans, file, line)].file = file
  <1>1. Sc!innermost(spans, file, line) # None => spans[Sc!innermost(spans, file, line)].file = file
    BY FirstIsMember DEF Sc!innermost
  <1>3. \A n : \/ Sc!SpanAt(spans, file, n) = None \/ spans[Sc!SpanAt(spans, file, n)].file = file
    <2> SUFFICES ASSUME NEW n PROVE Sc!SpanAt(spans, file, n) = None \/ spans[Sc!SpanAt(spans, file, n)].file = file
      OBVIOUS
    <2>1. Sc!innermost(spans, file, n) # None => spans[Sc!innermost(spans, file, n)].file = file
      BY FirstIsMember DEF Sc!innermost
    <2>2. Sc!atLine(spans, file, n) # None => spans[Sc!atLine(spans, file, n)].file = file
      BY FirstIsMember DEF Sc!atLine
    <2> QED BY <2>1, <2>2 DEF Sc!SpanAt
  <1> QED BY <1>1, <1>3 DEF Sc!Located

\* A derived call is between two covered files.
LEMMA CallsAreCovered ==
    ASSUME NEW index, NEW spans, DOMAIN spans \subseteq Nat, NEW text, NEW p \in Sc!deriveSCIPCalls(index, spans, text)
    PROVE  spans[p[1]].file \in Sc!coveredSCIPFiles(index, spans) /\ spans[p[2]].file \in Sc!coveredSCIPFiles(index, spans)
  <1> DEFINE defined == Sc!collectSCIPDefinitions(index, spans)
             caller(at) == Sc!innermost(spans, Sc!FileOf(index, at), Sc!Of(index, at).line)
             callee(at) == defined[Sc!Of(index, at).symbol].span
             covered == Sc!coveredSCIPFiles(index, spans)
  <1>1. PICK at \in Sc!Occurrences(index) :
           /\ Sc!FileOf(index, at) \in covered
           /\ Sc!Of(index, at).symbol \in DOMAIN defined /\ defined[Sc!Of(index, at).symbol].file \in covered
           /\ caller(at) # None /\ callee(at) # None /\ p = <<caller(at), callee(at)>>
    BY DEF Sc!deriveSCIPCalls
  <1>2. spans[caller(at)].file = Sc!FileOf(index, at) BY <1>1, SpansAreOfTheFile
  <1>3. \A symbol \in DOMAIN defined : \E x :
           /\ defined[symbol].file = Sc!FileOf(index, x)
           /\ defined[symbol].span = Sc!Located(spans, Sc!FileOf(index, x), Sc!Of(index, x).line)
    <2> DEFINE all == Sc!Definitions(index, spans)
               last(x) == \A other \in all : Sc!Of(index, other).symbol = Sc!Of(index, x).symbol => ~Sc!Before(x, other)
               chosen(symbol) == CHOOSE x \in all : Sc!Of(index, x).symbol = symbol /\ last(x)
    <2>1. defined = [symbol \in {Sc!Of(index, x).symbol : x \in all} |->
                       [file |-> Sc!FileOf(index, chosen(symbol)),
                        span |-> Sc!Located(spans, Sc!FileOf(index, chosen(symbol)),
                                            Sc!Of(index, chosen(symbol)).line)]]
      BY DEF Sc!collectSCIPDefinitions
    <2> HIDE DEF defined, chosen, all
    <2> QED BY <2>1
  <1> HIDE DEF defined
  <1>4. spans[callee(at)].file = defined[Sc!Of(index, at).symbol].file
    BY <1>1, <1>3, SpansAreOfTheFile
  <1> QED BY <1>1, <1>2, <1>4

\* The deletion takes CALLS edges within the files, and all of them when every
\* batch was reached.
LEMMA DeletionIsWithin ==
    ASSUME ScipAssumption, NEW files, IsFiniteSet(files), NEW edges, NEW n
    PROVE  LET within(e) == e.type = "CALLS" /\ e.srcFile \in files /\ e.tgtFile \in files
               left(k) == Sc!DeleteEdgesBetweenFiles(edges, sort(files), k)
           IN  /\ left(n) \subseteq edges /\ \A e \in edges : ~within(e) => e \in left(n)
               /\ left(Sc!EveryBatch(sort(files))) = {e \in edges : ~within(e)}
  <1> DEFINE s == sort(files)
             within(e) == e.type = "CALLS" /\ e.srcFile \in files /\ e.tgtFile \in files
             batch(k) == (k - 1) \div BatchSize
             batches == IF s = <<>> THEN 0 ELSE batch(Len(s)) + 1
             reached(e, k) == \E i, j \in DOMAIN s : /\ s[i] = e.srcFile /\ s[j] = e.tgtFile
                                                     /\ batch(i) * batches + batch(j) < k
             left(k) == Sc!DeleteEdgesBetweenFiles(edges, s, k)
  <1>1. \A k : left(k) = {e \in edges : ~(e.type = "CALLS" /\ reached(e, k))} BY DEF Sc!DeleteEdgesBetweenFiles
  <1>2. /\ s \in Seq(files) /\ Len(s) \in Nat /\ DOMAIN s = 1..Len(s)
        /\ \A f \in files : \E i \in DOMAIN s : s[i] = f
    BY DEF ScipAssumption
  <1> HIDE DEF left
  <1>3. \A e, k : e.type = "CALLS" /\ reached(e, k) => within(e) BY <1>2
  <1>4. \A e : within(e) => reached(e, Len(s) * Len(s))
    <2> SUFFICES ASSUME NEW e, within(e) PROVE reached(e, Len(s) * Len(s)) OBVIOUS
    <2>1. PICK i \in DOMAIN s : s[i] = e.srcFile BY <1>2
    <2>2. PICK j \in DOMAIN s : s[j] = e.tgtFile BY <1>2
    <2>3. s # <<>> BY <1>2, <2>1
    <2>4. batch(i) * (batch(Len(s)) + 1) + batch(j) < Len(s) * Len(s)
      BY <1>2, <2>1, <2>2, BatchesAreReached DEF ScipAssumption
    <2> QED BY <2>1, <2>2, <2>3, <2>4
  <1> HIDE DEF reached
  <1>5. left(n) \subseteq edges /\ \A e \in edges : ~within(e) => e \in left(n) BY <1>1, <1>3
  <1>6. left(Len(s) * Len(s)) = {e \in edges : ~within(e)} BY <1>1, <1>3, <1>4
  <1> QED BY <1>5, <1>6 DEF left, Sc!EveryBatch

\* Whatever the graph, the compiler's index, the texts, the DELETE that fails and
\* the rows that the insertion skips: when runSCIPIngest is applied, the CALLS
\* edges among the covered files are those the index derives, and as many were
\* replaced as it reports; when it fails, nothing was added, or the covered files
\* have a part of the derived calls in the place of those of the resolver; no
\* other edge changes.
THEOREM IndexReplacesCalls ==
    ASSUME ScipAssumption, NEW g, DOMAIN g.spans \subseteq Nat, NEW index, IsFiniteSet(DOMAIN index), NEW text,
           NEW failure, NEW dropped
    PROVE  LET calls == {<<g.spans[p[1]].id, g.spans[p[2]].id>> : p \in Sc!deriveSCIPCalls(index, g.spans, text)}
           IN  Sc!ReplacesExactly(g, Sc!coveredSCIPFiles(index, g.spans), calls,
                                  Sc!runSCIPIngest(g, index, text, failure, dropped))
  <1> DEFINE files == Sc!coveredSCIPFiles(index, g.spans)
             pairs == Sc!deriveSCIPCalls(index, g.spans, text)
             calls == {<<g.spans[p[1]].id, g.spans[p[2]].id>> : p \in pairs}
             within(e) == e.type = "CALLS" /\ e.srcFile \in files /\ e.tgtFile \in files
             derived == {Sc!Derived(g.spans, p) : p \in pairs}
             kept == Sc!DeleteEdgesBetweenFiles(g.edges, sort(files), Sc!EveryBatch(sort(files)))
             partly == Sc!DeleteEdgesBetweenFiles(g.edges, sort(files), failure)
             inserted == {Sc!Derived(g.spans, p) : p \in pairs \ dropped}
             after == Sc!runSCIPIngest(g, index, text, failure, dropped)
  <1>1. IsFiniteSet(files)
    <2> DEFINE path == [d \in DOMAIN index |-> index[d].path]
    <2>1. Sc!Indexed(index) = {path[d] : d \in DOMAIN index} BY DEF Sc!Indexed
    <2> HIDE DEF path
    <2>2. IsFiniteSet(Sc!Indexed(index)) BY <2>1, FiniteImage
    <2> QED BY <2>2, FS_Subset DEF Sc!coveredSCIPFiles
  <1>2. \A p \in pairs : g.spans[p[1]].file \in files /\ g.spans[p[2]].file \in files BY CallsAreCovered
  <1>3. after \in {[edges |-> g.edges, state |-> "failed", replaced |-> 0],
                   [edges |-> partly, state |-> "failed", replaced |-> 0],
                   [edges |-> kept \cup inserted, state |-> "failed", replaced |-> 0],
                   [edges |-> kept \cup derived, state |-> "applied", replaced |-> Sc!Cardinality(g.edges \ kept)]}
    <2>1. CASE index = None BY <2>1 DEF Sc!runSCIPIngest
    <2>2. CASE index # None /\ failure = None /\ pairs \cap dropped = {}
      <3>2. inserted = derived BY <2>2
      <3>1. after = [edges |-> kept \cup derived, state |-> "applied", replaced |-> Sc!Cardinality(g.edges \ kept)]
        <4>1. after = [edges |-> kept \cup inserted, state |-> "applied", replaced |-> Sc!Cardinality(g.edges \ kept)]
          BY <2>2 DEF Sc!runSCIPIngest
        <4> QED BY <4>1, <3>2
      <3> QED BY <3>1
    <2>3. CASE index # None /\ failure # None BY <2>3 DEF Sc!runSCIPIngest
    <2>4. CASE index # None /\ failure = None /\ pairs \cap dropped # {}
      <3>1. after = [edges |-> kept \cup inserted, state |-> "failed", replaced |-> 0]
        BY <2>4 DEF Sc!runSCIPIngest
      <3> QED BY <3>1
    <2> QED BY <2>1, <2>2, <2>3, <2>4
  <1> HIDE DEF files, pairs, after, kept, partly
  <1>4. kept = {e \in g.edges : ~within(e)} BY <1>1, DeletionIsWithin DEF kept
  <1>5. partly \subseteq g.edges /\ \A e \in g.edges : ~within(e) => e \in partly BY <1>1, DeletionIsWithin DEF partly
  <1>6. \A e \in derived : within(e) BY <1>2 DEF Sc!Derived
  <1>7. Sc!Pairs(derived) = calls
    <2>1. \A p : Sc!Derived(g.spans, p).src = g.spans[p[1]].id /\ Sc!Derived(g.spans, p).tgt = g.spans[p[2]].id
      BY DEF Sc!Derived
    <2>2. {<<e.src, e.tgt>> : e \in derived} = {<<Sc!Derived(g.spans, p).src, Sc!Derived(g.spans, p).tgt>> : p \in pairs}
      OBVIOUS
    <2>3. \A p : <<Sc!Derived(g.spans, p).src, Sc!Derived(g.spans, p).tgt>> = <<g.spans[p[1]].id, g.spans[p[2]].id>>
      BY <2>1
    <2>4. {<<Sc!Derived(g.spans, p).src, Sc!Derived(g.spans, p).tgt>> : p \in pairs} = calls
      BY Zenon, <2>3
    <2> QED BY Zenon, <2>2, <2>4 DEF Sc!Pairs
  <1> SUFFICES /\ {e \in after.edges : ~within(e)} = {e \in g.edges : ~within(e)}
               /\ IF after.state = "applied"
                  THEN /\ Sc!Pairs({e \in after.edges : within(e)}) = calls
                       /\ after.replaced = Sc!Cardinality({e \in g.edges : within(e)})
                  ELSE \/ after.edges \subseteq g.edges
                       \/ Sc!Pairs({e \in after.edges : within(e)}) \subseteq calls
    BY Zenon DEF Sc!ReplacesExactly, files, after, pairs
  <1>8. CASE after.state = "failed"
    <2>1. CASE after.edges \in {g.edges, partly} BY <1>5, <1>8, <2>1
    <2>2. CASE after.edges = kept \cup inserted
      <3>1. inserted \subseteq derived OBVIOUS
      <3> HIDE DEF inserted, derived
      <3>2. {e \in after.edges : within(e)} = inserted BY <1>4, <1>6, <2>2, <3>1
      <3>3. {e \in after.edges : ~within(e)} = {e \in g.edges : ~within(e)} BY <1>4, <1>6, <2>2, <3>1
      <3>4. Sc!Pairs(inserted) \subseteq calls BY <1>7, <3>1 DEF Sc!Pairs
      <3> QED BY <1>8, <3>2, <3>3, <3>4
    <2>3. after.edges \in {g.edges, partly} \/ after.edges = kept \cup inserted BY <1>3, <1>8
    <2> QED BY <2>1, <2>2, <2>3
  <1>9. CASE after.state = "applied"
    <2>1. after.edges = kept \cup derived /\ after.replaced = Sc!Cardinality(g.edges \ kept) BY <1>3, <1>9
    <2>2. {e \in after.edges : within(e)} = derived BY <1>4, <1>6, <2>1
    <2>3. g.edges \ kept = {e \in g.edges : within(e)} BY <1>4
    <2>4. {e \in after.edges : ~within(e)} = {e \in g.edges : ~within(e)} BY <1>4, <1>6, <2>1
    <2> QED BY <1>7, <1>9, <2>1, <2>2, <2>3, <2>4
  <1> QED BY <1>3, <1>8, <1>9

-----------------------------------------------------------------------------
(* Slices.                                                                 *)

\* The newlines of a text are among its bytes.
IsAText(text) == text.size \in Nat /\ text.newlines \subseteq 1..text.size
ReadLimits == ReadLines \in Nat \ {0} /\ HintLines \in Nat \ {0} /\ ReadBytes \in Nat

\* The first megabyte has a line and no more than the text, and all of them when
\* that is no longer.
LEMMA LinesAreKept ==
    ASSUME ReadLimits, NEW text, IsAText(text)
    PROVE  /\ F!LinesOf(F!Kept(text)) \in Nat \ {0}
           /\ F!LinesOf(text.newlines) \in Nat
           /\ F!LinesOf(F!Kept(text)) <= F!LinesOf(text.newlines)
           /\ text.size <= ReadBytes => F!LinesOf(F!Kept(text)) = F!LinesOf(text.newlines)
  <1>1. IsFiniteSet(text.newlines)
    <2>1. IsFiniteSet(1..text.size) BY FS_Interval DEF IsAText
    <2> QED BY <2>1, FS_Subset DEF IsAText
  <1>2. F!Kept(text) \subseteq text.newlines BY DEF F!Kept
  <1>3. IsFiniteSet(F!Kept(text)) /\ Cardinality(F!Kept(text)) <= Cardinality(text.newlines)
    BY <1>1, <1>2, FS_Subset
  <1>4. Cardinality(F!Kept(text)) \in Nat /\ Cardinality(text.newlines) \in Nat
    BY <1>1, <1>3, FS_CardinalityType
  <1>5. text.size <= ReadBytes => F!Kept(text) = text.newlines
    BY DEF F!Kept, IsAText, ReadLimits
  <1>6. F!LinesOf(F!Kept(text)) = Cardinality(F!Kept(text)) + 1 /\ F!LinesOf(text.newlines) = Cardinality(text.newlines) + 1
    BY DEF F!LinesOf, F!Cardinality, Cardinality
  <1> QED BY <1>3, <1>4, <1>5, <1>6

\* Whatever lines of a text are asked for, read_file shows lines of its first
\* megabyte, at most ReadLines, from where it was asked to if there is such a line.
THEOREM SlicesAreOfTheFile ==
    ASSUME ReadLimits
    PROVE  \A path, text : \A from, to \in Int : IsAText(text) => F!SliceIsOfTheFile(path, text, from, to)
  <1> SUFFICES ASSUME NEW path, NEW text, NEW from \in Int, NEW to \in Int, IsAText(text)
               PROVE  F!SliceIsOfTheFile(path, text, from, to)
    OBVIOUS
  <1>1. F!LinesOf(F!Kept(text)) \in Nat \ {0} /\ F!LinesOf(F!Kept(text)) <= F!LinesOf(text.newlines)
    BY LinesAreKept
  <1> QED BY <1>1 DEF F!SliceIsOfTheFile, F!readFile, ReadLimits

\* Whatever the length of a text, reading on while an answer says truncated shows
\* every line of its first megabyte, and an answer that does not say so ends it.
THEOREM ReadingOn ==
    ASSUME ReadLimits
    PROVE  \A text : IsAText(text) => F!ReadingOnSeesAll(text)
  <1> SUFFICES ASSUME NEW text, IsAText(text) PROVE F!ReadingOnSeesAll(text) OBVIOUS
  <1> USE DEF ReadLimits
  <1> DEFINE total == F!LinesOf(F!Kept(text))
  <1>0. total = F!LinesOf(F!Kept(text)) OBVIOUS
  <1>00. total \in Nat /\ (text.size <= ReadBytes => total = F!LinesOf(text.newlines)) BY LinesAreKept
  <1> HIDE DEF total
  <1> USE <1>00
  <1> DEFINE file == [dots |-> FALSE, absolute |-> FALSE, leads |-> "file"]
             N == 1..(total + 1)
             from == CHOOSE f : f = [n \in N |-> IF n = 1 THEN 1 ELSE f[n - 1] + ReadLines]
             g == [n \in N |-> (n - 1) * ReadLines + 1]
             slice(n) == F!readFile(file, text, from[n], 0)
             seen == {n \in N : from[n] <= total}
  <1>1. g = [n \in N |-> IF n = 1 THEN 1 ELSE g[n - 1] + ReadLines]
    <2>1. \A n \in N : n # 1 => n - 1 \in N /\ (n - 1) * ReadLines = (n - 2) * ReadLines + ReadLines OBVIOUS
    <2> QED BY <2>1
  <1>2. from = [n \in N |-> IF n = 1 THEN 1 ELSE from[n - 1] + ReadLines]
    <2> HIDE DEF g
    <2> QED BY <1>1
  <1> HIDE DEF from
  <1>3. \A n \in N : from[n] = (n - 1) * ReadLines + 1
    <2> DEFINE bad == {n \in N : from[n] # g[n]}
    <2>1. SUFFICES bad = {} OBVIOUS
    <2>2. SUFFICES ASSUME bad # {} PROVE FALSE OBVIOUS
    <2>a. bad \in SUBSET Nat OBVIOUS
    <2>3. PICK n \in bad : \A m \in bad : n <= m
      <3> HIDE DEF bad
      <3> QED BY <2>2, <2>a, LeastNat
    <2>4. n # 1 BY <1>2
    <2>5. n - 1 \in N /\ n - 1 \notin bad BY <2>3, <2>4
    <2>6. from[n] = g[n - 1] + ReadLines BY <1>2, <2>4, <2>5
    <2> HIDE DEF g
    <2>7. g[n] = g[n - 1] + ReadLines BY <1>1, <2>4
    <2> QED BY <2>3, <2>6, <2>7
  <1>4. \A n \in N : from[n] \in Nat \ {0} BY <1>3
  <1> DEFINE end(n) == IF from[n] + ReadLines - 1 > total THEN total ELSE from[n] + ReadLines - 1
             shown(n) == [start |-> from[n], end |-> end(n), 
                         truncated |-> text.size > ReadBytes \/ end(n) - from[n] + 1 >= ReadLines]
  <1>5. \A n \in seen : slice(n) = shown(n)
    <2> SUFFICES ASSUME NEW n \in seen PROVE slice(n) = shown(n) OBVIOUS
    <2>1. from[n] \in Nat \ {0} /\ from[n] <= total BY <1>4
    <2>2. F!Readable(file) BY DEF F!Readable
    <2> HIDE DEF file
    <2> QED BY <1>0, <2>1, <2>2 DEF F!readFile
  <1> HIDE DEF slice
  <1>6. \A n \in seen : slice(n).start = from[n] /\ slice(n).end = end(n)
    <2> HIDE DEF end
    <2> QED BY <1>5
  <1>7. \A n \in seen : (n + 1) \in seen => slice(n).truncated
    <2> SUFFICES ASSUME NEW n \in seen, n + 1 \in seen PROVE slice(n).truncated OBVIOUS
    <2>1. n \in N /\ n + 1 \in N /\ from[n + 1] <= total OBVIOUS
    <2>2. from[n + 1] = from[n] + ReadLines BY <1>2, <2>1
    <2>3. end(n) - from[n] + 1 >= ReadLines BY <1>4, <2>1, <2>2
    <2>4. shown(n).truncated
      <3> HIDE DEF end
      <3> QED BY <2>3
    <2> HIDE DEF shown
    <2> QED BY <1>5, <2>4
  <1>8. \A n \in seen : slice(n).start..slice(n).end \subseteq 1..total
    BY <1>4, <1>6
  <1>9. ASSUME NEW l \in 1..total PROVE \E n \in seen : l \in slice(n).start..slice(n).end
    <2> DEFINE q == (l - 1) \div ReadLines
               n == q + 1
    <2>1. q \in Nat /\ ReadLines * q <= l - 1 /\ l - 1 < ReadLines * (q + 1) /\ q <= l - 1 OBVIOUS
    <2> HIDE DEF q
    <2>2. n \in N BY <2>1
    <2>3. from[n] = q * ReadLines + 1 BY <1>3, <2>1, <2>2
    <2>4. from[n] <= l /\ l <= from[n] + ReadLines - 1 BY <2>1, <2>3
    <2>5. n \in seen BY <2>2, <2>4, <1>4
    <2> HIDE DEF n, seen
    <2>6. l <= end(n) BY <1>4, <2>2, <2>4
    <2>7. slice(n).start..slice(n).end = from[n]..end(n) BY <1>6, <2>5
    <2>8. from[n] \in Int /\ end(n) \in Int BY <1>4, <2>2
    <2>9. l \in from[n]..end(n)
      <3> HIDE DEF end
      <3> QED BY <2>4, <2>6, <2>8
    <2>10. l \in slice(n).start..slice(n).end BY <2>7, <2>9
    <2> QED BY <2>5, <2>10
  <1>10. UNION {slice(n).start..slice(n).end : n \in seen} = 1..total
    <2> HIDE DEF seen
    <2> QED BY <1>8, <1>9
  <1>11. \A n \in seen : ~slice(n).truncated => slice(n).end = F!LinesOf(text.newlines)
    <2> SUFFICES ASSUME NEW n \in seen, ~slice(n).truncated PROVE slice(n).end = total /\ text.size <= ReadBytes
      BY <1>00
    <2>1. ~(text.size > ReadBytes) /\ ~(end(n) - from[n] + 1 >= ReadLines)
      <3>1. ~shown(n).truncated BY <1>5
      <3> HIDE DEF end
      <3> QED BY <3>1
    <2>2. from[n] \in Nat \ {0} /\ from[n] <= total /\ text.size \in Nat BY <1>4 DEF IsAText
    <2>3. end(n) = total BY <2>1, <2>2
    <2> QED BY <1>6, <2>1, <2>2, <2>3
  <1> QED BY <1>6, <1>7, <1>10, <1>11 DEF F!ReadingOnSeesAll, from, slice, total
-----------------------------------------------------------------------------
(* Discovery.                                                              *)

\* A checkout; no directory in it has the name of git's own list.
FileFields == {"path", "size", "language", "compiled", "generated", "tooling"}
IsAFile(f) == f = [x \in FileFields |-> f[x]]
DiskFields == {"files", "rules", "git", "kind", "maxFileBytes", "cgrignore", "cbmignore", "unreadable", "links"}
IsAPath(p) ==
    (\E names : p \in Seq(names)) /\ Len(p) > 0 /\ \A n \in 0..Len(p) : SubSeq(p, 1, n) # F!Exclude
IsDisk(disk) ==
    disk = [x \in DiskFields |-> disk[x]] /\ \A f \in disk.files : IsAFile(f) /\ IsAPath(f.path)

\* A path is ignored when it or a directory above it is.
LEMMA MatchesWhenAny ==
    ASSUME NEW disk, NEW p, Len(p) \in Nat
    PROVE  F!matchRel(disk, p) <=> \E n \in 1..Len(p) : F!ignores(disk, SubSeq(p, 1, n))
  <1> DEFINE l == Len(p)
             yes(n) == F!ignores(disk, SubSeq(p, 1, n))
             Is(f) == f = [n \in 0..l |-> n > 0 /\ (f[n - 1] \/ yes(n))]
             ignored == CHOOSE f : Is(f)
             g == [n \in 0..l |-> \E k \in 1..n : yes(k)]
  <1>1. F!matchRel(disk, p) = ignored[l] BY DEF F!matchRel
  <1>2. Is(g)
    <2> HIDE DEF yes
    <2>1. ASSUME NEW n \in 0..l PROVE g[n] = (n > 0 /\ (g[n - 1] \/ yes(n)))
      <3>1. g[n] = \E k \in 1..n : yes(k) OBVIOUS
      <3>2. n > 0 => g[n - 1] = \E k \in 1..(n - 1) : yes(k) OBVIOUS
      <3>3. n > 0 => 1..n = 1..(n - 1) \cup {n} OBVIOUS
      <3>4. (\E k \in 1..n : yes(k)) <=> n > 0 /\ ((\E k \in 1..(n - 1) : yes(k)) \/ yes(n))
        <4>1. n = 0 \/ n > 0 OBVIOUS
        <4>2. CASE n > 0
          <5> HIDE DEF yes
          <5> QED BY <3>3, <4>2
        <4>3. CASE n = 0 BY <4>3
        <4> QED BY <4>1, <4>2, <4>3
      <3> HIDE DEF g
      <3>5. g[n] <=> (n > 0 /\ (g[n - 1] \/ yes(n))) BY <3>1, <3>2, <3>4
      <3>6. g[n] \in BOOLEAN BY <3>1
      <3> QED BY <3>5, <3>6
    <2>2. g = [n \in 0..l |-> g[n]] OBVIOUS
    <2> HIDE DEF g
    <2> QED BY <2>1, <2>2
  <1>3. Is(ignored)
    <2>1. \E f : Is(f) BY <1>2
    <2> HIDE DEF Is
    <2> QED BY <2>1
  <1> HIDE DEF ignored, yes
  <1> DEFINE P == {n \in 0..l : ignored[n] <=> \E k \in 1..n : yes(k)}
  <1>4. \A n \in 0..l : n \in P
    <2>1. 0 \in P
      <3>1. ignored[0] = (0 > 0 /\ (ignored[0 - 1] \/ yes(0))) /\ 0 \in 0..l BY <1>3
      <3>2. ~(0 > 0) OBVIOUS
      <3>3. ~ignored[0] BY <3>1, <3>2, Zenon
      <3>4. ~\E k \in 1..0 : yes(k) OBVIOUS
      <3> QED BY <3>1, <3>3, <3>4
    <2>2. ASSUME NEW n \in 1..l, n - 1 \in P PROVE n \in P
      <3>0. ignored[n] = (n > 0 /\ (ignored[n - 1] \/ yes(n))) BY <1>3
      <3>1. ignored[n] <=> ignored[n - 1] \/ yes(n)
        <4>1. n > 0 OBVIOUS
        <4> QED BY <3>0, <4>1
      <3>2. ignored[n - 1] <=> \E k \in 1..(n - 1) : yes(k) BY <2>2
      <3>3. 1..n = 1..(n - 1) \cup {n} OBVIOUS
      <3> QED BY <3>1, <3>2, <3>3
    <2>3. \A n \in 1..l : n - 1 \in P => n \in P BY <2>2
    <2> HIDE DEF P
    <2> QED BY <2>1, <2>3, UpTo
  <1>5. l \in P BY <1>4
  <1> QED BY <1>1, <1>5 DEF yes

\* The directories above a path have paths.
LEMMA AboveIsAPath ==
    ASSUME NEW p, IsAPath(p), NEW d \in F!Above(p)
    PROVE  IsAPath(d)
  <1>1. PICK names : p \in Seq(names) BY DEF IsAPath
  <1>2. PICK m \in 1..(Len(p) - 1) : d = SubSeq(p, 1, m) BY DEF F!Above
  <1>3. d \in Seq(names) /\ Len(d) = m BY <1>1, <1>2
  <1>4. ASSUME NEW n \in 0..m PROVE SubSeq(d, 1, n) = SubSeq(p, 1, n) /\ n \in 0..Len(p)
    BY <1>1, <1>2
  <1>5. m > 0 BY <1>1, <1>2
  <1> QED BY <1>3, <1>4, <1>5 DEF IsAPath

\* Whatever the checkout was and has become, index_health and the watcher see a
\* project as its full indexing run does.
THEOREM HealthSeesTheRun == \A disk, later : F!HealthIsExact(disk, later)
  BY DEF F!HealthIsExact, F!handleIndexHealth, F!PipelineOptions, F!HealthOptions, F!SnapshotOptions,
         F!fullModeMaxFileSize

\* In every checkout, what is tallied as unsupported is what a grammar would
\* bring in, and nothing else.
THEOREM TallyIsTheRestOfIt ==
    ASSUME NEW disk, IsDisk(disk)
    PROVE  F!TallyIsTheRest(disk)
  <1> DEFINE taught(f) == IF f.language = "none" THEN [f EXCEPT !.language = "known"] ELSE f
             opts == F!HealthOptions(disk)
             later == [disk EXCEPT !.files = {taught(f) : f \in @}]
             open(f) == /\ \A d \in F!Above(f.path) :
                              ~F!shouldSkipDir(disk, d, opts.mode) /\ ~F!shouldIgnore(disk, d)
                              /\ d \notin disk.unreadable /\ d \notin disk.links
                        /\ f.path \notin disk.links /\ ~F!shouldIgnore(disk, f.path)
  <1>1. /\ later.files = {taught(f) : f \in disk.files} /\ later.rules = disk.rules /\ later.git = disk.git
        /\ later.kind = disk.kind /\ later.cgrignore = disk.cgrignore /\ later.cbmignore = disk.cbmignore
        /\ later.unreadable = disk.unreadable /\ later.links = disk.links
    BY DEF IsDisk, DiskFields
  <1> HIDE DEF later
  <1>2. /\ \A d : F!shouldSkipDir(later, d, opts.mode) = F!shouldSkipDir(disk, d, opts.mode)
        /\ \A at, p : F!Relative(later, at, p) = F!Relative(disk, at, p)
    BY <1>1 DEF F!shouldSkipDir, F!Relative
  <1>3. ASSUME NEW p, IsAPath(p)
        PROVE  F!shouldIgnore(later, p) <=> F!shouldIgnore(disk, p)
    <2>1. Len(p) \in Nat BY <1>3 DEF IsAPath
    <2>2. \A q : F!ignores(later, q) <=> F!ignores(disk, q) BY <1>2 DEF F!ignores
    <2>3. F!matchRel(later, p) <=> F!matchRel(disk, p) BY <2>1, <2>2, MatchesWhenAny
    <2> QED BY <1>1, <2>3 DEF F!shouldIgnore
  <1>4. ASSUME NEW f \in disk.files
        PROVE  IsAPath(f.path) /\ \A d \in F!Above(f.path) : IsAPath(d)
    <2>1. IsAPath(f.path) BY DEF IsDisk
    <2>2. ASSUME NEW d \in F!Above(f.path) PROVE IsAPath(d) BY <2>1, <2>2, AboveIsAPath
    <2> QED BY <2>1, <2>2
  <1>5. F!Walked(disk, opts) = {f \in disk.files : open(f)} BY DEF F!Walked
  <1>6. ASSUME NEW f \in disk.files
        PROVE  /\ taught(f) \in later.files /\ taught(f).path = f.path
               /\ taught(f) \in F!Walked(later, opts) <=> open(f)
    <2>1. taught(f).path = f.path BY DEF IsDisk, IsAFile, FileFields
    <2>2. taught(f) \in later.files BY <1>1
    <2> HIDE DEF taught, opts
    <2> QED BY <1>1, <1>2, <1>3, <1>4, <2>1, <2>2 DEF F!Walked
  <1>7. ASSUME NEW f \in disk.files
        PROVE  /\ F!classifyFile(taught(f), opts) = "source" <=>
                    F!classifyFile(f, opts) \in {"source", "unsupported"}
               /\ F!classifyFile(f, opts) = "source" => taught(f) = f
    <2>1. CASE f.language = "none"
      <3> DEFINE t == taught(f)
      <3>1. /\ t.language = "known" /\ t.size = f.size /\ t.compiled = f.compiled
            /\ t.generated = f.generated
        BY <2>1 DEF IsDisk, IsAFile, FileFields
      <3> HIDE DEF t, opts
      <3>2. F!shouldSkipFile(t, opts) <=> F!shouldSkipFile(f, opts) BY <3>1 DEF F!shouldSkipFile
      <3>3. /\ F!classifyFile(t, opts) = "source" <=> ~(f.compiled \/ F!shouldSkipFile(f, opts))
            /\ F!classifyFile(f, opts) = "unsupported" <=> ~(f.compiled \/ F!shouldSkipFile(f, opts))
            /\ F!classifyFile(f, opts) # "source"
        BY <2>1, <3>1, <3>2 DEF F!classifyFile
      <3> QED BY <3>3 DEF t
    <2>2. CASE f.language # "none"
      <3>1. taught(f) = f BY <2>2
      <3>2. F!classifyFile(f, opts) # "unsupported" BY <2>2 DEF F!classifyFile
      <3> HIDE DEF taught
      <3> QED BY <3>1, <3>2
    <2> QED BY <2>1, <2>2
  <1>8. F!Discover(later, opts) = {taught(f) : f \in {f \in disk.files :
               open(f) /\ F!classifyFile(f, opts) \in {"source", "unsupported"}}}
    <2>1. \A x \in F!Walked(later, opts) : x \in later.files BY DEF F!Walked
    <2> HIDE DEF taught, opts, open
    <2> QED BY <1>1, <1>6, <1>7, <2>1 DEF F!Discover
  <1>9. /\ F!Discover(disk, opts) = {f \in disk.files : open(f) /\ F!classifyFile(f, opts) = "source"}
        /\ F!UnsupportedTally(disk, opts) =
              {f \in disk.files : open(f) /\ F!classifyFile(f, opts) = "unsupported"}
    <2> HIDE DEF opts, open
    <2> QED BY <1>5 DEF F!Discover, F!UnsupportedTally
  <1>10. F!Discover(later, opts)
           = F!Discover(disk, opts) \cup {taught(f) : f \in F!UnsupportedTally(disk, opts)}
    <2> HIDE DEF opts, open, taught
    <2> QED BY <1>7, <1>8, <1>9
  <1> QED BY <1>10 DEF F!TallyIsTheRest, later


\* The first matcher that has a say is the deepest.
LEMMA FirstIsDeepest ==
    ASSUME NEW disk, NEW q, IsAPath(q)
    PROVE  LET depth(at) == IF at = F!Exclude THEN -1 ELSE Len(at)
               rulesOn == {at \in F!Above(q) \cup {<<>>, F!Exclude} : F!Relative(disk, at, q) # "none"}
           IN  F!ignores(disk, q) <=> \E at \in rulesOn :
                   /\ F!Relative(disk, at, q) = "ignore"
                   /\ \A other \in rulesOn : depth(other) <= depth(at)
  <1> DEFINE depth(at) == IF at = F!Exclude THEN -1 ELSE Len(at)
             rulesOn == {at \in F!Above(q) \cup {<<>>, F!Exclude} : F!Relative(disk, at, q) # "none"}
             l == Len(q)
             M == F!MatchersOf(q)
             says(at) == F!Relative(disk, at, q)
  <1>1. PICK names : q \in Seq(names) BY DEF IsAPath
  <1>2. l \in Nat /\ l > 0 BY <1>1 DEF IsAPath
  <1>3. M = [k \in 1..(l + 1) |-> IF k <= l THEN SubSeq(q, 1, l - k) ELSE F!Exclude]
    BY DEF F!MatchersOf
  <1> HIDE DEF M, says
  <1>4. ASSUME NEW k \in 1..(l + 1)
        PROVE  M[k] \in F!Above(q) \cup {<<>>, F!Exclude} /\ depth(M[k]) = l - k
    <2>1. CASE k = l + 1
      <3>1. M[k] = F!Exclude BY <1>2, <1>3, <2>1
      <3>2. l - k = -1 BY <1>2, <2>1
      <3> QED BY <3>1, <3>2
    <2>2. CASE k \in 1..l
      <3>1. M[k] = SubSeq(q, 1, l - k) /\ l - k \in 0..(l - 1) BY <1>2, <1>3, <2>2
      <3>2. M[k] # F!Exclude BY <1>2, <3>1 DEF IsAPath
      <3>3. Len(M[k]) = l - k BY <1>1, <1>2, <3>1
      <3>4. CASE l - k = 0
        <4>1. M[k] = <<>> BY <1>1, <3>1, <3>4
        <4> QED BY <3>2, <3>3, <4>1
      <3>5. CASE l - k # 0
        <4>1. l - k \in 1..(l - 1) BY <1>2, <3>1, <3>5
        <4>2. M[k] \in F!Above(q) BY <3>1, <4>1 DEF F!Above
        <4> QED BY <3>2, <3>3, <4>2
      <3> QED BY <3>4, <3>5
    <2> QED BY <1>2, <2>1, <2>2
  <1>5. ASSUME NEW at \in F!Above(q) \cup {<<>>, F!Exclude}
        PROVE  \E k \in 1..(l + 1) : M[k] = at
    <2>1. CASE at \in F!Above(q)
      <3>1. PICK n \in 1..(l - 1) : at = SubSeq(q, 1, n) BY <2>1 DEF F!Above
      <3>2. l - n \in 1..l /\ l - (l - n) = n BY <1>2, <3>1
      <3>3. M[l - n] = at BY <1>2, <1>3, <3>1, <3>2
      <3> QED BY <1>2, <3>2, <3>3
    <2>2. CASE at = <<>>
      <3>1. M[l] = SubSeq(q, 1, l - l) /\ l - l = 0 /\ l \in 1..(l + 1) BY <1>2, <1>3
      <3>2. SubSeq(q, 1, 0) = <<>> BY <1>1
      <3> QED BY <2>2, <3>1, <3>2
    <2>3. CASE at = F!Exclude
      <3>1. M[l + 1] = F!Exclude BY <1>2, <1>3
      <3> QED BY <1>2, <2>3, <3>1
    <2> QED BY <1>5, <2>1, <2>2, <2>3
  <1>6. F!ignores(disk, q) <=> \E k \in 1..(l + 1) :
              says(M[k]) = "ignore" /\ \A j \in 1..(k - 1) : says(M[j]) = "none"
    <2>1. DOMAIN M = 1..(l + 1) BY <1>3
    <2> QED BY <2>1 DEF F!ignores, says, M
  <1>7. \A at : at \in rulesOn <=> at \in F!Above(q) \cup {<<>>, F!Exclude} /\ says(at) # "none"
    BY DEF says
  <1> HIDE DEF rulesOn, depth
  <1>8. ASSUME NEW k \in 1..(l + 1), says(M[k]) = "ignore", \A j \in 1..(k - 1) : says(M[j]) = "none"
        PROVE  \E at \in rulesOn : says(at) = "ignore" /\ \A other \in rulesOn : depth(other) <= depth(at)
    <2>1. M[k] \in rulesOn BY <1>4, <1>7, <1>8
    <2>2. ASSUME NEW other \in rulesOn PROVE depth(other) <= depth(M[k])
      <3>1. PICK j \in 1..(l + 1) : M[j] = other BY <1>5, <1>7
      <3>2. j \notin 1..(k - 1) BY <1>7, <1>8, <3>1
      <3>3. k <= j BY <1>2, <3>2
      <3> QED BY <1>2, <1>4, <3>1, <3>3
    <2> QED BY <1>8, <2>1, <2>2
  <1>9. ASSUME NEW at \in rulesOn, says(at) = "ignore", \A other \in rulesOn : depth(other) <= depth(at)
        PROVE  \E k \in 1..(l + 1) : says(M[k]) = "ignore" /\ \A j \in 1..(k - 1) : says(M[j]) = "none"
    <2>1. PICK k \in 1..(l + 1) : M[k] = at BY <1>5, <1>7
    <2>2. ASSUME NEW j \in 1..(k - 1) PROVE says(M[j]) = "none"
      <3>1. j \in 1..(l + 1) /\ ~(l - j <= l - k) BY <1>2
      <3>2. M[j] \notin rulesOn BY <1>4, <1>9, <2>1, <3>1
      <3> QED BY <1>4, <1>7, <3>1, <3>2
    <2> QED BY <1>9, <2>1, <2>2
  <1>10. F!ignores(disk, q) <=> \E at \in rulesOn :
              says(at) = "ignore" /\ \A other \in rulesOn : depth(other) <= depth(at)
    BY <1>6, <1>8, <1>9
  <1> QED BY <1>10 DEF rulesOn, depth, says

\* In every checkout, whatever its ignore rules say at any depth, discovery
\* leaves out what git would.
THEOREM DiscoveryIgnoresLikeGit ==
    ASSUME NEW disk, IsDisk(disk)
    PROVE  F!IgnoredLikeGit(disk)
  <1> SUFFICES ASSUME NEW f \in disk.files
               PROVE  LET depth(at) == IF at = F!Exclude THEN -1 ELSE Len(at)
                          rulesOn(q) == {at \in F!Above(q) \cup {<<>>, F!Exclude} :
                                           F!Relative(disk, at, q) # "none"}
                          excluded(q) == \E at \in rulesOn(q) :
                                             /\ F!Relative(disk, at, q) = "ignore"
                                             /\ \A other \in rulesOn(q) : depth(other) <= depth(at)
                      IN  F!matchRel(disk, f.path)
                            <=> \E q \in F!Above(f.path) \cup {f.path} : excluded(q)
    BY DEF F!IgnoredLikeGit
  <1> DEFINE depth(at) == IF at = F!Exclude THEN -1 ELSE Len(at)
             rulesOn(q) == {at \in F!Above(q) \cup {<<>>, F!Exclude} : F!Relative(disk, at, q) # "none"}
             excluded(q) == \E at \in rulesOn(q) :
                                /\ F!Relative(disk, at, q) = "ignore"
                                /\ \A other \in rulesOn(q) : depth(other) <= depth(at)
             p == f.path
             chain == F!Above(p) \cup {p}
  <1>1. IsAPath(p) BY DEF IsDisk
  <1>2. PICK names : p \in Seq(names) BY <1>1 DEF IsAPath
  <1>3. Len(p) \in Nat /\ Len(p) > 0 BY <1>1, <1>2 DEF IsAPath
  <1>4. \A q \in chain : IsAPath(q) BY <1>1, AboveIsAPath
  <1>5. ASSUME NEW q \in chain PROVE F!ignores(disk, q) <=> excluded(q)
    <2>1. IsAPath(q) BY <1>4
    <2> QED BY <2>1, FirstIsDeepest
  <1>6. chain = {SubSeq(p, 1, n) : n \in 1..Len(p)}
    <2>1. SubSeq(p, 1, Len(p)) = p BY <1>2
    <2>2. 1..Len(p) = 1..(Len(p) - 1) \cup {Len(p)} BY <1>3
    <2> HIDE DEF p
    <2> QED BY <2>1, <2>2 DEF F!Above
  <1>7. F!matchRel(disk, p) <=> \E n \in 1..Len(p) : F!ignores(disk, SubSeq(p, 1, n))
    BY <1>3, MatchesWhenAny
  <1> HIDE DEF chain, excluded, p
  <1>8. F!matchRel(disk, p) <=> \E q \in chain : excluded(q) BY <1>5, <1>6, <1>7
  <1> QED BY <1>8 DEF chain, excluded, p

\* What has been asked of files.
AskedOfFiles ==
    \/ ask \in FileSeeds
    \/ \E root, i, l : ask = [topic |-> "ignored", root |-> root, inner |-> i, last |-> l]
    \/ \E in, size, tooling, max, git, says, how :
          ask = [topic |-> "discovered", in |-> in, size |-> size, tooling |-> tooling, max |-> max,
                 git |-> git, says |-> says, how |-> how]
          /\ how \in {"open", "cgrignore", "cbmignore", "link", "unreadable"}
    \/ ask \in [topic : {"slice"}, text : FileTexts, from : -1..12, to : 0..12]

\* The paths of the questions are paths.
LEMMA PathsOfDisks == IsAPath(Deep) /\ IsAPath(<<"d", "f">>) /\ IsAPath(<<"g">>)
  <1>1. ASSUME NEW p \in {Deep, <<"d", "f">>, <<"g">>} PROVE IsAPath(p)
    <2> DEFINE names == {"d", "e", "f", "g"}
    <2>1. p \in Seq(names) /\ Len(p) > 0 /\ p[1] \in {"d", "g"}
      <3>1. CASE p = <<"d", "e", "f">> BY <3>1
      <3>2. CASE p = <<"d", "f">> BY <3>2
      <3>3. CASE p = <<"g">> BY <3>3
      <3> QED BY <1>1, <3>1, <3>2, <3>3 DEF Deep
    <2>2. ASSUME NEW n \in 0..Len(p) PROVE SubSeq(p, 1, n) # F!Exclude
      <3>1. CASE n = 0
        <4>1. Len(SubSeq(p, 1, n)) = 0 BY <2>1, <3>1
        <4>2. Len(F!Exclude) = 1 BY DEF F!Exclude
        <4> QED BY <4>1, <4>2
      <3>2. CASE n > 0
        <4>1. SubSeq(p, 1, n)[1] = p[1] BY <2>1, <3>2
        <4>2. F!Exclude[1] = ".git/info/exclude" BY DEF F!Exclude
        <4> QED BY <2>1, <4>1, <4>2
      <3> QED BY <3>1, <3>2
    <2> QED BY <2>1, <2>2 DEF IsAPath
  <1> QED BY <1>1

\* So are those in which something is closed.
LEMMA DisksAreDisks ==
    ASSUME NEW files, \A f \in files : IsAFile(f) /\ IsAPath(f.path),
           NEW rules, NEW git, NEW kind, NEW max,
           NEW how \in {"open", "cgrignore", "cbmignore", "link", "unreadable"}
    PROVE  IsDisk(Closed(Disk(files, rules, git, kind, max), how))
  <1> DEFINE d == Disk(files, rules, git, kind, max)
             c == Closed(d, how)
  <1>1. d.files = files /\ d = [x \in DiskFields |-> d[x]] BY DEF Disk, DiskFields
  <1> HIDE DEF d
  <1>2. c = [x \in DiskFields |-> c[x]] /\ c.files = files
    <2>1. CASE how = "open" BY <1>1, <2>1 DEF Closed
    <2>2. CASE how = "cgrignore" BY <1>1, <2>2 DEF Closed, DiskFields
    <2>3. CASE how = "cbmignore" BY <1>1, <2>3 DEF Closed, DiskFields
    <2>4. CASE how = "link" BY <1>1, <2>4 DEF Closed, DiskFields
    <2>5. CASE how = "unreadable" BY <1>1, <2>5 DEF Closed, DiskFields
    <2> QED BY <2>1, <2>2, <2>3, <2>4, <2>5
  <1> HIDE DEF c
  <1> QED BY <1>2 DEF IsDisk, c, d

\* What is put on them are files.
LEMMA FilesAreFiles ==
    ASSUME NEW path, NEW size, NEW language, NEW compiled, NEW generated, NEW tooling, NEW f,
           f = OnDisk(path, size, language, compiled, generated, tooling), IsAPath(path)
    PROVE  IsAFile(f) /\ IsAPath(f.path)
  BY DEF OnDisk, IsAFile, FileFields

\* What the questions are about, by their topics.
LEMMA AskedTopics ==
    ASSUME AskedOfFiles
    PROVE  /\ ask.topic = "discovered" => ask.how \in {"open", "cgrignore", "cbmignore", "link", "unreadable"}
           /\ ask.topic = "file of" => ask.text \in FileTexts
           /\ ask.topic = "slice" => ask.text \in FileTexts /\ ask.from \in -1..12 /\ ask.to \in 0..12
  <1>1. CASE ask \in FileSeeds
    <2>1. CASE ask \in [topic : {"rules"}, root : [RootRules -> Says]]
      <3>1. ask.topic = "rules" BY <2>1
      <3> QED BY <3>1
    <2>2. CASE ask \in [topic : {"file in"}, kind : {"plain", "built in", "hidden", "generated"},
                        language : {"known", "json", "none"}, compiled : BOOLEAN, generated : BOOLEAN]
      <3>1. ask.topic = "file in" BY <2>2
      <3> QED BY <3>1
    <2>3. CASE ask \in [topic : {"file of"}, text : FileTexts] BY <2>3
    <2> QED BY <1>1, <2>1, <2>2, <2>3 DEF FileSeeds
  <1>2. CASE \E root, i, l : ask = [topic |-> "ignored", root |-> root, inner |-> i, last |-> l]
    <2>1. ask.topic = "ignored" BY <1>2
    <2> QED BY <2>1
  <1>3. CASE \E in, size, tooling, max, git, says, how :
                ask = [topic |-> "discovered", in |-> in, size |-> size, tooling |-> tooling, max |-> max,
                       git |-> git, says |-> says, how |-> how]
                /\ how \in {"open", "cgrignore", "cbmignore", "link", "unreadable"}
    <2>1. ask.topic = "discovered" /\ ask.how \in {"open", "cgrignore", "cbmignore", "link", "unreadable"}
      BY <1>3
    <2> QED BY <2>1
  <1>4. CASE ask \in [topic : {"slice"}, text : FileTexts, from : -1..12, to : 0..12] BY <1>4
  <1> QED BY <1>1, <1>2, <1>3, <1>4 DEF AskedOfFiles

\* The texts that are asked for are texts.
LEMMA FileTextsAreTexts == \A text \in FileTexts : IsAText(text)
  <1> SUFFICES ASSUME NEW n \in 1..10, NEW w \in 2..3, NEW text,
                      text = [newlines |-> {w * i : i \in 1..(n - 1)}, size |-> w * n]
               PROVE  IsAText(text)
    BY DEF FileTexts
  <1>1. w = 2 \/ w = 3 OBVIOUS
  <1>2. w * n \in Nat /\ \A i \in 1..(n - 1) : w * i \in 1..(w * n) BY <1>1
  <1> QED BY <1>2 DEF IsAText

\* Every answer about files that the questions ask for is exact, whatever the
\* limits.
THEOREM FilesAreExact ==
    ASSUME ReadLimits
    PROVE  FileSpec => []FilesExact
  <1>1. ask \in FileSeeds => AskedOfFiles BY DEF AskedOfFiles
  <1>2. ASSUME AskedOfFiles, [AskFiles]_ask PROVE AskedOfFiles'
    <2>1. CASE AskRules BY <2>1 DEF AskRules, AskedOfFiles
    <2>2. CASE AskDiscovery
      <3>1. \E s, t, m, g, y, h :
               /\ ask' = [topic |-> "discovered", in |-> ask, size |-> s, tooling |-> t, max |-> m, git |-> g,
                          says |-> y, how |-> h]
               /\ h \in {"open", "cgrignore", "cbmignore", "link", "unreadable"}
        <4>1. PICK s \in 2..4, t \in BOOLEAN, m \in {0, 3}, g \in {"directory", "file"},
                   y \in {<<"none", "none">>, <<"ignore", "keep">>, <<"keep", "ignore">>},
                   h \in {"open", "cgrignore", "cbmignore", "link", "unreadable"} :
                 ask' = [topic |-> "discovered", in |-> ask, size |-> s, tooling |-> t, max |-> m, git |-> g,
                         says |-> y, how |-> h]
          BY ZenonT(60), <2>2 DEF AskDiscovery
        <4> QED BY Zenon, <4>1
      <3>2. \E in, size, tooling, max, git, says, how :
               /\ ask' = [topic |-> "discovered", in |-> in, size |-> size, tooling |-> tooling, max |-> max,
                          git |-> git, says |-> says, how |-> how]
               /\ how \in {"open", "cgrignore", "cbmignore", "link", "unreadable"}
        BY Zenon, <3>1
      <3> QED BY Zenon, <3>2 DEF AskedOfFiles
    <2>3. CASE AskSlice
      <3>a. AskedOfFiles BY <1>2
      <3>b. AskedOfFiles => (ask.topic = "file of" => ask.text \in FileTexts) BY Zenon, AskedTopics
      <3>0. ask.topic = "file of" BY <2>3 DEF AskSlice
      <3>1. ask.text \in FileTexts BY <3>a, <3>b, <3>0
      <3>2. ask' \in [topic : {"slice"}, text : FileTexts, from : -1..12, to : 0..12]
        <4>1. PICK from \in -1..12, to \in 0..12 :
                 ask' = [topic |-> "slice", text |-> ask.text, from |-> from, to |-> to]
          BY <2>3 DEF AskSlice
        <4> QED BY <3>1, <4>1
      <3> QED BY <3>2 DEF AskedOfFiles
    <2>4. CASE UNCHANGED ask BY <1>2, <2>4 DEF AskedOfFiles
    <2> QED BY <1>2, <2>1, <2>2, <2>3, <2>4 DEF AskFiles
  <1>3. AskedOfFiles => FilesExact
    <2>0. \A p : IsAPath(p) => IsAFile(Plain(p)) /\ IsAPath(Plain(p).path)
      <3> TAKE p
      <3> HAVE IsAPath(p)
      <3> DEFINE f == Plain(p)
      <3>1. f = OnDisk(p, 1, "known", FALSE, FALSE, FALSE) BY DEF Plain
      <3> HIDE DEF f
      <3>2. IsAFile(f) /\ f.path = p BY <3>1 DEF OnDisk, IsAFile, FileFields
      <3> QED BY <3>2 DEF f
    <2>1. ASSUME ask.topic = "ignored", AskedOfFiles
          PROVE  F!IgnoredLikeGit(Disk({Plain(Deep)}, [r \in RootRules \cup InnerRules \cup LastRules |->
                                    IF r \in RootRules THEN ask.root[r]
                                    ELSE IF r \in InnerRules THEN ask.inner[r] ELSE ask.last[r]],
                                "directory", <<>>, 0))
      <3> DEFINE rules == [r \in RootRules \cup InnerRules \cup LastRules |->
                                    IF r \in RootRules THEN ask.root[r]
                                    ELSE IF r \in InnerRules THEN ask.inner[r] ELSE ask.last[r]]
                 d == Disk({Plain(Deep)}, rules, "directory", <<>>, 0)
      <3>1. \A f \in {Plain(Deep)} : IsAFile(f) /\ IsAPath(f.path) BY <2>0, PathsOfDisks
      <3> HIDE DEF rules
      <3>2. IsDisk(Closed(d, "open")) BY <3>1, DisksAreDisks
      <3>3. Closed(d, "open") = d BY DEF Closed
      <3> HIDE DEF d
      <3>4. F!IgnoredLikeGit(d) BY <3>2, <3>3, DiscoveryIgnoresLikeGit
      <3> QED BY <3>4 DEF d, rules
    <2>2. ASSUME ask.topic = "discovered", AskedOfFiles
          PROVE  F!TallyIsTheRest(DiskOf(ask))
      <3>1. ask.how \in {"open", "cgrignore", "cbmignore", "link", "unreadable"}
        BY <2>2, AskedTopics
      <3> DEFINE asked == OnDisk(<<"d", "f">>, ask.size, ask.in.language, ask.in.compiled,
                                 ask.in.generated, ask.tooling)
                 files == {asked, Plain(<<"g">>)}
      <3>2. IsAFile(asked) /\ IsAPath(asked.path) BY PathsOfDisks, FilesAreFiles
      <3>5. \A f \in files : IsAFile(f) /\ IsAPath(f.path)
        <4> HIDE DEF asked
        <4> QED BY <2>0, <3>2, PathsOfDisks
      <3> HIDE DEF files
      <3>3. IsDisk(Closed(Disk(files, TwoRules(ask.says), ask.git, [p \in {<<"d">>} |-> ask.in.kind],
                               ask.max), ask.how))
        BY <3>1, <3>5, DisksAreDisks
      <3>4. IsDisk(DiskOf(ask)) BY <3>3 DEF DiskOf, files
      <3> QED BY <3>4, TallyIsTheRestOfIt
    <2>3. ASSUME ask.topic = "file of", AskedOfFiles PROVE F!ReadingOnSeesAll(ask.text)
      <3>1. ask.text \in FileTexts BY <2>3, AskedTopics
      <3>2. IsAText(ask.text) BY <3>1, FileTextsAreTexts
      <3> QED BY <3>2, ReadingOn
    <2>4. ASSUME ask.topic = "slice", AskedOfFiles
          PROVE  \A path \in AskedPaths : F!SliceIsOfTheFile(path, ask.text, ask.from, ask.to)
      <3>1. ask.text \in FileTexts /\ ask.from \in Int /\ ask.to \in Int
        BY <2>4, AskedTopics
      <3>2. IsAText(ask.text) BY <3>1, FileTextsAreTexts
      <3> QED BY <3>1, <3>2, SlicesAreOfTheFile
    <2> QED BY <2>1, <2>2, <2>3, <2>4, HealthSeesTheRun DEF FilesExact
  <1> QED BY <1>1, <1>2, <1>3, PTL DEF FileSpec

-----------------------------------------------------------------------------
(* Graphs.                                                                  *)

IsGraph(g) ==
    /\ IsASequence(g.node) /\ IsASequence(g.edge)
    /\ \A e \in DOMAIN g.edge : g.edge[e].src \in DOMAIN g.node /\ g.edge[e].tgt \in DOMAIN g.node

\* A list of each member of a set.
Lists(s, U) ==
    /\ s \in Seq(U) /\ Len(s) = Cardinality(U)
    /\ \A i \in U : \E k \in 1..Len(s) : s[k] = i

\* The numbers of a set that are at most n are listed, each of them once.
LEMMA OrderLists ==
    ASSUME NEW S, NEW n \in Nat
    PROVE  Lists(T!InOrder(S, n), S \cap (1..n))
  <1> DEFINE U == S \cap (1..n)
             Upto(i) == {j \in U : j <= i}
             rank == [i \in U |-> Cardinality(Upto(i))]
             c == Cardinality(U)
  <1>1. IsFiniteSet(U) /\ c \in Nat
    <2>1. IsFiniteSet(1..n) BY FS_Interval
    <2>2. IsFiniteSet(U) BY <2>1, FS_Subset
    <2> QED BY <2>2, FS_CardinalityType
  <1>2. ASSUME NEW i \in U PROVE IsFiniteSet(Upto(i)) /\ rank[i] \in 1..c
    <2>1. Upto(i) \subseteq U /\ i \in Upto(i) OBVIOUS
    <2>2. IsFiniteSet(Upto(i)) /\ Cardinality(Upto(i)) <= c /\ Cardinality(Upto(i)) \in Nat
      <3> HIDE DEF Upto, U
      <3> QED BY <1>1, <2>1, FS_Subset, FS_CardinalityType
    <2>3. Cardinality(Upto(i)) # 0
      <3> HIDE DEF Upto
      <3> QED BY <2>1, <2>2, FS_EmptySet
    <2> HIDE DEF Upto, c
    <2> QED BY <1>1, <2>2, <2>3
  <1>3. ASSUME NEW i \in U, NEW j \in U, i < j PROVE rank[i] # rank[j]
    <2>1. Upto(i) \subseteq Upto(j) /\ j \in Upto(j) /\ j \notin Upto(i) BY <1>3
    <2>2. Cardinality(Upto(i)) # Cardinality(Upto(j))
      <3> HIDE DEF Upto
      <3> QED BY <1>2, <2>1, FS_Subset
    <2> QED BY <2>2
  <1>4. \A i, j \in U : rank[i] = rank[j] => i = j
    <2>1. \A i, j \in U : i = j \/ i < j \/ j < i OBVIOUS
    <2> HIDE DEF rank, U
    <2> QED BY <1>3, <2>1
  <1>5. \A k \in 1..c : \E i \in U : rank[i] = k
    <2> HIDE DEF rank
    <2>1. rank \in Injection(U, 1..c) BY <1>2, <1>4 DEF Injection, IsInjective, rank
    <2>2. IsFiniteSet(1..c) /\ Cardinality(1..c) = c BY <1>1, FS_Interval
    <2>3. rank \in Surjection(U, 1..c) BY <1>1, <2>1, <2>2, FS_Injection
    <2> QED BY <2>3 DEF Surjection
  <1>6. \A A : T!Cardinality(A) = Cardinality(A) BY DEF T!Cardinality, Cardinality
  <1> DEFINE at(k) == CHOOSE i \in U : T!Cardinality({j \in U : j <= i}) = k
             s == [k \in 1..T!Cardinality(U) |-> at(k)]
  <1>7. /\ T!InOrder(S, n) = s
        /\ T!Cardinality(U) = c
        /\ \A k \in 1..c : at(k) \in U /\ rank[at(k)] = k
    <2>1. T!InOrder(S, n) = s BY DEF T!InOrder
    <2>2. \A i \in U : rank[i] = T!Cardinality({j \in U : j <= i}) BY <1>6
    <2>3. \A k \in 1..c : \E i \in U : T!Cardinality({j \in U : j <= i}) = k
      <3> HIDE DEF rank
      <3> QED BY <1>5, <2>2
    <2>4. \A k \in 1..c : at(k) \in U /\ T!Cardinality({j \in U : j <= at(k)}) = k BY <2>3
    <2>5. T!Cardinality(U) = c BY <1>6
    <2> HIDE DEF rank, at, U
    <2> QED BY <2>1, <2>2, <2>4, <2>5
  <1>8. s \in Seq(U) /\ Len(s) = c
    <2>1. c \in Nat /\ T!Cardinality(U) = c BY <1>1, <1>7
    <2>2. \A k \in 1..c : at(k) \in U BY <1>7
    <2> HIDE DEF at, U, c
    <2> QED BY <2>1, <2>2
  <1>9. \A i \in U : \E k \in 1..c : s[k] = i
    <2> TAKE i \in U
    <2>1. rank[i] \in 1..c BY <1>2
    <2>2. at(rank[i]) = i
      <3> HIDE DEF rank, U
      <3> QED BY <1>4, <1>7, <2>1
    <2>3. T!Cardinality(U) = c BY <1>7
    <2> HIDE DEF at, rank, U
    <2> QED BY <2>1, <2>2, <2>3
  <1> HIDE DEF s
  <1> QED BY <1>7, <1>8, <1>9 DEF Lists

\* The elements of two lists, one after the other.
LEMMA ElementsOfBoth ==
    ASSUME NEW A, NEW s \in Seq(A), NEW t \in Seq(A)
    PROVE  ElementsOf(s \o t) = ElementsOf(s) \cup ElementsOf(t)
  <1>1. ASSUME NEW i \in 1..Len(t) PROVE (s \o t)[Len(s) + i] = t[i] /\ Len(s) + i \in 1..Len(s \o t)
    OBVIOUS
  <1>2. \A i \in 1..Len(s) : (s \o t)[i] = s[i] /\ i \in 1..Len(s \o t) OBVIOUS
  <1>3. \A k \in 1..Len(s \o t) : k \in 1..Len(s) \/ \E i \in 1..Len(t) : k = Len(s) + i
    <2> TAKE k \in 1..Len(s \o t)
    <2>1. Len(s \o t) = Len(s) + Len(t) /\ Len(s) \in Nat /\ Len(t) \in Nat OBVIOUS
    <2>2. CASE k > Len(s)
      <3>1. k - Len(s) \in 1..Len(t) /\ k = Len(s) + (k - Len(s)) BY <2>1, <2>2
      <3> QED BY <3>1
    <2> QED BY <2>1, <2>2
  <1>4. DOMAIN s = 1..Len(s) /\ DOMAIN t = 1..Len(t) /\ DOMAIN (s \o t) = 1..Len(s \o t) OBVIOUS
  <1> DEFINE u == s \o t
  <1> HIDE DEF u
  <1>5. \A x \in ElementsOf(s) \cup ElementsOf(t) : x \in ElementsOf(u)
    BY <1>1, <1>2, <1>4 DEF ElementsOf, u
  <1>6. \A x \in ElementsOf(u) : x \in ElementsOf(s) \cup ElementsOf(t)
    <2> TAKE x \in ElementsOf(u)
    <2>1. PICK k \in 1..Len(u) : u[k] = x BY <1>4 DEF ElementsOf, u
    <2>2. CASE k \in 1..Len(s) BY <1>2, <1>4, <2>1, <2>2 DEF ElementsOf, u
    <2>3. ASSUME NEW i \in 1..Len(t), k = Len(s) + i PROVE x \in ElementsOf(t)
      BY <1>1, <1>4, <2>1, <2>3 DEF ElementsOf, u
    <2> QED BY <1>3, <2>1, <2>2, <2>3 DEF u
  <1> QED BY <1>5, <1>6 DEF u

\* The sequences f[1] to f[n] grow by those of q.
Chained(f, q, n, A) ==
    /\ f[0] = <<>> /\ \A h \in 1..n : f[h] = f[h - 1] \o q[h]
    /\ \A h \in 0..n : f[h] \in Seq(A)

\* Lists one after the other: how they grow.
LEMMA FlattenSteps ==
    ASSUME NEW A, NEW n \in Nat, NEW q \in [1..n -> Seq(A)]
    PROVE  \E f : Chained(f, q, n, A) /\ T!FlattenSeq(q) = f[n]
  <1> DEFINE st == [w \in Seq(A) \X (1..n) |-> w[1] \o q[w[2]]]
  <1>1. \A x \in Seq(A) : \A h \in 1..n : st[<<x, h>>] = x \o q[h] OBVIOUS
  <1>2. <<>> \in Seq(A) OBVIOUS
  <1>3. \A h \in 1..n : q[h] \in Seq(A) OBVIOUS
  <1> HIDE DEF st
  <1>4. PICK f : Chained(f, q, n, A)
    <2>1. \A x \in Seq(A) : \A h \in 1..n : x \o q[h] \in Seq(A) BY <1>3
    <2>2. StaysIn(Seq(A), n, st) BY <1>1, <2>1 DEF StaysIn
    <2>3. PICK f : StepsFrom(f, Seq(A), <<>>, n, st) BY <1>2, <2>2, StepByStep
    <2>4. \A h \in 0..n : f[h] \in Seq(A) BY <2>3 DEF StepsFrom
    <2>5. ASSUME NEW h \in 1..n PROVE f[h] = f[h - 1] \o q[h]
      <3>1. h - 1 \in 0..n OBVIOUS
      <3>2. f[h - 1] \in Seq(A) BY <2>4, <3>1
      <3> QED BY <1>1, <2>3, <3>2 DEF StepsFrom
    <2>6. f[0] = <<>> BY <2>3 DEF StepsFrom
    <2> QED BY <2>4, <2>5, <2>6 DEF Chained
  <1>5. T!FlattenSeq(q) = f[n]
    <2>1. q \in Seq(Seq(A)) /\ Len(q) = n OBVIOUS
    <2>2. CASE n = 0
      <3>1. q = <<>> BY <2>1, <2>2
      <3>2. T!FlattenSeq(q) = q BY <2>1, <2>2 DEF T!FlattenSeq
      <3> QED BY <1>4, <2>2, <3>1, <3>2 DEF Chained
    <2>3. CASE n # 0
      <3> DEFINE Is(e) == e = [i \in 1..n |-> IF i = 1 THEN q[i] ELSE e[i - 1] \o q[i]]
                 it == CHOOSE e : Is(e)
                 own == [i \in 1..n |-> f[i]]
      <3>1. T!FlattenSeq(q) = it[n] BY <2>1, <2>3 DEF T!FlattenSeq
      <3>2. ASSUME NEW i \in 1..n PROVE own[i] = IF i = 1 THEN q[i] ELSE own[i - 1] \o q[i]
        <4>1. f[i] = f[i - 1] \o q[i] BY <1>4 DEF Chained
        <4>2. CASE i = 1
          <5>1. <<>> \o q[i] = q[i] BY <1>3
          <5>2. f[i - 1] = <<>> BY <1>4, <4>2 DEF Chained
          <5> QED BY <4>1, <4>2, <5>1, <5>2
        <4>3. CASE i # 1
          <5>1. i - 1 \in 1..n BY <4>3
          <5>2. own[i] = f[i] /\ own[i - 1] = f[i - 1] BY <5>1
          <5> HIDE DEF own
          <5> QED BY <4>1, <4>3, <5>2
        <4> QED BY <4>2, <4>3
      <3>3. Is(own)
        <4>1. own = [i \in 1..n |-> own[i]] OBVIOUS
        <4> HIDE DEF own
        <4> QED BY <3>2, <4>1
      <3>4. Is(it)
        <4> HIDE DEF Is, own
        <4> QED BY <3>3
      <3> HIDE DEF it, own
      <3> DEFINE P == {h \in 0..n : h # 0 => it[h] = f[h]}
      <3>5. 0 \in P OBVIOUS
      <3>6. ASSUME NEW h \in 1..n, h - 1 \in P PROVE h \in P
        <4>1. it[h] = IF h = 1 THEN q[h] ELSE it[h - 1] \o q[h] BY <3>4
        <4>2. f[h] = f[h - 1] \o q[h] BY <1>4 DEF Chained
        <4>3. CASE h = 1
          <5>1. <<>> \o q[h] = q[h] BY <1>3
          <5>2. f[h - 1] = <<>> BY <1>4, <4>3 DEF Chained
          <5>3. it[h] = f[h] BY <4>1, <4>2, <4>3, <5>1, <5>2
          <5> QED BY <5>3
        <4>4. CASE h # 1
          <5>1. h - 1 # 0 BY <4>4
          <5>2. it[h - 1] = f[h - 1] BY <3>6, <5>1
          <5>3. it[h] = f[h] BY <4>1, <4>2, <4>4, <5>2
          <5> QED BY <5>3
        <4> QED BY <4>3, <4>4
      <3>7. n \in P
        <4>1. \A h \in 1..n : h - 1 \in P => h \in P BY <3>6
        <4>2. n \in 0..n OBVIOUS
        <4> HIDE DEF P
        <4> QED BY <3>5, <4>1, <4>2, UpTo
      <3> QED BY <2>3, <3>1, <3>7
    <2> QED BY <2>2, <2>3
  <1> QED BY <1>4, <1>5

\* Lists one after the other: their elements.
LEMMA FlattenHas ==
    ASSUME NEW A, NEW n \in Nat, NEW q \in [1..n -> Seq(A)]
    PROVE  /\ T!FlattenSeq(q) \in Seq(A)
           /\ ElementsOf(T!FlattenSeq(q)) = UNION {ElementsOf(q[i]) : i \in 1..n}
  <1>1. n \in Nat OBVIOUS
  <1>2. PICK f : Chained(f, q, n, A) /\ T!FlattenSeq(q) = f[n] BY <1>1, FlattenSteps
  <1> DEFINE P == {h \in 0..n : ElementsOf(f[h]) = UNION {ElementsOf(q[i]) : i \in 1..h}}
  <1>3. 0 \in P
    <2>1. ElementsOf(f[0]) = {} BY <1>2 DEF Chained, ElementsOf
    <2>2. UNION {ElementsOf(q[i]) : i \in 1..0} = {} OBVIOUS
    <2> QED BY <1>1, <2>1, <2>2
  <1>4. ASSUME NEW h \in 1..n, h - 1 \in P PROVE h \in P
    <2>1. h - 1 \in 0..n /\ h \in 0..n OBVIOUS
    <2>2. f[h] = f[h - 1] \o q[h] /\ f[h - 1] \in Seq(A) /\ q[h] \in Seq(A)
      BY <1>2, <2>1 DEF Chained
    <2>3. ElementsOf(f[h]) = ElementsOf(f[h - 1]) \cup ElementsOf(q[h]) BY <2>2, ElementsOfBoth
    <2>4. 1..h = 1..(h - 1) \cup {h} OBVIOUS
    <2>5. ElementsOf(f[h - 1]) = UNION {ElementsOf(q[i]) : i \in 1..(h - 1)} BY <1>4
    <2>6. ElementsOf(f[h]) = UNION {ElementsOf(q[i]) : i \in 1..h} BY <2>3, <2>4, <2>5
    <2> QED BY <2>1, <2>6
  <1>5. n \in P
    <2>1. \A h \in 1..n : h - 1 \in P => h \in P BY <1>4
    <2>2. n \in 0..n BY <1>1
    <2> HIDE DEF P
    <2> QED BY <1>1, <1>3, <2>1, <2>2, UpTo
  <1>6. T!FlattenSeq(q) \in Seq(A)
    <2>1. n \in 0..n BY <1>1
    <2> QED BY <1>2, <2>1 DEF Chained
  <1> QED BY <1>2, <1>5, <1>6

\* What a fold is, along the places.
LEMMA FoldSteps ==
    ASSUME NEW S, NEW b \in S, NEW n \in Nat, NEW st, StaysIn(S, n, st),
           NEW it, it[{}] = b,
           \A s \in SUBSET (1..n) : s # {} /\ it[s \ {T!Max(s)}] \in S =>
               it[s] = st[<<it[s \ {T!Max(s)}], T!Max(s)>>]
    PROVE  StepsFrom([k \in 0..n |-> it[1..k]], S, b, n, st)
  <1> DEFINE P == {k \in 0..n : /\ it[1..k] \in S
                                /\ k # 0 => it[1..k] = st[<<it[1..(k - 1)], k>>]}
  <1>1. 0 \in P
    <2>1. 1..0 = {} OBVIOUS
    <2> QED BY <2>1
  <1>2. ASSUME NEW k \in 1..n, k - 1 \in P PROVE k \in P
    <2> DEFINE s == 1..k
    <2>1. s \in SUBSET (1..n) /\ s # {} /\ k \in Nat /\ k \in s OBVIOUS
    <2>2. T!Max(s) \in s /\ k <= T!Max(s)
      <3> HIDE DEF s
      <3> QED BY <2>1, Greatest
    <2>3. T!Max(s) = k BY <2>2
    <2>4. s \ {T!Max(s)} = 1..(k - 1) BY <2>3
    <2>5. it[1..(k - 1)] \in S BY <1>2
    <2>6. it[s] = st[<<it[1..(k - 1)], k>>] BY <2>1, <2>3, <2>4, <2>5
    <2>7. it[s] \in S BY <2>5, <2>6 DEF StaysIn
    <2> QED BY <2>6, <2>7
  <1>3. \A k \in 0..n : k \in P
    <2>1. \A k \in 1..n : k - 1 \in P => k \in P BY <1>2
    <2> HIDE DEF P
    <2> QED BY <1>1, <2>1, UpTo
  <1> DEFINE f == [k \in 0..n |-> it[1..k]]
  <1>4. f[0] = b
    <2>1. 1..0 = {} OBVIOUS
    <2> QED BY <2>1
  <1>5. ASSUME NEW k \in 1..n PROVE f[k] = st[<<f[k - 1], k>>]
    <2>1. k \in 0..n /\ k - 1 \in 0..n OBVIOUS
    <2>2. it[1..k] = st[<<it[1..(k - 1)], k>>] BY <1>3, <2>1
    <2> QED BY <2>1, <2>2
  <1>6. \A k \in 0..n : f[k] \in S BY <1>3
  <1> HIDE DEF f
  <1> QED BY <1>4, <1>5, <1>6 DEF StepsFrom, f

\* A fold's function: on every set of places, without the last and then that.
FoldsOver(it, S, b, n, st) ==
    /\ it = [s \in SUBSET (1..n) |-> it[s]] /\ it[{}] = b
    /\ \A s \in SUBSET (1..n) : s # {} =>
          /\ T!Max(s) \in 1..n /\ it[s \ {T!Max(s)}] \in S
          /\ it[s] = st[<<it[s \ {T!Max(s)}], T!Max(s)>>]

\* There is one when the steps do not leave S.
LEMMA FoldThere ==
    ASSUME NEW S, NEW b \in S, NEW n \in Nat, NEW st, StaysIn(S, n, st)
    PROVE  \E it : FoldsOver(it, S, b, n, st)
  <1>1. PICK f : GoesOver(f, S, b, n, st) BY PlaceByPlace
  <1> DEFINE e == [s \in SUBSET (1..n) |-> f[s]]
  <1>2. \A s \in SUBSET (1..n) : e[s] = f[s] OBVIOUS
  <1>3. e = [s \in SUBSET (1..n) |-> e[s]] OBVIOUS
  <1> HIDE DEF e
  <1>4. e[{}] = b BY <1>1, <1>2 DEF GoesOver
  <1>5. ASSUME NEW s \in SUBSET (1..n), s # {}
        PROVE  /\ T!Max(s) \in 1..n /\ e[s \ {T!Max(s)}] \in S
               /\ e[s] = st[<<e[s \ {T!Max(s)}], T!Max(s)>>]
    <2>1. T!Max(s) \in s BY <1>5, Greatest
    <2>2. s \ {T!Max(s)} \in SUBSET (1..n) /\ T!Max(s) \in 1..n BY <1>5, <2>1
    <2>3. f[s \ {T!Max(s)}] \in S BY <1>1, <2>2 DEF GoesOver
    <2>4. f[s] = st[<<f[s \ {T!Max(s)}], T!Max(s)>>] BY <1>1, <1>5 DEF GoesOver
    <2> QED BY <1>2, <1>5, <2>2, <2>3, <2>4
  <1> QED BY <1>3, <1>4, <1>5 DEF FoldsOver

\* The last of n steps.
Unfolds(it, S, b, n, st) ==
    /\ it[{}] = b
    /\ \A s \in SUBSET (1..n) : s # {} /\ it[s \ {T!Max(s)}] \in S =>
          it[s] = st[<<it[s \ {T!Max(s)}], T!Max(s)>>]
EndsAt(last, S, b, n, st) == \E f : StepsFrom(f, S, b, n, st) /\ last = f[n]

\* A fold's function, any that is one, goes by steps from place to place.
LEMMA FoldEnds ==
    ASSUME NEW S, NEW b \in S, NEW n \in Nat, NEW st, StaysIn(S, n, st), NEW it, Unfolds(it, S, b, n, st)
    PROVE  EndsAt(it[1..n], S, b, n, st)
  <1> DEFINE f == [k \in 0..n |-> it[1..k]]
  <1>1. StepsFrom(f, S, b, n, st) BY FoldSteps DEF Unfolds
  <1>2. f[n] = it[1..n] OBVIOUS
  <1> HIDE DEF f
  <1> QED BY <1>1, <1>2 DEF EndsAt

-----------------------------------------------------------------------------
(* Cycles of dependencies.                                                *)

\* The place after i of a round of n.
LEMMA RoundTurns ==
    ASSUME NEW n \in Nat \ {0}, NEW i \in 1..n
    PROVE  (i % n) + 1 = IF i = n THEN 1 ELSE i + 1
  <1>1. n \in Int /\ i \in Int /\ 0 < n /\ 0 <= i OBVIOUS
  <1>2. CASE i = n
    <2>1. n % n = 0 BY <1>1
    <2> QED BY <1>2, <2>1
  <1>3. CASE i # n
    <2>1. 0 <= i /\ i < n BY <1>3
    <2>2. i % n = i BY <1>1, <2>1
    <2> QED BY <1>3, <2>2
  <1> QED BY <1>2, <1>3

\* A path without a node twice, and one that an edge closes.
IsPath(dep, p) ==
    /\ p \in Seq(Nat) /\ Len(p) >= 1
    /\ \A i, j \in 1..Len(p) : p[i] = p[j] => i = j
    /\ \A i \in 1..(Len(p) - 1) : <<p[i], p[i + 1]>> \in dep
IsCycle(dep, p) == IsPath(dep, p) /\ Len(p) >= 2 /\ <<p[Len(p)], p[1]>> \in dep

\* The steps of a cycle, with what follows the last.
After(c, i) == IF i = Len(c) THEN c[1] ELSE c[i + 1]
LEMMA StepsFollow ==
    ASSUME NEW c \in Seq(Nat), c # <<>>
    PROVE  T!Steps(c) = {<<c[i], After(c, i)>> : i \in 1..Len(c)}
  <1>1. Len(c) \in Nat \ {0} /\ DOMAIN c = 1..Len(c) OBVIOUS
  <1>2. ASSUME NEW i \in 1..Len(c) PROVE c[(i % Len(c)) + 1] = After(c, i)
    <2>1. (i % Len(c)) + 1 = IF i = Len(c) THEN 1 ELSE i + 1 BY <1>1, RoundTurns
    <2> QED BY <2>1 DEF After
  <1> QED BY <1>1, <1>2 DEF T!Steps

\* A cycle that starts elsewhere on it.
AllOn(q, p) == \A i \in 1..Len(q) : \E j \in 1..Len(p) : q[i] = p[j]
Turned(p, m) == SubSeq(p, m, Len(p)) \o SubSeq(p, 1, m - 1)
LEMMA TurnedAt ==
    ASSUME NEW p \in Seq(Nat), NEW m \in 1..Len(p)
    PROVE  /\ Turned(p, m) \in Seq(Nat) /\ Len(Turned(p, m)) = Len(p)
           /\ \A i \in 1..Len(p) :
                Turned(p, m)[i] = IF i <= Len(p) - m + 1 THEN p[i + m - 1] ELSE p[i - (Len(p) - m + 1)]
  <1> DEFINE n == Len(p)
             a == SubSeq(p, m, n)
             b == SubSeq(p, 1, m - 1)
  <1>1. n \in Nat /\ m \in 1..n OBVIOUS
  <1>2. a \in Seq(Nat) /\ Len(a) = n - m + 1 /\ \A i \in 1..(n - m + 1) : a[i] = p[i + m - 1] OBVIOUS
  <1>3. b \in Seq(Nat) /\ Len(b) = m - 1 /\ \A i \in 1..(m - 1) : b[i] = p[i] OBVIOUS
  <1> HIDE DEF a, b
  <1>4. a \o b \in Seq(Nat) /\ Len(a \o b) = n BY <1>1, <1>2, <1>3
  <1>5. \A i \in 1..n : (a \o b)[i] = IF i <= n - m + 1 THEN p[i + m - 1] ELSE p[i - (n - m + 1)]
    <2> TAKE i \in 1..n
    <2>1. CASE i <= n - m + 1
      <3>1. (a \o b)[i] = a[i] BY <1>1, <1>2, <1>3, <2>1
      <3>2. i \in 1..(n - m + 1) BY <1>1, <2>1
      <3> QED BY <1>2, <2>1, <3>1, <3>2
    <2>2. CASE ~(i <= n - m + 1)
      <3>1. (a \o b)[i] = b[i - (n - m + 1)]
        <4>1. i \in (Len(a) + 1)..(Len(a) + Len(b)) BY <1>1, <1>2, <1>3, <2>2
        <4>2. i \in 1..(Len(a) + Len(b)) /\ ~(i <= Len(a)) BY <1>2, <1>3, <4>1
        <4>3. (a \o b)[i] = b[i - Len(a)] BY <1>2, <1>3, <4>2, ConcatProperties
        <4> QED BY <1>2, <4>3
      <3>2. i - (n - m + 1) \in 1..(m - 1) BY <1>1, <2>2
      <3> QED BY <1>3, <2>2, <3>1, <3>2
    <2> QED BY <2>1, <2>2
  <1> QED BY <1>4, <1>5 DEF Turned, a, b

\* It is a cycle of the same steps.
LEMMA TurnedIsCycle ==
    ASSUME NEW dep, NEW p, IsCycle(dep, p), NEW m \in 1..Len(p)
    PROVE  /\ IsCycle(dep, Turned(p, m)) /\ Len(Turned(p, m)) = Len(p) /\ Turned(p, m)[1] = p[m]
           /\ T!Steps(Turned(p, m)) = T!Steps(p)
           /\ AllOn(Turned(p, m), p)
  <1> DEFINE n == Len(p)
             q == Turned(p, m)
             at(i) == IF i <= n - m + 1 THEN i + m - 1 ELSE i - (n - m + 1)
             from(j) == IF m <= j THEN j - m + 1 ELSE j + (n - m + 1)
  <1>1. p \in Seq(Nat) /\ n \in Nat /\ n >= 2 /\ m \in 1..n BY DEF IsCycle, IsPath
  <1>2. q \in Seq(Nat) /\ Len(q) = n /\ \A i \in 1..n : q[i] = p[at(i)]
    <2>1. /\ q \in Seq(Nat) /\ Len(q) = n
          /\ \A i \in 1..n : q[i] = IF i <= n - m + 1 THEN p[i + m - 1] ELSE p[i - (n - m + 1)]
      BY <1>1, TurnedAt
    <2> HIDE DEF q, n
    <2> QED BY <2>1
  <1> HIDE DEF q
  <1> HIDE DEF n
  <1>3. \A i \in 1..n : at(i) \in 1..n /\ from(at(i)) = i
    <2> TAKE i \in 1..n
    <2>1. CASE i <= n - m + 1 BY <1>1, <2>1
    <2>2. CASE ~(i <= n - m + 1) BY <1>1, <2>2
    <2> QED BY <2>1, <2>2
  <1>4. \A j \in 1..n : from(j) \in 1..n /\ at(from(j)) = j
    <2> TAKE j \in 1..n
    <2>1. CASE m <= j BY <1>1, <2>1
    <2>2. CASE ~(m <= j) BY <1>1, <2>2
    <2> QED BY <2>1, <2>2
  <1>5. \A i \in 1..n : at(IF i = n THEN 1 ELSE i + 1) = IF at(i) = n THEN 1 ELSE at(i) + 1 BY <1>1
  <1> USE DEF n
  <1>6. \A i \in 1..n : After(q, i) = After(p, at(i))
    <2> TAKE i \in 1..n
    <2>1. (IF i = n THEN 1 ELSE i + 1) \in 1..n BY <1>1
    <2>2. After(q, i) = q[IF i = n THEN 1 ELSE i + 1] BY <1>2 DEF After
    <2>3. After(p, at(i)) = p[IF at(i) = n THEN 1 ELSE at(i) + 1] BY DEF After
    <2> HIDE DEF at, n
    <2> QED BY <1>2, <1>5, <2>1, <2>2, <2>3
  <1>7. \A i \in 1..n : <<p[i], After(p, i)>> \in dep
    <2> TAKE i \in 1..n
    <2>1. CASE i = n BY <2>1 DEF IsCycle, After
    <2>2. CASE i # n
      <3>1. i \in 1..(n - 1) BY <1>1, <2>2
      <3> QED BY <2>2, <3>1 DEF IsCycle, IsPath, After
    <2> QED BY <2>1, <2>2
  <1>8. \A i, j \in 1..n : p[i] = p[j] => i = j BY DEF IsCycle, IsPath
  <1> HIDE DEF at, from
  <1>9. \A i \in 1..n : <<q[i], After(q, i)>> \in dep BY <1>2, <1>3, <1>6, <1>7
  <1>10. \A i, j \in 1..n : q[i] = q[j] => i = j
    <2> SUFFICES ASSUME NEW i \in 1..n, NEW j \in 1..n, q[i] = q[j] PROVE i = j OBVIOUS
    <2>1. at(i) = at(j) BY <1>2, <1>3, <1>8
    <2> QED BY <1>3, <2>1
  <1>11. IsCycle(dep, q)
    <2>1. \A i \in 1..(n - 1) : <<q[i], q[i + 1]>> \in dep
      <3> TAKE i \in 1..(n - 1)
      <3>1. i \in 1..n /\ i # n BY <1>1
      <3> QED BY <1>2, <1>9, <3>1 DEF After
    <2>2. <<q[n], q[1]>> \in dep
      <3>1. n \in 1..n BY <1>1
      <3> QED BY <1>2, <1>9, <3>1 DEF After
    <2> QED BY <1>1, <1>2, <1>10, <2>1, <2>2 DEF IsCycle, IsPath
  <1>12. q[1] = p[m]
    <2>1. 1 \in 1..n /\ at(1) = m BY <1>1 DEF at
    <2> QED BY <1>2, <2>1
  <1>13. T!Steps(q) = T!Steps(p)
    <2>1. T!Steps(q) = {<<q[i], After(q, i)>> : i \in 1..n} BY <1>1, <1>2, StepsFollow
    <2>2. T!Steps(p) = {<<p[i], After(p, i)>> : i \in 1..n} BY <1>1, StepsFollow
    <2>3. ASSUME NEW i \in 1..n PROVE <<q[i], After(q, i)>> \in T!Steps(p) BY <1>2, <1>3, <1>6, <2>2
    <2>4. ASSUME NEW j \in 1..n PROVE <<p[j], After(p, j)>> \in T!Steps(q)
      <3>1. from(j) \in 1..n /\ q[from(j)] = p[j] /\ After(q, from(j)) = After(p, j) BY <1>2, <1>4, <1>6
      <3> QED BY <2>1, <3>1
    <2> QED BY <2>1, <2>2, <2>3, <2>4
  <1>14. AllOn(q, p)
    <2> HIDE DEF n
    <2>1. \A i \in 1..n : at(i) \in 1..n /\ q[i] = p[at(i)] BY <1>2, <1>3
    <2>2. Len(q) = n /\ Len(p) = n BY <1>2 DEF n
    <2> QED BY <2>1, <2>2 DEF AllOn
  <1> QED BY <1>2, <1>11, <1>12, <1>13, <1>14 DEF q

\* The cycle from its least number on.
StartsLeast(c) == \A i \in 1..Len(c) : c[1] <= c[i]
LEMMA KeyIsTurned ==
    ASSUME NEW dep, NEW p, IsCycle(dep, p)
    PROVE  /\ IsCycle(dep, T!canonicalCycleKey(p)) /\ Len(T!canonicalCycleKey(p)) = Len(p)
           /\ T!Steps(T!canonicalCycleKey(p)) = T!Steps(p) /\ StartsLeast(T!canonicalCycleKey(p))
           /\ StartsLeast(p) => T!canonicalCycleKey(p) = p
  <1> DEFINE n == Len(p)
             least == CHOOSE i \in 1..n : \A j \in 1..n : p[i] <= p[j]
             q == Turned(p, least)
  <1>1. p \in Seq(Nat) /\ n \in Nat /\ n >= 2 /\ DOMAIN p = 1..n BY DEF IsCycle, IsPath
  <1>2. \E i \in 1..n : \A j \in 1..n : p[i] <= p[j]
    <2> DEFINE U == {p[i] : i \in 1..n}
    <2>1. U \in SUBSET Nat /\ p[1] \in U BY <1>1
    <2>2. \A j \in 1..n : p[j] \in U OBVIOUS
    <2> HIDE DEF U
    <2>3. PICK x \in U : \A y \in U : x <= y BY <2>1, LeastNat
    <2>4. PICK i \in 1..n : x = p[i] BY <2>3 DEF U
    <2> QED BY <2>2, <2>3, <2>4
  <1>3. least \in 1..n /\ \A j \in 1..n : p[least] <= p[j] BY <1>2
  <1>4. T!canonicalCycleKey(p) = q BY <1>1 DEF T!canonicalCycleKey, Turned
  <1> HIDE DEF least
  <1>5. /\ IsCycle(dep, q) /\ Len(q) = n /\ q[1] = p[least] /\ T!Steps(q) = T!Steps(p)
        /\ AllOn(q, p)
    BY <1>3, TurnedIsCycle
  <1>6. StartsLeast(q)
    <2> HIDE DEF q
    <2>1. ASSUME NEW i \in 1..n PROVE q[1] <= q[i]
      <3>1. PICK j \in 1..n : q[i] = p[j] BY <1>5 DEF AllOn
      <3> QED BY <1>3, <1>5, <3>1
    <2> QED BY <1>5, <2>1 DEF StartsLeast
  <1>7. ASSUME StartsLeast(p) PROVE q = p
    <2>1. p[1] <= p[least] /\ p[least] <= p[1] BY <1>1, <1>3, <1>7 DEF StartsLeast
    <2>2. p[least] = p[1] BY <1>1, <1>3, <2>1
    <2>3. least = 1 BY <1>1, <1>3, <2>2 DEF IsCycle, IsPath
    <2>4. SubSeq(p, 1, n) = p /\ SubSeq(p, 1, 0) = <<>> BY <1>1
    <2> QED BY <1>1, <2>3, <2>4 DEF Turned
  <1> QED BY <1>4, <1>5, <1>6, <1>7

\* The paths of one node, and those of one more.
Starts(dep) == {<<d[1]>> : d \in dep}
Longer(U, dep) ==
    {Append(pd[1], pd[2][2]) : pd \in {pd \in U \X dep :
        pd[2][1] = T!Last(pd[1]) /\ ~T!Contains(pd[1], pd[2][2])}}
PathsBy(f, dep, n) == f[1] = Starts(dep) /\ \A k \in 2..n : f[k] = Longer(f[k - 1], dep)
FromPaths(found, dep, n) ==
    \E f : /\ PathsBy(f, dep, n)
           /\ found = {T!canonicalCycleKey(p) : p \in {p \in UNION {f[k] : k \in 2..n} :
                                                        <<T!Last(p), p[1]>> \in dep}}

\* The cycles that are found are made of such paths.
LEMMA CyclesFromPaths ==
    ASSUME NEW dep \in SUBSET (Nat \X Nat), NEW n \in Nat \ {0}
    PROVE  FromPaths(T!findCycles(dep, n), dep, n)
  <1> DEFINE S == SUBSET Seq(Nat)
             Is(f) == f = [k \in 1..n |-> IF k = 1 THEN Starts(dep) ELSE Longer(f[k - 1], dep)]
             R == CHOOSE f : Is(f)
             st == [w \in S \X (1..(n - 1)) |-> Longer(w[1], dep)]
  <1>1. T!findCycles(dep, n) = {T!canonicalCycleKey(p) : p \in {p \in UNION {R[k] : k \in 2..n} :
                                                                 <<T!Last(p), p[1]>> \in dep}}
    BY DEF T!findCycles, Starts, Longer
  <1>2. \A U \in S : Longer(U, dep) \in S
    <2> SUFFICES ASSUME NEW U \in S, NEW q \in U, NEW d \in dep PROVE Append(q, d[2]) \in Seq(Nat)
      BY DEF Longer
    <2>1. q \in Seq(Nat) /\ d[2] \in Nat OBVIOUS
    <2> QED BY <2>1
  <1>3. Starts(dep) \in S
    <2> SUFFICES ASSUME NEW d \in dep PROVE <<d[1]>> \in Seq(Nat) BY DEF Starts
    <2>1. d[1] \in Nat OBVIOUS
    <2> QED BY <2>1
  <1> HIDE DEF S
  <1>4. \A U \in S : \A h \in 1..(n - 1) : st[<<U, h>>] = Longer(U, dep) OBVIOUS
  <1> HIDE DEF st
  <1>5. \E f : Is(f)
    <2>1. StaysIn(S, n - 1, st) BY <1>2, <1>4 DEF StaysIn
    <2>2. n - 1 \in Nat OBVIOUS
    <2>3. PICK f : StepsFrom(f, S, Starts(dep), n - 1, st) BY <1>3, <2>1, <2>2, StepByStep
    <2> DEFINE own == [k \in 1..n |-> f[k - 1]]
    <2>4. ASSUME NEW k \in 1..n PROVE own[k] = IF k = 1 THEN Starts(dep) ELSE Longer(own[k - 1], dep)
      <3>1. CASE k = 1 BY <2>3, <3>1 DEF StepsFrom
      <3>2. CASE k # 1
        <4>1. k - 1 \in 1..(n - 1) /\ k - 1 \in 1..n /\ (k - 1) - 1 \in 0..(n - 1) BY <3>2
        <4>2. f[k - 1] = st[<<f[(k - 1) - 1], k - 1>>] /\ f[(k - 1) - 1] \in S BY <2>3, <4>1 DEF StepsFrom
        <4>3. f[k - 1] = Longer(f[(k - 1) - 1], dep) BY <1>4, <4>1, <4>2
        <4>4. own[k] = f[k - 1] /\ own[k - 1] = f[(k - 1) - 1] BY <4>1
        <4> HIDE DEF own
        <4> QED BY <3>2, <4>3, <4>4
      <3> QED BY <3>1, <3>2
    <2>5. Is(own)
      <3>1. own = [k \in 1..n |-> own[k]] OBVIOUS
      <3> HIDE DEF own
      <3> QED BY <2>4, <3>1
    <2> HIDE DEF Is
    <2> QED BY <2>5
  <1>6. Is(R)
    <2> HIDE DEF Is
    <2> QED BY <1>5
  <1> HIDE DEF R
  <1>7. R[1] = Starts(dep)
    <2>1. 1 \in 1..n OBVIOUS
    <2> QED BY <1>6, <2>1
  <1>8. ASSUME NEW k \in 2..n PROVE R[k] = Longer(R[k - 1], dep)
    <2>1. k \in 1..n /\ k # 1 OBVIOUS
    <2> QED BY <1>6, <2>1
  <1>9. PathsBy(R, dep, n) BY <1>7, <1>8 DEF PathsBy
  <1> HIDE DEF Is
  <1> QED BY <1>1, <1>9 DEF FromPaths

\* They are the paths without a node twice that leave a node with a dependency.
Leaves(dep, x) == \E y : <<x, y>> \in dep
Exactly(U, dep, k) == \A p : p \in U <=> (IsPath(dep, p) /\ Len(p) = k /\ Leaves(dep, p[1]))

\* A path of one more.
LEMMA LongerIsPath ==
    ASSUME NEW dep \in SUBSET (Nat \X Nat), NEW k \in Nat \ {0}, NEW U, Exactly(U, dep, k)
    PROVE  Exactly(Longer(U, dep), dep, k + 1)
  <1>1. ASSUME NEW p, p \in Longer(U, dep)
        PROVE  IsPath(dep, p) /\ Len(p) = k + 1 /\ Leaves(dep, p[1])
    <2>1. PICK q \in U, d \in dep :
            p = Append(q, d[2]) /\ d[1] = T!Last(q) /\ ~T!Contains(q, d[2])
      BY <1>1 DEF Longer
    <2>2. d[2] \in Nat /\ d = <<d[1], d[2]>> OBVIOUS
    <2>3. IsPath(dep, q) /\ Len(q) = k /\ Leaves(dep, q[1]) BY DEF Exactly
    <2>4. /\ q \in Seq(Nat) /\ DOMAIN q = 1..k
          /\ \A i, j \in 1..k : q[i] = q[j] => i = j
          /\ \A i \in 1..(k - 1) : <<q[i], q[i + 1]>> \in dep
      BY <2>3 DEF IsPath
    <2>5. \A i \in 1..k : q[i] # d[2] BY <2>1, <2>4 DEF T!Contains
    <2>6. /\ p \in Seq(Nat) /\ Len(p) = k + 1 /\ p[k + 1] = d[2]
          /\ \A i \in 1..k : p[i] = q[i]
      BY <2>1, <2>2, <2>3, <2>4
    <2>7. <<q[k], d[2]>> \in dep
      <3>1. T!Last(q) = q[k] BY <2>3 DEF T!Last
      <3> QED BY <2>1, <2>2, <3>1
    <2>8. ASSUME NEW i \in 1..(k + 1), NEW j \in 1..(k + 1), p[i] = p[j] PROVE i = j
      <3>1. CASE i \in 1..k /\ j \in 1..k BY <2>4, <2>6, <2>8, <3>1
      <3>2. CASE i = k + 1 /\ j = k + 1 BY <3>2
      <3>3. CASE i = k + 1 /\ j \in 1..k BY <2>5, <2>6, <2>8, <3>3
      <3>4. CASE i \in 1..k /\ j = k + 1 BY <2>5, <2>6, <2>8, <3>4
      <3> QED BY <3>1, <3>2, <3>3, <3>4
    <2>9. ASSUME NEW i \in 1..k PROVE <<p[i], p[i + 1]>> \in dep
      <3>1. CASE i = k BY <2>6, <2>7, <3>1
      <3>2. CASE i # k
        <4>1. i \in 1..(k - 1) /\ i + 1 \in 1..k BY <3>2
        <4> QED BY <2>4, <2>6, <4>1
      <3> QED BY <3>1, <3>2
    <2>10. p[1] = q[1]
      <3>1. 1 \in 1..k OBVIOUS
      <3> QED BY <2>6, <3>1
    <2>11. (k + 1) - 1 = k OBVIOUS
    <2>12. IsPath(dep, p) BY <2>6, <2>8, <2>9, <2>11 DEF IsPath
    <2> QED BY <2>3, <2>6, <2>10, <2>12
  <1>2. ASSUME NEW p, IsPath(dep, p), Len(p) = k + 1, Leaves(dep, p[1])
        PROVE  p \in Longer(U, dep)
    <2> DEFINE q == SubSeq(p, 1, k)
    <2>1. /\ p \in Seq(Nat) /\ \A i, j \in 1..(k + 1) : p[i] = p[j] => i = j
          /\ \A i \in 1..k : <<p[i], p[i + 1]>> \in dep
      BY <1>2 DEF IsPath
    <2>2. /\ q \in Seq(Nat) /\ Len(q) = k /\ DOMAIN q = 1..k /\ \A i \in 1..k : q[i] = p[i]
          /\ p = Append(q, p[k + 1])
      BY <1>2, <2>1
    <2> HIDE DEF q
    <2>3. \A i, j \in 1..k : q[i] = q[j] => i = j BY <2>1, <2>2
    <2>4. \A i \in 1..(k - 1) : <<q[i], q[i + 1]>> \in dep
      <3> TAKE i \in 1..(k - 1)
      <3>1. i \in 1..k /\ i + 1 \in 1..k OBVIOUS
      <3> QED BY <2>1, <2>2, <3>1
    <2>5. IsPath(dep, q) BY <2>2, <2>3, <2>4 DEF IsPath
    <2>6. q[1] = p[1]
      <3>1. 1 \in 1..k OBVIOUS
      <3> QED BY <2>2, <3>1
    <2>7. q \in U BY <1>2, <2>2, <2>5, <2>6 DEF Exactly
    <2>8. <<p[k], p[k + 1]>> \in dep /\ p[k] = q[k]
      <3>1. k \in 1..k OBVIOUS
      <3> QED BY <2>1, <2>2, <3>1
    <2>9. T!Last(q) = q[k] BY <2>2 DEF T!Last
    <2>10. ~T!Contains(q, p[k + 1])
      <3>1. ASSUME NEW i \in 1..k PROVE q[i] # p[k + 1]
        <4>1. i \in 1..(k + 1) /\ k + 1 \in 1..(k + 1) /\ i # k + 1 OBVIOUS
        <4> QED BY <2>1, <2>2, <4>1
      <3> QED BY <2>2, <3>1 DEF T!Contains
    <2> DEFINE pd == <<q, <<p[k], p[k + 1]>>>>
    <2>11. pd \in U \X dep /\ pd[2][1] = T!Last(pd[1]) /\ ~T!Contains(pd[1], pd[2][2])
      BY <2>7, <2>8, <2>9, <2>10
    <2>12. p = Append(pd[1], pd[2][2]) BY <2>2
    <2> HIDE DEF pd
    <2> QED BY <2>11, <2>12 DEF Longer
  <1> QED BY <1>1, <1>2 DEF Exactly

\* The paths of every length.
LEMMA PathsAreExact ==
    ASSUME NEW dep \in SUBSET (Nat \X Nat), NEW n \in Nat \ {0}, NEW f, PathsBy(f, dep, n)
    PROVE  \A k \in 1..n : Exactly(f[k], dep, k)
  <1> DEFINE P == {h \in 0..(n - 1) : Exactly(f[h + 1], dep, h + 1)}
  <1>1. 0 \in P
    <2>1. ASSUME NEW p, p \in Starts(dep) PROVE IsPath(dep, p) /\ Len(p) = 1 /\ Leaves(dep, p[1])
      <3>1. PICK d \in dep : p = <<d[1]>> BY <2>1 DEF Starts
      <3>2. d[1] \in Nat /\ d = <<d[1], d[2]>> OBVIOUS
      <3>3. p \in Seq(Nat) /\ Len(p) = 1 /\ p[1] = d[1] BY <3>1, <3>2
      <3>4. IsPath(dep, p) BY <3>3 DEF IsPath
      <3>5. Leaves(dep, p[1]) BY <3>2, <3>3 DEF Leaves
      <3> QED BY <3>3, <3>4, <3>5
    <2>2. ASSUME NEW p, IsPath(dep, p), Len(p) = 1, Leaves(dep, p[1]) PROVE p \in Starts(dep)
      <3>1. PICK y : <<p[1], y>> \in dep BY <2>2 DEF Leaves
      <3>2. p = <<p[1]>> BY <2>2 DEF IsPath
      <3> DEFINE d == <<p[1], y>>
      <3>3. d \in dep /\ p = <<d[1]>> BY <3>1, <3>2
      <3> HIDE DEF d
      <3> QED BY <3>3 DEF Starts
    <2>3. Exactly(Starts(dep), dep, 1) BY <2>1, <2>2 DEF Exactly
    <2>4. f[1] = Starts(dep) BY DEF PathsBy
    <2> QED BY <2>3, <2>4
  <1>2. ASSUME NEW h \in 1..(n - 1), h - 1 \in P PROVE h \in P
    <2>1. h + 1 \in 2..n /\ (h - 1) + 1 = h /\ (h + 1) - 1 = h /\ h \in Nat \ {0} OBVIOUS
    <2>2. Exactly(f[h], dep, h) BY <1>2, <2>1
    <2>3. f[h + 1] = Longer(f[h], dep) BY <2>1 DEF PathsBy
    <2>4. Exactly(Longer(f[h], dep), dep, h + 1) BY <2>1, <2>2, LongerIsPath
    <2> QED BY <2>3, <2>4
  <1> HIDE DEF P
  <1>3. \A h \in 1..(n - 1) : h - 1 \in P => h \in P BY <1>2
  <1>4. n - 1 \in Nat OBVIOUS
  <1>5. \A h \in 0..(n - 1) : h \in P BY <1>1, <1>3, <1>4, UpTo
  <1> TAKE k \in 1..n
  <1>6. k - 1 \in 0..(n - 1) /\ (k - 1) + 1 = k OBVIOUS
  <1> QED BY <1>5, <1>6 DEF P

\* What is found: the cycles of at most n nodes that start at their least.
CyclesUpTo(found, dep, n) ==
    \A c : c \in found <=> (IsCycle(dep, c) /\ Len(c) <= n /\ StartsLeast(c))
LEMMA FoundAreCycles ==
    ASSUME NEW dep \in SUBSET (Nat \X Nat), NEW n \in Nat \ {0}
    PROVE  CyclesUpTo(T!findCycles(dep, n), dep, n)
  <1> DEFINE found == T!findCycles(dep, n)
  <1>1. FromPaths(found, dep, n) BY CyclesFromPaths
  <1> HIDE DEF found
  <1>2. PICK f : /\ PathsBy(f, dep, n)
                 /\ found = {T!canonicalCycleKey(p) : p \in {p \in UNION {f[k] : k \in 2..n} :
                                                              <<T!Last(p), p[1]>> \in dep}}
    BY <1>1 DEF FromPaths
  <1>3. \A k \in 1..n : Exactly(f[k], dep, k) BY <1>2, PathsAreExact
  <1>4. ASSUME NEW c, c \in found PROVE IsCycle(dep, c) /\ Len(c) <= n /\ StartsLeast(c)
    <2>1. PICK k \in 2..n : \E p \in f[k] : c = T!canonicalCycleKey(p) /\ <<T!Last(p), p[1]>> \in dep
      BY <1>2, <1>4
    <2>2. PICK p \in f[k] : c = T!canonicalCycleKey(p) /\ <<T!Last(p), p[1]>> \in dep BY <2>1
    <2>3. k \in 1..n OBVIOUS
    <2>4. IsPath(dep, p) /\ Len(p) = k BY <1>3, <2>2, <2>3 DEF Exactly
    <2>5. T!Last(p) = p[Len(p)] BY DEF T!Last
    <2>6. IsCycle(dep, p) BY <2>2, <2>4, <2>5 DEF IsCycle
    <2>7. IsCycle(dep, c) /\ Len(c) = k /\ StartsLeast(c) BY <2>2, <2>4, <2>6, KeyIsTurned
    <2> QED BY <2>7
  <1>5. ASSUME NEW c, IsCycle(dep, c), Len(c) <= n, StartsLeast(c) PROVE c \in found
    <2> DEFINE k == Len(c)
    <2>1. c \in Seq(Nat) /\ IsPath(dep, c) /\ k \in 2..n /\ k \in 1..n BY <1>5 DEF IsCycle, IsPath
    <2>2. <<c[1], c[2]>> \in dep
      <3>1. 1 \in 1..(k - 1) BY <2>1
      <3> QED BY <2>1, <3>1 DEF IsPath
    <2>3. Leaves(dep, c[1]) BY <2>2 DEF Leaves
    <2>4. c \in f[k] BY <1>3, <2>1, <2>3 DEF Exactly
    <2>5. <<T!Last(c), c[1]>> \in dep BY <1>5 DEF T!Last, IsCycle
    <2>6. T!canonicalCycleKey(c) = c BY <1>5, KeyIsTurned
    <2> HIDE DEF k
    <2>7. c \in {p \in UNION {f[h] : h \in 2..n} : <<T!Last(p), p[1]>> \in dep} BY <2>1, <2>4, <2>5
    <2> QED BY <1>2, <2>6, <2>7
  <1> QED BY <1>4, <1>5 DEF CyclesUpTo, found

\* The steps of a cycle: one from each of its nodes.
StepsOf(C, c) ==
    /\ \A i \in 1..Len(c) : <<c[i], After(c, i)>> \in C
    /\ \A x, y : <<x, y>> \in C => \E i \in 1..Len(c) : x = c[i]
    /\ \A i \in 1..Len(c) : \A y : <<c[i], y>> \in C => y = After(c, i)
LEMMA CycleHasSteps ==
    ASSUME NEW dep, NEW c, IsCycle(dep, c)
    PROVE  StepsOf(T!Steps(c), c)
  <1> DEFINE n == Len(c)
             C == {<<c[i], After(c, i)>> : i \in 1..n}
  <1>1. c \in Seq(Nat) /\ n \in Nat /\ n >= 2 /\ c # <<>> BY DEF IsCycle, IsPath
  <1>2. T!Steps(c) = C BY <1>1, StepsFollow
  <1>3. \A i, j \in 1..n : c[i] = c[j] => i = j BY DEF IsCycle, IsPath
  <1>4. \A i \in 1..n : <<c[i], After(c, i)>> \in C OBVIOUS
  <1>5. \A x, y : <<x, y>> \in C => \E i \in 1..n : x = c[i] /\ y = After(c, i) OBVIOUS
  <1> HIDE DEF C
  <1>6. \A i \in 1..n : \A y : <<c[i], y>> \in C => y = After(c, i) BY <1>3, <1>5
  <1> QED BY <1>2, <1>4, <1>5, <1>6 DEF StepsOf

\* A cycle that starts at its least node goes as far as one of the same steps.
AsFar(a, b) == \A i \in 1..Len(a) : i <= Len(b) /\ a[i] = b[i]
LEMMA GoesAsFar ==
    ASSUME NEW dep, NEW a, IsCycle(dep, a), StartsLeast(a),
           NEW b, IsCycle(dep, b), StartsLeast(b), T!Steps(a) = T!Steps(b)
    PROVE  AsFar(a, b)
  <1> DEFINE n == Len(a)
             m == Len(b)
             P == {h \in 0..(n - 1) : h + 1 <= m /\ a[h + 1] = b[h + 1]}
  <1>1. a \in Seq(Nat) /\ n \in Nat /\ n >= 2 BY DEF IsCycle, IsPath
  <1>2. b \in Seq(Nat) /\ m \in Nat /\ m >= 2 BY DEF IsCycle, IsPath
  <1>3. StepsOf(T!Steps(a), a) /\ StepsOf(T!Steps(a), b) BY CycleHasSteps
  <1>4. \A i \in 1..n : a[i] \in Nat BY <1>1
  <1>5. \A i \in 1..m : b[i] \in Nat BY <1>2
  <1>6. 0 \in P
    <2>1. 1 \in 1..n /\ 1 \in 1..m BY <1>1, <1>2
    <2>2. PICK j \in 1..m : a[1] = b[j] BY <1>3, <2>1 DEF StepsOf
    <2>3. PICK i \in 1..n : b[1] = a[i] BY <1>3, <2>1 DEF StepsOf
    <2>4. b[1] <= a[1] /\ a[1] <= b[1] BY <2>2, <2>3 DEF StartsLeast
    <2>5. a[1] = b[1] BY <1>4, <1>5, <2>1, <2>4
    <2> QED BY <1>1, <1>2, <2>5
  <1>7. ASSUME NEW h \in 1..(n - 1), h - 1 \in P PROVE h \in P
    <2>1. h \in 1..n /\ h # n /\ h + 1 \in 1..n /\ (h - 1) + 1 = h BY <1>1
    <2>2. h <= m /\ a[h] = b[h] BY <1>7, <2>1
    <2>3. h \in 1..m BY <1>2, <2>2
    <2>4. After(a, h) = a[h + 1] BY <2>1 DEF After
    <2>5. <<b[h], a[h + 1]>> \in T!Steps(a) BY <1>3, <2>1, <2>2, <2>4 DEF StepsOf
    <2>6. a[h + 1] = After(b, h) BY <1>3, <2>3, <2>5 DEF StepsOf
    <2>7. CASE h = m
      <3>1. a[h + 1] = b[1] BY <2>6, <2>7 DEF After
      <3>2. b[1] = a[1]
        <4>1. 1 \in 1..n /\ 1 \in 1..m BY <1>1, <1>2
        <4>2. PICK j \in 1..m : a[1] = b[j] BY <1>3, <4>1 DEF StepsOf
        <4>3. PICK i \in 1..n : b[1] = a[i] BY <1>3, <4>1 DEF StepsOf
        <4>4. b[1] <= a[1] /\ a[1] <= b[1] BY <4>2, <4>3 DEF StartsLeast
        <4> QED BY <1>4, <1>5, <4>1, <4>4
      <3>3. 1 \in 1..n /\ h + 1 # 1 BY <1>1, <2>1
      <3> QED BY <2>1, <3>1, <3>2, <3>3 DEF IsCycle, IsPath
    <2>8. CASE h # m
      <3>1. h + 1 <= m BY <1>2, <2>3, <2>8
      <3>2. a[h + 1] = b[h + 1] BY <2>6, <2>8 DEF After
      <3> QED BY <2>1, <3>1, <3>2
    <2> QED BY <2>7, <2>8
  <1> HIDE DEF P
  <1>8. \A h \in 1..(n - 1) : h - 1 \in P => h \in P BY <1>7
  <1>9. n - 1 \in Nat BY <1>1
  <1>10. \A h \in 0..(n - 1) : h \in P BY <1>6, <1>8, <1>9, UpTo
  <1>11. ASSUME NEW i \in 1..n PROVE i <= m /\ a[i] = b[i]
    <2>1. i - 1 \in 0..(n - 1) /\ (i - 1) + 1 = i BY <1>1
    <2> QED BY <1>10, <2>1 DEF P
  <1> QED BY <1>11 DEF AsFar

\* It is that one.
LEMMA StepsTellCycle ==
    ASSUME NEW dep, NEW a, IsCycle(dep, a), StartsLeast(a),
           NEW b, IsCycle(dep, b), StartsLeast(b), T!Steps(a) = T!Steps(b)
    PROVE  a = b
  <1>1. a \in Seq(Nat) /\ b \in Seq(Nat) BY DEF IsCycle, IsPath
  <1>2. AsFar(a, b) /\ AsFar(b, a) BY GoesAsFar
  <1>3. Len(a) \in Nat /\ Len(b) \in Nat /\ Len(a) >= 2 /\ Len(b) >= 2 BY <1>1 DEF IsCycle
  <1>4. Len(a) = Len(b)
    <2>1. Len(a) \in 1..Len(a) /\ Len(b) \in 1..Len(b) BY <1>3
    <2>2. Len(a) <= Len(b) /\ Len(b) <= Len(a) BY <1>2, <2>1 DEF AsFar
    <2> QED BY <1>3, <2>2
  <1> QED BY <1>1, <1>2, <1>4 DEF AsFar

\* What the rounds of SimpleCycles gather.
Sources(C) == {d[1] : d \in C}
Onward(U, C) == U \cup {d[2] : d \in {d \in C : d[1] \in U}}
Rounds(r, C, m) ==
    /\ r[0] = {CHOOSE n \in Sources(C) : TRUE}
    /\ \A k \in 1..m : r[k] = Onward(r[k - 1], C)
OneCycle(C, r, n) ==
    /\ Cardinality(C) \in 2..n /\ Cardinality(Sources(C)) = Cardinality(C)
    /\ {d[2] : d \in C} = Sources(C) /\ r[Cardinality(C)] = Sources(C)
SimpleBy(C, dep, n) ==
    \E r : /\ Rounds(r, C, Cardinality(C))
           /\ C \in T!SimpleCycles(dep, n) <=> OneCycle(C, r, n)
LEMMA RoundsGather ==
    ASSUME NEW dep \in SUBSET (Nat \X Nat), NEW C \in SUBSET dep, IsFiniteSet(C), NEW n \in Nat
    PROVE  SimpleBy(C, dep, n)
  <1> DEFINE on == Sources(C)
             m == Cardinality(C)
             b == {CHOOSE x \in on : TRUE}
             Is(r) == r = [k \in 0..m |-> IF k = 0 THEN b ELSE Onward(r[k - 1], C)]
             R == CHOOSE r : Is(r)
             S == SUBSET (Nat \cup b)
             st == [w \in S \X (1..m) |-> Onward(w[1], C)]
  <1>1. m \in Nat BY FS_CardinalityType
  <1>2. C \in T!SimpleCycles(dep, n) <=> OneCycle(C, R, n)
    BY DEF T!SimpleCycles, OneCycle, Sources, Onward, T!Cardinality, Cardinality
  <1>3. \A U \in S : Onward(U, C) \in S
    <2>1. \A d \in C : d[2] \in Nat OBVIOUS
    <2> HIDE DEF b
    <2> QED BY <2>1 DEF Onward
  <1>4. b \in S OBVIOUS
  <1> HIDE DEF S, b, m
  <1>5. \A U \in S : \A h \in 1..m : st[<<U, h>>] = Onward(U, C) OBVIOUS
  <1> HIDE DEF st
  <1>6. \E r : Is(r)
    <2>1. StaysIn(S, m, st) BY <1>3, <1>5 DEF StaysIn
    <2>2. PICK f : StepsFrom(f, S, b, m, st) BY <1>1, <1>4, <2>1, StepByStep
    <2> DEFINE own == [k \in 0..m |-> f[k]]
    <2>3. ASSUME NEW k \in 0..m PROVE own[k] = IF k = 0 THEN b ELSE Onward(own[k - 1], C)
      <3>1. CASE k = 0 BY <1>1, <2>2, <3>1 DEF StepsFrom
      <3>2. CASE k # 0
        <4>1. k \in 1..m /\ k - 1 \in 0..m BY <1>1, <3>2
        <4>2. f[k] = st[<<f[k - 1], k>>] /\ f[k - 1] \in S BY <2>2, <4>1 DEF StepsFrom
        <4>3. f[k] = Onward(f[k - 1], C) BY <1>5, <4>1, <4>2
        <4>4. own[k] = f[k] /\ own[k - 1] = f[k - 1] BY <4>1
        <4> HIDE DEF own
        <4> QED BY <3>2, <4>3, <4>4
      <3> QED BY <3>1, <3>2
    <2>4. Is(own)
      <3>1. own = [k \in 0..m |-> own[k]] OBVIOUS
      <3> HIDE DEF own
      <3> QED BY <2>3, <3>1
    <2> HIDE DEF Is
    <2> QED BY <2>4
  <1>7. Is(R)
    <2> HIDE DEF Is
    <2> QED BY <1>6
  <1> HIDE DEF R
  <1>8. R[0] = b BY <1>1, <1>7
  <1>9. ASSUME NEW k \in 1..m PROVE R[k] = Onward(R[k - 1], C)
    <2>1. k \in 0..m /\ k # 0 BY <1>1
    <2> QED BY <1>7, <2>1
  <1>10. Rounds(R, C, m) BY <1>8, <1>9 DEF Rounds, b
  <1> HIDE DEF Is
  <1> QED BY <1>2, <1>10 DEF SimpleBy, m

\* The members of a list without repetitions are as many.
NoneTwice(c, n) == \A i, j \in 1..n : c[i] = c[j] => i = j
LEMMA AsManyNodes ==
    ASSUME NEW n \in Nat, NEW c, NoneTwice(c, n), NEW U, U = {c[i] : i \in 1..n}
    PROVE  IsFiniteSet(U) /\ Cardinality(U) = n
  <1> DEFINE f == [i \in 1..n |-> c[i]]
  <1>1. IsFiniteSet(1..n) /\ Cardinality(1..n) = n
    <2>1. IsFiniteSet(1..n) /\ Cardinality(1..n) = IF 1 > n THEN 0 ELSE n - 1 + 1 BY FS_Interval
    <2> QED BY <2>1
  <1>2. f \in Surjection(1..n, U) BY DEF Surjection
  <1>3. f \in Injection(1..n, U)
    <2>1. f \in [1..n -> U] /\ \A i \in 1..n : f[i] = c[i] OBVIOUS
    <2> HIDE DEF f
    <2> QED BY <2>1 DEF Injection, IsInjective, NoneTwice
  <1> HIDE DEF f
  <1> QED BY <1>1, <1>2, <1>3, FS_Surjection

\* The steps of a cycle are a simple cycle.
LEMMA CycleIsSimple ==
    ASSUME NEW dep \in SUBSET (Nat \X Nat), NEW n \in Nat, NEW c, IsCycle(dep, c), Len(c) <= n
    PROVE  T!Steps(c) \in T!SimpleCycles(dep, n)
  <1> DEFINE m == Len(c)
             C == T!Steps(c)
             on == {c[i] : i \in 1..m}
             step == [i \in 1..m |-> <<c[i], After(c, i)>>]
  <1>1. c \in Seq(Nat) /\ m \in Nat /\ m >= 2 /\ c # <<>> BY DEF IsCycle, IsPath
  <1>2. \A i, j \in 1..m : c[i] = c[j] => i = j BY DEF IsCycle, IsPath
  <1>3. C = {step[i] : i \in 1..m} BY <1>1, StepsFollow
  <1>4. \A i \in 1..m : step[i] = <<c[i], After(c, i)>> OBVIOUS
  <1> HIDE DEF C, step
  <1>5. \A i \in 1..m : step[i] \in dep
    <2> TAKE i \in 1..m
    <2>1. CASE i = m BY <1>4, <2>1 DEF IsCycle, After
    <2>2. CASE i # m
      <3>1. i \in 1..(m - 1) BY <1>1, <2>2
      <3> QED BY <1>4, <2>2, <3>1 DEF IsCycle, IsPath, After
    <2> QED BY <2>1, <2>2
  <1>6. C \in SUBSET dep BY <1>3, <1>5
  <1>7. IsFiniteSet(C) /\ Cardinality(C) = m
    <2>1. NoneTwice(step, m) BY <1>2, <1>4 DEF NoneTwice
    <2> HIDE DEF m
    <2> QED BY <1>1, <1>3, <2>1, AsManyNodes
  <1>8. Sources(C) = on BY <1>3, <1>4 DEF Sources
  <1>9. Cardinality(on) = m
    <2>1. NoneTwice(c, m) BY <1>2 DEF NoneTwice
    <2>2. on = {c[i] : i \in 1..m} OBVIOUS
    <2> HIDE DEF m, on
    <2> QED BY <1>1, <2>1, <2>2, AsManyNodes
  <1>10. {d[2] : d \in C} = on
    <2>1. \A i \in 1..m : step[i][2] \in on
      <3> TAKE i \in 1..m
      <3>1. 1 \in 1..m /\ (i # m => i + 1 \in 1..m) BY <1>1
      <3> QED BY <1>4, <3>1 DEF After
    <2>2. ASSUME NEW j \in 1..m PROVE \E i \in 1..m : step[i][2] = c[j]
      <3>1. CASE j = 1
        <4>1. m \in 1..m /\ step[m][2] = c[1] BY <1>1, <1>4 DEF After
        <4> QED BY <3>1, <4>1
      <3>2. CASE j # 1
        <4>1. j - 1 \in 1..m /\ j - 1 # m /\ (j - 1) + 1 = j BY <1>1, <3>2
        <4>2. step[j - 1][2] = c[j] BY <1>4, <4>1 DEF After
        <4> QED BY <4>1, <4>2
      <3> QED BY <3>1, <3>2
    <2>3. {d[2] : d \in C} = {step[i][2] : i \in 1..m} BY <1>3
    <2>4. \A j \in 1..m : c[j] \in {step[i][2] : i \in 1..m} BY <2>2
    <2> QED BY <2>1, <2>3, <2>4
  <1>11. SimpleBy(C, dep, n) BY <1>6, <1>7, RoundsGather
  <1>12. PICK r : Rounds(r, C, m) /\ (C \in T!SimpleCycles(dep, n) <=> OneCycle(C, r, n))
    BY <1>7, <1>11 DEF SimpleBy
  <1>13. r[m] = on
    <2> DEFINE x == CHOOSE y \in on : TRUE
    <2>1. x \in on
      <3>1. 1 \in 1..m BY <1>1
      <3>2. c[1] \in on BY <3>1
      <3> HIDE DEF on
      <3> QED BY <3>2
    <2>2. r[0] = {x} BY <1>8, <1>12 DEF Rounds
    <2> HIDE DEF x
    <2>3. PICK s \in 1..m : x = c[s] BY <2>1
    <2> DEFINE q == Turned(c, s)
    <2>4. IsCycle(dep, q) /\ Len(q) = m /\ q[1] = x /\ T!Steps(q) = C /\ AllOn(c, q)
      <3>1. IsCycle(dep, q) /\ Len(q) = m /\ q[1] = x /\ T!Steps(q) = C BY <2>3, TurnedIsCycle DEF C
      <3> HIDE DEF q
      <3>2. StepsOf(C, q) BY <3>1, CycleHasSteps
      <3>3. \A i \in 1..m : step[i] \in C BY <1>3
      <3>4. \A i \in 1..m : \E j \in 1..m : c[i] = q[j] BY <1>4, <3>1, <3>2, <3>3 DEF StepsOf
      <3> QED BY <3>1, <3>4 DEF AllOn
    <2> HIDE DEF q
    <2>5. StepsOf(C, q) BY <2>4, CycleHasSteps
    <2> DEFINE P == {k \in 0..m : r[k] \subseteq on /\ \A i \in 1..m : i <= k + 1 => q[i] \in r[k]}
    <2>6. 0 \in P
      <3>1. \A i \in 1..m : i <= 0 + 1 => i = 1 BY <1>1
      <3>2. r[0] \subseteq on BY <2>1, <2>2
      <3>3. 0 \in 0..m BY <1>1
      <3> HIDE DEF on
      <3> QED BY <2>2, <2>4, <3>1, <3>2, <3>3
    <2>7. ASSUME NEW k \in 1..m, k - 1 \in P PROVE k \in P
      <3>1. r[k] = r[k - 1] \cup {d[2] : d \in {d \in C : d[1] \in r[k - 1]}} BY <1>12 DEF Rounds, Onward
      <3>2. r[k - 1] \subseteq on /\ \A i \in 1..m : i <= k => q[i] \in r[k - 1] BY <1>1, <2>7
      <3>3. r[k] \subseteq on
        <4> HIDE DEF on
        <4> QED BY <1>10, <3>1, <3>2
      <3>4. ASSUME NEW i \in 1..m, i <= k + 1 PROVE q[i] \in r[k]
        <4>1. CASE i <= k BY <3>1, <3>2, <4>1
        <4>2. CASE ~(i <= k)
          <5>1. i = k + 1 /\ k \in 1..m /\ k # m BY <1>1, <3>4, <4>2
          <5>2. After(q, k) = q[i] BY <2>4, <5>1 DEF After
          <5>3. <<q[k], q[i]>> \in C BY <2>4, <2>5, <5>1, <5>2 DEF StepsOf
          <5>4. q[k] \in r[k - 1] BY <1>1, <3>2, <5>1
          <5> DEFINE d == <<q[k], q[i]>>
          <5>5. d \in C /\ d[1] \in r[k - 1] /\ d[2] = q[i] BY <5>3, <5>4
          <5> HIDE DEF d
          <5> QED BY <3>1, <5>5
        <4> QED BY <4>1, <4>2
      <3> HIDE DEF on, m
      <3> QED BY <1>1, <3>3, <3>4
    <2> HIDE DEF P
    <2>8. \A k \in 1..m : k - 1 \in P => k \in P BY <2>7
    <2>9. \A k \in 0..m : k \in P
      <3> HIDE DEF m
      <3> QED BY <1>1, <2>6, <2>8, UpTo
    <2>10. m \in P /\ \A i \in 1..m : i <= m + 1 BY <1>1, <2>9
    <2>11. r[m] \subseteq on /\ \A i \in 1..m : q[i] \in r[m]
      <3> HIDE DEF on, m
      <3> QED BY <2>10 DEF P
    <2>12. \A i \in 1..m : c[i] \in r[m] BY <2>4, <2>11 DEF AllOn
    <2> QED BY <2>11, <2>12
  <1>14. m \in 2..n BY <1>1
  <1> HIDE DEF on, m
  <1>15. OneCycle(C, r, n) BY <1>7, <1>8, <1>9, <1>10, <1>13, <1>14 DEF OneCycle
  <1> QED BY <1>12, <1>15 DEF C

\* A dependency to follow: what a step leads to, and it alone.
Follows(C, succ) == \A d \in C : d = <<d[1], d[2]>> /\ d[2] = succ[d[1]]
Unmerged(C) == \A d, e \in C : d[2] = e[2] => d = e
LEMMA StepsAreAFunction ==
    ASSUME NEW C, IsFiniteSet(C), C \in SUBSET (Nat \X Nat),
           Cardinality(Sources(C)) = Cardinality(C), {d[2] : d \in C} = Sources(C)
    PROVE  /\ IsFiniteSet(Sources(C)) /\ Unmerged(C)
           /\ Follows(C, [x \in Sources(C) |-> CHOOSE y : <<x, y>> \in C])
  <1> DEFINE on == Sources(C)
             from == [d \in C |-> d[1]]
             to == [d \in C |-> d[2]]
             succ == [x \in on |-> CHOOSE y : <<x, y>> \in C]
  <1>1. from \in Surjection(C, on) BY DEF Surjection, Sources
  <1>2. to \in Surjection(C, on) BY DEF Surjection
  <1>3. IsFiniteSet(on) /\ from \in Injection(C, on) /\ to \in Injection(C, on)
    <2> HIDE DEF from, to, on
    <2>1. IsFiniteSet(on) /\ from \in Injection(C, on) BY <1>1, FS_Surjection DEF on
    <2>2. to \in Injection(C, on) BY <1>2, FS_Surjection DEF on
    <2> QED BY <2>1, <2>2
  <1>4. \A d, e \in C : d[1] = e[1] => d = e BY <1>3 DEF Injection, IsInjective
  <1>5. \A d, e \in C : d[2] = e[2] => d = e BY <1>3 DEF Injection, IsInjective
  <1>6. ASSUME NEW d \in C PROVE d = <<d[1], d[2]>> /\ d[2] = succ[d[1]]
    <2>1. d = <<d[1], d[2]>> /\ d[1] \in on BY DEF Sources
    <2> DEFINE y == CHOOSE y : <<d[1], y>> \in C
    <2>2. <<d[1], y>> \in C BY <2>1
    <2>3. succ[d[1]] = y BY <2>1
    <2> HIDE DEF y, succ
    <2> DEFINE e == <<d[1], y>>
    <2>4. e \in C /\ e[1] = d[1] /\ e[2] = y BY <2>2
    <2> HIDE DEF e
    <2>5. e = d BY <1>4, <2>4
    <2> QED BY <2>1, <2>3, <2>4, <2>5
  <1> HIDE DEF succ
  <1>7. Follows(C, succ) BY <1>6 DEF Follows
  <1> QED BY <1>3, <1>5, <1>7 DEF Unmerged, succ

\* The rounds stay within what the steps do not leave.
LEMMA RoundsStay ==
    ASSUME NEW C, NEW r, NEW m \in Nat, Rounds(r, C, m),
           NEW W, (CHOOSE n \in Sources(C) : TRUE) \in W, \A d \in C : d[1] \in W => d[2] \in W
    PROVE  r[m] \subseteq W
  <1> DEFINE P == {k \in 0..m : r[k] \subseteq W}
             x == CHOOSE n \in Sources(C) : TRUE
  <1>1. 0 \in P
    <2>1. r[0] = {x} /\ 0 \in 0..m BY DEF Rounds
    <2> HIDE DEF x
    <2> QED BY <2>1 DEF x
  <1>2. ASSUME NEW k \in 1..m, k - 1 \in P PROVE k \in P
    <2>1. r[k] = r[k - 1] \cup {d[2] : d \in {d \in C : d[1] \in r[k - 1]}} BY DEF Rounds, Onward
    <2> QED BY <1>2, <2>1
  <1> HIDE DEF P
  <1>3. \A k \in 1..m : k - 1 \in P => k \in P BY <1>2
  <1>4. \A k \in 0..m : k \in P BY <1>1, <1>3, UpTo
  <1> QED BY <1>4 DEF P

\* A simple cycle is the steps of a cycle.
LEMMA SimpleIsCycle ==
    ASSUME NEW dep \in SUBSET (Nat \X Nat), IsFiniteSet(dep), NEW n \in Nat,
           NEW C \in T!SimpleCycles(dep, n)
    PROVE  \E c : IsCycle(dep, c) /\ Len(c) <= n /\ T!Steps(c) = C
  <1> DEFINE m == Cardinality(C)
             on == Sources(C)
             succ == [x \in on |-> CHOOSE y : <<x, y>> \in C]
             b == CHOOSE x \in on : TRUE
             st == [w \in on \X (1..m) |-> succ[w[1]]]
  <1>1. C \in SUBSET dep BY DEF T!SimpleCycles
  <1>2. IsFiniteSet(C) BY <1>1, FS_Subset
  <1>3. PICK r : Rounds(r, C, m) /\ OneCycle(C, r, n) BY <1>1, <1>2, RoundsGather DEF SimpleBy
  <1>4. /\ m \in 2..n /\ Cardinality(on) = m /\ {d[2] : d \in C} = on /\ r[m] = on
    BY <1>3 DEF OneCycle
  <1>5. IsFiniteSet(on) /\ Unmerged(C) /\ Follows(C, succ)
    BY <1>1, <1>2, <1>4, StepsAreAFunction
  <1>6. m \in Nat /\ m >= 2 BY <1>4
  <1>7. on \subseteq Nat BY <1>1 DEF Sources
  <1> HIDE DEF m, on
  <1>8. b \in on
    <2>1. on # {} BY <1>4, <1>6, FS_EmptySet
    <2> QED BY <2>1
  <1>9. \A x \in on : <<x, succ[x]>> \in C /\ succ[x] \in on
    <2> TAKE x \in on
    <2>1. PICK d \in C : x = d[1] BY DEF on, Sources
    <2>2. d = <<x, succ[x]>> /\ d[2] = succ[x] BY <1>5, <2>1 DEF Follows
    <2> HIDE DEF succ
    <2>3. d[2] \in on BY <1>4
    <2> QED BY <2>2, <2>3
  <1>10. \A x \in on : \A h \in 1..m : st[<<x, h>>] = succ[x] OBVIOUS
  <1> HIDE DEF succ, b, st
  <1>11. StaysIn(on, m, st) BY <1>9, <1>10 DEF StaysIn
  <1>12. PICK w : StepsFrom(w, on, b, m, st) BY <1>6, <1>8, <1>11, StepByStep
  <1>13. w[0] = b /\ \A h \in 0..m : w[h] \in on BY <1>12 DEF StepsFrom
  <1>14. ASSUME NEW h \in 1..m PROVE w[h] = succ[w[h - 1]]
    <2>1. h - 1 \in 0..m BY <1>6
    <2> QED BY <1>10, <1>12, <1>13, <2>1 DEF StepsFrom
  <1>15. ASSUME NEW i \in 0..(m - 1), NEW j \in 0..(m - 1), i < j PROVE w[i] # w[j]
    <2> SUFFICES ASSUME w[i] = w[j] PROVE FALSE OBVIOUS
    <2> DEFINE W == {w[h] : h \in 0..(j - 1)}
    <2>1. b \in W
      <3>1. 0 \in 0..(j - 1) BY <1>6, <1>15
      <3> QED BY <1>13, <3>1
    <2>2. ASSUME NEW d \in C, d[1] \in W PROVE d[2] \in W
      <3>1. PICK h \in 0..(j - 1) : d[1] = w[h] BY <2>2
      <3>2. d[2] = succ[w[h]] BY <1>5, <3>1 DEF Follows, succ
      <3>3. h + 1 \in 1..m /\ (h + 1) - 1 = h BY <1>6
      <3>4. d[2] = w[h + 1] BY <1>14, <3>2, <3>3
      <3>5. CASE h = j - 1
        <4>1. d[2] = w[i] /\ i \in 0..(j - 1) BY <1>6, <1>15, <3>4, <3>5
        <4> QED BY <4>1
      <3>6. CASE h # j - 1
        <4>1. h + 1 \in 0..(j - 1) BY <1>6, <3>6
        <4> QED BY <3>4, <4>1
      <3> QED BY <3>5, <3>6
    <2> DEFINE f == [h \in 0..(j - 1) |-> w[h]]
    <2>3. f \in Surjection(0..(j - 1), W) BY DEF Surjection
    <2>4. IsFiniteSet(0..(j - 1)) /\ Cardinality(0..(j - 1)) = j
      <3>1. 0 \in Int /\ j - 1 \in Int /\ ~(0 > j - 1) /\ j - 1 - 0 + 1 = j BY <1>6, <1>15
      <3>2. IsFiniteSet(0..(j - 1)) /\ Cardinality(0..(j - 1)) = IF 0 > j - 1 THEN 0 ELSE j - 1 - 0 + 1
        BY <3>1, FS_Interval
      <3> QED BY <3>1, <3>2
    <2> HIDE DEF W, f
    <2>5. IsFiniteSet(W) /\ Cardinality(W) <= j BY <2>3, <2>4, FS_Surjection
    <2>6. r[m] \subseteq W BY <1>3, <1>6, <2>1, <2>2, RoundsStay DEF b, on
    <2>7. on \in SUBSET W BY <1>4, <2>6
    <2>8. m <= Cardinality(W) BY <1>4, <2>5, <2>7, FS_Subset
    <2>9. Cardinality(W) \in Nat BY <2>5, FS_CardinalityType
    <2> QED BY <1>6, <2>5, <2>8, <2>9
  <1> DEFINE c == [i \in 1..m |-> w[i - 1]]
  <1>16. c \in Seq(Nat) /\ Len(c) = m /\ \A i \in 1..m : c[i] = w[i - 1] /\ c[i] \in on
    <2>1. \A i \in 1..m : i - 1 \in 0..m BY <1>6
    <2>2. \A i \in 1..m : w[i - 1] \in on /\ w[i - 1] \in Nat BY <1>7, <1>13, <2>1
    <2> QED BY <1>6, <2>2
  <1> HIDE DEF c
  <1>17. \A i, j \in 1..m : c[i] = c[j] => i = j
    <2> SUFFICES ASSUME NEW i \in 1..m, NEW j \in 1..m, i # j PROVE c[i] # c[j] OBVIOUS
    <2>1. i - 1 \in 0..(m - 1) /\ j - 1 \in 0..(m - 1) BY <1>6
    <2>2. CASE i < j
      <3>1. i - 1 < j - 1 BY <2>2
      <3> QED BY <1>15, <1>16, <2>1, <3>1
    <2>3. CASE j < i
      <3>1. j - 1 < i - 1 BY <2>3
      <3> QED BY <1>15, <1>16, <2>1, <3>1
    <2> QED BY <2>2, <2>3
  <1>18. \A x \in on : \E i \in 1..m : x = c[i]
    <2> DEFINE U == {c[i] : i \in 1..m}
    <2>1. NoneTwice(c, m) BY <1>17 DEF NoneTwice
    <2>2. U = {c[i] : i \in 1..m} OBVIOUS
    <2>3. U \in SUBSET on BY <1>16
    <2> HIDE DEF U
    <2>4. Cardinality(U) = m BY <1>6, <2>1, <2>2, AsManyNodes
    <2>5. U = on BY <1>4, <1>5, <2>3, <2>4, FS_Subset
    <2> QED BY <2>2, <2>5
  <1>19. \A i \in 1..(m - 1) : c[i + 1] = succ[c[i]]
    <2> TAKE i \in 1..(m - 1)
    <2>1. i \in 1..m /\ i + 1 \in 1..m /\ (i + 1) - 1 = i BY <1>6
    <2>2. w[i] = succ[w[i - 1]] BY <1>14, <2>1
    <2> QED BY <1>16, <2>1, <2>2
  <1>20. \A i \in 1..m : <<c[i], succ[c[i]]>> \in C BY <1>9, <1>16
  <1>21. c[1] = succ[c[m]]
    <2>1. m \in 1..m /\ 1 \in 1..m BY <1>6
    <2>2. succ[c[m]] \in on BY <1>9, <1>16, <2>1
    <2>3. PICK j \in 1..m : succ[c[m]] = c[j] BY <1>18, <2>2
    <2>4. CASE j = 1 BY <2>3, <2>4
    <2>5. CASE j # 1
      <3>1. j - 1 \in 1..(m - 1) /\ j - 1 \in 1..m /\ (j - 1) + 1 = j BY <1>6, <2>5
      <3>2. c[j] = succ[c[j - 1]] BY <1>19, <3>1
      <3> DEFINE d == <<c[m], succ[c[m]]>>
                 e == <<c[j - 1], succ[c[j - 1]]>>
      <3>3. d \in C /\ e \in C /\ d[2] = e[2] BY <1>20, <2>1, <2>3, <3>1, <3>2
      <3>4. d = e
        <4> HIDE DEF d, e
        <4> QED BY <1>5, <3>3 DEF Unmerged
      <3>5. c[m] = c[j - 1] BY <3>4
      <3>6. m = j - 1 BY <1>17, <2>1, <3>1, <3>5
      <3> QED BY <1>6, <3>1, <3>6
    <2> QED BY <2>4, <2>5
  <1>22. \A i \in 1..m : After(c, i) = succ[c[i]]
    <2> TAKE i \in 1..m
    <2>1. CASE i = m BY <1>16, <1>21, <2>1 DEF After
    <2>2. CASE i # m
      <3>1. i \in 1..(m - 1) BY <1>6, <2>2
      <3> QED BY <1>16, <1>19, <2>2, <3>1 DEF After
    <2> QED BY <2>1, <2>2
  <1>23. T!Steps(c) = C
    <2>1. T!Steps(c) = {<<c[i], After(c, i)>> : i \in 1..m}
      <3>1. c # <<>> BY <1>6, <1>16
      <3> QED BY <1>16, <3>1, StepsFollow
    <2>2. \A i \in 1..m : <<c[i], After(c, i)>> \in C BY <1>20, <1>22
    <2>3. ASSUME NEW d \in C PROVE d \in T!Steps(c)
      <3>1. d[1] \in on BY DEF on, Sources
      <3>2. PICK i \in 1..m : d[1] = c[i] BY <1>18, <3>1
      <3>3. d = <<c[i], succ[c[i]]>> BY <1>5, <3>2 DEF Follows, succ
      <3> QED BY <1>22, <2>1, <3>3
    <2> QED BY <2>1, <2>2, <2>3
  <1>24. IsCycle(dep, c)
    <2>1. \A i \in 1..(m - 1) : <<c[i], c[i + 1]>> \in dep
      <3> TAKE i \in 1..(m - 1)
      <3>1. i \in 1..m BY <1>6
      <3> QED BY <1>1, <1>19, <1>20, <3>1
    <2>2. <<c[m], c[1]>> \in dep
      <3>1. m \in 1..m BY <1>6
      <3> QED BY <1>1, <1>20, <1>21, <3>1
    <2> QED BY <1>6, <1>16, <1>17, <2>1, <2>2 DEF IsCycle, IsPath
  <1>25. Len(c) <= n BY <1>4, <1>16
  <1> QED BY <1>23, <1>24, <1>25

\* Containers are numbered by their names, where a node has one.
Contained(g, level) == \A n \in DOMAIN g.node : g.node[n].within[level] \in Nat \cup {Absent}

\* What is found tells the simple cycles, each of them once.
LEMMA EachCycleOnce ==
    ASSUME NEW dep \in SUBSET (Nat \X Nat), IsFiniteSet(dep), NEW n \in Nat \ {0}
    PROVE  /\ {T!Steps(c) : c \in T!findCycles(dep, n)} = T!SimpleCycles(dep, n)
           /\ IsFiniteSet(T!findCycles(dep, n))
           /\ Cardinality(T!findCycles(dep, n)) = Cardinality(T!SimpleCycles(dep, n))
  <1> DEFINE found == T!findCycles(dep, n)
             due == T!SimpleCycles(dep, n)
             steps == [c \in found |-> T!Steps(c)]
  <1>1. CyclesUpTo(found, dep, n) BY FoundAreCycles
  <1>2. due \in SUBSET SUBSET dep BY DEF T!SimpleCycles
  <1> HIDE DEF found, due
  <1>3. ASSUME NEW c \in found PROVE steps[c] = T!Steps(c) /\ T!Steps(c) \in due
    <2>1. IsCycle(dep, c) /\ Len(c) <= n BY <1>1 DEF CyclesUpTo
    <2> QED BY <2>1, CycleIsSimple DEF due
  <1>4. ASSUME NEW C \in due PROVE \E c \in found : steps[c] = C
    <2>1. PICK p : IsCycle(dep, p) /\ Len(p) <= n /\ T!Steps(p) = C BY SimpleIsCycle DEF due
    <2> DEFINE c == T!canonicalCycleKey(p)
    <2>2. IsCycle(dep, c) /\ Len(c) = Len(p) /\ T!Steps(c) = C /\ StartsLeast(c) BY <2>1, KeyIsTurned
    <2> HIDE DEF c
    <2>3. c \in found BY <1>1, <2>1, <2>2 DEF CyclesUpTo
    <2> QED BY <1>3, <2>2, <2>3
  <1>5. ASSUME NEW a \in found, NEW b \in found, steps[a] = steps[b] PROVE a = b
    <2>1. IsCycle(dep, a) /\ StartsLeast(a) /\ IsCycle(dep, b) /\ StartsLeast(b) BY <1>1 DEF CyclesUpTo
    <2>2. T!Steps(a) = T!Steps(b) BY <1>5
    <2> QED BY <2>1, <2>2, StepsTellCycle
  <1>6. {T!Steps(c) : c \in found} = due BY <1>3, <1>4
  <1>7. IsFiniteSet(due)
    <2>1. IsFiniteSet(SUBSET dep) BY FS_SUBSET
    <2> QED BY <1>2, <2>1, FS_Subset
  <1>8. steps \in [found -> due] BY <1>3
  <1> HIDE DEF steps
  <1>9. steps \in Injection(found, due) BY <1>5, <1>8 DEF Injection, IsInjective
  <1>10. steps \in Surjection(found, due) BY <1>4, <1>8 DEF Surjection
  <1>11. IsFiniteSet(found) /\ Cardinality(found) = Cardinality(due)
    BY <1>7, <1>9, <1>10, FS_Injection
  <1> QED BY <1>6, <1>11 DEF found, due

\* detect_cycles shows each cycle of dependencies once, in whatever order and
\* from whatever node it was found, and says when it shows fewer.
THEOREM CyclesAreExact ==
    ASSUME CycleCap \in Nat \ {0}, NEW g, IsGraph(g), NEW level, Contained(g, level), NEW depth \in Int
    PROVE  T!CyclesOnce(g, level, depth)
  <1> DEFINE dep == T!buildDependencyGraph(g, level)
             n == T!Clamp(depth, 2, 6)
             found == T!findCycles(dep, n)
             a == T!handleDetectCycles(g, level, depth)
             E == DOMAIN g.edge
             of(e) == <<g.node[g.edge[e].src].within[level], g.node[g.edge[e].tgt].within[level]>>
  <1>1. n \in Nat \ {0} BY DEF T!Clamp
  <1>2. dep \in SUBSET (Nat \X Nat) /\ IsFiniteSet(dep)
    <2> DEFINE pair == [e \in E |-> of(e)]
               all == {pair[e] : e \in E}
    <2>1. IsFiniteSet(E)
      <3>1. E = 1..Len(g.edge) /\ Len(g.edge) \in Nat BY DEF IsGraph, IsASequence
      <3>2. IsFiniteSet(1..Len(g.edge)) BY <3>1, FS_Interval
      <3> QED BY <3>1, <3>2
    <2>2. dep \subseteq all BY DEF T!buildDependencyGraph
    <2>3. IsFiniteSet(all)
      <3> HIDE DEF pair, E
      <3> QED BY <2>1, FiniteImage
    <2>4. ASSUME NEW d \in dep PROVE d \in Nat \X Nat
      <3>1. PICK e \in E : /\ d = of(e)
                           /\ {g.node[g.edge[e].src].within[level],
                               g.node[g.edge[e].tgt].within[level]} \cap {Absent} = {}
        BY DEF T!buildDependencyGraph
      <3>2. /\ g.node[g.edge[e].src].within[level] \in Nat \cup {Absent}
            /\ g.node[g.edge[e].tgt].within[level] \in Nat \cup {Absent}
        BY DEF IsGraph, Contained
      <3> QED BY <3>1, <3>2
    <2> HIDE DEF all, dep
    <2> QED BY <2>2, <2>3, <2>4, FS_Subset
  <1> HIDE DEF dep, n
  <1>3. /\ {T!Steps(c) : c \in found} = T!SimpleCycles(dep, n) /\ IsFiniteSet(found)
        /\ Cardinality(found) = Cardinality(T!SimpleCycles(dep, n))
    BY <1>1, <1>2, EachCycleOnce
  <1> DEFINE before(c, d) ==
                 \/ Len(c) < Len(d)
                 \/ /\ Len(c) = Len(d)
                    /\ \E i \in DOMAIN c : c[i] < d[i] /\ \A j \in 1..(i - 1) : c[j] = d[j]
             ahead(c) == {d \in found : before(d, c)}
  <1>4. /\ a.cycles = {c \in found : Cardinality(ahead(c)) < CycleCap}
        /\ a.truncated = (Cardinality(found) > CycleCap)
    <2> DEFINE cycles == {c \in found : Cardinality(ahead(c)) < CycleCap}
               truncated == Cardinality(found) > CycleCap
    <2>1. a = [cycles |-> cycles, truncated |-> truncated]
      BY DEF T!handleDetectCycles, dep, n, T!Cardinality, Cardinality
    <2> HIDE DEF cycles, truncated, a
    <2>2. a.cycles = cycles /\ a.truncated = truncated BY <2>1
    <2> QED BY <2>2 DEF cycles, truncated
  <1> HIDE DEF a
  <1>5. CyclesUpTo(found, dep, n) BY <1>1, <1>2, FoundAreCycles
  <1> HIDE DEF found
  <1>6. ASSUME ~a.truncated PROVE a.cycles = found
    <2> SUFFICES ASSUME NEW c \in found PROVE Cardinality(ahead(c)) < CycleCap BY <1>4
    <2>1. ~before(c, c)
      <3>1. c \in Seq(Nat) BY <1>5 DEF CyclesUpTo, IsCycle, IsPath
      <3> QED BY <3>1
    <2> HIDE DEF before
    <2>2. ahead(c) \in SUBSET found /\ c \notin ahead(c) BY <2>1
    <2> HIDE DEF ahead
    <2>3. ahead(c) # found BY <2>2
    <2>4. /\ IsFiniteSet(ahead(c)) /\ Cardinality(ahead(c)) <= Cardinality(found)
          /\ Cardinality(ahead(c)) # Cardinality(found)
      BY <1>3, <2>2, <2>3, FS_Subset
    <2>5. Cardinality(ahead(c)) \in Nat /\ Cardinality(found) \in Nat
      BY <1>3, <2>4, FS_CardinalityType
    <2>6. ~(Cardinality(found) > CycleCap)
      <3> DEFINE many == Cardinality(found) > CycleCap
      <3>1. a.truncated = many BY <1>4
      <3> HIDE DEF many
      <3>2. ~many BY <1>6, <3>1
      <3> QED BY <3>2 DEF many
    <2> QED BY <2>4, <2>5, <2>6
  <1>7. ~a.truncated => /\ {T!Steps(c) : c \in a.cycles} = T!SimpleCycles(dep, n)
                        /\ Cardinality(a.cycles) = Cardinality(T!SimpleCycles(dep, n))
    BY <1>3, <1>6
  <1> QED BY <1>7 DEF T!CyclesOnce, a, dep, n, T!Cardinality, Cardinality

-----------------------------------------------------------------------------
(* Embeddings.                                                             *)

\* The log, the pipeline and the client agree on every setting.
THEOREM EverySettingAgrees ==
    ASSUME \A requested, provider, model, baseURL, dimension, error :
               None # [requested |-> requested, provider |-> provider, model |-> model,
                       baseURL |-> baseURL, dimension |-> dimension, error |-> error]
    PROVE  \A skip, s : Em!SettingsAgree(skip, s)
  <1> SUFFICES ASSUME NEW skip, NEW s PROVE Em!SettingsAgree(skip, s) OBVIOUS
  <1> DEFINE r == Em!ResolveProvider(s)
             requested == IF s.requested = "" THEN "auto" ELSE s.requested
             provider == CASE requested # "auto" -> requested
                           [] requested = "auto" /\ s.voyageKey -> "voyage"
                           [] requested = "auto" /\ ~s.voyageKey ->
                                  IF s.baseURL # "" THEN "openai" ELSE "off"
             off(error) == Em!Off(requested, error)
             voyage == [off(FALSE) EXCEPT !.provider = "voyage",
                          !.model = IF s.voyageModel = "" THEN "built in" ELSE s.voyageModel]
             openai == [off(FALSE) EXCEPT !.provider = "openai", !.model = s.model,
                          !.baseURL = IF s.baseURL = "" THEN "api.openai.com" ELSE s.baseURL,
                          !.dimension = IF s.dimension = "set" THEN Width(s.model) ELSE 0]
  <1>1. provider = requested \/ requested = "auto" OBVIOUS
  <1>2. \A error : /\ off(error).provider = "off" /\ off(error).model = ""
                   /\ off(error).baseURL = "" /\ off(error).dimension = 0
    BY DEF Em!Off
  <1>3. voyage.provider = "voyage" /\ voyage.requested = requested /\ voyage.model # "" BY DEF Em!Off
  <1>4. openai.provider = "openai" /\ openai.requested = requested /\ openai.model = s.model
    BY DEF Em!Off
  <1>5. openai.baseURL # "" BY DEF Em!Off
  <1>n. voyage # None /\ openai # None
    <2> DEFINE m == IF s.voyageModel = "" THEN "built in" ELSE s.voyageModel
               u == IF s.baseURL = "" THEN "api.openai.com" ELSE s.baseURL
               w == IF s.dimension = "set" THEN Width(s.model) ELSE 0
               o == off(FALSE)
    <2>1. o = [requested |-> requested, provider |-> "off", model |-> "", baseURL |-> "",
               dimension |-> 0, error |-> FALSE]
      BY DEF Em!Off
    <2>2. /\ voyage = [o EXCEPT !.provider = "voyage", !.model = m]
          /\ openai = [o EXCEPT !.provider = "openai", !.model = s.model, !.baseURL = u, !.dimension = w]
      OBVIOUS
    <2> HIDE DEF voyage, openai, o, m, u, w, requested
    <2>3. voyage = [requested |-> requested, provider |-> "voyage", model |-> m, baseURL |-> "",
                    dimension |-> 0, error |-> FALSE]
      BY <2>1, <2>2
    <2>4. openai = [requested |-> requested, provider |-> "openai", model |-> s.model, baseURL |-> u,
                    dimension |-> w, error |-> FALSE]
      BY <2>1, <2>2
    <2> QED BY <2>3, <2>4
  <1>6. r = CASE provider = "off" -> off(FALSE)
              [] provider = "voyage" -> (IF ~s.voyageKey THEN off(TRUE) ELSE voyage)
              [] provider = "openai" ->
                   (IF s.model = "" \/ "bad" \in {s.baseURL, s.auth, s.dimension} THEN off(TRUE) ELSE openai)
              [] provider \notin {"off", "voyage", "openai"} -> off(TRUE)
    BY DEF Em!ResolveProvider
  <1> HIDE DEF r, off, voyage, openai, provider
  <1>7. \/ r = off(FALSE) \/ r = off(TRUE)
        \/ r = voyage /\ provider = "voyage"
        \/ r = openai /\ provider = "openai" /\ s.model # ""
    BY <1>6
  <1>8. \/ r.provider = "off" /\ r.model = "" /\ r.baseURL = "" /\ r.dimension = 0
        \/ /\ r.provider = "voyage" /\ r.requested \in {"auto", "voyage"} /\ r.model # "" /\ r # None
        \/ /\ r.provider = "openai" /\ r.requested \in {"auto", "openai"} /\ r.model # ""
           /\ r.baseURL # "" /\ r # None
    BY <1>1, <1>2, <1>3, <1>4, <1>5, <1>7, <1>n
  <1>9. r.provider = "off" <=> Em!FromResolution(r) = None
    BY <1>8 DEF Em!FromResolution, Em!NewOpenAI
  <1>10. Em!PassRuns(skip, s) <=> skip # "1" /\ r.provider # "off"
    BY <1>9 DEF Em!PassRuns, Em!embeddingMode, r
  <1> QED BY <1>8, <1>9, <1>10 DEF Em!SettingsAgree, r

\* One item for a text, which has the vector that is taken for it.
OneEach(data, want, i) ==
    \E k \in 1..want : /\ data[k].index = i - 1
                       /\ \A j \in 1..want : data[j].index = i - 1 => j = k
                       /\ Em!VectorAt(data, i) = data[k].vec

\* An answer that an OpenAI client takes has one vector for each of its texts.
LEMMA AcceptedIsWhole ==
    ASSUME NEW c, NEW want \in Nat \ {0}, NEW items, NEW data \in Seq(items), Em!Accepted(c, data, want),
           NEW i \in 1..want
    PROVE  OneEach(data, want, i)
  <1> DEFINE index == [k \in 1..want |-> data[k].index]
             I == {k \in 1..want : data[k].index = i - 1}
  <1>1. Len(data) = want /\ {data[k].index : k \in 1..want} = 0..(want - 1) BY DEF Em!Accepted
  <1>2. index \in Surjection(1..want, 0..(want - 1)) BY <1>1 DEF Surjection
  <1>3. index \in Injection(1..want, 0..(want - 1))
    <2>1. IsFiniteSet(1..want) /\ Cardinality(1..want) = want
          /\ IsFiniteSet(0..(want - 1)) /\ Cardinality(0..(want - 1)) = want
      <3>1. (want - 1) - 0 + 1 = want OBVIOUS
      <3> QED BY <3>1, FS_Interval
    <2> HIDE DEF index
    <2> QED BY <1>2, <2>1, FS_SurjSameCardinalityImpliesInj
  <1>4. PICK k \in 1..want : data[k].index = i - 1
    <2>1. i - 1 \in 0..(want - 1) OBVIOUS
    <2> QED BY <1>1, <2>1
  <1>5. \A j \in 1..want : data[j].index = i - 1 => j = k
    <2> TAKE j \in 1..want
    <2> HAVE data[j].index = i - 1
    <2>1. index[j] = index[k] BY <1>4
    <2> HIDE DEF index
    <2> QED BY <1>3, <2>1 DEF Injection, IsInjective
  <1>6. Em!VectorAt(data, i) = data[k].vec
    <2>1. I = {k} BY <1>4, <1>5
    <2>2. Em!VectorAt(data, i) = LET m == IF I # {} THEN T!Max(I) ELSE 0
                                 IN  IF m = 0 THEN [of |-> None, width |-> 0] ELSE data[m].vec
      BY <1>1 DEF Em!VectorAt, Em!SelectLastInSeq, Em!Max, T!Max
    <2>3. T!Max({k}) = k BY DEF T!Max
    <2> HIDE DEF I
    <2> QED BY <2>1, <2>2, <2>3
  <1> QED BY <1>4, <1>5, <1>6 DEF OneEach

\* The replies of a server, and the vectors they hold of texts of S.
Replies == {"busy", "refused", "right", "reversed", "missing", "twice", "narrow"}
Spoilt == {"missing", "twice", "narrow"}
Vectors(S, c) == [of : S, width : {Width(c.model), 1}]
ServedItems(S, c) == [index : Int, vec : Vectors(S, c)]

\* Where an item is the only one for its text, its vector is taken.
LEMMA TheOnlyOne ==
    ASSUME NEW items, NEW data \in Seq(items), NEW i, NEW k \in 1..Len(data), data[k].index = i - 1,
           \A j \in 1..Len(data) : data[j].index = i - 1 => j = k
    PROVE  Em!VectorAt(data, i) = data[k].vec
  <1> DEFINE I == {j \in 1..Len(data) : data[j].index = i - 1}
  <1>1. I = {k} OBVIOUS
  <1>2. Em!VectorAt(data, i) = LET m == IF I # {} THEN T!Max(I) ELSE 0
                               IN  IF m = 0 THEN [of |-> None, width |-> 0] ELSE data[m].vec
    BY DEF Em!VectorAt, Em!SelectLastInSeq, Em!Max, T!Max
  <1>3. T!Max({k}) = k BY DEF T!Max
  <1> HIDE DEF I
  <1> QED BY <1>1, <1>2, <1>3

AsServed(data, n, S, c, texts, reply) ==
    /\ data \in Seq(ServedItems(S, c))
    /\ \/ \A k \in 1..Len(data) :
             data[k].index + 1 \in 1..n /\ data[k].vec.of = texts[data[k].index + 1]
       \/ reply = "twice" /\ n > 1 /\ \A k \in 1..Len(data) : data[k].index # n - 1
    /\ reply = "right" => Len(data) = n /\ \A k \in 1..n : data[k].index = k - 1
    /\ reply = "reversed" => Len(data) = n /\ \A k \in 1..n : data[k].index = n - k

\* What a server answers is of the texts that it was asked for, but where a
\* text has two vectors, and then another has none.
LEMMA ServedIsOfTexts ==
    ASSUME NEW S, NEW texts \in Seq(S), Len(texts) > 0, NEW c,
           NEW reply \in Replies \ {"busy", "refused"}
    PROVE  AsServed(Em!Served(c.model, texts, reply), Len(texts), S, c, texts, reply)
  <1> DEFINE n == Len(texts)
             Vs == ServedItems(S, c)
             item(i) == [index |-> i - 1, vec |-> [of |-> texts[i], width |-> Width(c.model)]]
             right == [i \in 1..n |-> item(i)]
             data == Em!Served(c.model, texts, reply)
             good(d) == \A k \in 1..Len(d) : d[k].index + 1 \in 1..n /\ d[k].vec.of = texts[d[k].index + 1]
  <1>1. n \in Nat \ {0} OBVIOUS
  <1>2. \A i \in 1..n : /\ item(i) \in Vs /\ item(i).index = i - 1 /\ item(i).vec.of = texts[i]
                        /\ item(i).vec \in Vectors(S, c)
    BY DEF ServedItems, Vectors
  <1>3. right \in Seq(Vs) /\ Len(right) = n /\ \A i \in 1..n : right[i] = item(i)
    <2> HIDE DEF Vs, item
    <2> QED BY <1>1, <1>2
  <1> HIDE DEF right, Vs
  <1>a. \A i \in 1..n : right[i].index = i - 1 /\ right[i].vec.of = texts[i] /\ right[i] \in Vs
    BY <1>2, <1>3 DEF Vs
  <1>4. good(right)
    <2> TAKE k \in 1..Len(right)
    <2>1. k \in 1..n /\ k \in Int BY <1>1, <1>3
    <2>2. right[k].index + 1 = k BY <1>a, <2>1
    <2> QED BY <1>a, <2>1, <2>2
  <1>5. CASE reply = "right"
    <2>1. data = right BY <1>5 DEF Em!Served, right
    <2> QED BY <1>2, <1>3, <1>4, <1>5, <2>1 DEF Vs, AsServed
  <1>6. CASE reply = "reversed"
    <2>1. data = Em!Reverse(right) BY <1>6 DEF Em!Served, right
    <2>2. data = [k \in 1..n |-> right[n - k + 1]] BY <1>3, <2>1 DEF Em!Reverse
    <2> HIDE DEF data, item, n
    <2>3. data \in Seq(Vs) /\ Len(data) = n BY <1>1, <1>3, <2>2
    <2>4. \A k \in 1..n : n - k + 1 \in 1..n /\ data[k] = item(n - k + 1) BY <1>1, <1>3, <2>2
    <2>5. ASSUME NEW k \in 1..n PROVE data[k].index = n - k /\ data[k].vec.of = texts[n - k + 1]
      <3> DEFINE m == n - k + 1
      <3>1. m \in 1..n /\ m - 1 = n - k BY <1>1
      <3>2. data[k] = item(m) BY <2>4
      <3> HIDE DEF m
      <3>3. data[k].index = m - 1 /\ data[k].vec.of = texts[m] BY <1>2, <3>1, <3>2
      <3> QED BY <3>1, <3>3 DEF m
    <2>6. good(data)
      <3> TAKE k \in 1..Len(data)
      <3>1. k \in 1..n /\ n - k + 1 \in 1..n BY <1>1, <2>3
      <3>2. data[k].index + 1 = n - k + 1 BY <1>1, <2>5, <3>1
      <3> QED BY <2>5, <3>1, <3>2
    <2> QED BY <1>6, <2>3, <2>5, <2>6 DEF Vs, data, n, AsServed
  <1>7. CASE reply = "missing"
    <2>1. data = Tail(right) BY <1>7 DEF Em!Served, right
    <2> HIDE DEF data, item, n
    <2>2. data \in Seq(Vs) /\ Len(data) = n - 1 /\ \A k \in 1..(n - 1) : data[k] = right[k + 1]
      BY <1>1, <1>3, <2>1
    <2>3. good(data) BY <1>1, <1>3, <1>4, <2>2
    <2> QED BY <1>7, <2>2, <2>3 DEF Vs, data, n, AsServed
  <1>8. CASE reply = "twice"
    <2>1. data = [right EXCEPT ![n].index = 0] BY <1>8 DEF Em!Served, right
    <2>2. data = [right EXCEPT ![n] = [right[n] EXCEPT !.index = 0]] BY <2>1
    <2> DEFINE l == [right[n] EXCEPT !.index = 0]
    <2>3. l \in Vs /\ l.index = 0 /\ l.vec.of = texts[n]
      <3>1. right[n] = item(n) /\ n \in 1..n BY <1>1, <1>3
      <3>2. l = [index |-> 0, vec |-> item(n).vec] BY <3>1
      <3> HIDE DEF l, item
      <3> QED BY <1>2, <3>1, <3>2 DEF Vs, ServedItems
    <2>b. data = [right EXCEPT ![n] = l] BY <2>2
    <2> HIDE DEF data, item, n, l
    <2>4. data \in Seq(Vs) /\ Len(data) = n /\ data[n] = l /\ \A k \in 1..(n - 1) : data[k] = right[k]
      BY <1>1, <1>3, <2>b, <2>3
    <2>5. CASE n = 1
      <3>1. \A k \in 1..1 : k = 1 OBVIOUS
      <3>2. good(data)
        <4> TAKE k \in 1..Len(data)
        <4>1. k = 1 BY <2>4, <2>5, <3>1
        <4>2. data[k] = l BY <2>4, <2>5, <4>1
        <4>3. data[k].index + 1 = 1 /\ data[k].vec.of = texts[1] BY <2>3, <2>5, <4>2
        <4> QED BY <2>5, <4>3
      <3> QED BY <1>8, <2>4, <3>2 DEF Vs, data, n, AsServed
    <2>6. CASE n > 1
      <3>1. ASSUME NEW k \in 1..n PROVE data[k].index # n - 1
        <4>1. CASE k = n
          <5>1. data[k].index = 0 BY <2>3, <2>4, <4>1
          <5> QED BY <1>1, <2>6, <5>1
        <4>2. CASE k # n
          <5>1. k \in 1..(n - 1) BY <1>1, <4>2
          <5>2. data[k].index = k - 1 BY <1>a, <1>1, <2>4, <5>1
          <5> QED BY <1>1, <5>1, <5>2
        <4> QED BY <4>1, <4>2
      <3> QED BY <1>8, <2>4, <2>6, <3>1 DEF Vs, data, n, AsServed
    <2> QED BY <1>1, <2>5, <2>6
  <1>9. CASE reply = "narrow"
    <2>1. data = [right EXCEPT ![n].vec.width = 1] BY <1>9 DEF Em!Served, right
    <2> DEFINE l == [right[n] EXCEPT !.vec = [right[n].vec EXCEPT !.width = 1]]
    <2>2. data = [right EXCEPT ![n] = l] BY <2>1
    <2>3. l \in Vs /\ l.index = n - 1 /\ l.vec.of = texts[n]
      <3>1. right[n] = item(n) /\ n \in 1..n BY <1>1, <1>3
      <3>2. l = [index |-> n - 1, vec |-> [of |-> texts[n], width |-> 1]] BY <3>1
      <3> HIDE DEF l
      <3> QED BY <1>1, <3>2 DEF Vs, ServedItems, Vectors
    <2> HIDE DEF data, item, n, l
    <2>4. data \in Seq(Vs) /\ Len(data) = n /\ data[n] = l /\ \A k \in 1..(n - 1) : data[k] = right[k]
      BY <1>1, <1>3, <2>2, <2>3
    <2>5. good(data)
      <3> TAKE k \in 1..Len(data)
      <3>1. CASE k = n BY <1>1, <2>3, <2>4, <3>1
      <3>2. CASE k # n
        <4>1. k \in 1..(n - 1) BY <1>1, <2>4, <3>2
        <4> QED BY <1>3, <1>4, <2>4, <4>1
      <3> QED BY <3>1, <3>2
    <2> QED BY <1>9, <2>4, <2>5 DEF Vs, data, n, AsServed
  <1> QED BY <1>5, <1>6, <1>7, <1>8, <1>9 DEF Replies

\* Products of natural numbers.
LEMMA Products ==
    ASSUME NEW B \in Nat \ {0}, NEW j \in Int, NEW k \in Int
    PROVE  /\ j * B \in Int /\ (j + 1) * B = j * B + B
           /\ j < k <=> j * B < k * B
           /\ j <= k => j * B <= k * B
           /\ j >= 0 => j * B >= 0
  <1>1. j * B \in Int /\ (j + 1) * B = j * B + B OBVIOUS
  <1>2. j >= 0 => j * B >= 0 OBVIOUS
  <1>3. (k - j) * B = k * B - j * B OBVIOUS
  <1>4. j <= k => j * B <= k * B
    <2> SUFFICES ASSUME j <= k PROVE j * B <= k * B OBVIOUS
    <2>1. (k - j) \in Nat OBVIOUS
    <2>2. \A m \in Nat : m * B >= 0 OBVIOUS
    <2>3. (k - j) * B >= 0 BY <2>1, <2>2
    <2> QED BY <1>3, <2>3
  <1>5. j < k => j * B < k * B
    <2> SUFFICES ASSUME j < k PROVE j * B < k * B OBVIOUS
    <2>1. (k - j) - 1 \in Nat OBVIOUS
    <2>2. \A m \in Nat : m * B >= 0 OBVIOUS
    <2>3. ((k - j) - 1) * B >= 0 BY <2>1, <2>2
    <2>4. ((k - j) - 1) * B = (k - j) * B - B OBVIOUS
    <2> QED BY <1>3, <2>3, <2>4
  <1>6. k <= j => k * B <= j * B
    <2> SUFFICES ASSUME k <= j PROVE k * B <= j * B OBVIOUS
    <2>1. (j - k) \in Nat OBVIOUS
    <2>2. \A m \in Nat : m * B >= 0 OBVIOUS
    <2>3. (j - k) * B >= 0 BY <2>1, <2>2
    <2>4. (j - k) * B = j * B - k * B OBVIOUS
    <2> QED BY <2>3, <2>4
  <1>7. j * B \in Int /\ k * B \in Int OBVIOUS
  <1>8. j < k <=> j * B < k * B
    <2>1. CASE j < k BY <1>5, <2>1
    <2>2. CASE k <= j BY <1>6, <1>7, <2>2
    <2> QED BY <2>1, <2>2
  <1> QED BY <1>1, <1>2, <1>4, <1>8

\* The quotient that is rounded up.
LEMMA Ceiling ==
    ASSUME NEW B \in Nat \ {0}, NEW L \in Nat, NEW q, q = (L + B - 1) \div B
    PROVE  q \in Nat /\ L <= q * B /\ q * B <= L + B - 1
  <1> DEFINE x == L + B - 1
             r == x % B
  <1>1. x \in Nat /\ B \in Nat /\ B > 0 OBVIOUS
  <1> HIDE DEF x
  <1>2. x = B * (x \div B) + r /\ r \in 0..(B - 1) /\ x \div B \in Int BY <1>1
  <1>3. q = x \div B BY DEF x
  <1>4. q * B = x - r /\ q \in Int
    <2>1. q \in Int /\ x = B * q + r BY <1>2, <1>3
    <2>2. B * q = q * B /\ B * q \in Int BY <2>1
    <2> HIDE DEF r
    <2> QED BY <1>1, <1>2, <2>1, <2>2
  <1>5. q >= 0
    <2> SUFFICES ASSUME q < 0 PROVE FALSE BY <1>4
    <2>1. q + 1 <= 0 BY <1>4
    <2>2. (q + 1) * B <= 0 * B BY <1>4, <2>1, Products
    <2>3. (q + 1) * B = q * B + B BY <1>4, Products
    <2> QED BY <1>1, <1>2, <1>4, <2>2, <2>3
  <1> QED BY <1>2, <1>4, <1>5 DEF x

\* A multiple leaves nothing.
LEMMA NoRest ==
    ASSUME NEW B \in Nat \ {0}, NEW j \in Nat
    PROVE  (j * B) % B = 0
  <1> DEFINE x == j * B
             q == x \div B
             r == x % B
  <1>1. x \in Nat
    <2>1. x \in Int /\ x >= 0 BY Products
    <2> QED BY <2>1
  <1> HIDE DEF x
  <1>2. x = B * q + r /\ r \in 0..(B - 1) /\ q \in Int BY <1>1
  <1> HIDE DEF q, r
  <1>3. /\ B * q = q * B /\ q * B \in Int /\ j * B \in Int
        /\ j * B = q * B + r /\ r \in Int /\ 0 <= r /\ r < B
    <2>1. B * q = q * B /\ q * B \in Int /\ j * B \in Int BY <1>2
    <2>2. j * B = q * B + r BY <1>2, <2>1 DEF x
    <2> QED BY <1>2, <2>1, <2>2
  <1>4. CASE q < j
    <2>1. (q + 1) * B <= j * B BY <1>2, <1>4, Products
    <2>2. (q + 1) * B = q * B + B BY <1>2, Products
    <2> QED BY <1>2, <1>3, <2>1, <2>2
  <1>5. CASE j < q
    <2>1. j * B < q * B BY <1>2, <1>5, Products
    <2> QED BY <1>3, <2>1
  <1>6. CASE j = q
    <2>1. r = 0 BY <1>3, <1>6
    <2> QED BY <2>1 DEF r, x
  <1> QED BY <1>2, <1>4, <1>5, <1>6
\* The texts' own vectors, in their order.
Whole(got, S, c, texts) ==
    /\ got.vecs \in Seq(Vectors(S, c)) /\ Len(got.vecs) = Len(texts)
    /\ \A i \in 1..Len(texts) : got.vecs[i].of = texts[i]

\* What a client makes of an answer is whole, or a failure.
LEMMA ParsedIsOfTexts ==
    ASSUME NEW S, NEW texts \in Seq(S), Len(texts) > 0, NEW c,
           NEW reply \in Replies \ {"busy", "refused"},
           c.provider = "openai" \/ (c.provider = "voyage" /\ reply \notin Spoilt)
    PROVE  LET got == Em!parse(c, Em!Served(c.model, texts, reply), Len(texts))
           IN  \/ got.error = "failed" /\ got.vecs = <<>>
               \/ got.error = "none" /\ Whole(got, S, c, texts)
  <1> DEFINE n == Len(texts)
             data == Em!Served(c.model, texts, reply)
             got == Em!parse(c, data, n)
  <1>1. n \in Nat \ {0} OBVIOUS
  <1>2. /\ data \in Seq(ServedItems(S, c))
        /\ \/ \A k \in 1..Len(data) :
                 data[k].index + 1 \in 1..n /\ data[k].vec.of = texts[data[k].index + 1]
           \/ reply = "twice" /\ n > 1 /\ \A k \in 1..Len(data) : data[k].index # n - 1
        /\ reply = "right" => Len(data) = n /\ \A k \in 1..n : data[k].index = k - 1
        /\ reply = "reversed" => Len(data) = n /\ \A k \in 1..n : data[k].index = n - k
    <2>1. AsServed(data, n, S, c, texts, reply) BY ServedIsOfTexts
    <2> HIDE DEF data, n
    <2> QED BY <2>1 DEF AsServed
  <1> DEFINE vecs == [i \in 1..n |-> Em!VectorAt(data, i)]
  <1> HIDE DEF data, n
  <1>3. ASSUME Len(data) = n,
               \A i \in 1..n : \E k \in 1..n : data[k].index = i - 1 /\ Em!VectorAt(data, i) = data[k].vec
        PROVE  \A g : g.vecs = vecs => Whole(g, S, c, texts)
    <2>1. ASSUME NEW i \in 1..n PROVE vecs[i] \in Vectors(S, c) /\ vecs[i].of = texts[i]
      <3>1. PICK k \in 1..n : data[k].index = i - 1 /\ Em!VectorAt(data, i) = data[k].vec BY <1>3
      <3>2. n - 1 \in 0..(n - 1) /\ n \in 1..n /\ n \in Int BY <1>1
      <3>3. \A j \in 1..n : data[j].index + 1 \in 1..n /\ data[j].vec.of = texts[data[j].index + 1]
        <4>1. PICK j \in 1..n : data[j].index = n - 1 BY <1>3, <3>2
        <4> QED BY <1>2, <1>3, <4>1
      <3>4. data[k].index + 1 = i BY <3>1
      <3>5. data[k].vec \in Vectors(S, c)
        <4>1. data[k] \in ServedItems(S, c) BY <1>2, <1>3
        <4> QED BY <4>1 DEF ServedItems
      <3>6. vecs[i] = data[k].vec BY <3>1
      <3> HIDE DEF vecs
      <3> QED BY <3>3, <3>4, <3>5, <3>6
    <2>2. vecs \in Seq(Vectors(S, c)) /\ Len(vecs) = n
      <3>1. \A i \in 1..n : Em!VectorAt(data, i) \in Vectors(S, c) BY <2>1
      <3> QED BY <1>1, <3>1
    <2> HIDE DEF vecs
    <2> QED BY <2>1, <2>2 DEF Whole, n
  <1>4. CASE c.provider = "openai"
    <2>1. CASE Em!Accepted(c, data, n)
      <3>1. got = [vecs |-> vecs, error |-> "none"] BY <1>4, <2>1 DEF Em!parse
      <3>2. Len(data) = n BY <2>1 DEF Em!Accepted
      <3>3. \A i \in 1..n : \E k \in 1..n : data[k].index = i - 1 /\ Em!VectorAt(data, i) = data[k].vec
        <4> TAKE i \in 1..n
        <4>1. \E k \in 1..n : /\ data[k].index = i - 1
                              /\ \A j \in 1..n : data[j].index = i - 1 => j = k
                              /\ Em!VectorAt(data, i) = data[k].vec
          <5>1. data \in Seq(ServedItems(S, c)) BY <1>2
          <5>2. OneEach(data, n, i) BY <1>1, <2>1, <5>1, AcceptedIsWhole
          <5> QED BY <5>2 DEF OneEach
        <4> QED BY <4>1
      <3>4. got.error = "none" /\ got.vecs = vecs BY <3>1
      <3> HIDE DEF got, vecs
      <3>5. Whole(got, S, c, texts) BY <1>3, <3>2, <3>3, <3>4
      <3> QED BY <3>4, <3>5 DEF got, n, data
    <2>2. CASE ~Em!Accepted(c, data, n)
      <3>1. got = [vecs |-> <<>>, error |-> "failed"] BY <1>4, <2>2 DEF Em!parse
      <3>2. got.error = "failed" /\ got.vecs = <<>> BY <3>1
      <3> HIDE DEF got
      <3> QED BY <3>2 DEF got, n, data
    <2> QED BY <2>1, <2>2
  <1>5. CASE c.provider = "voyage" /\ reply \notin Spoilt
    <2>1. reply \in {"right", "reversed"} BY <1>5 DEF Replies, Spoilt
    <2>2. Len(data) = n BY <1>2, <2>1
    <2>3. \A k \in 1..n : data[k].index = IF reply = "right" THEN k - 1 ELSE n - k BY <1>2, <2>1
    <2>4. \A k \in 1..n : ~(data[k].index >= n)
      <3> TAKE k \in 1..n
      <3>1. k \in Int /\ 1 <= k /\ k <= n BY <1>1
      <3>2. data[k].index = k - 1 \/ data[k].index = n - k BY <2>3
      <3> QED BY <1>1, <3>1, <3>2
    <2>5. ~\E k \in 1..Len(data) : data[k].index >= Len(data) BY <2>2, <2>4
    <2>6. got = [vecs |-> vecs, error |-> "none"] BY <1>5, <2>2, <2>5 DEF Em!parse
    <2>7. got.error = "none" /\ got.vecs = vecs BY <2>6
    <2>8. ASSUME NEW i \in 1..n
          PROVE  \E k \in 1..n : data[k].index = i - 1 /\ Em!VectorAt(data, i) = data[k].vec
      <3> DEFINE k == IF reply = "right" THEN i ELSE n - i + 1
      <3>1. k \in 1..n BY <1>1
      <3>2. data[k].index = i - 1 BY <1>1, <2>3, <3>1
      <3>3. \A j \in 1..n : data[j].index = i - 1 => j = k
        <4> TAKE j \in 1..n
        <4>1. CASE reply = "right" BY <1>1, <2>3, <4>1
        <4>2. CASE reply # "right" BY <1>1, <2>3, <4>2
        <4> QED BY <4>1, <4>2
      <3> HIDE DEF k
      <3>4. Em!VectorAt(data, i) = data[k].vec BY <1>2, <2>2, <3>1, <3>2, <3>3, TheOnlyOne
      <3> QED BY <3>1, <3>2, <3>4
    <2> HIDE DEF got, vecs
    <2>9. Whole(got, S, c, texts) BY <1>3, <2>2, <2>7, <2>8
    <2> QED BY <2>7, <2>9 DEF got, n, data
  <1> QED BY <1>4, <1>5

\* What one request brings is whole, or nothing; what is left of the script was
\* in it.
LEMMA AnsweredIsOfTexts ==
    ASSUME MaxAttempts \in Nat,
           NEW S, NEW texts \in Seq(S), Len(texts) > 0, NEW c, NEW A \in SUBSET Replies,
           c.provider = "openai" \/ (c.provider = "voyage" /\ A \cap Spoilt = {}),
           NEW script \in Seq(A)
    PROVE  LET one == Em!embedOnce(c, texts, script)
           IN  /\ one = [vecs |-> one.vecs, error |-> one.error, script |-> one.script]
               /\ one.script \in Seq(A)
               /\ \/ one.error \in {"failed", "cancelled"} /\ one.vecs = <<>>
                  \/ one.error = "none" /\ Whole(one, S, c, texts)
  <1> DEFINE asked == SubSeq(script, 1, IF Len(script) < MaxAttempts THEN Len(script) ELSE MaxAttempts)
             k == Em!SelectInSeq(asked, LAMBDA reply : reply # "busy")
             from == (IF k = 0 THEN Len(asked) ELSE k) + 1
             left == SubSeq(script, from, Len(script))
             came == IF k = 0 THEN [vecs |-> <<>>, error |-> IF Len(asked) < MaxAttempts THEN "cancelled" ELSE "failed"]
                     ELSE IF asked[k] = "refused" THEN [vecs |-> <<>>, error |-> "failed"]
                     ELSE Em!parse(c, Em!Served(c.model, texts, asked[k]), Len(texts))
             one == Em!embedOnce(c, texts, script)
  <1>1. one = [vecs |-> came.vecs, error |-> came.error, script |-> left] BY DEF Em!embedOnce
  <1>2. one.vecs = came.vecs /\ one.error = came.error /\ one.script = left
    <2> HIDE DEF came, left, one
    <2> QED BY <1>1
  <1>3. asked \in Seq(A) /\ Len(asked) \in Nat /\ Len(asked) <= Len(script)
    <2> DEFINE m == IF Len(script) < MaxAttempts THEN Len(script) ELSE MaxAttempts
    <2>1. m \in Nat /\ m <= Len(script) OBVIOUS
    <2> HIDE DEF m
    <2>2. \A i \in 1..m : script[i] \in A BY <2>1
    <2>3. 1 \in Int /\ m \in Int BY <2>1
    <2>4. SubSeq(script, 1, m) \in Seq(A) /\ Len(SubSeq(script, 1, m)) = IF 1 <= m THEN m - 1 + 1 ELSE 0
      BY <2>2, <2>3, SubSeqProperties
    <2> QED BY <2>1, <2>4 DEF m
  <1>4. k \in 0..Len(asked) /\ (k # 0 => asked[k] # "busy")
    <2> DEFINE I == {i \in 1..Len(asked) : asked[i] # "busy"}
    <2>1. k = IF I # {} THEN Em!Min(I) ELSE 0 BY DEF Em!SelectInSeq
    <2>2. ASSUME I # {} PROVE Em!Min(I) \in I
      <3>1. I \in SUBSET Nat BY <1>3
      <3> HIDE DEF I
      <3>2. \E i \in I : \A j \in I : i <= j BY <2>2, <3>1, LeastNat
      <3> QED BY <3>2 DEF Em!Min
    <2> HIDE DEF k
    <2>3. CASE I = {}
      <3>1. k = 0 BY <2>1, <2>3
      <3> QED BY <1>3, <3>1
    <2>4. CASE I # {}
      <3>1. k \in I BY <2>1, <2>2, <2>4
      <3> QED BY <1>3, <3>1
    <2> QED BY <2>3, <2>4
  <1> HIDE DEF asked, k
  <1>5. left \in Seq(A)
    <2>1. from \in Int /\ from >= 1 /\ Len(script) \in Int BY <1>3, <1>4
    <2> HIDE DEF from
    <2>2. \A i \in from..Len(script) : script[i] \in A BY <2>1
    <2> QED BY <2>1, <2>2, SubSeqProperties
  <1>r. one = [vecs |-> one.vecs, error |-> one.error, script |-> one.script]
    <2> HIDE DEF came, left, one
    <2> QED BY <1>1, <1>2
  <1> HIDE DEF one
  <1>6. CASE k = 0
    <2>1. came.vecs = <<>> /\ came.error \in {"failed", "cancelled"} BY <1>6
    <2> QED BY <1>r, <1>2, <1>5, <2>1 DEF one
  <1>7. CASE k # 0 /\ asked[k] = "refused"
    <2>1. came.vecs = <<>> /\ came.error = "failed" BY <1>7
    <2> QED BY <1>r, <1>2, <1>5, <2>1 DEF one
  <1>8. CASE k # 0 /\ asked[k] # "refused"
    <2> DEFINE reply == asked[k]
               got == Em!parse(c, Em!Served(c.model, texts, reply), Len(texts))
    <2>1. came = got BY <1>8
    <2>2. reply \in A /\ reply # "busy" /\ reply # "refused" BY <1>3, <1>4, <1>8
    <2> HIDE DEF reply
    <2>3. reply \in Replies \ {"busy", "refused"} BY <2>2
    <2>4. c.provider = "openai" \/ (c.provider = "voyage" /\ reply \notin Spoilt) BY <2>2
    <2>5. \/ got.error = "failed" /\ got.vecs = <<>>
          \/ got.error = "none" /\ Whole(got, S, c, texts)
      BY <2>3, <2>4, ParsedIsOfTexts
    <2> HIDE DEF got, came
    <2>6. \/ one.error = "failed" /\ one.vecs = <<>>
          \/ one.error = "none" /\ Whole(one, S, c, texts)
      BY <1>2, <2>1, <2>5 DEF Whole
    <2> QED BY <1>r, <1>2, <1>5, <2>6 DEF one
  <1> QED BY <1>6, <1>7, <1>8

\* Where the batches of L texts end.
Ends(b, L) == IF b * TextBatch < L THEN b * TextBatch ELSE L

\* A list of texts in n parts.
Cut(list, n, S, texts) ==
    LET L == Len(texts)
    IN  /\ n \in Nat /\ list \in Seq(Seq(S)) /\ Len(list) = n /\ DOMAIN list = 1..n
        /\ Ends(0, L) = 0 /\ Ends(n, L) = L
        /\ \A b \in 1..n :
              /\ Ends(b - 1, L) = (b - 1) * TextBatch /\ Ends(b - 1, L) < L
              /\ Len(list[b]) > 0 /\ Ends(b - 1, L) + Len(list[b]) = Ends(b, L)
              /\ Ends(b, L) <= L /\ Ends(b - 1, L) >= 0
              /\ \A i \in 1..Len(list[b]) : list[b][i] = texts[Ends(b - 1, L) + i]

\* The batches are the texts, each where the one before it ends.
LEMMA BatchesAreTexts ==
    ASSUME TextBatch \in Nat \ {0}, NEW S, NEW texts \in Seq(S), NEW n,
           n = (Len(texts) + TextBatch - 1) \div TextBatch
    PROVE  Cut(Em!Batches(texts), n, S, texts)
  <1> DEFINE L == Len(texts)
             B == TextBatch
             list == Em!Batches(texts)
  <1>1. L \in Nat /\ n \in Nat /\ L <= n * B /\ n * B <= L + B - 1
    <2>1. L \in Nat /\ n = (L + B - 1) \div B OBVIOUS
    <2> HIDE DEF L
    <2> QED BY <2>1, Ceiling
  <1>2. list = [b \in 1..n |-> SubSeq(texts, (b - 1) * B + 1, IF b * B < L THEN b * B ELSE L)]
    BY DEF Em!Batches
  <1> HIDE DEF list
  <1>3. Ends(0, L) = 0 /\ Ends(n, L) = L
    <2>1. 0 * B = 0 /\ n * B \in Int BY <1>1
    <2> HIDE DEF L
    <2> QED BY <1>1, <2>1 DEF Ends
  <1>4. ASSUME NEW b \in 1..n
        PROVE  /\ Ends(b - 1, L) = (b - 1) * TextBatch /\ Ends(b - 1, L) < L
               /\ list[b] \in Seq(S)
               /\ Len(list[b]) > 0 /\ Ends(b - 1, L) + Len(list[b]) = Ends(b, L)
               /\ Ends(b, L) <= L /\ Ends(b - 1, L) >= 0
               /\ \A i \in 1..Len(list[b]) : list[b][i] = texts[Ends(b - 1, L) + i]
    <2> DEFINE from == (b - 1) * B
               to == Ends(b, L)
    <2>1. b \in Int /\ b >= 1 /\ b <= n /\ n \in Int BY <1>1
    <2>2. from \in Int /\ from >= 0 /\ b * B = from + B
      <3>1. b - 1 \in Int /\ b - 1 >= 0 /\ (b - 1) + 1 = b BY <2>1
      <3> HIDE DEF from
      <3> QED BY <3>1, Products DEF from
    <2>3. from < L
      <3>1. b * B <= n * B BY <2>1, Products
      <3>2. n * B \in Int /\ b * B \in Int /\ B \in Int BY <2>1
      <3> HIDE DEF from, L
      <3> QED BY <1>1, <2>2, <3>1, <3>2
    <2>4. Ends(b - 1, L) = from
      <3> HIDE DEF L
      <3> QED BY <2>3 DEF Ends
    <2>5. to \in Int /\ from < to /\ to <= L
      <3> HIDE DEF L, from
      <3> QED BY <1>1, <2>2, <2>3 DEF Ends
    <2>6. list[b] = SubSeq(texts, from + 1, to) BY <1>2 DEF Ends
    <2> HIDE DEF from, to, L, B
    <2>7. \A i \in (from + 1)..to : texts[i] \in S
      <3> TAKE i \in (from + 1)..to
      <3>1. i \in 1..L BY <1>1, <2>2, <2>5
      <3> QED BY <3>1 DEF L
    <2>8. /\ list[b] \in Seq(S) /\ Len(list[b]) = to - (from + 1) + 1
          /\ \A i \in 1..(to - (from + 1) + 1) : list[b][i] = texts[from + 1 + i - 1]
      <3>1. from + 1 \in Int /\ to \in Int /\ from + 1 <= to BY <2>2, <2>5
      <3> QED BY <2>6, <2>7, <3>1, SubSeqProperties
    <2>9. to - (from + 1) + 1 = to - from /\ from + (to - from) = to BY <2>2, <2>5
    <2>10. \A i \in 1..(to - from) : list[b][i] = texts[from + i]
      <3> TAKE i \in 1..(to - from)
      <3>1. from + 1 + i - 1 = from + i BY <2>2
      <3> QED BY <2>8, <2>9, <3>1
    <2>11. to - from \in Nat /\ to - from > 0 BY <2>2, <2>5
    <2>12. Len(list[b]) = to - from BY <2>8, <2>9
    <2>13. \A i \in 1..Len(list[b]) : list[b][i] = texts[from + i] BY <2>10, <2>12
    <2>14. Ends(b - 1, L) = (b - 1) * TextBatch BY <2>4 DEF from, B
    <2>15. from + Len(list[b]) = to BY <2>9, <2>12
    <2> HIDE <2>10
    <2>16. from < L /\ Len(list[b]) > 0 /\ to <= L /\ from >= 0 BY <2>2, <2>3, <2>5, <2>11, <2>12
    <2>17. /\ Ends(b - 1, L) < L /\ list[b] \in Seq(S)
           /\ Len(list[b]) > 0 /\ Ends(b - 1, L) + Len(list[b]) = to
           /\ to <= L /\ Ends(b - 1, L) >= 0
           /\ \A i \in 1..Len(list[b]) : list[b][i] = texts[Ends(b - 1, L) + i]
      BY <2>4, <2>8, <2>13, <2>15, <2>16
    <2> QED BY <2>14, <2>17 DEF to
  <1>5. list \in Seq(Seq(S)) /\ Len(list) = n /\ DOMAIN list = 1..n
    <2>1. DOMAIN list = 1..n /\ list = [b \in 1..n |-> list[b]] BY <1>2
    <2>2. \A b \in 1..n : list[b] \in Seq(S) BY <1>4
    <2>3. list \in [1..n -> Seq(S)] BY <2>1, <2>2
    <2> HIDE DEF list
    <2> QED BY <1>1, <2>3
  <1> QED BY <1>1, <1>3, <1>4, <1>5 DEF list, Cut

\* One batch of a call, and what a call has so far.
Sent(c, batch, all) ==
    IF all.error # "none" THEN all
    ELSE LET one == Em!embedOnce(c, batch, all.script) IN [one EXCEPT !.vecs = all.vecs \o @]
Sofar(S, c, A) ==
    [vecs : Seq(Vectors(S, c)), error : {"none", "failed", "cancelled"}, script : Seq(A)]

\* After b batches the call has the vectors of their texts, or those of the
\* batches before the one that failed.
SofarInOrder(all, texts, b) ==
    /\ \A i \in 1..Len(all.vecs) : i <= Len(texts) /\ all.vecs[i].of = texts[i]
    /\ all.error = "none" => Len(all.vecs) = Ends(b, Len(texts))
    /\ all.error # "none" => \E j \in Nat : Len(all.vecs) = j * TextBatch /\ j * TextBatch < Len(texts)

\* What one sequence and then another has.
Joined(w, a, o, Vs) ==
    /\ w \in Seq(Vs) /\ Len(w) = Len(a) + Len(o)
    /\ \A i \in 1..Len(a) : w[i] = a[i]
    /\ \A i \in 1..Len(o) : w[Len(a) + i] = o[i]
LEMMA Appended ==
    ASSUME NEW Vs, NEW a \in Seq(Vs), NEW o \in Seq(Vs), NEW w, w = a \o o
    PROVE  Joined(w, a, o, Vs)
  <1>1. Len(a) \in Nat /\ Len(o) \in Nat OBVIOUS
  <1>2. w \in Seq(Vs) /\ Len(w) = Len(a) + Len(o) OBVIOUS
  <1>3. \A i \in 1..Len(a) : w[i] = a[i] OBVIOUS
  <1>4. \A i \in 1..Len(o) : w[Len(a) + i] = o[i]
    <2> TAKE i \in 1..Len(o)
    <2>1. Len(a) + i \in 1..(Len(a) + Len(o)) /\ ~(Len(a) + i <= Len(a)) /\ Len(a) + i - Len(a) = i
      BY <1>1
    <2> QED BY <2>1
  <1> QED BY <1>2, <1>3, <1>4 DEF Joined

\* What a call has after one batch more.
AfterOne(r, all, batch, S, c, A) ==
    /\ r \in Sofar(S, c, A)
    /\ all.error # "none" => r = all
    /\ all.error = "none" =>
          \/ r.error # "none" /\ r.vecs = all.vecs
          \/ /\ r.error = "none" /\ Len(r.vecs) = Len(all.vecs) + Len(batch)
             /\ \A i \in 1..Len(all.vecs) : r.vecs[i] = all.vecs[i]
             /\ \A i \in 1..Len(batch) : r.vecs[Len(all.vecs) + i].of = batch[i]

\* A batch that fails adds nothing, another its vectors at the end.
LEMMA SentOne ==
    ASSUME MaxAttempts \in Nat,
           NEW S, NEW batch \in Seq(S), Len(batch) > 0, NEW c, NEW A \in SUBSET Replies,
           c.provider = "openai" \/ (c.provider = "voyage" /\ A \cap Spoilt = {}),
           NEW all \in Sofar(S, c, A)
    PROVE  AfterOne(Sent(c, batch, all), all, batch, S, c, A)
  <1> DEFINE r == Sent(c, batch, all)
             one == Em!embedOnce(c, batch, all.script)
             Vs == Vectors(S, c)
  <1>0. all.vecs \in Seq(Vs) /\ all.script \in Seq(A) /\ Len(all.vecs) \in Nat BY DEF Sofar
  <1>1. /\ one = [vecs |-> one.vecs, error |-> one.error, script |-> one.script]
        /\ one.script \in Seq(A)
        /\ \/ one.error \in {"failed", "cancelled"} /\ one.vecs = <<>>
           \/ one.error = "none" /\ Whole(one, S, c, batch)
    BY <1>0, AnsweredIsOfTexts
  <1>2. CASE all.error # "none"
    <2>1. r = all BY <1>2 DEF Sent
    <2> QED BY <1>2, <2>1 DEF AfterOne
  <1>3. CASE all.error = "none"
    <2>1. r = [one EXCEPT !.vecs = all.vecs \o @] BY <1>3 DEF Sent
    <2> HIDE DEF one, r, Vs
    <2>2. /\ r = [vecs |-> all.vecs \o one.vecs, error |-> one.error, script |-> one.script]
          /\ r.vecs = all.vecs \o one.vecs /\ r.error = one.error
      BY <1>1, <2>1
    <2>3. CASE one.error \in {"failed", "cancelled"} /\ one.vecs = <<>>
      <3>1. all.vecs \o <<>> = all.vecs BY <1>0
      <3>2. r.vecs = all.vecs BY <2>2, <2>3, <3>1
      <3>3. r \in Sofar(S, c, A) BY <1>0, <1>1, <2>2, <2>3, <3>1 DEF Sofar, Vs
      <3> QED BY <1>3, <2>2, <2>3, <3>2, <3>3 DEF r, AfterOne
    <2>4. CASE one.error = "none" /\ Whole(one, S, c, batch)
      <3>1. /\ one.vecs \in Seq(Vs) /\ Len(one.vecs) = Len(batch)
            /\ \A i \in 1..Len(batch) : one.vecs[i].of = batch[i]
        BY <2>4 DEF Whole, Vs
      <3>j. Joined(r.vecs, all.vecs, one.vecs, Vs)
        <4> DEFINE a == all.vecs
                   o == one.vecs
                   w == r.vecs
        <4>1. a \in Seq(Vs) /\ o \in Seq(Vs) /\ w = a \o o BY <1>0, <2>2, <3>1
        <4> HIDE DEF a, o, w
        <4>2. Joined(w, a, o, Vs) BY <4>1, Appended
        <4> QED BY <4>2 DEF a, o, w
      <3>2. /\ r.vecs \in Seq(Vs) /\ Len(r.vecs) = Len(all.vecs) + Len(batch)
            /\ \A i \in 1..Len(all.vecs) : r.vecs[i] = all.vecs[i]
        BY <3>1, <3>j DEF Joined
      <3>3. \A i \in 1..Len(batch) : r.vecs[Len(all.vecs) + i].of = batch[i]
        <4> TAKE i \in 1..Len(batch)
        <4>1. i \in 1..Len(one.vecs) BY <3>1
        <4>2. r.vecs[Len(all.vecs) + i] = one.vecs[i] BY <3>j, <4>1 DEF Joined
        <4> QED BY <3>1, <4>2
      <3>4. r \in Sofar(S, c, A) BY <1>1, <2>2, <2>4, <3>2 DEF Sofar, Vs
      <3> QED BY <1>3, <2>2, <2>4, <3>2, <3>3, <3>4 DEF r, AfterOne
    <2> QED BY <1>1, <2>3, <2>4
  <1> QED BY <1>2, <1>3

\* A batch after the ones before it.
LEMMA SentInOrder ==
    ASSUME TextBatch \in Nat \ {0}, MaxAttempts \in Nat,
           NEW S, NEW texts \in Seq(S), NEW c, NEW A \in SUBSET Replies,
           c.provider = "openai" \/ (c.provider = "voyage" /\ A \cap Spoilt = {}),
           NEW n, n = (Len(texts) + TextBatch - 1) \div TextBatch, NEW b \in 1..n,
           NEW all \in Sofar(S, c, A), SofarInOrder(all, texts, b - 1)
    PROVE  LET r == Sent(c, Em!Batches(texts)[b], all)
           IN  r \in Sofar(S, c, A) /\ SofarInOrder(r, texts, b)
  <1> DEFINE list == Em!Batches(texts)
             batch == list[b]
             L == Len(texts)
             r == Sent(c, batch, all)
  <1>1. /\ n \in Nat /\ list \in Seq(Seq(S)) /\ DOMAIN list = 1..n
        /\ Ends(b - 1, L) = (b - 1) * TextBatch /\ Ends(b - 1, L) < L
        /\ Len(batch) > 0 /\ Ends(b - 1, L) + Len(batch) = Ends(b, L)
        /\ Ends(b, L) <= L /\ Ends(b - 1, L) >= 0
        /\ \A i \in 1..Len(batch) : batch[i] = texts[Ends(b - 1, L) + i]
    <2>1. Cut(list, n, S, texts) BY BatchesAreTexts
    <2> HIDE DEF list
    <2> QED BY <2>1 DEF Cut
  <1>2. batch \in Seq(S)
    <2>1. \A k \in 1..n : list[k] \in Seq(S)
      <3> HIDE DEF list
      <3> QED BY <1>1
    <2> HIDE DEF list
    <2> QED BY <2>1
  <1> HIDE DEF batch
  <1>3. /\ r \in Sofar(S, c, A)
        /\ all.error # "none" => r = all
        /\ all.error = "none" =>
              \/ r.error # "none" /\ r.vecs = all.vecs
              \/ /\ r.error = "none" /\ Len(r.vecs) = Len(all.vecs) + Len(batch)
                 /\ \A i \in 1..Len(all.vecs) : r.vecs[i] = all.vecs[i]
                 /\ \A i \in 1..Len(batch) : r.vecs[Len(all.vecs) + i].of = batch[i]
    <2>1. AfterOne(r, all, batch, S, c, A) BY <1>1, <1>2, SentOne
    <2> HIDE DEF r
    <2> QED BY <2>1 DEF AfterOne
  <1> HIDE DEF r
  <1>4. SofarInOrder(r, texts, b)
    <2>1. CASE all.error # "none" BY <1>3, <2>1 DEF SofarInOrder
    <2>2. CASE all.error = "none" /\ r.error # "none" /\ r.vecs = all.vecs
      <3>1. Len(r.vecs) = (b - 1) * TextBatch /\ (b - 1) * TextBatch < L BY <1>1, <2>2 DEF SofarInOrder
      <3>2. b - 1 \in Nat BY <1>1
      <3>3. \A i \in 1..Len(r.vecs) : i <= L /\ r.vecs[i].of = texts[i] BY <2>2 DEF SofarInOrder
      <3> QED BY <2>2, <3>1, <3>2, <3>3 DEF SofarInOrder
    <2>3. CASE /\ all.error = "none" /\ r.error = "none" /\ Len(r.vecs) = Len(all.vecs) + Len(batch)
               /\ \A i \in 1..Len(all.vecs) : r.vecs[i] = all.vecs[i]
               /\ \A i \in 1..Len(batch) : r.vecs[Len(all.vecs) + i].of = batch[i]
      <3> DEFINE m == Len(all.vecs)
                 l == Len(batch)
      <3>1. m = Ends(b - 1, L) BY <2>3 DEF SofarInOrder
      <3>2. m \in Nat /\ l \in Nat /\ m + l = Ends(b, L) /\ m + l <= L /\ L \in Nat
        <4>1. m \in Nat BY DEF Sofar
        <4>2. l \in Nat /\ L \in Nat BY <1>2
        <4> HIDE DEF m, l, L
        <4> QED BY <1>1, <3>1, <4>1, <4>2 DEF l
      <3>3. Len(r.vecs) = m + l BY <2>3
      <3> HIDE DEF m, l, L
      <3>4. ASSUME NEW i \in 1..(m + l) PROVE i <= L /\ r.vecs[i].of = texts[i]
        <4>1. i <= L BY <3>2
        <4>2. CASE i <= m
          <5>1. i \in 1..m BY <3>2, <4>2
          <5>2. all.vecs[i].of = texts[i] BY <5>1 DEF SofarInOrder, m
          <5>3. r.vecs[i] = all.vecs[i] BY <2>3, <5>1 DEF m
          <5> QED BY <4>1, <5>2, <5>3
        <4>3. CASE ~(i <= m)
          <5> DEFINE k == i - m
          <5>1. k \in 1..l /\ m + k = i BY <3>2, <4>3
          <5> HIDE DEF k
          <5>2. r.vecs[m + k].of = batch[k] BY <2>3, <5>1 DEF m, l
          <5>3. batch[k] = texts[m + k] BY <1>1, <3>1, <5>1 DEF l
          <5> QED BY <4>1, <5>1, <5>2, <5>3
        <4> QED BY <4>2, <4>3
      <3> QED BY <2>3, <3>2, <3>3, <3>4 DEF SofarInOrder, L
    <2> QED BY <1>3, <2>1, <2>2, <2>3
  <1> QED BY <1>3, <1>4 DEF r, batch

\* A reply that is no answer as it should be, and where a script has one.
Fault(reply) == reply \notin {"right", "reversed"}
FaultsIn(s) == {k \in 1..Len(s) : Fault(s[k])}

\* The rest of a script has the faults that were not met yet.
LEMMA FaultsLeft ==
    ASSUME NEW A, NEW s \in Seq(A), NEW x \in 0..Len(s), NEW t, t = SubSeq(s, x + 1, Len(s))
    PROVE  /\ Em!Faults(s) \in Nat /\ Em!Faults(t) \in Nat /\ Em!Faults(t) <= Em!Faults(s)
           /\ (\E k \in 1..x : Fault(s[k])) => Em!Faults(t) < Em!Faults(s)
  <1> DEFINE n == Len(s)
             X == FaultsIn(s)
             Y == FaultsIn(t)
             g == [k \in Y |-> k + x]
  <1>1. n \in Nat /\ x \in 0..n OBVIOUS
  <1>2. t \in Seq(A) /\ Len(t) = n - x /\ \A k \in 1..(n - x) : t[k] = s[k + x]
    <2>1. \A k \in (x + 1)..n : s[k] \in A BY <1>1
    <2>2. x + 1 \in Int /\ n \in Int BY <1>1
    <2>3. /\ t \in Seq(A) /\ Len(t) = IF x + 1 <= n THEN n - (x + 1) + 1 ELSE 0
          /\ \A k \in 1..(n - (x + 1) + 1) : t[k] = s[x + 1 + k - 1]
      BY <2>1, <2>2, SubSeqProperties
    <2>4. n - (x + 1) + 1 = n - x /\ (~(x + 1 <= n) => n - x = 0) BY <1>1
    <2>5. \A k \in 1..(n - x) : x + 1 + k - 1 = k + x BY <1>1
    <2> QED BY <2>3, <2>4, <2>5
  <1>3. Em!Faults(s) = Cardinality(X) /\ Em!Faults(t) = Cardinality(Y)
    <2>1. DOMAIN s = 1..Len(s) /\ DOMAIN t = 1..Len(t) BY <1>2
    <2> QED BY <2>1 DEF Em!Faults, FaultsIn, Fault, Em!Cardinality, Cardinality
  <1>4. IsFiniteSet(X) /\ Cardinality(X) \in Nat
    <2>1. X \in SUBSET (1..n) /\ IsFiniteSet(1..n) BY <1>1, FS_Interval DEF FaultsIn
    <2> HIDE DEF X
    <2> QED BY <2>1, FS_Subset, FS_CardinalityType
  <1>5. ASSUME NEW k \in Y PROVE k \in Nat /\ k + x \in X /\ k + x > x
    <2>1. k \in 1..(n - x) /\ Fault(t[k]) BY <1>2 DEF FaultsIn
    <2>2. k + x \in 1..n /\ t[k] = s[k + x] BY <1>1, <1>2, <2>1
    <2> QED BY <1>1, <2>1, <2>2 DEF FaultsIn
  <1>6. g \in Injection(Y, X)
    <2>1. g \in [Y -> X] BY <1>5
    <2>2. \A i, j \in Y : g[i] = g[j] => i = j BY <1>1, <1>5
    <2> HIDE DEF X, Y, g
    <2> QED BY <2>1, <2>2 DEF Injection, IsInjective
  <1>7. /\ IsFiniteSet(Y) /\ Cardinality(Y) <= Cardinality(X)
        /\ Cardinality(Y) = Cardinality(X) <=> g \in Surjection(Y, X)
    <2> HIDE DEF X, Y, g
    <2> QED BY <1>4, <1>6, FS_Injection
  <1>8. Cardinality(Y) \in Nat BY <1>7, FS_CardinalityType
  <1>9. ASSUME NEW k \in 1..x, Fault(s[k]) PROVE Cardinality(Y) # Cardinality(X)
    <2>1. k \in X BY <1>1, <1>9 DEF FaultsIn
    <2>2. \A i \in Y : g[i] # k BY <1>1, <1>5
    <2>3. g \notin Surjection(Y, X)
      <3> HIDE DEF X, Y, g
      <3> QED BY <2>1, <2>2 DEF Surjection
    <2> QED BY <1>7, <2>3
  <1> HIDE DEF X, Y, g
  <1> QED BY <1>3, <1>4, <1>7, <1>8, <1>9

\* A client whose width, if it has one, is that of its model.
Configured(c) == c.provider \in {"openai", "voyage"} /\ c.dimension \in {0, Width(c.model)}

\* It takes an answer that is as it should be.
LEMMA RightIsTaken ==
    ASSUME NEW S, NEW texts \in Seq(S), Len(texts) > 0, NEW c, Configured(c), NEW reply, ~Fault(reply)
    PROVE  Em!parse(c, Em!Served(c.model, texts, reply), Len(texts)).error = "none"
  <1> DEFINE n == Len(texts)
             data == Em!Served(c.model, texts, reply)
             item(i) == [index |-> i - 1, vec |-> [of |-> texts[i], width |-> Width(c.model)]]
             right == [i \in 1..n |-> item(i)]
             got == Em!parse(c, data, n)
             at(k) == IF reply = "right" THEN k ELSE n - k + 1
             w == Width(c.model)
  <1>1. n \in Nat \ {0} /\ reply \in {"right", "reversed"} BY DEF Fault
  <1>2. /\ Len(data) = n
        /\ \A k \in 1..n : at(k) \in 1..n /\ data[k] = item(at(k))
    <2>1. right \in Seq({item(i) : i \in 1..n}) /\ Len(right) = n /\ \A i \in 1..n : right[i] = item(i)
      <3>1. \A i \in 1..n : item(i) \in {item(j) : j \in 1..n} OBVIOUS
      <3> HIDE DEF item
      <3> QED BY <1>1, <3>1
    <2>2. CASE reply = "right"
      <3>1. data = right BY <2>2 DEF Em!Served, right
      <3> QED BY <1>1, <2>1, <2>2, <3>1
    <2>3. CASE reply = "reversed"
      <3>1. data = Em!Reverse(right) BY <2>3 DEF Em!Served, right
      <3>2. data = [k \in 1..n |-> right[n - k + 1]] BY <2>1, <3>1 DEF Em!Reverse
      <3> HIDE DEF data, right, item, n
      <3>3. \A k \in 1..n : n - k + 1 \in 1..n BY <1>1
      <3>4. Len(data) = n BY <1>1, <3>2
      <3> QED BY <1>1, <2>1, <2>3, <3>2, <3>3, <3>4
    <2> QED BY <1>1, <2>2, <2>3
  <1> HIDE DEF data
  <1>3. \A k \in 1..n : data[k].index = at(k) - 1 /\ data[k].vec.width = w
    <2> TAKE k \in 1..n
    <2> DEFINE m == at(k)
    <2>1. data[k] = item(m) BY <1>2
    <2> HIDE DEF m
    <2> QED BY <2>1 DEF m
  <1> HIDE DEF right
  <1>4. CASE c.provider = "openai"
    <2>1. {data[k].index : k \in 1..n} = 0..(n - 1)
      <3>1. ASSUME NEW k \in 1..n PROVE data[k].index \in 0..(n - 1)
        <4>1. at(k) \in 1..n BY <1>2
        <4> HIDE DEF at
        <4> QED BY <1>1, <1>3, <4>1
      <3>2. ASSUME NEW i \in 0..(n - 1) PROVE \E k \in 1..n : data[k].index = i
        <4>1. at(i + 1) \in 1..n /\ at(at(i + 1)) = i + 1 BY <1>1
        <4>2. data[at(i + 1)].index = at(at(i + 1)) - 1 BY <1>3, <4>1
        <4> HIDE DEF at
        <4> QED BY <4>1, <4>2
      <3> QED BY <3>1, <3>2
    <2>2. PICK z \in 1..n : data[z].index = 0
      <3>1. 0 \in 0..(n - 1) BY <1>1
      <3> QED BY <2>1, <3>1
    <2> DEFINE first == CHOOSE k \in 1..n : data[k].index = 0
               width == IF c.dimension > 0 THEN c.dimension ELSE data[first].vec.width
    <2>3. first \in 1..n BY <2>2
    <2>4. width = w
      <3>1. data[first].vec.width = w BY <1>3, <2>3
      <3>2. CASE c.dimension = 0
        <4>1. ~(c.dimension > 0) BY <3>2
        <4> QED BY <3>1, <4>1
      <3>3. CASE c.dimension = w BY <3>1, <3>3
      <3> QED BY <3>2, <3>3 DEF Configured
    <2> HIDE DEF n
    <2>5. \A k \in 1..n : data[k].vec.width = width
      <3> HIDE DEF width, w
      <3> QED BY <1>3, <2>4
    <2>6. Em!Accepted(c, data, n) BY <1>2, <2>1, <2>5 DEF Em!Accepted
    <2>7. got = [vecs |-> [i \in 1..n |-> Em!VectorAt(data, i)], error |-> "none"]
      BY <1>4, <2>6 DEF Em!parse
    <2> QED BY <2>7 DEF data, n
  <1>5. CASE c.provider = "voyage"
    <2>1. ~\E k \in 1..Len(data) : data[k].index >= Len(data)
      <3> SUFFICES ASSUME NEW k \in 1..n PROVE ~(data[k].index >= n) BY <1>2
      <3>1. at(k) \in 1..n BY <1>2
      <3> HIDE DEF at
      <3> QED BY <1>1, <1>3, <3>1
    <2>2. got = [vecs |-> [i \in 1..Len(data) |-> Em!VectorAt(data, i)], error |-> "none"]
      BY <1>5, <2>1 DEF Em!parse
    <2>3. got.error = "none" BY <2>2
    <2> QED BY <2>3 DEF data
  <1> QED BY <1>4, <1>5 DEF Configured

\* A request spends no less than the faults it met, and one that failed met one.
LEMMA AnsweredSpends ==
    ASSUME MaxAttempts \in Nat \ {0},
           NEW S, NEW texts \in Seq(S), Len(texts) > 0, NEW c, Configured(c),
           NEW A, NEW script \in Seq(A)
    PROVE  LET one == Em!embedOnce(c, texts, script)
           IN  /\ Em!Faults(one.script) \in Nat /\ Em!Faults(one.script) <= Em!Faults(script)
               /\ one.error = "failed" => Em!Faults(one.script) < Em!Faults(script)
  <1> DEFINE m == IF Len(script) < MaxAttempts THEN Len(script) ELSE MaxAttempts
             asked == SubSeq(script, 1, m)
             k == Em!SelectInSeq(asked, LAMBDA reply : reply # "busy")
             x == IF k = 0 THEN Len(asked) ELSE k
             left == SubSeq(script, x + 1, Len(script))
             came == IF k = 0 THEN [vecs |-> <<>>, error |-> IF Len(asked) < MaxAttempts THEN "cancelled" ELSE "failed"]
                     ELSE IF asked[k] = "refused" THEN [vecs |-> <<>>, error |-> "failed"]
                     ELSE Em!parse(c, Em!Served(c.model, texts, asked[k]), Len(texts))
             one == Em!embedOnce(c, texts, script)
             I == {i \in 1..Len(asked) : asked[i] # "busy"}
  <1>1. one = [vecs |-> came.vecs, error |-> came.error, script |-> left] BY DEF Em!embedOnce
  <1>2. one.error = came.error /\ one.script = left
    <2> HIDE DEF came, left, one
    <2> QED BY <1>1
  <1>3. m \in Nat /\ m <= Len(script) /\ Len(script) \in Nat OBVIOUS
  <1>4. Len(asked) = m /\ \A i \in 1..m : asked[i] = script[i]
    <2> HIDE DEF m
    <2>1. \A i \in 1..m : script[i] \in A BY <1>3
    <2>2. 1 \in Int /\ m \in Int BY <1>3
    <2>3. /\ Len(SubSeq(script, 1, m)) = IF 1 <= m THEN m - 1 + 1 ELSE 0
          /\ \A i \in 1..(m - 1 + 1) : SubSeq(script, 1, m)[i] = script[1 + i - 1]
      BY <2>1, <2>2, SubSeqProperties
    <2>4. m - 1 + 1 = m /\ (~(1 <= m) => m = 0) /\ \A i \in 1..m : 1 + i - 1 = i BY <1>3
    <2> QED BY <2>3, <2>4
  <1> HIDE DEF asked
  <1>5. k \in 0..m /\ (k = 0 => \A i \in 1..m : script[i] = "busy")
    <2>1. k = IF I # {} THEN Em!Min(I) ELSE 0 BY DEF Em!SelectInSeq
    <2>2. ASSUME I # {} PROVE Em!Min(I) \in I
      <3>1. I \in SUBSET Nat BY <1>3, <1>4
      <3> HIDE DEF I
      <3>2. \E i \in I : \A j \in I : i <= j BY <2>2, <3>1, LeastNat
      <3> QED BY <3>2 DEF Em!Min
    <2> HIDE DEF k, m
    <2>3. CASE I = {} BY <1>3, <1>4, <2>1, <2>3
    <2>4. CASE I # {}
      <3>1. k \in I BY <2>1, <2>2, <2>4
      <3>2. k \in 1..m BY <1>4, <3>1
      <3> QED BY <1>3, <3>2
    <2> QED BY <2>3, <2>4
  <1> HIDE DEF k, one
  <1>6. x \in 0..Len(script) BY <1>3, <1>4, <1>5
  <1>7. /\ Em!Faults(left) \in Nat /\ Em!Faults(left) <= Em!Faults(script)
        /\ (\E i \in 1..x : Fault(script[i])) => Em!Faults(left) < Em!Faults(script)
    <2> HIDE DEF x
    <2> QED BY <1>6, FaultsLeft
  <1> HIDE DEF left
  <1>8. ASSUME came.error = "failed" PROVE \E i \in 1..x : Fault(script[i])
    <2>1. CASE k = 0
      <3>1. came.error = IF Len(asked) < MaxAttempts THEN "cancelled" ELSE "failed" BY <2>1
      <3>2. ~(m < MaxAttempts)
        <4> HIDE DEF came, m
        <4> QED BY <1>4, <1>8, <3>1
      <3>3. 1 \in 1..m /\ x = m BY <1>3, <1>4, <2>1, <3>2
      <3>4. Fault(script[1]) BY <1>5, <2>1, <3>3 DEF Fault
      <3> QED BY <3>3, <3>4
    <2>2. CASE k # 0
      <3>1. k \in 1..m /\ x = k BY <1>3, <1>5, <2>2
      <3>2. asked[k] = script[k] BY <1>4, <3>1
      <3>3. Fault(script[k])
        <4>1. CASE asked[k] = "refused" BY <3>2, <4>1 DEF Fault
        <4>2. CASE asked[k] # "refused"
          <5> DEFINE got == Em!parse(c, Em!Served(c.model, texts, asked[k]), Len(texts))
          <5>1. came = got BY <2>2, <4>2
          <5>2. ASSUME ~Fault(asked[k]) PROVE got.error = "none" BY <5>2, RightIsTaken
          <5> HIDE DEF got, came
          <5>3. Fault(asked[k]) BY <1>8, <5>1, <5>2
          <5> QED BY <3>2, <5>3
        <4> QED BY <4>1, <4>2
      <3>4. x \in 1..x BY <3>1
      <3> QED BY <3>1, <3>3, <3>4
    <2> QED BY <2>1, <2>2
  <1> HIDE DEF came, x
  <1> QED BY <1>2, <1>7, <1>8 DEF one

\* What a call has spent of a script so far.
Spent(all, c, script) ==
    MaxAttempts # 0 /\ Configured(c) =>
        /\ Em!Faults(all.script) \in Nat /\ Em!Faults(all.script) <= Em!Faults(script)
        /\ all.error = "failed" => Em!Faults(all.script) < Em!Faults(script)

\* One batch more spends more or the same.
LEMMA SentSpends ==
    ASSUME MaxAttempts \in Nat,
           NEW S, NEW batch \in Seq(S), Len(batch) > 0, NEW c, NEW A, NEW script \in Seq(A),
           NEW all, all.script \in Seq(A), Spent(all, c, script)
    PROVE  Spent(Sent(c, batch, all), c, script)
  <1> DEFINE r == Sent(c, batch, all)
             one == Em!embedOnce(c, batch, all.script)
  <1> SUFFICES ASSUME MaxAttempts # 0, Configured(c)
               PROVE  /\ Em!Faults(r.script) \in Nat /\ Em!Faults(r.script) <= Em!Faults(script)
                      /\ r.error = "failed" => Em!Faults(r.script) < Em!Faults(script)
    BY DEF Spent
  <1>1. /\ Em!Faults(all.script) \in Nat /\ Em!Faults(all.script) <= Em!Faults(script)
        /\ all.error = "failed" => Em!Faults(all.script) < Em!Faults(script)
    BY DEF Spent
  <1>2. Em!Faults(script) \in Nat
    <2>1. 0 \in 0..Len(script) /\ \E t : t = SubSeq(script, 0 + 1, Len(script)) OBVIOUS
    <2> QED BY <2>1, FaultsLeft
  <1>3. CASE all.error # "none"
    <2>1. r = all BY <1>3 DEF Sent
    <2> HIDE DEF r
    <2> QED BY <1>1, <2>1
  <1>4. CASE all.error = "none"
    <2>1. r = [one EXCEPT !.vecs = all.vecs \o @] BY <1>4 DEF Sent
    <2>2. /\ Em!Faults(one.script) \in Nat /\ Em!Faults(one.script) <= Em!Faults(all.script)
          /\ one.error = "failed" => Em!Faults(one.script) < Em!Faults(all.script)
      <3>1. MaxAttempts \in Nat \ {0} OBVIOUS
      <3> QED BY <3>1, AnsweredSpends
    <2>3. r.script = one.script /\ r.error = one.error
      <3>1. one = [vecs |-> one.vecs, error |-> one.error, script |-> one.script] BY DEF Em!embedOnce
      <3> HIDE DEF one, r
      <3>2. r = [vecs |-> all.vecs \o one.vecs, error |-> one.error, script |-> one.script] BY <2>1, <3>1
      <3> QED BY <3>2
    <2> HIDE DEF r, one
    <2> QED BY <1>1, <1>2, <2>2, <2>3
  <1> QED BY <1>3, <1>4

\* What a call answers for a list of texts.
Answer(got, c, S, A, texts, script) ==
    /\ got \in Sofar(S, c, A) /\ Spent(got, c, script)
    /\ \A i \in 1..Len(got.vecs) : i <= Len(texts) /\ got.vecs[i].of = texts[i]
    /\ got.error = "none" => Len(got.vecs) = Len(texts)
    /\ got.error # "none" => \E j \in Nat : Len(got.vecs) = j * TextBatch /\ j * TextBatch < Len(texts)

\* Batch by batch, a call comes to its answer.
LEMMA CallAnswers ==
    ASSUME TextBatch \in Nat \ {0}, MaxAttempts \in Nat,
           NEW S, NEW texts \in Seq(S), NEW c, NEW A \in SUBSET Replies,
           c.provider = "openai" \/ (c.provider = "voyage" /\ A \cap Spoilt = {}),
           NEW script \in Seq(A)
    PROVE  Answer(Em!EmbedBatch(c, texts, script), c, S, A, texts, script)
  <1> DEFINE got == Em!EmbedBatch(c, texts, script)
             L == Len(texts)
             n == (L + TextBatch - 1) \div TextBatch
             list == Em!Batches(texts)
             init == [vecs |-> <<>>, error |-> "none", script |-> script]
             Is(it) == it = [s \in SUBSET (DOMAIN list) |->
                        IF s = {} THEN init ELSE Sent(c, list[T!Max(s)], it[s \ {T!Max(s)}])]
             it == CHOOSE it : Is(it)
  <1>1. got = it[DOMAIN list]
    BY DEF Em!EmbedBatch, Em!FoldLeft, Em!MapThenFoldSet, Sent, T!Max, Em!Max
  <1>c. Cut(list, n, S, texts) BY BatchesAreTexts
  <1>2. /\ n \in Nat /\ DOMAIN list = 1..n /\ Ends(0, L) = 0 /\ Ends(n, L) = L
    <2> HIDE DEF list, n
    <2> QED BY <1>c DEF Cut
  <1> DEFINE In == Sofar(S, c, A)
             Inv(all, b) == all \in In /\ Spent(all, c, script) /\ SofarInOrder(all, texts, b)
             step(all, b) == Sent(c, list[b], all)
  <1>4. Inv(init, 0)
    <2> DEFINE a == init
    <2>1. a.vecs = <<>> /\ a.error = "none" /\ a.script = script OBVIOUS
    <2>2. a = [vecs |-> a.vecs, error |-> a.error, script |-> a.script] OBVIOUS
    <2> HIDE DEF a
    <2>3. a.vecs \in Seq(Vectors(S, c)) /\ Len(a.vecs) = 0 BY <2>1
    <2>4. a \in Sofar(S, c, A) BY <2>1, <2>2, <2>3 DEF Sofar
    <2>s. Spent(a, c, script)
      <3>1. 0 \in 0..Len(script) /\ \E t : t = SubSeq(script, 0 + 1, Len(script)) OBVIOUS
      <3>2. Em!Faults(script) \in Nat BY <3>1, FaultsLeft
      <3> QED BY <2>1, <3>2 DEF Spent
    <2>5. SofarInOrder(a, texts, 0) BY <1>2, <2>1, <2>3 DEF SofarInOrder
    <2> QED BY <2>4, <2>s, <2>5 DEF a
  <1>b. ASSUME NEW b \in 1..n PROVE list[b] \in Seq(S) /\ Len(list[b]) > 0
    <2>1. /\ list \in Seq(Seq(S)) /\ DOMAIN list = 1..n /\ Len(list) = n /\ n \in Nat
          /\ \A k \in 1..n : Len(list[k]) > 0
      <3> HIDE DEF list, n
      <3> QED BY <1>c DEF Cut
    <2> HIDE DEF list, n
    <2>2. \A k \in 1..n : list[k] \in Seq(S) BY <2>1
    <2> QED BY <1>b, <2>1, <2>2
  <1>6. ASSUME NEW all \in In, NEW b \in 1..n PROVE step(all, b) \in In
    <2> DEFINE batch == list[b]
    <2>1. batch \in Seq(S) /\ Len(batch) > 0 BY <1>b
    <2> HIDE DEF batch
    <2>2. AfterOne(Sent(c, batch, all), all, batch, S, c, A) BY <2>1, SentOne
    <2> QED BY <2>2 DEF AfterOne, batch
  <1>5. ASSUME NEW all, NEW b \in 1..n, Inv(all, b - 1) PROVE Inv(step(all, b), b)
    <2>1. step(all, b) \in In /\ SofarInOrder(step(all, b), texts, b) BY <1>5, SentInOrder
    <2>2. Spent(step(all, b), c, script)
      <3> DEFINE batch == list[b]
      <3>1. batch \in Seq(S) /\ Len(batch) > 0 BY <1>b
      <3>2. all.script \in Seq(A) /\ Spent(all, c, script) BY <1>5 DEF Sofar
      <3> HIDE DEF batch
      <3>3. Spent(Sent(c, batch, all), c, script) BY <3>1, <3>2, SentSpends
      <3> QED BY <3>3 DEF batch
    <2> HIDE DEF In, step
    <2> QED BY <2>1, <2>2
  <1> HIDE DEF Inv, init, In, list, n, L
  <1> DEFINE st == [w \in In \X (1..n) |-> step(w[1], w[2])]
  <1>9. \A all \in In : \A k \in 1..n : st[<<all, k>>] = step(all, k) OBVIOUS
  <1>10. init \in In BY <1>4 DEF Inv
  <1>11. StaysIn(In, n, st)
    <2>1. \A all \in In : \A b \in 1..n : step(all, b) \in In BY <1>6
    <2> HIDE DEF st, step
    <2> QED BY <1>9, <2>1 DEF StaysIn
  <1>12. Is(it)
    <2> HIDE DEF st
    <2>1. PICK f : GoesOver(f, In, init, n, st) BY <1>2, <1>10, <1>11, PlaceByPlace
    <2> DEFINE e == [s \in SUBSET (DOMAIN list) |-> f[s]]
    <2>2. ASSUME NEW s \in SUBSET (DOMAIN list)
          PROVE  e[s] = IF s = {} THEN init ELSE step(e[s \ {T!Max(s)}], T!Max(s))
      <3>1. CASE s = {} BY <2>1, <3>1 DEF GoesOver
      <3>2. CASE s # {}
        <4>1. T!Max(s) \in s BY <1>2, <2>2, <3>2, Greatest
        <4>2. s \in SUBSET (1..n) /\ s \ {T!Max(s)} \in SUBSET (1..n) /\ T!Max(s) \in 1..n
          BY <1>2, <2>2, <4>1
        <4>3. f[s \ {T!Max(s)}] \in In BY <2>1, <4>2 DEF GoesOver
        <4>4. f[s] = st[<<f[s \ {T!Max(s)}], T!Max(s)>>] BY <2>1, <3>2, <4>2 DEF GoesOver
        <4>5. f[s] = step(f[s \ {T!Max(s)}], T!Max(s)) BY <1>9, <4>2, <4>3, <4>4
        <4>6. e[s] = f[s] /\ e[s \ {T!Max(s)}] = f[s \ {T!Max(s)}] BY <2>2
        <4> HIDE DEF e, step
        <4> QED BY <3>2, <4>5, <4>6
      <3> QED BY <3>1, <3>2
    <2>3. Is(e)
      <3>1. e = [s \in SUBSET (DOMAIN list) |-> e[s]] OBVIOUS
      <3> HIDE DEF e
      <3> QED BY <2>2, <3>1
    <2>4. \E h : Is(h) BY <2>3
    <2> HIDE DEF Is
    <2> QED BY <2>4
  <1>13. Unfolds(it, In, init, n, st)
    <2>1. it[{}] = init BY <1>12
    <2>2. ASSUME NEW s \in SUBSET (1..n), s # {}, it[s \ {T!Max(s)}] \in In
          PROVE  it[s] = st[<<it[s \ {T!Max(s)}], T!Max(s)>>]
      <3>1. T!Max(s) \in 1..n BY <1>2, <2>2, Greatest
      <3>2. it[s] = step(it[s \ {T!Max(s)}], T!Max(s))
        <4>1. s \in SUBSET (DOMAIN list) BY <1>2, <2>2
        <4> HIDE DEF it, step
        <4> QED BY <1>12, <2>2, <4>1 DEF step
      <3> HIDE DEF it, st, step
      <3> QED BY <1>9, <2>2, <3>1, <3>2
    <2>3. \A s \in SUBSET (1..n) : s # {} /\ it[s \ {T!Max(s)}] \in In =>
             it[s] = st[<<it[s \ {T!Max(s)}], T!Max(s)>>]
      <3> HIDE DEF it, st
      <3> QED BY <2>2
    <2> HIDE DEF it, st, step, Is
    <2> QED BY <2>1, <2>3 DEF Unfolds
  <1> HIDE DEF it, step, st, Is
  <1>14. PICK f : StepsFrom(f, In, init, n, st) /\ it[1..n] = f[n]
    <2>1. EndsAt(it[1..n], In, init, n, st) BY <1>2, <1>10, <1>11, <1>13, FoldEnds
    <2> QED BY <2>1 DEF EndsAt
  <1> DEFINE P == {k \in 0..n : Inv(f[k], k)}
  <1>15. \A k \in 0..n : k \in P
    <2>1. 0 \in P BY <1>2, <1>4, <1>14 DEF StepsFrom
    <2>2. ASSUME NEW k \in 1..n, k - 1 \in P PROVE k \in P
      <3>1. k - 1 \in 0..n /\ k \in 0..n BY <1>2
      <3>2. f[k - 1] \in In /\ f[k] = st[<<f[k - 1], k>>] BY <1>14, <3>1 DEF StepsFrom
      <3>3. f[k] = step(f[k - 1], k) BY <1>9, <3>2
      <3>4. Inv(f[k - 1], k - 1) BY <2>2
      <3>5. Inv(step(f[k - 1], k), k) BY <1>5, <3>4
      <3> QED BY <3>1, <3>3, <3>5
    <2>3. \A k \in 1..n : k - 1 \in P => k \in P BY <2>2
    <2> HIDE DEF P
    <2> QED BY <1>2, <2>1, <2>3, UpTo
  <1>16. Inv(got, n)
    <2>1. n \in 0..n BY <1>2
    <2> HIDE DEF got
    <2> QED BY <1>1, <1>2, <1>14, <1>15, <2>1
  <1> HIDE DEF got
  <1> HIDE DEF got
  <1> QED BY <1>2, <1>16 DEF Inv, In, SofarInOrder, Answer, L, got

\* The replies that a script has.
LEMMA ScriptIsOfReplies ==
    ASSUME NEW c, c.provider \in {"openai", "voyage"}, NEW script \in Seq(Replies), Em!Behaves(c, script),
           NEW A, A = Em!ToSet(script)
    PROVE  /\ A \in SUBSET Replies /\ script \in Seq(A)
           /\ c.provider = "openai" \/ (c.provider = "voyage" /\ A \cap Spoilt = {})
  <1>1. A = {script[i] : i \in 1..Len(script)} BY DEF Em!ToSet
  <1>2. A \in SUBSET Replies /\ script \in Seq(A) BY <1>1
  <1> QED BY <1>2 DEF Em!Behaves, Spoilt

\* Whatever a server answers and wherever a call ends, the client returns the
\* vectors of a whole number of batches, each of its own text, and of all texts
\* if there is no error: for every client, list of texts and script.
THEOREM EveryBatchInOrder ==
    ASSUME TextBatch \in Nat \ {0}, MaxAttempts \in Nat,
           NEW c, c.provider \in {"openai", "voyage"},
           NEW S, NEW texts \in Seq(S), NEW script \in Seq(Replies)
    PROVE  Em!BatchesInOrder(c, texts, script)
  <1> DEFINE got == Em!EmbedBatch(c, texts, script)
             L == Len(texts)
             A == Em!ToSet(script)
  <1> SUFFICES ASSUME Em!Behaves(c, script)
               PROVE  /\ got.error # "panic"
                      /\ \A i \in 1..Len(got.vecs) : got.vecs[i].of = texts[i]
                      /\ got.error = "none" => Len(got.vecs) = L
                      /\ got.error # "none" => Len(got.vecs) % TextBatch = 0 /\ Len(got.vecs) < L
    BY DEF Em!BatchesInOrder
  <1> HIDE DEF A
  <1>1. /\ A \in SUBSET Replies /\ script \in Seq(A)
        /\ c.provider = "openai" \/ (c.provider = "voyage" /\ A \cap Spoilt = {})
    BY ScriptIsOfReplies DEF A
  <1>2. Answer(got, c, S, A, texts, script) BY <1>1, CallAnswers
  <1> HIDE DEF got
  <1>3. got.error \in {"none", "failed", "cancelled"} /\ Len(got.vecs) \in Nat
    BY <1>2 DEF Answer, Sofar
  <1>4. ASSUME got.error # "none" PROVE Len(got.vecs) % TextBatch = 0 /\ Len(got.vecs) < L
    <2>1. PICK j \in Nat : Len(got.vecs) = j * TextBatch /\ j * TextBatch < L BY <1>2, <1>4 DEF Answer
    <2> QED BY <2>1, NoRest
  <1> QED BY <1>2, <1>3, <1>4 DEF Answer

\* A list of ids has each of them.
LEMMA ByIdLists ==
    ASSUME NEW n \in Nat, NEW ids \in SUBSET (1..n)
    PROVE  Lists(Em!ById(ids), ids)
  <1>1. ids \cap (1..n) = ids OBVIOUS
  <1>2. Em!ById(ids) = T!InOrder(ids, n)
    <2>1. Em!ById(ids \cap (1..n)) = T!InOrder(ids, n)
      BY DEF Em!ById, T!InOrder, Em!Cardinality, T!Cardinality
    <2> QED BY <1>1, <2>1
  <1>3. Lists(T!InOrder(ids, n), ids \cap (1..n)) BY OrderLists
  <1> QED BY <1>1, <1>2, <1>3

\* The rows that a client makes, and what a pass is in between.
Rows(S, c) == [model : {c.model}, vec : Vectors(S, c)]
Passes(n, stored, S, c, A) ==
    [stored : [1..n -> {stored[id] : id \in 1..n} \cup Rows(S, c)], script : Seq(A), end : {"none", "cancelled"}]
PassStep(c, text, pass, batch) ==
    IF pass.end # "none" THEN pass
    ELSE Em!embedNodeBatch(c, pass, batch,
             Em!EmbedBatch(c, [k \in 1..Len(batch) |-> text[batch[k]]], pass.script))

\* Rows for a batch are written, the others are left.
RowsWritten(r, stored, n, batch, S, c, text) ==
    \A id \in 1..n :
       \/ (\A k \in 1..Len(batch) : batch[k] # id) /\ r[id] = stored[id]
       \/ (\E k \in 1..Len(batch) : batch[k] = id) /\ r[id] \in Rows(S, c) /\ r[id].vec.of = text[id]
OfNodes(vecs, batch, text) ==
    Len(vecs) = Len(batch) /\ \A k \in 1..Len(batch) : vecs[k].of = text[batch[k]]
LEMMA UpsertWrites ==
    ASSUME NEW n \in Nat, NEW stored, DOMAIN stored = 1..n, NEW batch \in Seq(1..n),
           NEW S, NEW c, NEW text, NEW vecs \in Seq(Vectors(S, c)), OfNodes(vecs, batch, text),
           NEW r, r = Em!UpsertEmbeddingBatch(stored, batch, c.model, vecs)
    PROVE  DOMAIN r = 1..n /\ RowsWritten(r, stored, n, batch, S, c, text)
  <1> DEFINE place(id) == Em!SelectInSeq(batch, LAMBDA m : m = id)
             row(k) == [model |-> c.model, vec |-> vecs[k]]
  <1>1. r = [id \in 1..n |-> IF place(id) = 0 THEN stored[id] ELSE row(place(id))]
    BY DEF Em!UpsertEmbeddingBatch
  <1>2. ASSUME NEW id \in 1..n
        PROVE  \/ place(id) = 0 /\ \A k \in 1..Len(batch) : batch[k] # id
               \/ place(id) \in 1..Len(batch) /\ batch[place(id)] = id
    <2> DEFINE I == {k \in 1..Len(batch) : batch[k] = id}
    <2>1. place(id) = IF I # {} THEN Em!Min(I) ELSE 0 BY DEF Em!SelectInSeq
    <2>2. ASSUME I # {} PROVE Em!Min(I) \in I
      <3>1. I \in SUBSET Nat OBVIOUS
      <3> HIDE DEF I
      <3>2. \E i \in I : \A j \in I : i <= j BY <2>2, <3>1, LeastNat
      <3> QED BY <3>2 DEF Em!Min
    <2> HIDE DEF place
    <2>3. CASE I = {} BY <2>1, <2>3
    <2>4. CASE I # {}
      <3>1. place(id) \in I BY <2>1, <2>2, <2>4
      <3> QED BY <3>1
    <2> QED BY <2>3, <2>4
  <1>3. \A k \in 1..Len(batch) : row(k) \in Rows(S, c) /\ row(k).vec.of = text[batch[k]]
    <2> TAKE k \in 1..Len(batch)
    <2>1. vecs[k] \in Vectors(S, c) BY DEF OfNodes
    <2> QED BY <2>1 DEF Rows, OfNodes
  <1> HIDE DEF place, row
  <1>4. ASSUME NEW id \in 1..n
        PROVE  \/ (\A k \in 1..Len(batch) : batch[k] # id) /\ r[id] = stored[id]
               \/ (\E k \in 1..Len(batch) : batch[k] = id) /\ r[id] \in Rows(S, c) /\ r[id].vec.of = text[id]
    <2>1. CASE place(id) = 0 /\ \A k \in 1..Len(batch) : batch[k] # id BY <1>1, <2>1
    <2>2. CASE place(id) \in 1..Len(batch) /\ batch[place(id)] = id
      <3>1. place(id) # 0 BY <2>2
      <3>2. r[id] = row(place(id)) BY <1>1, <3>1
      <3> QED BY <1>3, <2>2, <3>2
    <2> QED BY <1>2, <2>1, <2>2
  <1> QED BY <1>1, <1>4 DEF RowsWritten

\* What a pass is after a batch.
AfterBatch(r, pass, n, batch, S, c, A, text) ==
    /\ r.script \in Seq(A)
    /\ \/ pass.end # "none" /\ r = pass
       \/ pass.end = "none" /\ r.end = "cancelled" /\ r.stored = pass.stored
       \/ /\ pass.end = "none" /\ r.end = "none" /\ r.stored = pass.stored
          /\ MaxAttempts # 0 /\ Configured(c) =>
                Em!Faults(r.script) \in Nat /\ Em!Faults(r.script) < Em!Faults(pass.script)
       \/ /\ pass.end = "none" /\ r.end = "none" /\ RowsWritten(r.stored, pass.stored, n, batch, S, c, text)
          /\ MaxAttempts # 0 /\ Configured(c) =>
                Em!Faults(r.script) \in Nat /\ Em!Faults(r.script) <= Em!Faults(pass.script)

\* A batch leaves a pass as it is, ends it, or writes the rows of its nodes.
LEMMA OneBatch ==
    ASSUME TextBatch \in Nat \ {0}, MaxAttempts \in Nat, NEW n \in Nat,
           NEW S, NEW text \in [1..n -> S], NEW c, NEW A \in SUBSET Replies,
           c.provider = "openai" \/ (c.provider = "voyage" /\ A \cap Spoilt = {}),
           NEW stored, NEW pass \in Passes(n, stored, S, c, A), NEW batch \in Seq(1..n)
    PROVE  LET r == PassStep(c, text, pass, batch)
           IN  r \in Passes(n, stored, S, c, A) /\ AfterBatch(r, pass, n, batch, S, c, A, text)
  <1> DEFINE r == PassStep(c, text, pass, batch)
             texts == [k \in 1..Len(batch) |-> text[batch[k]]]
             got == Em!EmbedBatch(c, texts, pass.script)
             U == {stored[id] : id \in 1..n} \cup Rows(S, c)
  <1>1. /\ pass.stored \in [1..n -> U] /\ pass.script \in Seq(A) /\ pass.end \in {"none", "cancelled"}
        /\ pass = [stored |-> pass.stored, script |-> pass.script, end |-> pass.end]
    <2> HIDE DEF U
    <2> QED BY DEF Passes, U
  <1>2. texts \in Seq(S) /\ Len(texts) = Len(batch) /\ \A k \in 1..Len(batch) : texts[k] = text[batch[k]]
    <2>1. \A k \in 1..Len(batch) : text[batch[k]] \in S OBVIOUS
    <2>2. Len(batch) \in Nat OBVIOUS
    <2> QED BY <2>1, <2>2
  <1> HIDE DEF texts
  <1>3. Answer(got, c, S, A, texts, pass.script) BY <1>1, <1>2, CallAnswers
  <1>4. /\ got.error \in {"none", "failed", "cancelled"} /\ got.script \in Seq(A)
        /\ got.vecs \in Seq(Vectors(S, c))
    <2> HIDE DEF got
    <2> QED BY <1>3 DEF Answer, Sofar
  <1>5. CASE pass.end # "none"
    <2>1. r = pass BY <1>5 DEF PassStep
    <2> HIDE DEF r
    <2> QED BY <1>1, <1>5, <2>1 DEF AfterBatch, r
  <1>6. CASE pass.end = "none"
    <2>1. r = Em!embedNodeBatch(c, pass, batch, got) BY <1>6 DEF PassStep, texts
    <2> HIDE DEF r, got, U
    <2>2. CASE got.error = "cancelled"
      <3>1. r = [pass EXCEPT !.end = got.error] BY <2>1, <2>2 DEF Em!embedNodeBatch
      <3>2. r = [stored |-> pass.stored, script |-> pass.script, end |-> "cancelled"] BY <1>1, <2>2, <3>1
      <3>3. r.stored = pass.stored /\ r.script = pass.script /\ r.end = "cancelled" BY <3>2
      <3>4. r \in Passes(n, stored, S, c, A) BY <1>1, <3>2 DEF Passes, U
      <3> QED BY <1>1, <1>6, <3>3, <3>4 DEF AfterBatch, r
    <2>3. CASE got.error = "failed"
      <3>1. r = [pass EXCEPT !.script = got.script] BY <2>1, <2>3 DEF Em!embedNodeBatch
      <3>2. r = [stored |-> pass.stored, script |-> got.script, end |-> "none"] BY <1>1, <1>6, <3>1
      <3>3. r.stored = pass.stored /\ r.script = got.script /\ r.end = "none" BY <3>2
      <3>4. r \in Passes(n, stored, S, c, A) BY <1>1, <1>4, <3>2 DEF Passes, U
      <3>5. MaxAttempts # 0 /\ Configured(c) =>
               Em!Faults(r.script) \in Nat /\ Em!Faults(r.script) < Em!Faults(pass.script)
        BY <1>3, <2>3, <3>3 DEF Answer, Spent
      <3> QED BY <1>4, <1>6, <3>3, <3>4, <3>5 DEF AfterBatch, r
    <2>4. CASE got.error = "none"
      <3>1. /\ Len(got.vecs) = Len(batch)
            /\ \A k \in 1..Len(batch) : got.vecs[k].of = text[batch[k]]
        BY <1>2, <1>3, <2>4 DEF Answer
      <3>o. OfNodes(got.vecs, batch, text) BY <3>1 DEF OfNodes
      <3> DEFINE w == Em!UpsertEmbeddingBatch(pass.stored, batch, c.model, got.vecs)
      <3>2. ~(Len(got.vecs) < Len(batch))
        <4>1. Len(batch) \in Nat OBVIOUS
        <4> QED BY <3>1, <4>1
      <3>3. r = [stored |-> w, script |-> got.script, end |-> "none"]
        BY <2>1, <2>4, <3>2 DEF Em!embedNodeBatch
      <3>4. r.stored = w /\ r.script = got.script /\ r.end = "none" BY <3>3
      <3>5. DOMAIN w = 1..n /\ RowsWritten(w, pass.stored, n, batch, S, c, text)
        <4>1. DOMAIN pass.stored = 1..n BY <1>1
        <4> DEFINE v == pass.stored
        <4>2. DOMAIN v = 1..n BY <4>1
        <4>3. w = Em!UpsertEmbeddingBatch(v, batch, c.model, got.vecs) OBVIOUS
        <4> HIDE DEF w, v
        <4>4. DOMAIN w = 1..n /\ RowsWritten(w, v, n, batch, S, c, text)
          BY <1>4, <3>o, <4>2, <4>3, UpsertWrites
        <4> QED BY <4>4 DEF v
      <3>6. w = [id \in 1..n |-> w[id]]
        <4>1. DOMAIN pass.stored = 1..n BY <1>1
        <4> QED BY <4>1 DEF Em!UpsertEmbeddingBatch
      <3> HIDE DEF w
      <3>7. w \in [1..n -> U]
        <4>1. \A id \in 1..n : w[id] \in U BY <1>1, <3>5 DEF RowsWritten, U
        <4> QED BY <3>6, <4>1
      <3>8. r \in Passes(n, stored, S, c, A) BY <1>4, <3>3, <3>7 DEF Passes, U
      <3>9. MaxAttempts # 0 /\ Configured(c) =>
               Em!Faults(r.script) \in Nat /\ Em!Faults(r.script) <= Em!Faults(pass.script)
        BY <1>3, <3>4 DEF Answer, Spent
      <3> QED BY <1>4, <1>6, <3>4, <3>5, <3>8, <3>9 DEF AfterBatch, r
    <2> QED BY <1>4, <2>2, <2>3, <2>4
  <1> QED BY <1>1, <1>5, <1>6

\* What a pass has written, in whatever batches: rows of its nodes' own texts.
PassRows(w, stored, n, ids, S, c, text) ==
    \A id \in 1..n : \/ w[id] = stored[id]
                     \/ id \in ids /\ w[id] \in Rows(S, c) /\ w[id].vec.of = text[id]

\* After b batches those without a row are still to come, or were in a batch
\* for which the script had a fault.
Ahead(todo, b, id) == \E k \in 1..Len(todo) : k > Ends(b, Len(todo)) /\ todo[k] = id
PassLeft(pass, n, todo, c, script, b) ==
    MaxAttempts # 0 /\ Configured(c) =>
        /\ Em!Faults(pass.script) \in Nat
        /\ pass.end = "none" =>
              \E M \in SUBSET (1..n) :
                 /\ Cardinality(M) + TextBatch * Em!Faults(pass.script) <= TextBatch * Em!Faults(script)
                 /\ \A id \in 1..n : pass.stored[id] = None => id \in M \/ Ahead(todo, b, id)

\* A batch, and what of a list comes after it.
LEMMA AheadOrIn ==
    ASSUME TextBatch \in Nat \ {0}, NEW ids, NEW todo \in Seq(ids), NEW m, NEW list,
           Cut(list, m, ids, todo), NEW b \in 1..m
    PROVE  /\ list[b] \in Seq(ids) /\ Len(list[b]) \in Nat /\ Len(list[b]) <= TextBatch
           /\ \A id : Ahead(todo, b - 1, id) =>
                 Ahead(todo, b, id) \/ \E i \in 1..Len(list[b]) : list[b][i] = id
  <1> DEFINE L == Len(todo)
             batch == list[b]
             from == Ends(b - 1, L)
             to == Ends(b, L)
  <1>1. /\ m \in Nat /\ from = (b - 1) * TextBatch /\ from < L /\ Len(batch) > 0
        /\ from + Len(batch) = to /\ to <= L /\ from >= 0
        /\ \A i \in 1..Len(batch) : batch[i] = todo[from + i]
    BY DEF Cut
  <1>2. batch \in Seq(ids) /\ L \in Nat
    <2>1. list \in Seq(Seq(ids)) /\ DOMAIN list = 1..m /\ Len(list) = m BY DEF Cut
    <2>2. \A k \in 1..m : list[k] \in Seq(ids) BY <2>1
    <2> QED BY <2>2
  <1>3. Len(batch) \in Nat BY <1>2
  <1>4. from \in Int /\ to <= from + TextBatch
    <2>1. b - 1 \in Int /\ (b - 1) + 1 = b BY <1>1
    <2>2. (b - 1) * TextBatch \in Int /\ b * TextBatch = (b - 1) * TextBatch + TextBatch
      BY <2>1, Products
    <2>3. to <= b * TextBatch
      <3>1. b * TextBatch \in Int /\ L \in Int BY <1>2, <2>2
      <3> HIDE DEF L
      <3> QED BY <3>1 DEF Ends
    <2> HIDE DEF to, from
    <2> QED BY <1>1, <2>2, <2>3
  <1>5. Len(batch) <= TextBatch
    <2> HIDE DEF to, from, batch
    <2> QED BY <1>1, <1>3, <1>4
  <1>6. ASSUME NEW id, Ahead(todo, b - 1, id) PROVE Ahead(todo, b, id) \/ \E i \in 1..Len(batch) : batch[i] = id
    <2>1. PICK k \in 1..L : k > from /\ todo[k] = id BY <1>6 DEF Ahead
    <2>2. CASE k > to BY <2>1, <2>2 DEF Ahead
    <2>3. CASE ~(k > to)
      <3> DEFINE i == k - from
      <3> DEFINE l == Len(batch)
      <3>0. k \in Int /\ l \in Nat /\ from \in Int /\ from + l = to /\ k > from /\ ~(k > to)
        BY <1>1, <1>2, <1>3, <1>4, <2>1, <2>3
      <3> HIDE DEF to, from, l
      <3>1. i \in 1..l /\ from + i = k BY <3>0
      <3> HIDE DEF i
      <3>2. batch[i] = todo[from + i] BY <1>1, <3>1 DEF l
      <3> QED BY <2>1, <3>1, <3>2 DEF l
    <2> QED BY <2>2, <2>3
  <1> QED BY <1>2, <1>3, <1>5, <1>6

\* A batch writes rows of its nodes' own texts, if any.
LEMMA BatchKeepsRows ==
    ASSUME NEW n \in Nat, NEW ids \in SUBSET (1..n), NEW stored, NEW S, NEW c, NEW A, NEW text,
           NEW pass, PassRows(pass.stored, stored, n, ids, S, c, text),
           NEW batch \in Seq(ids), NEW r, AfterBatch(r, pass, n, batch, S, c, A, text)
    PROVE  PassRows(r.stored, stored, n, ids, S, c, text)
  <1>1. CASE r.stored = pass.stored
    <2> DEFINE w == r.stored
    <2>1. w = pass.stored BY <1>1
    <2> HIDE DEF w
    <2>2. PassRows(w, stored, n, ids, S, c, text) BY <2>1
    <2> QED BY <2>2 DEF w
  <1>2. CASE RowsWritten(r.stored, pass.stored, n, batch, S, c, text)
    <2>1. \A k \in 1..Len(batch) : batch[k] \in ids OBVIOUS
    <2>2. ASSUME NEW id \in 1..n
          PROVE  \/ r.stored[id] = stored[id]
                 \/ id \in ids /\ r.stored[id] \in Rows(S, c) /\ r.stored[id].vec.of = text[id]
      <3>1. CASE r.stored[id] = pass.stored[id] BY <3>1 DEF PassRows
      <3>2. CASE (\E k \in 1..Len(batch) : batch[k] = id) /\ r.stored[id] \in Rows(S, c)
                 /\ r.stored[id].vec.of = text[id]
        BY <2>1, <3>2
      <3> QED BY <1>2, <3>1, <3>2 DEF RowsWritten
    <2> QED BY <2>2 DEF PassRows
  <1>3. r = pass \/ r.stored = pass.stored \/ RowsWritten(r.stored, pass.stored, n, batch, S, c, text)
    BY DEF AfterBatch
  <1> QED BY <1>1, <1>2, <1>3

\* A batch leaves without a row no more nodes than it has faults to answer for.
LEMMA BatchLeaves ==
    ASSUME TextBatch \in Nat \ {0}, NEW n \in Nat, NEW ids \in SUBSET (1..n), NEW S, NEW c, NEW A,
           NEW text, NEW script, Em!Faults(script) \in Nat, \A row \in Rows(S, c) : row # None,
           NEW todo \in Seq(ids), NEW m, NEW list, Cut(list, m, ids, todo), NEW b \in 1..m,
           NEW pass, PassLeft(pass, n, todo, c, script, b - 1),
           NEW r, AfterBatch(r, pass, n, list[b], S, c, A, text)
    PROVE  PassLeft(r, n, todo, c, script, b)
  <1> DEFINE batch == list[b]
             B == TextBatch
             left == Em!Faults(pass.script)
             now == Em!Faults(r.script)
             whole == Em!Faults(script)
  <1> SUFFICES ASSUME MaxAttempts # 0, Configured(c)
               PROVE  /\ now \in Nat
                      /\ r.end = "none" =>
                           \E M \in SUBSET (1..n) :
                              /\ Cardinality(M) + B * now <= B * whole
                              /\ \A id \in 1..n : r.stored[id] = None => id \in M \/ Ahead(todo, b, id)
    BY DEF PassLeft
  <1>1. /\ batch \in Seq(ids) /\ Len(batch) \in Nat /\ Len(batch) <= B
        /\ \A id : Ahead(todo, b - 1, id) => Ahead(todo, b, id) \/ \E i \in 1..Len(batch) : batch[i] = id
    BY AheadOrIn
  <1> HIDE DEF batch
  <1>2. left \in Nat BY DEF PassLeft
  <1>3. CASE pass.end # "none" /\ r = pass BY <1>2, <1>3
  <1>g. now \in Nat
    <2> DEFINE s == r.script
    <2>1. s \in Seq(A) BY DEF AfterBatch
    <2> HIDE DEF s
    <2>2. 0 \in 0..Len(s) /\ \E t : t = SubSeq(s, 0 + 1, Len(s)) BY <2>1
    <2>3. Em!Faults(s) \in Nat BY <2>1, <2>2, FaultsLeft
    <2> QED BY <2>3 DEF s
  <1>4. CASE pass.end = "none" /\ r.end = "cancelled" /\ r.stored = pass.stored BY <1>g, <1>4
  <1>5. ASSUME pass.end = "none"
        PROVE  \E M \in SUBSET (1..n) :
                  /\ Cardinality(M) + B * left <= B * whole /\ IsFiniteSet(M) /\ Cardinality(M) \in Nat
                  /\ \A id \in 1..n : pass.stored[id] = None => id \in M \/ Ahead(todo, b - 1, id)
    <2>1. PICK M \in SUBSET (1..n) :
             /\ Cardinality(M) + B * left <= B * whole
             /\ \A id \in 1..n : pass.stored[id] = None => id \in M \/ Ahead(todo, b - 1, id)
      BY <1>5 DEF PassLeft
    <2>2. IsFiniteSet(M) /\ Cardinality(M) \in Nat
      <3>1. IsFiniteSet(1..n) BY FS_Interval
      <3> QED BY <3>1, FS_Subset, FS_CardinalityType
    <2> QED BY <2>1, <2>2
  <1> HIDE DEF left, now, whole
  <1>6. CASE pass.end = "none" /\ r.end = "none" /\ r.stored = pass.stored /\ now \in Nat /\ now < left
    <2>1. PICK M \in SUBSET (1..n) :
             /\ Cardinality(M) + B * left <= B * whole /\ IsFiniteSet(M) /\ Cardinality(M) \in Nat
             /\ \A id \in 1..n : pass.stored[id] = None => id \in M \/ Ahead(todo, b - 1, id)
      BY <1>5, <1>6
    <2> DEFINE D == {batch[i] : i \in 1..Len(batch)}
               N == M \cup D
    <2>2. IsFiniteSet(D) /\ Cardinality(D) <= Len(batch) /\ Cardinality(D) \in Nat
      <3> DEFINE g == [i \in 1..Len(batch) |-> batch[i]]
      <3>1. g \in Surjection(1..Len(batch), D) BY DEF Surjection
      <3>2. IsFiniteSet(1..Len(batch)) /\ Cardinality(1..Len(batch)) = Len(batch)
        <4> DEFINE l == Len(batch)
        <4>1. l \in Nat BY <1>1
        <4> HIDE DEF l
        <4>2. (IF 1 > l THEN 0 ELSE l - 1 + 1) = l /\ l \in Int /\ 1 \in Int BY <4>1
        <4>3. IsFiniteSet(1..l) /\ Cardinality(1..l) = IF 1 > l THEN 0 ELSE l - 1 + 1
          BY <4>2, FS_Interval
        <4> QED BY <4>2, <4>3 DEF l
      <3> DEFINE I == 1..Len(batch)
      <3>3. g \in Surjection(I, D) /\ IsFiniteSet(I) /\ Cardinality(I) = Len(batch) BY <3>1, <3>2
      <3> HIDE DEF g, D, I
      <3>4. IsFiniteSet(D) /\ Cardinality(D) <= Cardinality(I) BY <3>3, FS_Surjection
      <3>5. Cardinality(D) \in Nat BY <3>4, FS_CardinalityType
      <3>6. Cardinality(D) <= Len(batch) BY <3>3, <3>4
      <3> QED BY <3>4, <3>5, <3>6
    <2>3. D \in SUBSET (1..n) /\ N \in SUBSET (1..n)
      <3>1. \A i \in 1..Len(batch) : batch[i] \in 1..n
        <4>1. batch \in Seq(ids) BY <1>1
        <4>2. \A i \in 1..Len(batch) : batch[i] \in ids BY <4>1
        <4> QED BY <4>2
      <3> QED BY <2>1, <3>1
    <2>4. Cardinality(N) <= Cardinality(M) + B /\ Cardinality(N) \in Nat
      <3> HIDE DEF D
      <3>1. /\ Cardinality(N) = Cardinality(M) + Cardinality(D) - Cardinality(M \cap D)
            /\ IsFiniteSet(N) /\ IsFiniteSet(M \cap D)
        <4>1. M \cap D \in SUBSET M OBVIOUS
        <4> QED BY <2>1, <2>2, <4>1, FS_Union, FS_Subset
      <3>2. Cardinality(M \cap D) \in Nat /\ Cardinality(N) \in Nat BY <3>1, FS_CardinalityType
      <3> HIDE DEF N
      <3> QED BY <1>1, <2>1, <2>2, <3>1, <3>2
    <2>5. B * now + B <= B * left
      <3>1. now + 1 \in Int /\ left \in Int /\ now \in Int /\ now + 1 <= left BY <1>2, <1>6
      <3>2. (now + 1) * B <= left * B /\ (now + 1) * B = now * B + B BY <3>1, Products
      <3>3. B * now = now * B /\ B * left = left * B BY <3>1
      <3> QED BY <3>2, <3>3
    <2>6. Cardinality(N) + B * now <= B * whole
      <3>1. B * now \in Int /\ B * left \in Int /\ B * whole \in Int BY <1>2, <1>6 DEF whole
      <3> HIDE DEF N
      <3> QED BY <2>1, <2>4, <2>5, <3>1
    <2>7. \A id \in 1..n : r.stored[id] = None => id \in N \/ Ahead(todo, b, id)
      <3> SUFFICES ASSUME NEW id \in 1..n, r.stored[id] = None, ~Ahead(todo, b, id) PROVE id \in N
        OBVIOUS
      <3>1. pass.stored[id] = None BY <1>6
      <3>2. id \in M \/ Ahead(todo, b - 1, id) BY <2>1, <3>1
      <3>3. id \in M \/ \E i \in 1..Len(batch) : batch[i] = id BY <1>1, <3>2
      <3> QED BY <3>3
    <2> HIDE DEF N
    <2> QED BY <1>6, <2>3, <2>6, <2>7
  <1>7. CASE /\ pass.end = "none" /\ r.end = "none" /\ RowsWritten(r.stored, pass.stored, n, batch, S, c, text)
             /\ now \in Nat /\ now <= left
    <2>1. PICK M \in SUBSET (1..n) :
             /\ Cardinality(M) + B * left <= B * whole /\ IsFiniteSet(M) /\ Cardinality(M) \in Nat
             /\ \A id \in 1..n : pass.stored[id] = None => id \in M \/ Ahead(todo, b - 1, id)
      BY <1>5, <1>7
    <2>2. Cardinality(M) + B * now <= B * whole
      <3>1. now * B <= left * B BY <1>2, <1>7, Products
      <3>2. B * now = now * B /\ B * left = left * B /\ B * now \in Int /\ B * left \in Int /\ B * whole \in Int
        BY <1>2, <1>7 DEF whole
      <3> QED BY <2>1, <3>1, <3>2
    <2>3. \A id \in 1..n : r.stored[id] = None => id \in M \/ Ahead(todo, b, id)
      <3> SUFFICES ASSUME NEW id \in 1..n, r.stored[id] = None, ~Ahead(todo, b, id) PROVE id \in M
        OBVIOUS
      <3>1. (\A k \in 1..Len(batch) : batch[k] # id) /\ r.stored[id] = pass.stored[id]
        BY <1>7 DEF RowsWritten
      <3>2. id \in M \/ Ahead(todo, b - 1, id) BY <2>1, <3>1
      <3> QED BY <1>1, <3>1, <3>2
    <2> QED BY <1>7, <2>2, <2>3
  <1>8. \/ pass.end # "none" /\ r = pass
        \/ pass.end = "none" /\ r.end = "cancelled" /\ r.stored = pass.stored
        \/ pass.end = "none" /\ r.end = "none" /\ r.stored = pass.stored /\ now \in Nat /\ now < left
        \/ /\ pass.end = "none" /\ r.end = "none" /\ RowsWritten(r.stored, pass.stored, n, batch, S, c, text)
           /\ now \in Nat /\ now <= left
    BY DEF AfterBatch, batch, left, now
  <1> QED BY <1>3, <1>4, <1>6, <1>7, <1>8

\* What a pass leaves.
PassDone(rest, n, stored, ids, S, c, A, text, script) ==
    /\ rest \in Passes(n, stored, S, c, A) /\ PassRows(rest.stored, stored, n, ids, S, c, text)
    /\ MaxAttempts # 0 /\ Configured(c) /\ rest.end = "none" =>
          Cardinality({id \in 1..n : rest.stored[id] = None}) <= TextBatch * Em!Faults(script)

\* Batch by batch, a pass comes to its end.
LEMMA PassComesToEnd ==
    ASSUME TextBatch \in Nat \ {0}, MaxAttempts \in Nat, NEW n \in Nat,
           NEW S, NEW text \in [1..n -> S], NEW c, NEW A \in SUBSET Replies,
           c.provider = "openai" \/ (c.provider = "voyage" /\ A \cap Spoilt = {}),
           NEW script \in Seq(A), \A row \in Rows(S, c) : row # None,
           NEW stored, DOMAIN stored = 1..n, stored = [id \in 1..n |-> stored[id]],
           NEW missingOnly \in BOOLEAN
    PROVE  PassDone(Em!runEmbeddingsPass(c, text, stored, missingOnly, script), n, stored,
                    {id \in 1..n : ~missingOnly \/ stored[id] = None}, S, c, A, text, script)
  <1> DEFINE rest == Em!runEmbeddingsPass(c, text, stored, missingOnly, script)
             ids == {id \in 1..n : ~missingOnly \/ stored[id] = None}
             todo == Em!ById(ids)
             L == Len(todo)
             m == (L + TextBatch - 1) \div TextBatch
             list == Em!Batches(todo)
             init == [stored |-> stored, script |-> script, end |-> "none"]
             Is(it) == it = [s \in SUBSET (DOMAIN list) |->
                        IF s = {} THEN init ELSE PassStep(c, text, it[s \ {T!Max(s)}], list[T!Max(s)])]
             it == CHOOSE it : Is(it)
  <1>0. ids \in SUBSET (1..n) /\ \A id \in 1..n : stored[id] = None => id \in ids OBVIOUS
  <1>1. rest = it[DOMAIN list]
    BY DEF Em!runEmbeddingsPass, Em!FoldLeft, Em!MapThenFoldSet, PassStep, T!Max, Em!Max
  <1>t. todo \in Seq(ids) /\ \A id \in ids : \E k \in 1..L : todo[k] = id
    <2>1. Lists(todo, ids) BY <1>0, ByIdLists
    <2> HIDE DEF todo, ids
    <2> QED BY <2>1 DEF Lists
  <1> HIDE DEF todo, ids
  <1>c. Cut(list, m, ids, todo) BY <1>t, BatchesAreTexts
  <1>2. /\ m \in Nat /\ DOMAIN list = 1..m /\ Ends(0, L) = 0 /\ Ends(m, L) = L
    <2> HIDE DEF list, m
    <2> QED BY <1>c DEF Cut
  <1> HIDE DEF list, m
  <1>z. Em!Faults(script) \in Nat
    <2>1. 0 \in 0..Len(script) /\ \E t : t = SubSeq(script, 0 + 1, Len(script)) OBVIOUS
    <2> QED BY <2>1, FaultsLeft
  <1> DEFINE In == Passes(n, stored, S, c, A)
             Inv(pass, b) == /\ pass \in In /\ PassRows(pass.stored, stored, n, ids, S, c, text)
                             /\ PassLeft(pass, n, todo, c, script, b)
             step(pass, b) == PassStep(c, text, pass, list[b])
  <1>4. Inv(init, 0)
    <2> DEFINE p == init
    <2>1. p.stored = stored /\ p.script = script /\ p.end = "none" OBVIOUS
    <2>2. p = [stored |-> p.stored, script |-> p.script, end |-> p.end] OBVIOUS
    <2> HIDE DEF p
    <2>3. p \in In
      <3> DEFINE U == {stored[id] : id \in 1..n} \cup Rows(S, c)
      <3>1. stored \in [1..n -> U] OBVIOUS
      <3> HIDE DEF U
      <3> QED BY <2>1, <2>2, <3>1 DEF Passes, U
    <2>4. PassRows(p.stored, stored, n, ids, S, c, text) BY <2>1 DEF PassRows
    <2>5. PassLeft(p, n, todo, c, script, 0)
      <3>1. {} \in SUBSET (1..n) /\ Cardinality({}) = 0 BY FS_EmptySet
      <3>2. \A id \in 1..n : p.stored[id] = None => id \in {} \/ Ahead(todo, 0, id)
        <4> SUFFICES ASSUME NEW id \in 1..n, stored[id] = None PROVE Ahead(todo, 0, id) BY <2>1
        <4>1. PICK k \in 1..L : todo[k] = id BY <1>0, <1>t
        <4>2. k > Ends(0, L) BY <1>2
        <4> QED BY <4>1, <4>2 DEF Ahead
      <3>3. Cardinality({}) + TextBatch * Em!Faults(p.script) <= TextBatch * Em!Faults(script)
        BY <1>z, <2>1, <3>1
      <3>4. Em!Faults(p.script) \in Nat BY <1>z, <2>1
      <3> QED BY <3>1, <3>2, <3>3, <3>4 DEF PassLeft
    <2> QED BY <2>3, <2>4, <2>5 DEF p
  <1>b. ASSUME NEW b \in 1..m PROVE list[b] \in Seq(ids) /\ list[b] \in Seq(1..n)
    <2> DEFINE batch == list[b]
    <2>1. batch \in Seq(ids) BY <1>c, <1>t, <1>b, AheadOrIn
    <2> HIDE DEF batch
    <2>2. batch \in Seq(1..n)
      <3>1. \A k \in 1..Len(batch) : batch[k] \in 1..n BY <1>0, <2>1
      <3>2. batch \in [1..Len(batch) -> 1..n] /\ Len(batch) \in Nat BY <2>1, <3>1
      <3> QED BY <3>2
    <2> QED BY <2>1, <2>2 DEF batch
  <1>6. ASSUME NEW pass \in In, NEW b \in 1..m
        PROVE  step(pass, b) \in In /\ AfterBatch(step(pass, b), pass, n, list[b], S, c, A, text)
    <2> DEFINE batch == list[b]
    <2>1. batch \in Seq(1..n) BY <1>b
    <2> HIDE DEF batch
    <2>2. /\ PassStep(c, text, pass, batch) \in Passes(n, stored, S, c, A)
          /\ AfterBatch(PassStep(c, text, pass, batch), pass, n, batch, S, c, A, text)
      BY <2>1, OneBatch
    <2> QED BY <2>2 DEF batch
  <1>5. ASSUME NEW pass, NEW b \in 1..m, Inv(pass, b - 1) PROVE Inv(step(pass, b), b)
    <2> DEFINE r == step(pass, b)
               batch == list[b]
    <2>1. r \in In /\ AfterBatch(r, pass, n, batch, S, c, A, text) BY <1>5, <1>6
    <2>2. batch \in Seq(ids) BY <1>b
    <2> HIDE DEF r, In
    <2>3. PassLeft(r, n, todo, c, script, b)
      BY <1>0, <1>z, <1>t, <1>c, <1>5, <2>1, BatchLeaves DEF Inv
    <2> HIDE DEF batch
    <2>4. PassRows(r.stored, stored, n, ids, S, c, text)
      BY <1>0, <1>5, <2>1, <2>2, BatchKeepsRows DEF Inv
    <2> QED BY <2>1, <2>3, <2>4 DEF Inv, r
  <1> HIDE DEF Inv, init, In, L
  <1> DEFINE st == [w \in In \X (1..m) |-> step(w[1], w[2])]
  <1>9. \A pass \in In : \A k \in 1..m : st[<<pass, k>>] = step(pass, k) OBVIOUS
  <1>10. init \in In BY <1>4 DEF Inv
  <1>11. StaysIn(In, m, st)
    <2>1. \A pass \in In : \A b \in 1..m : step(pass, b) \in In BY <1>6
    <2> HIDE DEF st, step
    <2> QED BY <1>9, <2>1 DEF StaysIn
  <1>12. Is(it)
    <2>1. PICK e : FoldsOver(e, In, init, m, st) BY <1>2, <1>10, <1>11, FoldThere
    <2>2. ASSUME NEW s \in SUBSET (DOMAIN list)
          PROVE  e[s] = IF s = {} THEN init ELSE step(e[s \ {T!Max(s)}], T!Max(s))
      <3>1. CASE s = {} BY <2>1, <3>1 DEF FoldsOver
      <3>2. CASE s # {}
        <4>1. /\ T!Max(s) \in 1..m /\ e[s \ {T!Max(s)}] \in In
              /\ e[s] = st[<<e[s \ {T!Max(s)}], T!Max(s)>>]
          BY <1>2, <2>1, <2>2, <3>2 DEF FoldsOver
        <4> HIDE DEF st, step
        <4> QED BY <1>9, <3>2, <4>1
      <3> QED BY <3>1, <3>2
    <2>3. e = [s \in SUBSET (DOMAIN list) |-> e[s]] BY <1>2, <2>1 DEF FoldsOver
    <2>4. Is(e)
      <3> HIDE DEF st
      <3> QED BY <2>2, <2>3
    <2>5. \E h : Is(h) BY <2>4
    <2> HIDE DEF Is
    <2> QED BY <2>5
  <1>13. Unfolds(it, In, init, m, st)
    <2>1. it[{}] = init BY <1>12
    <2>2. ASSUME NEW s \in SUBSET (1..m), s # {}, it[s \ {T!Max(s)}] \in In
          PROVE  it[s] = st[<<it[s \ {T!Max(s)}], T!Max(s)>>]
      <3>1. T!Max(s) \in 1..m BY <1>2, <2>2, Greatest
      <3>2. it[s] = step(it[s \ {T!Max(s)}], T!Max(s))
        <4>1. s \in SUBSET (DOMAIN list) BY <1>2, <2>2
        <4> HIDE DEF it, step
        <4> QED BY <1>12, <2>2, <4>1 DEF step
      <3> HIDE DEF it, st, step
      <3> QED BY <1>9, <2>2, <3>1, <3>2
    <2>3. \A s \in SUBSET (1..m) : s # {} /\ it[s \ {T!Max(s)}] \in In =>
             it[s] = st[<<it[s \ {T!Max(s)}], T!Max(s)>>]
      <3> HIDE DEF it, st
      <3> QED BY <2>2
    <2> HIDE DEF it, st, step, Is
    <2> QED BY <2>1, <2>3 DEF Unfolds
  <1> HIDE DEF it, step, st, Is
  <1>14. PICK f : StepsFrom(f, In, init, m, st) /\ it[1..m] = f[m]
    <2>1. EndsAt(it[1..m], In, init, m, st) BY <1>2, <1>10, <1>11, <1>13, FoldEnds
    <2> QED BY <2>1 DEF EndsAt
  <1> DEFINE P == {k \in 0..m : Inv(f[k], k)}
  <1>15. \A k \in 0..m : k \in P
    <2>1. 0 \in P BY <1>2, <1>4, <1>14 DEF StepsFrom
    <2>2. ASSUME NEW k \in 1..m, k - 1 \in P PROVE k \in P
      <3>1. k - 1 \in 0..m /\ k \in 0..m BY <1>2
      <3>2. f[k - 1] \in In /\ f[k] = st[<<f[k - 1], k>>] BY <1>14, <3>1 DEF StepsFrom
      <3>3. f[k] = step(f[k - 1], k) BY <1>9, <3>2
      <3>4. Inv(f[k - 1], k - 1) BY <2>2
      <3>5. Inv(step(f[k - 1], k), k) BY <1>5, <3>4
      <3> QED BY <3>1, <3>3, <3>5
    <2>3. \A k \in 1..m : k - 1 \in P => k \in P BY <2>2
    <2> HIDE DEF P
    <2> QED BY <1>2, <2>1, <2>3, UpTo
  <1>16. Inv(rest, m)
    <2>1. m \in 0..m BY <1>2
    <2> HIDE DEF rest
    <2> QED BY <1>1, <1>2, <1>14, <1>15, <2>1
  <1> HIDE DEF rest
  <1>17. ASSUME MaxAttempts # 0, Configured(c), rest.end = "none"
         PROVE  Cardinality({id \in 1..n : rest.stored[id] = None}) <= TextBatch * Em!Faults(script)
    <2> DEFINE N == {id \in 1..n : rest.stored[id] = None}
               left == Em!Faults(rest.script)
               whole == Em!Faults(script)
    <2>1. left \in Nat BY <1>16, <1>17 DEF Inv, PassLeft
    <2>2. PICK M \in SUBSET (1..n) :
             /\ Cardinality(M) + TextBatch * left <= TextBatch * whole
             /\ \A id \in 1..n : rest.stored[id] = None => id \in M \/ Ahead(todo, m, id)
      BY <1>16, <1>17 DEF Inv, PassLeft
    <2>3. \A id : ~Ahead(todo, m, id)
      <3>1. L \in Nat BY <1>t DEF L
      <3>2. \A k \in 1..L : ~(k > L) BY <3>1
      <3> QED BY <1>2, <3>2 DEF Ahead, L
    <2>4. N \in SUBSET M BY <2>2, <2>3
    <2> HIDE DEF N, left, whole
    <2>5. IsFiniteSet(M) /\ Cardinality(M) \in Nat
      <3>1. IsFiniteSet(1..n) BY FS_Interval
      <3> QED BY <3>1, FS_Subset, FS_CardinalityType
    <2>6. Cardinality(N) <= Cardinality(M) /\ Cardinality(N) \in Nat
      <3>1. IsFiniteSet(N) /\ Cardinality(N) <= Cardinality(M) BY <2>4, <2>5, FS_Subset
      <3> QED BY <3>1, FS_CardinalityType
    <2>7. TextBatch * left >= 0 /\ TextBatch * left \in Int /\ TextBatch * whole \in Int
      <3>1. left * TextBatch >= 0 /\ left * TextBatch \in Int BY <2>1, Products
      <3>2. TextBatch * left = left * TextBatch BY <2>1
      <3> QED BY <1>z, <3>1, <3>2 DEF whole
    <2>8. Cardinality(N) <= TextBatch * whole BY <2>2, <2>5, <2>6, <2>7
    <2> QED BY <2>8 DEF N, whole
  <1> QED BY <1>16, <1>17 DEF Inv, In, PassDone, rest, ids

\* However often a pass fails or where it is cut off, every stored vector is of
\* its node's own text, made by the model its row records, and a later pass
\* that was not cut off leaves no more nodes without one than were in the
\* batches its server did not answer: for any texts before and after, clients,
\* size of the batches and scripts.
THEOREM RowsStayTheirNodes ==
    ASSUME TextBatch \in Nat \ {0}, MaxAttempts \in Nat \ {0},
           \A model, of, width : [model |-> model, vec |-> [of |-> of, width |-> width]] # None,
           NEW S, NEW text \in Seq(S), NEW text2 \in Seq(S), Len(text2) = Len(text),
           NEW first, Configured(first), NEW second, Configured(second),
           NEW script \in Seq(Replies), NEW later \in Seq(Replies)
    PROVE  Em!RowsAreTheirNodes(text, text2, first, script, second, later)
  <1> DEFINE n == Len(text)
             ids == DOMAIN text
             changed == {id \in ids : text[id] # text2[id]}
             none == [id \in ids |-> None]
             full == Em!runEmbeddingsPass(first, text, none, FALSE, script)
             kept == Em!KeptRows(full.stored, changed)
             rest == Em!runEmbeddingsPass(second, text2, kept, TRUE, later)
             A == Em!ToSet(script)
             A2 == Em!ToSet(later)
  <1>1. n \in Nat /\ ids = 1..n /\ text \in [1..n -> S] /\ text2 \in [1..n -> S] OBVIOUS
  <1> SUFFICES ASSUME Em!Behaves(first, script), Em!Behaves(second, later)
               PROVE  /\ full.end # "panic" /\ rest.end # "panic"
                      /\ \A id \in ids : rest.stored[id] # None =>
                            /\ rest.stored[id].vec.of = text2[id]
                            /\ rest.stored[id].model = IF kept[id] # None THEN first.model ELSE second.model
                      /\ rest.end # "cancelled" =>
                            Em!Cardinality({id \in ids : rest.stored[id] = None}) <= TextBatch * Em!Faults(later)
    BY DEF Em!RowsAreTheirNodes
  <1>2. \A D : Em!Cardinality(D) = Cardinality(D) BY DEF Em!Cardinality, Cardinality
  <1>3. \A c : \A row \in Rows(S, c) : row # None
    <2> TAKE c
    <2> TAKE row \in Rows(S, c)
    <2>1. row = [model |-> row.model, vec |-> [of |-> row.vec.of, width |-> row.vec.width]]
      BY DEF Rows, Vectors
    <2> QED BY <2>1
  <1> HIDE DEF A, A2
  <1>4. /\ A \in SUBSET Replies /\ script \in Seq(A)
        /\ first.provider = "openai" \/ (first.provider = "voyage" /\ A \cap Spoilt = {})
    BY ScriptIsOfReplies DEF A, Configured
  <1>5. /\ A2 \in SUBSET Replies /\ later \in Seq(A2)
        /\ second.provider = "openai" \/ (second.provider = "voyage" /\ A2 \cap Spoilt = {})
    BY ScriptIsOfReplies DEF A2, Configured
  <1> HIDE DEF n, ids
  <1>6. PassDone(full, n, none, {id \in 1..n : ~FALSE \/ none[id] = None}, S, first, A, text, script)
    <2>1. DOMAIN none = 1..n /\ none = [id \in 1..n |-> none[id]] BY <1>1
    <2>2. \A row \in Rows(S, first) : row # None BY <1>3
    <2>3. FALSE \in BOOLEAN /\ MaxAttempts \in Nat OBVIOUS
    <2> HIDE DEF none
    <2> QED BY <1>1, <1>4, <2>1, <2>2, <2>3, PassComesToEnd
  <1>7. /\ full.stored \in [1..n -> {None} \cup Rows(S, first)] /\ full.end \in {"none", "cancelled"}
        /\ \A id \in 1..n : full.stored[id] = None \/ full.stored[id].vec.of = text[id]
    <2>1. \A id \in 1..n : none[id] = None BY <1>1
    <2> HIDE DEF full, none
    <2>2. {none[id] : id \in 1..n} \cup Rows(S, first) \subseteq {None} \cup Rows(S, first) BY <2>1
    <2>3. full.stored \in [1..n -> {none[id] : id \in 1..n} \cup Rows(S, first)]
      BY <1>6 DEF PassDone, Passes
    <2>4. full.end \in {"none", "cancelled"} BY <1>6 DEF PassDone, Passes
    <2>5. \A id \in 1..n : full.stored[id] = None \/ full.stored[id].vec.of = text[id]
      BY <1>6, <2>1 DEF PassDone, PassRows
    <2> QED BY <2>2, <2>3, <2>4, <2>5
  <1> HIDE DEF full
  <1>8. /\ DOMAIN kept = 1..n /\ kept = [id \in 1..n |-> kept[id]]
        /\ \A id \in 1..n : kept[id] = IF text[id] # text2[id] THEN None ELSE full.stored[id]
    <2>1. DOMAIN full.stored = 1..n BY <1>7
    <2>2. kept = [id \in 1..n |-> IF id \in changed THEN None ELSE full.stored[id]]
      BY <2>1 DEF Em!KeptRows
    <2>3. \A id \in 1..n : id \in changed <=> text[id] # text2[id] BY <1>1
    <2> HIDE DEF kept, changed
    <2> QED BY <2>2, <2>3
  <1> HIDE DEF kept
  <1>9. PassDone(rest, n, kept, {id \in 1..n : ~TRUE \/ kept[id] = None}, S, second, A2, text2, later)
    <2>1. \A row \in Rows(S, second) : row # None BY <1>3
    <2>2. TRUE \in BOOLEAN /\ MaxAttempts \in Nat OBVIOUS
    <2> QED BY <1>1, <1>5, <1>8, <2>1, <2>2, PassComesToEnd
  <1> HIDE DEF rest
  <1>10. rest.end \in {"none", "cancelled"} BY <1>9 DEF PassDone, Passes
  <1>11. ASSUME NEW id \in 1..n, rest.stored[id] # None
         PROVE  /\ rest.stored[id].vec.of = text2[id]
                /\ rest.stored[id].model = IF kept[id] # None THEN first.model ELSE second.model
    <2>1. \/ rest.stored[id] = kept[id]
          \/ /\ kept[id] = None /\ rest.stored[id] \in Rows(S, second)
             /\ rest.stored[id].vec.of = text2[id]
      BY <1>9 DEF PassDone, PassRows
    <2>2. CASE rest.stored[id] = kept[id]
      <3>1. kept[id] # None /\ kept[id] = full.stored[id] /\ text[id] = text2[id] BY <1>8, <1>11, <2>2
      <3>2. full.stored[id] \in Rows(S, first) /\ full.stored[id].vec.of = text[id] BY <1>7, <3>1
      <3>3. full.stored[id].model = first.model BY <3>2 DEF Rows
      <3> QED BY <2>2, <3>1, <3>2, <3>3
    <2>3. CASE kept[id] = None /\ rest.stored[id] \in Rows(S, second) /\ rest.stored[id].vec.of = text2[id]
      <3>1. rest.stored[id].model = second.model BY <2>3 DEF Rows
      <3> QED BY <2>3, <3>1
    <2> QED BY <2>1, <2>2, <2>3
  <1>12. rest.end # "cancelled" =>
            Em!Cardinality({id \in ids : rest.stored[id] = None}) <= TextBatch * Em!Faults(later)
    <2> SUFFICES ASSUME rest.end # "cancelled"
                 PROVE  Em!Cardinality({id \in ids : rest.stored[id] = None}) <= TextBatch * Em!Faults(later)
      OBVIOUS
    <2>1. rest.end = "none" BY <1>10
    <2>2. Cardinality({id \in 1..n : rest.stored[id] = None}) <= TextBatch * Em!Faults(later)
      BY <1>9, <2>1 DEF PassDone
    <2> DEFINE N == {id \in ids : rest.stored[id] = None}
    <2>3. Cardinality(N) <= TextBatch * Em!Faults(later) BY <1>1, <2>2
    <2> HIDE DEF N
    <2>4. Em!Cardinality(N) <= TextBatch * Em!Faults(later) BY <1>2, <2>3
    <2> QED BY <2>4 DEF N
  <1> QED BY <1>1, <1>7, <1>10, <1>11, <1>12
=============================================================================
