------------------------------- MODULE Embedder -------------------------------
(* The vectors of semantic search: which provider the settings name, how its *)
(* client asks for a batch and what it accepts, the pass that embeds the     *)
(* nodes of a project, and the search over what is stored (internal/embed,   *)
(* internal/pipeline/pass_embeddings.go, internal/store/embeddings.go).  A   *)
(* vector is what the server made of a text: [of, width].  A script is what  *)
(* becomes of one request after the other: where it ends, the deadline has   *)
(* passed, the caller has cancelled, or a request took the client's timeout. *)
EXTENDS Integers, FiniteSets, Sequences, SequencesExt

CONSTANTS
    MaxAttempts,    \* attempts of one request, 4
    BatchSize,      \* texts of one request, 64
    Width(_),       \* the width of a model's vectors
    None

-----------------------------------------------------------------------------
(* embed.go: the settings.  "" is unset; an address may be "bad", and so may *)
(* an auth header and a dimension.                                           *)

Off(requested, error) ==
    [requested |-> requested, provider |-> "off", model |-> "", baseURL |-> "", dimension |-> 0, error |-> error]

ResolveProvider(s) ==
    LET requested == IF s.requested = "" THEN "auto" ELSE s.requested
        provider  == CASE requested # "auto" -> requested
                       [] requested = "auto" /\ s.voyageKey -> "voyage"
                       [] requested = "auto" /\ ~s.voyageKey ->
                              IF s.baseURL # "" THEN "openai" ELSE "off"
    IN  CASE provider = "off" -> Off(requested, FALSE)
          [] provider = "voyage" ->
               IF ~s.voyageKey THEN Off(requested, TRUE)
               ELSE [Off(requested, FALSE) EXCEPT !.provider = "voyage",
                        !.model = IF s.voyageModel = "" THEN "built in" ELSE s.voyageModel]
          [] provider = "openai" ->
               IF s.model = "" \/ "bad" \in {s.baseURL, s.auth, s.dimension} THEN Off(requested, TRUE)
               ELSE [Off(requested, FALSE) EXCEPT !.provider = "openai", !.model = s.model,
                        !.baseURL = IF s.baseURL = "" THEN "api.openai.com" ELSE s.baseURL,
                        !.dimension = IF s.dimension = "set" THEN Width(s.model) ELSE 0]
          [] provider \notin {"off", "voyage", "openai"} -> Off(requested, TRUE)

NewOpenAI(r) == IF r.model = "" \/ r.baseURL = "" THEN None ELSE r
FromResolution(r) ==
    CASE r.provider = "voyage" -> r
      [] r.provider = "openai" -> NewOpenAI(r)
      [] r.provider = "off" -> None

\* CODE_GRAPH_SKIP_EMBEDDINGS: "1", "0", or unset; a server that starts
\* without a provider sets it for its passes.
embeddingMode(skip, s) == skip # "1" /\ (skip = "0" \/ ResolveProvider(s).provider # "off")
PassRuns(skip, s) == embeddingMode(skip, s) /\ FromResolution(ResolveProvider(s)) # None

-----------------------------------------------------------------------------
(* openai.go and voyage.go: one request, again after 429, 5xx and transport  *)
(* errors, and what is taken from its answer.                                *)

\* What a server may answer: the vectors in any order, one missing, two for one
\* text, one of another width.  Indices are those of the request, from 0.
Served(model, texts, reply) ==
    LET n       == Len(texts)
        item(i) == [index |-> i - 1, vec |-> [of |-> texts[i], width |-> Width(model)]]
        right   == [i \in 1..n |-> item(i)]
    IN  CASE reply = "right" -> right
          [] reply = "reversed" -> Reverse(right)
          [] reply = "missing" -> Tail(right)
          [] reply = "twice" -> [right EXCEPT ![n].index = 0]
          [] reply = "narrow" -> [right EXCEPT ![n].vec.width = 1]

Accepted(c, data, want) ==
    /\ Len(data) = want
    /\ {data[k].index : k \in 1..want} = 0..(want - 1)
    /\ LET width == IF c.dimension > 0 THEN c.dimension
                    ELSE data[CHOOSE k \in 1..want : data[k].index = 0].vec.width
       IN  \A k \in 1..want : data[k].vec.width = width

\* Voyage takes what comes: an index beyond the answer panics, a text without a
\* vector gets none, of two vectors for a text the later counts.
VectorAt(data, i) ==
    LET k == SelectLastInSeq(data, LAMBDA d : d.index = i - 1)
    IN  IF k = 0 THEN [of |-> None, width |-> 0] ELSE data[k].vec
parse(c, data, want) ==
    CASE c.provider = "openai" ->
           IF Accepted(c, data, want) THEN [vecs |-> [i \in 1..want |-> VectorAt(data, i)], error |-> "none"]
           ELSE [vecs |-> <<>>, error |-> "failed"]
      [] c.provider = "voyage" ->
           IF \E k \in 1..Len(data) : data[k].index >= Len(data) THEN [vecs |-> <<>>, error |-> "panic"]
           ELSE [vecs |-> [i \in 1..Len(data) |-> VectorAt(data, i)], error |-> "none"]

embedOnce(c, texts, script) ==
    LET asked == SubSeq(script, 1, IF Len(script) < MaxAttempts THEN Len(script) ELSE MaxAttempts)
        k     == SelectInSeq(asked, LAMBDA reply : reply # "busy")
        left  == SubSeq(script, (IF k = 0 THEN Len(asked) ELSE k) + 1, Len(script))
        came  == IF k = 0 THEN [vecs |-> <<>>, error |-> IF Len(asked) < MaxAttempts THEN "cancelled" ELSE "failed"]
                 ELSE IF asked[k] = "refused" THEN [vecs |-> <<>>, error |-> "failed"]
                 ELSE parse(c, Served(c.model, texts, asked[k]), Len(texts))
    IN  [vecs |-> came.vecs, error |-> came.error, script |-> left]

Batches(list) ==
    LET n == (Len(list) + BatchSize - 1) \div BatchSize
    IN  [b \in 1..n |-> SubSeq(list, (b - 1) * BatchSize + 1,
                               IF b * BatchSize < Len(list) THEN b * BatchSize ELSE Len(list))]

\* The first batch that fails ends the call, with the vectors so far.
EmbedBatch(c, texts, script) ==
    FoldLeft(LAMBDA all, batch :
                IF all.error # "none" THEN all
                ELSE LET one == embedOnce(c, batch, all.script) IN [one EXCEPT !.vecs = all.vecs \o @],
             [vecs |-> <<>>, error |-> "none", script |-> script], Batches(texts))

-----------------------------------------------------------------------------
(* pass_embeddings.go and embeddings.go.                                     *)

UpsertEmbeddingBatch(stored, batch, model, vecs) ==
    [id \in DOMAIN stored |->
        LET k == SelectInSeq(batch, LAMBDA n : n = id)
        IN  IF k = 0 THEN stored[id] ELSE [model |-> model, vec |-> vecs[k]]]

\* A batch that fails is left out, an ended context or a panic ends the pass.
embedNodeBatch(c, pass, batch, got) ==
    CASE got.error \in {"cancelled", "panic"} -> [pass EXCEPT !.end = got.error]
      [] got.error = "failed" -> [pass EXCEPT !.script = got.script]
      [] got.error = "none" ->
           IF Len(got.vecs) < Len(batch) THEN [pass EXCEPT !.end = "panic"]
           ELSE [stored |-> UpsertEmbeddingBatch(pass.stored, batch, c.model, got.vecs),
                 script |-> got.script, end |-> "none"]

\* Nodes in the order of their ids.
ById(ids) == [k \in 1..Cardinality(ids) |-> CHOOSE id \in ids : Cardinality({i \in ids : i <= id}) = k]

runEmbeddingsPass(c, text, stored, missingOnly, script) ==
    LET todo == ById({id \in DOMAIN stored : ~missingOnly \/ stored[id] = None})
        step(pass, batch) ==
            IF pass.end # "none" THEN pass
            ELSE embedNodeBatch(c, pass, batch,
                     EmbedBatch(c, [k \in 1..Len(batch) |-> text[batch[k]]], pass.script))
    IN  FoldLeft(step, [stored |-> stored, script |-> script, end |-> "none"], Batches(todo))

EmbeddingModelCounts(stored) == {stored[id].model : id \in {i \in DOMAIN stored : stored[i] # None}}

\* The numbers that a search compares of each vector, or "panic": vec[j] with
\* j up to the width of the first vector.
CosineSearch(stored, query) ==
    LET rows == SelectSeq([id \in DOMAIN stored |-> stored[id]], LAMBDA row : row # None)
        wide == SelectInSeq(rows, LAMBDA row : row.vec.width > 0)
        dim  == IF wide = 0 THEN 0 ELSE rows[wide].vec.width
        used == IF dim < query.width THEN dim ELSE query.width
    IN  IF \E k \in 1..Len(rows) : rows[k].vec.width < used THEN "panic" ELSE used

-----------------------------------------------------------------------------
\* The startup log, the pipeline and the client agree: an off resolution carries
\* nothing of a half-read setting, any other builds a client of its model, and
\* an explicit request is never answered by another provider.
SettingsAgree(skip, s) ==
    LET r == ResolveProvider(s)
    IN  /\ r.provider = "off" <=> FromResolution(r) = None
        /\ r.provider = "off" => r.model = "" /\ r.baseURL = "" /\ r.dimension = 0
        /\ r.provider # "off" => r.model # "" /\ r.requested \in {"auto", r.provider}
        /\ PassRuns(skip, s) <=> skip # "1" /\ r.provider # "off"

Behaves(c, script) == c.provider = "openai" \/ {"missing", "twice", "narrow"} \cap ToSet(script) = {}

\* Whatever the server answers and whenever the context ends, a client returns
\* the vectors of a whole number of batches, each that of its own text, and of
\* all texts if there is no error.
BatchesInOrder(c, texts, script) ==
    LET inOrder(got) ==
            /\ got.error # "panic"
            /\ \A i \in 1..Len(got.vecs) : got.vecs[i].of = texts[i]
            /\ got.error = "none" => Len(got.vecs) = Len(texts)
            /\ got.error # "none" => Len(got.vecs) % BatchSize = 0 /\ Len(got.vecs) < Len(texts)
    IN  Behaves(c, script) => inOrder(EmbedBatch(c, texts, script))

\* The rows that the nodes which did not change keep.
KeptRows(stored, changed) == [id \in DOMAIN stored |-> IF id \in changed THEN None ELSE stored[id]]

\* The replies of a script that are not an answer as it should be.
Faults(script) == Cardinality({k \in DOMAIN script : script[k] \notin {"right", "reversed"}})

\* A full run, however it ends, and a later one after some texts changed: every
\* row is of its node's own text, made by the model it records, and the later
\* run, if it is not cut off, leaves no more nodes without a row than were in
\* the batches that its server did not answer as it should.
RowsAreTheirNodes(text, text2, first, script, second, later) ==
    LET ids     == DOMAIN text
        changed == {id \in ids : text[id] # text2[id]}
        vouched(kept, rest) ==
            /\ rest.end # "panic"
            /\ \A id \in ids : rest.stored[id] # None =>
                  /\ rest.stored[id].vec.of = text2[id]
                  /\ rest.stored[id].model = IF kept[id] # None THEN first.model ELSE second.model
            /\ rest.end # "cancelled" =>
                  Cardinality({id \in ids : rest.stored[id] = None}) <= BatchSize * Faults(later)
        later2(kept) == vouched(kept, runEmbeddingsPass(second, text2, kept, TRUE, later))
        after(full) == full.end # "panic" /\ later2(KeptRows(full.stored, changed))
    IN  Behaves(first, script) /\ Behaves(second, later) =>
            after(runEmbeddingsPass(first, text, [id \in ids |-> None], FALSE, script))

\* A search whose model made every row, as far as the rows record it, compares
\* whole vectors, if the width is configured or the server keeps to it.
MixIsDetectable(first, script, second, changed, later) ==
    LET text  == [id \in 1..3 |-> id]
        full  == runEmbeddingsPass(first, text, [id \in 1..3 |-> None], FALSE, script).stored
        whole(rest) == EmbeddingModelCounts(rest) = {second.model} =>
            CosineSearch(rest, [of |-> 0, width |-> Width(second.model)]) = Width(second.model)
        steady(c, s) == Behaves(c, s) /\ (c.dimension > 0 \/ "narrow" \notin ToSet(s))
    IN  steady(first, script) /\ steady(second, later) =>
            whole(runEmbeddingsPass(second, text, KeptRows(full, changed), TRUE, later).stored)
=============================================================================
