-------------------------- MODULE MCIndexCoherence --------------------------
(* IndexCoherence for TLC.  Paths, contents and requests are interchangeable. *)
EXTENDS IndexCoherence, TLC

Symmetry ==
    Permutations(File) \cup Permutations(Content) \cup Permutations(Reader)

\* The skips of a run are only reported: no step and no property reads them.
View ==
    <<disk_vars, db_vars, auto, pc, kind, blind, start, files, todo, tostat,
      work, whash, read_vars>>

\* Bounds: at most one file is without the rows of its content because it was
\* skipped, and no request is under way after the last edit.
OneSkip == Cardinality({f \in File : Skipped \in {graph[f], work[f]}}) <= 1
LastEditAlone == edits = MaxEdits => \A r \in Reader : rpc[r] = "idle"
=============================================================================
