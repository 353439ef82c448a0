---------------------------- MODULE MCGraphStore ---------------------------
(* GraphStore for TLC: two projects that share their names.                 *)
EXTENDS GraphStore, TLC

\* One chunk and a half, and a batch that names an edge twice.
MCShapes == {<<<<x, x, t>>, <<x, y, t>>, <<y, x, t>>>> : x, y \in QN, t \in Type}
            \cup {<<<<x, y, t>>, <<x, y, t>>>> : x, y \in QN, t \in Type}
Symmetry == Permutations(Project) \cup Permutations(QN) \cup Permutations(File)
=============================================================================
