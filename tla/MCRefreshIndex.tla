--------------------------- MODULE MCRefreshIndex ---------------------------
(* Values for the constants of RefreshIndex. *)
EXTENDS RefreshIndex, TLC

CONSTANTS main, dev, f1, f2, a, b, c

\* f1 has two versions; the content of f2 is never that of f1.
DistinctContents == (f1 :> {a, b}) @@ (f2 :> {c})

\* Two files that may be equal.
SharedContents == (f1 :> {a}) @@ (f2 :> {a})

\* A single file.
OneFile == f1 :> {a, b}

\* No definition tells the two branches apart, nor the two versions of f1: a
\* tag's rows of one path have different times when no edit falls in a run, so
\* Latest has no choice.
BranchSymmetry == Permutations(Branches)
VersionSymmetry == BranchSymmetry \cup Permutations({a, b})
============================================================================
