------------------------ MODULE MCCodebaseIndexer ------------------------
(* Values for the constants of CodebaseIndexer. *)
EXTENDS CodebaseIndexer, TLC

CONSTANTS w1, w2, a1, a2, b1

\* Two calls in one window, one in the other.
TwoAndOne == (a1 :> w1) @@ (a2 :> w1) @@ (b1 :> w2)

\* The two calls in one window may change places.
CallSymmetry == Permutations({a1, a2})

\* One call in each window.
OneEach == (a1 :> w1) @@ (b1 :> w2)
============================================================================
