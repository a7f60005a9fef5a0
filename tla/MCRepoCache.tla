---------------------------- MODULE MCRepoCache ----------------------------
(***************************************************************************)
(* Model values for RepoCache.                                             *)
(***************************************************************************)
EXTENDS RepoCache

CONSTANTS w1, w2

TwoWorkers == {w1, w2}

Pace(w, c) == [waits |-> w, clones |-> c]

(* nothing expires; only waits do; waits and clones do *)
AnyPace == {Pace(FALSE, FALSE), Pace(TRUE, FALSE), Pace(TRUE, TRUE)}
=============================================================================
