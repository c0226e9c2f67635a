----------------------------- MODULE MCGitViews -----------------------------
(* Model values for GitViews.  Commit 2 and commit 3 both follow the first; *)
(* the one changes file a, the other adds b and deletes the only file of    *)
(* directory d; commit 4 merges them and changes a once more.  The name of  *)
(* b is a pattern that matches a as well.                                   *)
EXTENDS GitViews, TLC

CONSTANTS a, b, d, dx, core, fork, main, dev, v1

History4 == <<<<>>, <<1>>, <<1>>, <<2, 3>>>>

Tree4 ==
    <<[f \in Files |-> IF f = b THEN None ELSE 1],
      [f \in Files |-> CASE f = a -> 2 [] f = b -> None [] OTHER -> 1],
      [f \in Files |-> IF f = dx THEN None ELSE 1],
      [f \in Files |-> CASE f = a -> 3 [] f = dx -> None [] OTHER -> 1]>>

Entries4 == [x \in {Root, d} |-> IF x = d THEN {dx} ELSE {a, b, d}]

Below4 == [p \in {a, b, d, dx} |-> IF p = d THEN {dx} ELSE {p}]

Selects4 == [p \in {a, b, d, dx} |-> IF p = b THEN {a, b} ELSE Below4[p]]

RepoSymmetry == Permutations({core, fork})
=============================================================================
