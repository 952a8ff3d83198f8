----------------------------- MODULE MCRootLocks ----------------------------
EXTENDS RootLocks, TLC

CONSTANTS a, ab, c, p1, p2, p3

(* /srv/a, /srv/a/b and /srv/c *)
Lexical == a :> 1 @@ ab :> 2 @@ c :> 3
Below == {<<a, ab>>}

Symmetry == Permutations(Processes)
=============================================================================
