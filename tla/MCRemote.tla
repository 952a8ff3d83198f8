------------------------------- MODULE MCRemote -----------------------------
EXTENDS Remote, TLC

CONSTANTS t1, g1, g2, g3, compact, indented, p1, p2, q1

(* A generation that is kept, in two packs whose JSON is laid out          *)
(* differently, and an identity generation past retention: to publish that *)
(* is a rollback, and moves the pointer to what a prune may be deleting.   *)
(* The store may also hold g3, a trust bundle as old.                      *)
RollbackPacks ==
    {[target |-> t1, gen |-> g1, enc |-> compact],
     [target |-> t1, gen |-> g1, enc |-> indented],
     [target |-> t1, gen |-> g2, enc |-> compact]}

(* Generations that are all past retention: to publish one is a rollback   *)
(* to an expired certificate.                                              *)
ExpiredPacks ==
    {[target |-> t1, gen |-> g1, enc |-> compact],
     [target |-> t1, gen |-> g2, enc |-> compact]}

(* Publish commands are interchangeable. *)
Symmetry == Permutations(Publishers)
=============================================================================
