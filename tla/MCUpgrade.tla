------------------------------ MODULE MCUpgrade -----------------------------
EXTENDS Upgrade

CONSTANTS t1, t2, g1, g2, h1, h2, compact, indented, p1, u1, u2

(* A v5 generation of t1 converts to its v6 generation, t2 is given no     *)
(* valid type for h2.                                                      *)
Converted ==
    [u \in Upgraders |-> [t \in Targets |-> [h \in V5Gens |->
        IF h = h1 THEN g1 ELSE IF t = t1 THEN g2 ELSE None]]]

(* The type of t1 is given by an option of its own.                        *)
Overridden == [u \in Upgraders |-> {t1}]

(* An ordinary publication of the same certificate, packed differently.    *)
SamePacks == {[target |-> t1, gen |-> g1, enc |-> indented]}

(* Only bundle keys that the conversion may meet are there beforehand.     *)
SmallInit == Init /\ bundle[t1][g2] = None /\ bundle[t2][g2] = None
SmallSpec == SmallInit /\ [][Next]_vars /\ Fairness
=============================================================================
