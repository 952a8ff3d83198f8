--------------------------- MODULE PointerRegister --------------------------
(***************************************************************************)
(* What publication promises about the active pointers, whatever the       *)
(* interleaving: they form an array of optimistic registers.  A writer     *)
(* observes one register and may then overwrite it only while the register *)
(* is still exactly the version it observed; every write makes a version   *)
(* that never existed before, and nothing else ever changes a register.    *)
(***************************************************************************)
EXTENDS Naturals

CONSTANTS Registers, Writers

VARIABLES
    register,   \* per register: a value and the version that wrote it
    view        \* per writer: at most one observation, of one register

registerVars == <<register, view>>

RegisterInit == view = [w \in Writers |-> {}]

Observe(w) ==
    /\ \E r \in Registers : view' = [view EXCEPT ![w] = {[target |-> r, seen |-> register[r]]}]
    /\ UNCHANGED register

Forget(w) ==
    /\ view' = [view EXCEPT ![w] = {}]
    /\ UNCHANGED register

Commit(w) ==
    /\ \E v \in view[w] :
          /\ v.seen = register[v.target]
          /\ register'[v.target].mod > register[v.target].mod
          /\ register'[v.target].gen # register[v.target].gen
          /\ register' = [register EXCEPT ![v.target] = register'[v.target]]
    /\ view' = [view EXCEPT ![w] = {}]

RegisterNext == \E w \in Writers : Observe(w) \/ Forget(w) \/ Commit(w)

RegisterSpec == RegisterInit /\ [][RegisterNext]_registerVars
=============================================================================
