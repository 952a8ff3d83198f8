------------------------------- MODULE EtcdKV -------------------------------
(***************************************************************************)
(* The part of one etcd namespace that the v6 protocol uses, and the       *)
(* single-request operations of internal/etcdsource on it.  etcd itself is *)
(* external: a request is one atomic (linearizable) step, a transaction    *)
(* that writes takes the next store revision, one that does not leaves the *)
(* store alone.                                                            *)
(***************************************************************************)
EXTENDS Naturals

CONSTANTS
    Targets,     \* target identifiers
    Gens,        \* generations; a generation names one bundle content
    Encodings,   \* byte strings that decode to the content of their generation
    Corrupt,     \* bytes that do not decode, or decode to another digest
    None         \* the absent key

ASSUME EtcdAssumption ==
    /\ Corrupt \notin Encodings
    /\ None \notin Gens \cup Encodings \cup {Corrupt}

VARIABLES
    rev,         \* revision of the store
    active,      \* <prefix>/v6/active/<target>: value and ModRevision
    bundle       \* <prefix>/v6/bundles/<target>/<generation>: value

etcdVars == <<rev, active, bundle>>

(* etcdsource.ActiveCondition; Exists is gen # None. *)
Pointer == [gen : Gens \cup {None}, mod : Nat]
Absent == [gen |-> None, mod |-> 0]

EtcdTypeOK ==
    /\ rev \in Nat
    /\ active \in [Targets -> Pointer]
    /\ bundle \in [Targets -> [Gens -> Encodings \cup {Corrupt, None}]]

(* A namespace as earlier publications left it: a pointer names an intact  *)
(* bundle, any other bundle key may hold anything.                         *)
EtcdInit ==
    /\ rev = 1
    /\ bundle \in [Targets -> [Gens -> Encodings \cup {Corrupt, None}]]
    /\ active \in [Targets -> {Absent} \cup [gen : Gens, mod : {1}]]
    /\ \A t \in Targets : active[t] # Absent => bundle[t][active[t].gen] \in Encodings

(* Mutant: compares the value alone, so a pointer moved away and back      *)
(* counts as unchanged.                                                    *)
ValueComparison(t, expected) == active[t].gen = expected.gen

(* activeComparison: create revision 0 for a captured absence, otherwise   *)
(* value and ModRevision.                                                  *)
ActiveComparison(t, expected) ==
    \/ expected.gen = None /\ active[t].gen = None
    \/ expected.gen # None /\ active[t] = expected

PutBundle(t, g, data) ==
    /\ rev' = rev + 1
    /\ bundle' = [bundle EXCEPT ![t][g] = data]
    /\ UNCHANGED active

PutActive(t, g) ==
    /\ rev' = rev + 1
    /\ active' = [active EXCEPT ![t] = [gen |-> g, mod |-> rev + 1]]
    /\ UNCHANGED bundle

(* Mutant: an unconditional put. *)
OverwriteBundle(t, g, data, succeeded) == succeeded /\ PutBundle(t, g, data)

(* The transactions.  "succeeded" is the reply the client sees.  A delete  *)
(* of a key that is gone already succeeds and changes nothing.             *)
StageBundleIfAbsent(t, g, data, succeeded) ==
    \/ bundle[t][g] = None /\ succeeded /\ PutBundle(t, g, data)
    \/ bundle[t][g] # None /\ ~succeeded /\ UNCHANGED etcdVars

SwapActive(t, g, expected, succeeded) ==
    \/ ActiveComparison(t, expected) /\ succeeded /\ PutActive(t, g)
    \/ ~ActiveComparison(t, expected) /\ ~succeeded /\ UNCHANGED etcdVars

(* Mutant: the pointer is not compared. *)
DeleteUnconditionally(t, g, expected, succeeded) ==
    /\ succeeded
    /\ \/ bundle[t][g] # None /\ PutBundle(t, g, None)
       \/ bundle[t][g] = None /\ UNCHANGED etcdVars

DeleteBundleIfActiveUnchanged(t, g, expected, succeeded) ==
    \/ /\ ActiveComparison(t, expected)
       /\ succeeded
       /\ \/ bundle[t][g] # None /\ PutBundle(t, g, None)
          \/ bundle[t][g] = None /\ UNCHANGED etcdVars
    \/ ~ActiveComparison(t, expected) /\ ~succeeded /\ UNCHANGED etcdVars
=============================================================================
