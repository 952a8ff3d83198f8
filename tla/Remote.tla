-------------------------------- MODULE Remote ------------------------------
(***************************************************************************)
(* The remote half of pemcast: publishers and pruners, run by operators    *)
(* and CI jobs that know nothing of each other, on one etcd namespace.     *)
(***************************************************************************)
EXTENDS Publisher, Prune

remoteVars == <<etcdVars, publisherVars, pruneVars>>

Init == EtcdInit /\ PublisherInit /\ PruneInit

Next ==
    \/ \E p \in Publishers : PublisherStep(p) /\ UNCHANGED pruneVars
    \/ \E q \in Pruners : PruneStep(q) /\ UNCHANGED publisherVars

Spec == Init /\ [][Next]_remoteVars

(* No pack being published is an identity bundle past retention: nobody    *)
(* rolls back to a certificate that a prune may remove.                    *)
RollForward == \A k \in Packs : k.gen \notin Prunable

-----------------------------------------------------------------------------
(* Store, publish runs and prune runs keep their shape: in particular the  *)
(* records a prune carries from its listing to its deletions are bundles   *)
(* that were read, never a key that had gone in between (ReadBundle).      *)
TypeOK == EtcdTypeOK /\ PublisherTypeOK /\ PruneTypeOK

(* "The bundle of the active generation must be kept for ever": an agent   *)
(* that follows a pointer finds a bundle that decodes to that generation   *)
(* (as the architecture describes publish and prune).                      *)
ActiveBundleIntact ==
    \A t \in Targets :
        active[t].gen # None => bundle[t][active[t].gen] \in Encodings

(* The same of every pointer but those to a generation that a prune may    *)
(* remove: publisher.Publish stages or compares before it swaps.           *)
LiveBundleIntact ==
    \A t \in Targets :
        active[t].gen \notin Prunable \cup {None} => bundle[t][active[t].gen] \in Encodings

(* Once a publish command has staged its bundle, or found it staged, and   *)
(* for ever after it has reported success, the store holds the very bytes  *)
(* of its pack, whatever other publishers and a prune do meanwhile.        *)
PublishedBytes ==
    \A p \in Publishers :
        LET k == pub[p].pack IN
        /\ k.gen \notin Prunable
        /\ pub[p].pc \in {"capture", "swap"} \/ pub[p].outcome \in {"published", "no-op"}
        => bundle[k.target][k.gen] = k.enc

(* A deletion hits only an expired identity bundle of a target whose       *)
(* pointer, at the very moment of the deletion, exists and names another   *)
(* generation, however old the snapshot and the records of the run are and *)
(* wherever the publishers have moved the pointer since.                   *)
PruneScope ==
    [][ \A t \in Targets, g \in Gens :
            bundle[t][g] # None /\ bundle'[t][g] = None
                => g \in Prunable /\ active[t].gen \notin {g, None} ]_remoteVars

(* A bundle key is immutable: no step replaces the bytes under it, whoever *)
(* staged them; they can only disappear as a whole.                        *)
BundleImmutable ==
    [][ \A t \in Targets, g \in Gens :
            bundle[t][g] # None => bundle'[t][g] \in {bundle[t][g], None} ]_remoteVars

-----------------------------------------------------------------------------
(* The pointers refine an array of optimistic registers: a publisher's     *)
(* view is what captureActive returned, as long as its swap is pending.    *)
View(p) ==
    IF pub[p].pc = "swap"
    THEN {[target |-> pub[p].pack.target, seen |-> pub[p].expected]}
    ELSE {}

Register == INSTANCE PointerRegister WITH
    Registers <- Targets, Writers <- Publishers,
    register <- active, view <- [p \in Publishers |-> View(p)]

(* Publication never overwrites a pointer it has not seen, not even one    *)
(* that was moved away and back (the ModRevision in activeComparison).     *)
RefinesRegister == Register!RegisterSpec
=============================================================================
