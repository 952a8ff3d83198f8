----------------------------- MODULE RemoteProofs ---------------------------
(***************************************************************************)
(* Proofs about Remote, for any number of targets, generations, encodings, *)
(* publishers, pruners and packs and for any bounds.                       *)
(***************************************************************************)
EXTENDS Remote, PublisherProofs

-----------------------------------------------------------------------------
(* The deleting transaction keeps the store well typed. *)
LEMMA DeleteType ==
    ASSUME EtcdTypeOK, NEW t \in Targets, NEW g \in Gens, NEW expected,
           NEW succeeded \in BOOLEAN,
           DeleteBundleIfActiveUnchanged(t, g, expected, succeeded)
    PROVE  EtcdTypeOK'
<1>1. CASE PutBundle(t, g, None)
  BY <1>1, PutBundleType
<1>2. CASE UNCHANGED etcdVars
  BY <1>2 DEF EtcdTypeOK, etcdVars
<1> QED
  BY <1>1, <1>2 DEF DeleteBundleIfActiveUnchanged

(* One step of a prune command.  The set of snapshots is kept abstract, as *)
(* the type of one field among others.                                     *)
LEMMA PruneStepType ==
    ASSUME TypeOK, NEW q \in Pruners, PruneStep(q), UNCHANGED publisherVars
    PROVE  TypeOK'
<1> DEFINE Snap == [Targets -> Pointer]
           R == [pc : {"idle", "list", "read", "scan"}, delete : BOOLEAN, snap : Snap,
                 keys : SUBSET Key, records : SUBSET Record,
                 status : {"none", "done", "error"}]
<1>1. /\ EtcdTypeOK /\ PublisherTypeOK
      /\ prn \in [Pruners -> R] /\ prunes \in Nat
  BY DEF TypeOK, PruneTypeOK, Run
<1>2. PublisherTypeOK'
  BY <1>1 DEF PublisherTypeOK, publisherVars
<1>3. active \in Snap /\ NoSnapshot \in Snap
  BY <1>1 DEF EtcdTypeOK, NoSnapshot, Absent, Pointer
<1>4. prn' \in [Pruners -> R] /\ prunes' \in Nat => PruneTypeOK'
  BY DEF PruneTypeOK, Run
<1> HIDE DEF Snap
<1>5. ASSUME UNCHANGED etcdVars PROVE EtcdTypeOK'
  BY <1>1, <1>5 DEF EtcdTypeOK, etcdVars
<1>6. ASSUME NEW status \in {"none", "done", "error"}, Finish(q, status), UNCHANGED prunes
      PROVE  PruneTypeOK'
  BY <1>1, <1>3, <1>4, <1>6 DEF Finish
<1>7. ASSUME NEW r \in prn[q].records, UNCHANGED prunes,
             prn' = [prn EXCEPT ![q].records = @ \ {r}]
      PROVE  PruneTypeOK'
  BY <1>1, <1>4, <1>7
<1>8. ASSUME NEW r \in prn[q].records, NEW succeeded \in BOOLEAN, NEW expected,
             DeleteBundleIfActiveUnchanged(r.target, r.gen, expected, succeeded)
      PROVE  EtcdTypeOK'
  <2>1. r.target \in Targets /\ r.gen \in Gens
    BY <1>1 DEF Record
  <2> QED
    BY <1>1, <1>8, <2>1, DeleteType
<1>9. PruneTypeOK' /\ EtcdTypeOK'
  <2>1. CASE SnapshotActivePrefix(q)
    <3>1. PICK delete \in BOOLEAN :
              prn' = [prn EXCEPT ![q] = [pc |-> "list", delete |-> delete, snap |-> active,
                                         keys |-> {}, records |-> {}, status |-> "none"]]
      BY <2>1 DEF SnapshotActivePrefix
    <3>2. prn' \in [Pruners -> R]
      BY <1>1, <1>3, <3>1
    <3>3. prunes' \in Nat
      BY <1>1, <2>1 DEF SnapshotActivePrefix
    <3> QED
      BY <1>4, <1>5, <2>1, <3>2, <3>3 DEF SnapshotActivePrefix
  <2>2. CASE ListBundleKeys(q)
    <3> DEFINE keys == {key \in Key : bundle[key[1]][key[2]] # None}
    <3>1. PruneTypeOK'
      <4>1. keys \in SUBSET Key /\ prunes' = prunes
        BY <2>2 DEF ListBundleKeys
      <4> DEFINE r == [prn[q] EXCEPT !.pc = "read", !.keys = keys]
      <4>2. prn' = [prn EXCEPT ![q] = r]
        BY <1>1, <2>2 DEF ListBundleKeys
      <4> HIDE DEF keys
      <4>3. r \in R
        BY <1>1, <4>1
      <4> HIDE DEF R, r
      <4> QED
        BY <1>1, <1>4, <4>1, <4>2, <4>3
    <3> QED
      BY <1>5, <2>2, <3>1 DEF ListBundleKeys
  <2>3. CASE ReadBundle(q)
    <3>1. PICK key \in prn[q].keys :
              prn' = [prn EXCEPT ![q].keys = @ \ {key},
                                 ![q].records = @ \cup RecordOf(key, bundle[key[1]][key[2]])]
      BY <2>3 DEF ReadBundle
    <3>2. RecordOf(key, bundle[key[1]][key[2]]) \subseteq Record
      <4>1. key[1] \in Targets /\ key[2] \in Gens
        BY <1>1 DEF Key
      <4>2. bundle[key[1]][key[2]] \in Encodings \cup {Corrupt, None}
        BY <1>1, <4>1 DEF EtcdTypeOK
      <4> QED
        BY <4>1, <4>2 DEF RecordOf, Record
    <3> DEFINE keys == prn[q].keys \ {key}
               records == prn[q].records \cup RecordOf(key, bundle[key[1]][key[2]])
    <3>3. keys \in SUBSET Key /\ records \in SUBSET Record
      BY <1>1, <3>2
    <3>4. prn' \in [Pruners -> R]
      <4> DEFINE r == [prn[q] EXCEPT !.keys = keys, !.records = records]
      <4>1. prn' = [prn EXCEPT ![q] = r]
        BY <1>1, <3>1
      <4> HIDE DEF keys, records
      <4>2. r \in R
        BY <1>1, <3>3
      <4> HIDE DEF R, r
      <4> QED
        BY <1>1, <4>1, <4>2
    <3> QED
      BY <1>1, <1>4, <1>5, <2>3, <3>4 DEF ReadBundle
  <2>4. CASE ReadDone(q)
    <3>1. PruneTypeOK'
      BY <1>1, <1>4, <2>4 DEF ReadDone
    <3> QED
      BY <1>5, <2>4, <3>1 DEF ReadDone
  <2>5. CASE Inspect(q)
    <3>1. PruneTypeOK'
      BY <1>6, <1>7, <2>5 DEF Inspect
    <3> QED
      BY <1>5, <2>5, <3>1 DEF Inspect
  <2>6. CASE Delete(q)
    <3>1. PICK r \in prn[q].records, deleted \in BOOLEAN :
              /\ DeleteBundleIfActiveUnchanged(r.target, r.gen, prn[q].snap[r.target], deleted)
              /\ \/ prn' = [prn EXCEPT ![q].records = @ \ {r}]
                 \/ Finish(q, "error")
      BY <2>6 DEF Delete
    <3>2. PruneTypeOK'
      BY <1>6, <1>7, <2>6, <3>1 DEF Delete
    <3> QED
      BY <1>8, <3>1, <3>2
  <2>7. CASE ScanDone(q)
    BY <1>5, <1>6, <2>7 DEF ScanDone
  <2>8. CASE PruneAbort(q)
    BY <1>5, <1>6, <2>8 DEF PruneAbort
  <2>9. CASE DeleteReplyLost(q)
    <3>1. PICK r \in prn[q].records :
              DeleteBundleIfActiveUnchanged(r.target, r.gen, prn[q].snap[r.target], TRUE)
      BY <2>9 DEF DeleteReplyLost
    <3>2. EtcdTypeOK'
      BY <1>8, <3>1
    <3> QED
      BY <1>6, <2>9, <3>2 DEF DeleteReplyLost
  <2> QED
    BY <2>1, <2>2, <2>3, <2>4, <2>5, <2>6, <2>7, <2>8, <2>9 DEF PruneStep
<1> QED
  BY <1>2, <1>9 DEF TypeOK

LEMMA InitType == Init => TypeOK
<1> SUFFICES ASSUME Init PROVE TypeOK
  OBVIOUS
<1>1. EtcdTypeOK /\ PublisherTypeOK
  BY EtcdInitType, PublisherInitType DEF Init
<1>3. PruneTypeOK
  <2> DEFINE Snap == [Targets -> Pointer]
  <2>1. NoSnapshot \in Snap
    BY DEF NoSnapshot, Absent, Pointer
  <2>2. (prn \in [Pruners -> [pc : {"idle", "list", "read", "scan"}, delete : BOOLEAN,
                             snap : Snap, keys : SUBSET Key, records : SUBSET Record,
                             status : {"none", "done", "error"}]] /\ prunes \in Nat)
            => PruneTypeOK
    BY DEF PruneTypeOK, Run
  <2> HIDE DEF Snap
  <2> QED
    BY <2>1, <2>2 DEF Init, PruneInit
<1> QED
  BY <1>1, <1>3 DEF TypeOK

LEMMA NextType == TypeOK /\ [Next]_remoteVars => TypeOK'
<1> SUFFICES ASSUME TypeOK, [Next]_remoteVars PROVE TypeOK'
  OBVIOUS
<1>1. CASE UNCHANGED remoteVars
  BY <1>1 DEF remoteVars, etcdVars, publisherVars, pruneVars, TypeOK, EtcdTypeOK,
              PublisherTypeOK, PruneTypeOK
<1>2. ASSUME NEW p \in Publishers, PublisherStep(p), UNCHANGED pruneVars PROVE TypeOK'
  <2>1. EtcdTypeOK' /\ PublisherTypeOK'
    BY <1>2, PublisherStepType DEF TypeOK
  <2> QED
    BY <1>2, <2>1 DEF TypeOK, PruneTypeOK, pruneVars
<1>3. ASSUME NEW q \in Pruners, PruneStep(q), UNCHANGED publisherVars PROVE TypeOK'
  BY <1>3, PruneStepType
<1> QED
  BY <1>1, <1>2, <1>3 DEF Next

(* Every variable of the store, of the publishers and of the pruners keeps *)
(* its type; in particular a record of a prune run is always a bundle that *)
(* was in the store when it was read (bundles.go skips a key that is gone).*)
THEOREM TypeCorrect == Spec => []TypeOK
<1>1. Init => TypeOK
  BY InitType
<1>2. TypeOK /\ [Next]_remoteVars => TypeOK'
  BY NextType
<1> QED
  BY <1>1, <1>2, PTL DEF Spec

-----------------------------------------------------------------------------
(* What a prune can do to the store besides nothing: delete an eligible    *)
(* bundle while the pointer is as the pruner saw it.                       *)
Removes(q) ==
    \E r \in prn[q].records :
        /\ Eligible(r, prn[q].snap[r.target])
        /\ ActiveComparison(r.target, prn[q].snap[r.target])
        /\ bundle' = [bundle EXCEPT ![r.target][r.gen] = None]
        /\ UNCHANGED active

LEMMA PruneEffect ==
    ASSUME NEW q \in Pruners, PruneStep(q)
    PROVE  Untouched \/ Removes(q)
<1>1. CASE SnapshotActivePrefix(q) \/ ListBundleKeys(q) \/ ReadBundle(q) \/ ReadDone(q)
  BY <1>1 DEF SnapshotActivePrefix, ListBundleKeys, ReadBundle, ReadDone, etcdVars, Untouched
<1>2. CASE Inspect(q) \/ ScanDone(q) \/ PruneAbort(q)
  BY <1>2 DEF Inspect, ScanDone, PruneAbort, etcdVars, Untouched
<1>3. CASE Delete(q) \/ DeleteReplyLost(q)
  <2>1. PICK r \in prn[q].records, deleted \in BOOLEAN :
            /\ Eligible(r, prn[q].snap[r.target])
            /\ DeleteBundleIfActiveUnchanged(r.target, r.gen, prn[q].snap[r.target], deleted)
    BY <1>3 DEF Delete, DeleteReplyLost
  <2> QED
    BY <2>1 DEF DeleteBundleIfActiveUnchanged, PutBundle, etcdVars, Untouched, Removes
<1> QED
  BY <1>1, <1>2, <1>3 DEF PruneStep

(* The pointer at the moment of a deletion is the one of the snapshot,     *)
(* which exists and names another generation.                              *)
LEMMA RemovesScope ==
    ASSUME TypeOK, NEW q \in Pruners, Removes(q)
    PROVE  \E t \in Targets, g \in Gens :
               /\ g \in Prunable
               /\ active[t].gen \notin {g, None}
               /\ bundle' = [bundle EXCEPT ![t][g] = None]
               /\ UNCHANGED active
<1>1. PICK r \in prn[q].records :
          /\ Eligible(r, prn[q].snap[r.target])
          /\ ActiveComparison(r.target, prn[q].snap[r.target])
          /\ bundle' = [bundle EXCEPT ![r.target][r.gen] = None]
          /\ UNCHANGED active
  BY DEF Removes
<1>2. r.target \in Targets /\ r.gen \in Gens
  BY DEF TypeOK, PruneTypeOK, Run, Record
<1>3. active[r.target].gen \notin {r.gen, None}
  BY <1>1 DEF Eligible, ActiveComparison
<1>4. r.gen \in Prunable
  BY <1>1 DEF Eligible
<1> QED
  BY <1>1, <1>2, <1>3, <1>4

-----------------------------------------------------------------------------
(* A bundle key is immutable, for any packs and any concurrent commands:   *)
(* StageBundleIfAbsent writes under an absent key only, and a prune can    *)
(* only remove the key.                                                    *)
THEOREM BundlesImmutable == Spec => BundleImmutable
<1> DEFINE A == \A t \in Targets, g \in Gens :
                    bundle[t][g] # None => bundle'[t][g] \in {bundle[t][g], None}
<1>1. TypeOK /\ [Next]_remoteVars => [A]_remoteVars
  <2> SUFFICES ASSUME TypeOK, Next PROVE A
    OBVIOUS
  <2>1. CASE \E p \in Publishers : PublisherStep(p)
    BY <2>1, PublisherKeeps DEF TypeOK
  <2>2. ASSUME NEW q \in Pruners, PruneStep(q) PROVE A
    <3>1. CASE Untouched
      BY <3>1 DEF Untouched
    <3>2. CASE Removes(q)
      BY <3>2, RemovesScope DEF TypeOK, EtcdTypeOK
    <3> QED
      BY <2>2, <3>1, <3>2, PruneEffect
  <2> QED
    BY <2>1, <2>2 DEF Next
<1> QED
  BY <1>1, TypeCorrect, PTL DEF Spec, BundleImmutable

(* A prune deletes only an expired identity bundle, and only while the     *)
(* pointer of its target exists and names another generation, although it  *)
(* decides from a snapshot that may be old: activeComparison in the        *)
(* deleting transaction pins value and ModRevision.                        *)
THEOREM PruneInScope == Spec => PruneScope
<1> DEFINE A == \A t \in Targets, g \in Gens :
                    bundle[t][g] # None /\ bundle'[t][g] = None
                        => g \in Prunable /\ active[t].gen \notin {g, None}
<1>1. TypeOK /\ [Next]_remoteVars => [A]_remoteVars
  <2> SUFFICES ASSUME TypeOK, Next PROVE A
    OBVIOUS
  <2>1. CASE \E p \in Publishers : PublisherStep(p)
    BY <2>1, PublisherKeeps DEF TypeOK
  <2>2. ASSUME NEW q \in Pruners, PruneStep(q) PROVE A
    <3>1. CASE Untouched
      BY <3>1 DEF Untouched
    <3>2. CASE Removes(q)
      BY <3>2, RemovesScope DEF TypeOK, EtcdTypeOK
    <3> QED
      BY <2>2, <3>1, <3>2, PruneEffect
  <2> QED
    BY <2>1, <2>2 DEF Next
<1> QED
  BY <1>1, TypeCorrect, PTL DEF Spec, PruneScope

-----------------------------------------------------------------------------
(* The inductive invariant.  LiveBundleIntact alone is not inductive: at a *)
(* swap the pointer moves to a generation whose bundle was staged or       *)
(* compared several steps before, and OwnBytes is what carries that fact   *)
(* across the steps of others.  It needs no assumption about what is       *)
(* published: what no prune may remove stays.                              *)
Kept == Gens \ Prunable
Inv == TypeOK /\ NamedBundles(Kept) /\ OwnBytes(Kept)

(* A prune leaves the bundles of these generations alone. *)
LEMMA KeptStay ==
    ASSUME TypeOK, NEW q \in Pruners, PruneStep(q)
    PROVE  /\ UNCHANGED active
           /\ \A t \in Targets, g \in Kept : bundle'[t][g] = bundle[t][g]
<1>1. CASE Untouched
  BY <1>1 DEF Untouched
<1>2. CASE Removes(q)
  <2>1. PICK t \in Targets, g \in Gens :
            g \in Prunable /\ bundle' = [bundle EXCEPT ![t][g] = None] /\ UNCHANGED active
    BY <1>2, RemovesScope
  <2> QED
    BY <2>1 DEF Kept, TypeOK, EtcdTypeOK
<1> QED
  BY <1>1, <1>2, PruneEffect

LEMMA Inductive == (Init => Inv) /\ (Inv /\ [Next]_remoteVars => Inv')
<1>0. Kept \in SUBSET Gens
  BY DEF Kept
<1>1. Init => Inv
  BY <1>0, InitType, PublisherInitStore DEF Init, Inv
<1>2. Inv /\ [Next]_remoteVars => Inv'
  <2> SUFFICES ASSUME Inv, [Next]_remoteVars PROVE NamedBundles(Kept)' /\ OwnBytes(Kept)'
    BY NextType DEF Inv
  <2>1. CASE UNCHANGED remoteVars
    BY <2>1 DEF Inv, NamedBundles, OwnBytes, remoteVars, etcdVars, publisherVars
  <2>2. ASSUME NEW p \in Publishers, PublisherStep(p)
        PROVE  NamedBundles(Kept)' /\ OwnBytes(Kept)'
    BY <1>0, <2>2, NamedBundlesStep, OwnBytesStep DEF Inv, TypeOK
  <2>3. ASSUME NEW q \in Pruners, PruneStep(q), UNCHANGED publisherVars
        PROVE  NamedBundles(Kept)' /\ OwnBytes(Kept)'
    <3>1. UNCHANGED <<active, pub>>
      BY <2>3, KeptStay DEF Inv, publisherVars
    <3>2. \A t \in Targets, g \in Kept : bundle'[t][g] = bundle[t][g]
      BY <2>3, KeptStay DEF Inv
    <3>3. \A p \in Publishers : pub[p].pack.target \in Targets
      BY PublisherAssumption DEF Inv, TypeOK, PublisherTypeOK, Pack
    <3> QED
      BY <3>1, <3>2, <3>3 DEF Inv, NamedBundles, OwnBytes
  <2> QED
    BY <2>1, <2>2, <2>3 DEF Next
<1> QED
  BY <1>1, <1>2

(* Whoever publishes, rolls back and prunes meanwhile: a pointer to a      *)
(* generation that no prune may remove names a bundle that decodes to it   *)
(* (stage-or-compare before the swap in publisher.Publish).                *)
THEOREM LiveBundlesKept == Spec => []LiveBundleIntact
<1>1. Inv => LiveBundleIntact
  <2>1. TypeOK => \A t \in Targets : active[t].gen \in Gens \cup {None}
    BY DEF TypeOK, EtcdTypeOK, Pointer
  <2> QED
    BY <2>1 DEF Inv, LiveBundleIntact, NamedBundles, Kept
<1> QED
  BY <1>1, Inductive, PTL DEF Spec

(* A publish command of such a generation that reported success has made   *)
(* its bytes durable: they are in the store then and ever after.           *)
THEOREM PublishedForEver == Spec => []PublishedBytes
<1>1. Inv => PublishedBytes
  <2>1. TypeOK => \A p \in Publishers : pub[p].pack.gen \in Gens
    BY PublisherAssumption DEF TypeOK, PublisherTypeOK, Pack
  <2> QED
    BY <2>1 DEF Inv, PublishedBytes, OwnBytes, Kept
<1> QED
  BY <1>1, Inductive, PTL DEF Spec

-----------------------------------------------------------------------------
(* As long as nobody publishes an expired identity generation, the claim   *)
(* of the architecture itself holds, also of the pointers that named such  *)
(* a generation from the start: no interleaving of publishers and pruners  *)
(* leaves a pointer without its bundle.  Stage-before-swap and the pointer *)
(* comparison in the deletions of prune.Prune are enough.                  *)
THEOREM NoDanglingPointer == ASSUME RollForward PROVE Spec => []ActiveBundleIntact
<1> DEFINE Intact == TypeOK /\ NamedBundles(Gens) /\ OwnBytes(Kept)
<1>0. Gens \in SUBSET Gens /\ Kept \in SUBSET Gens
  BY DEF Kept
<1>1. Init => Intact
  BY <1>0, InitType, PublisherInitStore DEF Init
<1>2. Intact /\ [Next]_remoteVars => Intact'
  <2> SUFFICES ASSUME Intact, [Next]_remoteVars PROVE Intact'
    OBVIOUS
  <2>0. NamedBundles(Kept)
    BY DEF NamedBundles, Kept
  <2>1. TypeOK' /\ OwnBytes(Kept)'
    BY <2>0, Inductive DEF Inv
  <2>2. CASE UNCHANGED remoteVars
    <3>1. NamedBundles(Gens)'
      BY <2>2 DEF NamedBundles, remoteVars, etcdVars
    <3> QED
      BY <2>1, <3>1
  <2>3. ASSUME NEW p \in Publishers, PublisherStep(p) PROVE NamedBundles(Gens)'
    <3>1. OwnBytes(Gens)
      <4>1. \A o \in Publishers : pub[o].pack.gen \in Kept
        BY PublisherAssumption DEF TypeOK, PublisherTypeOK, Pack, RollForward, Kept
      <4> QED
        BY <4>1 DEF OwnBytes
    <3> QED
      BY <1>0, <2>3, <3>1, NamedBundlesStep DEF TypeOK
  <2>4. ASSUME NEW q \in Pruners, PruneStep(q) PROVE NamedBundles(Gens)'
    <3>1. CASE Untouched
      BY <3>1 DEF Untouched, NamedBundles
    <3>2. CASE Removes(q)
      <4>1. PICK t \in Targets, g \in Gens :
                /\ active[t].gen # g
                /\ bundle' = [bundle EXCEPT ![t][g] = None]
                /\ UNCHANGED active
        BY <3>2, RemovesScope
      <4> QED
        BY <4>1 DEF NamedBundles, TypeOK, EtcdTypeOK
    <3> QED
      BY <2>4, <3>1, <3>2, PruneEffect
  <2> QED
    BY <2>1, <2>2, <2>3, <2>4 DEF Next
<1>3. Intact => ActiveBundleIntact
  <2>1. TypeOK => \A t \in Targets : active[t].gen \in Gens \cup {None}
    BY DEF TypeOK, EtcdTypeOK, Pointer
  <2> QED
    BY <2>1 DEF NamedBundles, ActiveBundleIntact
<1> QED
  BY <1>1, <1>2, <1>3, PTL DEF Spec

-----------------------------------------------------------------------------
(* The invariant of the refinement: versions are never ahead of the store, *)
(* an absent key is the absent condition, and a pending swap is a move to  *)
(* another generation.                                                     *)
Versions ==
    /\ \A t \in Targets : active[t].mod <= rev /\ (active[t].gen = None => active[t] = Absent)
    /\ \A p \in Publishers :
           pub[p].pc = "swap" =>
               /\ pub[p].expected.gen # pub[p].pack.gen
               /\ pub[p].expected.gen = None => pub[p].expected = Absent

LEMMA VersionsInit == Init => Versions
<1> SUFFICES ASSUME Init PROVE Versions
  OBVIOUS
<1>1. \A t \in Targets : active[t].mod <= rev /\ (active[t].gen = None => active[t] = Absent)
  <2> TAKE t \in Targets
  <2>1. active[t] = Absent \/ active[t] \in [gen : Gens, mod : {1}]
    BY DEF Init, EtcdInit
  <2>2. CASE active[t] = Absent
    BY <2>2 DEF Init, EtcdInit, Absent
  <2>3. CASE active[t] \in [gen : Gens, mod : {1}]
    <3>1. active[t].gen \in Gens /\ active[t].mod = 1
      BY <2>3
    <3> QED
      BY <3>1, EtcdAssumption DEF Init, EtcdInit
  <2> QED
    BY <2>1, <2>2, <2>3
<1>2. \A p \in Publishers : pub[p].pc = "idle"
  BY DEF Init, PublisherInit
<1> QED
  BY <1>1, <1>2 DEF Versions

LEMMA RevisionGrows ==
    ASSUME TypeOK, Next
    PROVE  rev' \in Nat /\ rev' >= rev /\ (active' # active => rev' = rev + 1)
<1>1. rev \in Nat
  BY DEF TypeOK, EtcdTypeOK
<1>2. ASSUME NEW p \in Publishers, PublisherStep(p)
      PROVE  \/ UNCHANGED <<rev, active>>
             \/ rev' = rev + 1
  BY <1>2 DEF PublisherStep, Start, Stage, RequireExisting, CaptureActive, Swap, Abort,
              StageReplyLost, SwapReplyLost, StageBundleIfAbsent, SwapActive, PutBundle, PutActive,
              etcdVars
<1>3. ASSUME NEW q \in Pruners, PruneStep(q)
      PROVE  \/ UNCHANGED <<rev, active>>
             \/ rev' = rev + 1
  BY <1>3 DEF PruneStep, SnapshotActivePrefix, ListBundleKeys, ReadBundle, ReadDone, Inspect,
              Delete, ScanDone, PruneAbort, DeleteReplyLost, DeleteBundleIfActiveUnchanged,
              PutBundle, etcdVars
<1> QED
  BY <1>1, <1>2, <1>3 DEF Next

(* What a publish command does to the pointers and to its own view, told   *)
(* in the terms of PointerRegister.                                        *)
LEMMA PublisherView ==
    ASSUME TypeOK, Versions, NEW p \in Publishers, PublisherStep(p)
    PROVE  LET k == pub[p].pack IN
           /\ \A o \in Publishers : o # p => pub'[o] = pub[o]
           /\ \/ pub'[p].pc # "swap" /\ UNCHANGED active
              \/ /\ pub'[p].pc = "swap" /\ UNCHANGED active
                 /\ pub'[p].pack = k /\ pub'[p].expected = active[k.target]
                 /\ active[k.target].gen # k.gen
              \/ /\ pub'[p].pc # "swap" /\ pub[p].pc = "swap"
                 /\ active[k.target] = pub[p].expected
                 /\ active' = [active EXCEPT ![k.target] = [gen |-> k.gen, mod |-> rev + 1]]
<1> DEFINE k == pub[p].pack
<1>1. pub \in [Publishers -> [pc : Step, pack : Packs, expected : Pointer, outcome : Outcome]]
  BY DEF TypeOK, PublisherTypeOK
<1>2. \A o \in Publishers : o # p => pub'[o] = pub[o]
  BY <1>1 DEF PublisherStep, Start, Stage, RequireExisting, CaptureActive, Swap, Abort,
              StageReplyLost, SwapReplyLost, Goto, Return
<1>3. CASE Start(p) \/ RequireExisting(p) \/ Abort(p)
  <2>1. pub'[p].pc # "swap"
    BY <1>1, <1>3 DEF Start, RequireExisting, Abort, Goto, Return
  <2>2. UNCHANGED active
    BY <1>3 DEF Start, RequireExisting, Abort, etcdVars
  <2> QED
    BY <1>2, <2>1, <2>2
<1>4. CASE Stage(p) \/ StageReplyLost(p)
  <2>1. pub'[p].pc # "swap"
    BY <1>1, <1>4 DEF Stage, StageReplyLost, Goto, Return
  <2>2. UNCHANGED active
    BY <1>4 DEF Stage, StageReplyLost, StageBundleIfAbsent, PutBundle, etcdVars
  <2> QED
    BY <1>2, <2>1, <2>2
<1>5. CASE CaptureActive(p)
  <2>1. CASE Return(p, "no-op")
    BY <1>1, <1>2, <1>5, <2>1 DEF CaptureActive, Return, etcdVars
  <2>2. CASE /\ active[k.target].gen # k.gen
             /\ pub' = [pub EXCEPT ![p].pc = "swap", ![p].expected = active[k.target]]
    BY <1>1, <1>2, <1>5, <2>2 DEF CaptureActive, etcdVars
  <2> QED
    BY <1>5, <2>1, <2>2 DEF CaptureActive
<1>6. CASE Swap(p) \/ SwapReplyLost(p)
  <2>1. pub'[p].pc # "swap" /\ pub[p].pc = "swap"
    <3>1. PICK outcome \in Outcome : Return(p, outcome)
      BY <1>6 DEF Swap, SwapReplyLost, Outcome
    <3> QED
      BY <1>6, <3>1, ReturnView DEF Swap, SwapReplyLost, TypeOK
  <2>2. \/ UNCHANGED active
        \/ /\ ActiveComparison(k.target, pub[p].expected)
           /\ active' = [active EXCEPT ![k.target] = [gen |-> k.gen, mod |-> rev + 1]]
    BY <1>6 DEF Swap, SwapReplyLost, SwapActive, PutActive, etcdVars
  <2>3. k.target \in Targets
    BY PublisherAssumption DEF TypeOK, PublisherTypeOK, Pack
  <2>4. ActiveComparison(k.target, pub[p].expected) => active[k.target] = pub[p].expected
    BY <2>1, <2>3 DEF ActiveComparison, Versions
  <2> QED
    BY <1>2, <2>1, <2>2, <2>4
<1> QED
  BY <1>3, <1>4, <1>5, <1>6 DEF PublisherStep

LEMMA VersionsNext == TypeOK /\ Versions /\ [Next]_remoteVars => Versions'
<1> SUFFICES ASSUME TypeOK, Versions, [Next]_remoteVars PROVE Versions'
  OBVIOUS
<1>1. CASE UNCHANGED remoteVars
  BY <1>1 DEF remoteVars, etcdVars, publisherVars, Versions
<1>2. ASSUME NEW p \in Publishers, PublisherStep(p), Next PROVE Versions'
  <2> DEFINE k == pub[p].pack
  <2>1. rev \in Nat /\ active \in [Targets -> Pointer]
    BY DEF TypeOK, EtcdTypeOK
  <2>2. k.target \in Targets /\ k.gen \in Gens /\ None \notin Gens
    BY PublisherAssumption, EtcdAssumption DEF TypeOK, PublisherTypeOK, Pack
  <2>3. rev' \in Nat /\ rev' >= rev /\ (active' # active => rev' = rev + 1)
    BY <1>2, RevisionGrows
  <2>4. /\ \A o \in Publishers : o # p => pub'[o] = pub[o]
        /\ \/ pub'[p].pc # "swap" /\ UNCHANGED active
           \/ /\ pub'[p].pc = "swap" /\ UNCHANGED active
              /\ pub'[p].pack = k /\ pub'[p].expected = active[k.target]
              /\ active[k.target].gen # k.gen
           \/ /\ pub'[p].pc # "swap" /\ pub[p].pc = "swap"
              /\ active[k.target] = pub[p].expected
              /\ active' = [active EXCEPT ![k.target] = [gen |-> k.gen, mod |-> rev + 1]]
    BY <1>2, PublisherView
  <2> HIDE DEF k
  <2>5. \A t \in Targets : active'[t].mod <= rev' /\ (active'[t].gen = None => active'[t] = Absent)
    <3>1. CASE UNCHANGED active
      BY <2>1, <2>3, <3>1 DEF Versions, Pointer
    <3>2. CASE active' = [active EXCEPT ![k.target] = [gen |-> k.gen, mod |-> rev + 1]]
      <4>1. rev' = rev + 1 \/ active' = active
        BY <2>3
      <4> QED
        BY <2>1, <2>2, <3>1, <3>2, <4>1 DEF Versions, Pointer
    <3> QED
      BY <2>4, <3>1, <3>2
  <2>6. \A o \in Publishers :
            pub'[o].pc = "swap" =>
                /\ pub'[o].expected.gen # pub'[o].pack.gen
                /\ pub'[o].expected.gen = None => pub'[o].expected = Absent
    BY <2>2, <2>4 DEF Versions
  <2> QED
    BY <2>5, <2>6 DEF Versions
<1>3. ASSUME NEW q \in Pruners, PruneStep(q), UNCHANGED publisherVars, Next PROVE Versions'
  <2>1. UNCHANGED active
    BY <1>3, PruneEffect DEF Untouched, Removes
  <2>2. rev \in Nat /\ rev' \in Nat /\ rev' >= rev
    BY <1>3, RevisionGrows DEF TypeOK, EtcdTypeOK
  <2>3. \A t \in Targets : active[t].mod \in Nat
    BY DEF TypeOK, EtcdTypeOK, Pointer
  <2> QED
    BY <1>3, <2>1, <2>2, <2>3 DEF Versions, publisherVars
<1> QED
  BY <1>1, <1>2, <1>3 DEF Next

(* Publication refines the array of optimistic registers: no publish       *)
(* command overwrites a pointer that is not, value and ModRevision, the    *)
(* one it captured; a prune never writes a pointer.                        *)
THEOREM RegisterRefinement == Spec => RefinesRegister
<1> DEFINE views == [p \in Publishers |-> View(p)]
<1>1. Init => Register!RegisterInit
  <2> SUFFICES ASSUME Init PROVE \A p \in Publishers : View(p) = {}
    BY DEF Register!RegisterInit
  <2> QED
    BY DEF Init, PublisherInit, View
<1>2. TypeOK /\ Versions /\ [Next]_remoteVars => [Register!RegisterNext]_(Register!registerVars)
  <2> SUFFICES ASSUME TypeOK, Versions, [Next]_remoteVars
               PROVE  Register!RegisterNext \/ (views' = views /\ active' = active)
    BY DEF Register!registerVars
  <2>1. CASE UNCHANGED remoteVars
    BY <2>1 DEF remoteVars, etcdVars, publisherVars, View
  <2>2. ASSUME NEW p \in Publishers, PublisherStep(p), Next PROVE Register!RegisterNext
    <3> DEFINE k == pub[p].pack
    <3>1. /\ \A o \in Publishers : o # p => pub'[o] = pub[o]
          /\ \/ pub'[p].pc # "swap" /\ UNCHANGED active
             \/ /\ pub'[p].pc = "swap" /\ UNCHANGED active
                /\ pub'[p].pack = k /\ pub'[p].expected = active[k.target]
             \/ /\ pub'[p].pc # "swap" /\ pub[p].pc = "swap"
                /\ active[k.target] = pub[p].expected
                /\ active' = [active EXCEPT ![k.target] = [gen |-> k.gen, mod |-> rev + 1]]
      BY <2>2, PublisherView
    <3>2. \A o \in Publishers : o # p => View(o)' = View(o)
      BY <3>1 DEF View
    <3>3. views' = [views EXCEPT ![p] = View(p)']
      BY <3>2
    <3>4. CASE pub'[p].pc # "swap" /\ UNCHANGED active
      <4>1. View(p)' = {}
        BY <3>4 DEF View
      <4>2. Register!Forget(p)
        BY <3>3, <3>4, <4>1 DEF Register!Forget
      <4> QED
        BY <4>2 DEF Register!RegisterNext
    <3>5. CASE /\ pub'[p].pc = "swap" /\ UNCHANGED active
               /\ pub'[p].pack = k /\ pub'[p].expected = active[k.target]
      <4>1. View(p)' = {[target |-> k.target, seen |-> active[k.target]]}
        BY <3>5, Zenon DEF View
      <4>2. k.target \in Targets
        BY PublisherAssumption DEF TypeOK, PublisherTypeOK, Pack
      <4>3. Register!Observe(p)
        BY <3>3, <3>5, <4>1, <4>2 DEF Register!Observe
      <4> QED
        BY <4>3 DEF Register!RegisterNext
    <3>6. CASE /\ pub'[p].pc # "swap" /\ pub[p].pc = "swap"
               /\ active[k.target] = pub[p].expected
               /\ active' = [active EXCEPT ![k.target] = [gen |-> k.gen, mod |-> rev + 1]]
      <4> DEFINE v == [target |-> k.target, seen |-> pub[p].expected]
      <4>1. View(p)' = {} /\ v \in View(p)
        BY <3>6, Zenon DEF View
      <4>2. k.target \in Targets
        BY PublisherAssumption DEF TypeOK, PublisherTypeOK, Pack
      <4>3. active[k.target].mod \in Nat /\ active[k.target].mod <= rev /\ rev \in Nat
        BY <4>2 DEF TypeOK, EtcdTypeOK, Pointer, Versions
      <4>4. active'[k.target] = [gen |-> k.gen, mod |-> rev + 1]
        BY <3>6, <4>2 DEF TypeOK, EtcdTypeOK
      <4>5. active'[k.target].mod > active[k.target].mod
        BY <4>3, <4>4
      <4>6. active'[k.target].gen # active[k.target].gen
        BY <3>6, <4>4 DEF Versions
      <4>7. active' = [active EXCEPT ![k.target] = active'[k.target]]
        BY <3>6, <4>4
      <4>8. v.seen = active[v.target] /\ v.target = k.target
        BY <3>6
      <4>9. /\ v.seen = active[v.target]
            /\ active'[v.target].mod > active[v.target].mod
            /\ active'[v.target].gen # active[v.target].gen
            /\ active' = [active EXCEPT ![v.target] = active'[v.target]]
        <5> HIDE DEF v
        <5> QED
          BY <4>5, <4>6, <4>7, <4>8
      <4>10. views[p] = View(p)
        OBVIOUS
      <4>11. Register!Commit(p)
        <5>1. views' = [views EXCEPT ![p] = {}]
          BY <3>3, <4>1
        <5>2. \E x \in views[p] :
                /\ x.seen = active[x.target]
                /\ active'[x.target].mod > active[x.target].mod
                /\ active'[x.target].gen # active[x.target].gen
                /\ active' = [active EXCEPT ![x.target] = active'[x.target]]
          <6> HIDE DEF v, views
          <6> QED
            BY <4>1, <4>9, <4>10, Zenon
        <5> QED
          BY <5>1, <5>2, Zenon DEF Register!Commit
      <4> QED
        BY <4>11 DEF Register!RegisterNext
    <3> QED
      BY <3>1, <3>4, <3>5, <3>6
  <2>3. ASSUME NEW q \in Pruners, PruneStep(q), UNCHANGED publisherVars
        PROVE  views' = views /\ active' = active
    BY <2>3, PruneEffect DEF Untouched, Removes, publisherVars, View
  <2> QED
    BY <2>1, <2>2, <2>3 DEF Next
<1> QED
  BY <1>1, <1>2, VersionsInit, VersionsNext, TypeCorrect, PTL
     DEF Spec, RefinesRegister, Register!RegisterSpec
=============================================================================
