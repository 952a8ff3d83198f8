---------------------------- MODULE UpgradeProofs ---------------------------
(***************************************************************************)
(* Proofs about Upgrade, for any targets, generations, conversions, v5 and *)
(* v6 publishers and upgrade processes, and any bounds.                    *)
(***************************************************************************)
EXTENDS Upgrade, PublisherProofs, FiniteSetTheorems

-----------------------------------------------------------------------------
(* The inductive invariant.  The properties speak of the moment of a swap  *)
(* or of a deletion; what makes them true was read or compared several     *)
(* requests before, and the invariant carries it across the steps of       *)
(* others: the plan since buildPlan, the staged bundle since its           *)
(* comparison, the verified sources and destinations since postverify.     *)
Planning == {"idle", "v4", "v5", "v6"}

(* A plan is the conversion of what its snapshot has read. *)
PlanMade(u) ==
    /\ up[u].pc \in Planning => up[u].todo = {}
    /\ up[u].pc \notin Planning =>
          \A t \in Planned(u) :
              /\ up[u].plan[t].result \in Gens
              /\ up[u].plan[t].result = Convert[u][t][up[u].plan[t].source.gen]

(* The target at work, and the bundle that its pointer is about to name.   *)
TargetStaged(u) ==
    /\ up[u].pc \in {"existing", "source", "destination", "swap"} => up[u].todo # {}
    /\ up[u].pc \in {"source", "destination", "swap"} => SameExisting(u, NextTarget(u))

(* From postverify to the deletion: what is active in v5 is in the plan,   *)
(* unmoved, and its conversion has been active in v6.                      *)
Migrated(u) ==
    /\ up[u].pc = "delete" => up[u].mode = "delete"
    /\ up[u].mode = "delete" /\ up[u].pc \in {"verifyDestination", "verifyBundles", "delete"} =>
          \A t \in V5Active : t \in Planned(u) /\ v5[t] = up[u].plan[t].source
    /\ up[u].pc \in {"verifyBundles", "delete"} =>
          \A t \in Planned(u) : up[u].plan[t].result \in named[t]

RunOK(u) == PlanMade(u) /\ TargetStaged(u) /\ Migrated(u)

(* The history knows every pointer. *)
Recorded == \A t \in Targets : active[t].gen \in named[t] \cup {None}

IInv ==
    /\ TypeOK
    /\ OwnBytes(Gens)
    /\ PointersIntact
    /\ Recorded
    /\ \A u \in Upgraders : RunOK(u)

-----------------------------------------------------------------------------
(* The run of one process as a record, and the target that is picked as a  *)
(* function of the work that is left.                                      *)
UpRun == [pc : UpStep, mode : Mode, plan : [Targets -> TargetPlan], todo : SUBSET Targets]
Pick(S) == CHOOSE t \in S : TRUE
PlannedIn(r) == {t \in Targets : r.plan[t].source.gen # None}
Shaped(r) == r.todo \subseteq PlannedIn(r) /\ (r.pc = "idle" => r = Idle)
Becomes(u, r) == up' = [up EXCEPT ![u] = r]

UpTypeOK == up \in [Upgraders -> UpRun] /\ \A u \in Upgraders : Shaped(up[u])

StoreTypeOK ==
    /\ EtcdTypeOK
    /\ v4 \in BOOLEAN
    /\ v5 \in [Targets -> V5Pointer]
    /\ named \in [Targets -> SUBSET Gens]

BudgetTypeOK == budget \in [v5 : 0..MaxV5, faults : 0..MaxFaults]

LEMMA TypeParts ==
    /\ TypeOK <=> StoreTypeOK /\ PublisherTypeOK /\ UpTypeOK /\ BudgetTypeOK
    /\ TypeOK' <=> StoreTypeOK' /\ PublisherTypeOK' /\ UpTypeOK' /\ BudgetTypeOK'
BY DEF TypeOK, StoreTypeOK, UpTypeOK, BudgetTypeOK, UpRun, Shaped, PlannedIn, Planned

(* PointersIntact in the terms of PublisherProofs. *)
LEMMA IntactIsNamed ==
    /\ EtcdTypeOK => (PointersIntact <=> NamedBundles(Gens))
    /\ EtcdTypeOK' => (PointersIntact' <=> NamedBundles(Gens)')
<1>1. None \notin Gens
  BY EtcdAssumption
<1>2. /\ EtcdTypeOK => \A t \in Targets : active[t].gen \in Gens \cup {None}
      /\ EtcdTypeOK' => \A t \in Targets : active'[t].gen \in Gens \cup {None}
  BY DEF EtcdTypeOK, Pointer
<1>3. EtcdTypeOK => (PointersIntact <=> NamedBundles(Gens))
  BY <1>1, <1>2 DEF PointersIntact, NamedBundles
<1>4. EtcdTypeOK' => (PointersIntact' <=> NamedBundles(Gens)')
  BY <1>1, <1>2 DEF PointersIntact, NamedBundles
<1> QED
  BY <1>3, <1>4

LEMMA PickNext ==
    ASSUME NEW u
    PROVE  NextTarget(u) = Pick(up[u].todo) /\ NextTarget(u)' = Pick(up'[u].todo)
BY DEF NextTarget, Pick

LEMMA PickIn == \A S : S # {} => Pick(S) \in S
BY DEF Pick

LEMMA IdleShape == Idle \in UpRun /\ Shaped(Idle) /\ PlannedIn(Idle) = {}
<1>1. NoPlan \in TargetPlan /\ NoPlan.source.gen = None
  BY DEF NoPlan, TargetPlan, V5Pointer, Absent
<1> QED
  BY <1>1 DEF Idle, UpRun, Shaped, PlannedIn, UpStep, Mode

LEMMA BecomesType ==
    ASSUME UpTypeOK, NEW u \in Upgraders, NEW r \in UpRun, Shaped(r), Becomes(u, r)
    PROVE  /\ UpTypeOK'
           /\ up'[u] = r
           /\ \A x \in Upgraders : x # u => up'[x] = up[x]
BY DEF UpTypeOK, Becomes

(* The ways in which a step leaves the run of its process. *)
LEMMA StepToView ==
    ASSUME UpTypeOK, NEW u \in Upgraders, NEW step \in UpStep \ {"idle"}, StepTo(u, step)
    PROVE  \E r \in UpRun :
               /\ Shaped(r) /\ Becomes(u, r)
               /\ r.pc = step /\ r.mode = up[u].mode /\ r.plan = up[u].plan /\ r.todo = up[u].todo
<1> DEFINE r == [up[u] EXCEPT !.pc = step]
<1>1. up[u] \in UpRun /\ Shaped(up[u])
  BY DEF UpTypeOK
<1>2. r \in UpRun /\ r.pc = step /\ r.mode = up[u].mode /\ r.plan = up[u].plan /\ r.todo = up[u].todo
  BY <1>1 DEF UpRun
<1>3. Becomes(u, r)
  BY DEF StepTo, Becomes
<1>4. Shaped(r)
  BY <1>1, <1>2 DEF Shaped, PlannedIn
<1> QED
  BY <1>2, <1>3, <1>4

LEMMA AfterTargetView ==
    ASSUME UpTypeOK, NEW u \in Upgraders, AfterTarget(u)
    PROVE  \E r \in UpRun :
               /\ Shaped(r) /\ Becomes(u, r)
               /\ r.pc = "stage" /\ r.mode = up[u].mode /\ r.plan = up[u].plan
               /\ r.todo \subseteq up[u].todo
<1> DEFINE r == [up[u] EXCEPT !.todo = @ \ {NextTarget(u)}, !.pc = "stage"]
<1>1. up[u] \in UpRun /\ Shaped(up[u])
  BY DEF UpTypeOK
<1>2. /\ r \in UpRun /\ r.pc = "stage" /\ r.mode = up[u].mode /\ r.plan = up[u].plan
      /\ r.todo = up[u].todo \ {NextTarget(u)}
  BY <1>1 DEF UpRun, UpStep
<1>3. Becomes(u, r)
  BY DEF AfterTarget, Becomes
<1>4. Shaped(r)
  BY <1>1, <1>2 DEF Shaped, PlannedIn
<1> QED
  BY <1>2, <1>3, <1>4

-----------------------------------------------------------------------------
(* What every step but a v5 publication does to the store: bundles and     *)
(* names are only added, a v5 pointer is kept or deleted.                  *)
Grows ==
    /\ \A t \in Targets, g \in Gens : bundle[t][g] # None => bundle'[t][g] = bundle[t][g]
    /\ \A t \in Targets : named[t] \subseteq named'[t]

V5Kept == \A t \in Targets : v5'[t].gen # None => v5'[t] = v5[t]

StoreGood == StoreTypeOK' /\ Grows /\ PointersIntact' /\ Recorded'

LEMMA NamesRecorded ==
    ASSUME StoreTypeOK, EtcdTypeOK', Recorded, RecordNames \/ UNCHANGED <<active, named>>
    PROVE  /\ named' \in [Targets -> SUBSET Gens]
           /\ \A t \in Targets : named[t] \subseteq named'[t]
           /\ Recorded'
<1>1. CASE RecordNames
  <2>1. \A t \in Targets : active'[t].gen \in Gens \cup {None}
    BY DEF EtcdTypeOK, Pointer
  <2>2. \A t \in Targets : named'[t] = named[t] \cup ({active'[t].gen} \ {None})
    BY <1>1 DEF RecordNames
  <2>3. DOMAIN named' = Targets /\ named' = [t \in Targets |-> named'[t]]
    BY <1>1 DEF RecordNames
  <2>4. \A t \in Targets : named'[t] \in SUBSET Gens
    BY <2>1, <2>2 DEF StoreTypeOK
  <2> QED
    BY <2>2, <2>3, <2>4 DEF Recorded
<1>2. CASE UNCHANGED <<active, named>>
  BY <1>2 DEF StoreTypeOK, Recorded
<1> QED
  BY <1>1, <1>2

(* A step that leaves the pointers alone. *)
LEMMA StoreKept ==
    ASSUME StoreTypeOK, PointersIntact, Recorded, EtcdTypeOK',
           UNCHANGED <<active, v4>>, v5' \in [Targets -> V5Pointer],
           RecordNames \/ UNCHANGED named,
           \A t \in Targets, g \in Gens : bundle[t][g] # None => bundle'[t][g] = bundle[t][g]
    PROVE  StoreGood
<1>1. /\ named' \in [Targets -> SUBSET Gens]
      /\ \A t \in Targets : named[t] \subseteq named'[t]
      /\ Recorded'
  BY NamesRecorded
<1>2. \A t \in Targets : active[t].gen # None => bundle'[t][active[t].gen] \in Encodings
  BY EtcdAssumption DEF PointersIntact, StoreTypeOK, EtcdTypeOK, Pointer
<1>3. PointersIntact'
  BY <1>2 DEF PointersIntact
<1> QED
  BY <1>1, <1>3 DEF StoreGood, StoreTypeOK, Grows

LEMMA AbsentType == [t \in Targets |-> Absent] \in [Targets -> V5Pointer]
BY DEF Absent, V5Pointer

(* A bundle staged for the target at work. *)
LEMMA StagedStore ==
    ASSUME StoreTypeOK, PointersIntact, Recorded, NEW t \in Targets, NEW g \in Gens,
           NEW created \in BOOLEAN, StageBundleIfAbsent(t, g, Canon, created),
           UNCHANGED <<v4, v5>>, RecordNames \/ UNCHANGED named
    PROVE  /\ StoreGood /\ V5Kept
           /\ created => bundle'[t][g] = Canon
<1>1. EtcdTypeOK'
  BY StageType, UpgradeAssumption DEF StoreTypeOK
<1>2. /\ UNCHANGED active
      /\ \A s \in Targets, h \in Gens : bundle[s][h] # None => bundle'[s][h] = bundle[s][h]
      /\ created => bundle'[t][g] = Canon
  BY DEF StageBundleIfAbsent, PutBundle, etcdVars, StoreTypeOK, EtcdTypeOK
<1>3. StoreGood
  BY <1>1, <1>2, StoreKept DEF StoreTypeOK
<1> QED
  BY <1>2, <1>3 DEF V5Kept

(* The v6 pointer of the target at work set to its result. *)
LEMMA SwappedStore ==
    ASSUME StoreTypeOK, PointersIntact, Recorded, NEW t \in Targets, NEW g \in Gens,
           bundle[t][g] = Canon, PutActive(t, g), UNCHANGED <<v4, v5>>, RecordNames
    PROVE  StoreGood /\ V5Kept
<1>1. EtcdTypeOK'
  BY PutActiveType DEF StoreTypeOK
<1>2. UNCHANGED bundle /\ active' = [active EXCEPT ![t] = [gen |-> g, mod |-> rev + 1]]
  BY DEF PutActive
<1>3. PointersIntact'
  BY <1>2, UpgradeAssumption DEF PointersIntact, StoreTypeOK, EtcdTypeOK
<1> QED
  BY <1>1, <1>2, <1>3, NamesRecorded DEF StoreGood, StoreTypeOK, Grows, V5Kept

(* The v5 prefix deleted. *)
LEMMA DeletedStore ==
    ASSUME StoreTypeOK, PointersIntact, Recorded,
           v5' = [t \in Targets |-> Absent], rev' = rev + 1, UNCHANGED <<active, bundle, v4>>,
           RecordNames \/ UNCHANGED named
    PROVE  StoreGood /\ V5Kept
<1>1. EtcdTypeOK'
  BY DEF StoreTypeOK, EtcdTypeOK
<1>2. StoreGood
  BY <1>1, StoreKept, AbsentType
<1> QED
  BY <1>2 DEF V5Kept, Absent

LEMMA QuietStore ==
    ASSUME StoreTypeOK, PointersIntact, Recorded, UNCHANGED <<etcdVars, v4, v5, named>>
    PROVE  StoreGood /\ V5Kept
<1>1. EtcdTypeOK'
  BY DEF StoreTypeOK, EtcdTypeOK, etcdVars
<1>2. StoreGood
  BY <1>1, StoreKept DEF StoreTypeOK, etcdVars
<1> QED
  BY <1>2 DEF V5Kept

(* What a run relies on is not disturbed by others. *)
LEMMA RunKept ==
    ASSUME UpTypeOK, NEW x \in Upgraders, RunOK(x), up'[x] = up[x], Grows, V5Kept \/ ~V5Stopped
    PROVE  RunOK(x)'
<1>1. up[x] \in UpRun /\ up[x].todo \subseteq Planned(x) /\ Planned(x) \subseteq Targets
  BY DEF UpTypeOK, Shaped, PlannedIn, Planned
<1>2. Planned(x)' = Planned(x)
  BY DEF Planned
<1>3. PlanMade(x)'
  BY <1>2 DEF RunOK, PlanMade
<1>4. TargetStaged(x)'
  <2> DEFINE t == NextTarget(x)
             g == up[x].plan[t].result
  <2>1. NextTarget(x)' = t
    BY PickNext
  <2>2. CASE up[x].pc \in {"source", "destination", "swap"}
    <3>1. up[x].todo # {} /\ bundle[t][g] = Canon
      BY <2>2 DEF RunOK, TargetStaged, SameExisting
    <3>2. t \in up[x].todo
      BY <3>1, PickNext, PickIn
    <3>3. t \in Targets /\ g \in Gens
      BY <1>1, <2>2, <3>2 DEF RunOK, PlanMade, Planning
    <3>4. bundle'[t][g] = Canon
      BY <3>1, <3>3, UpgradeAssumption, EtcdAssumption DEF Grows
    <3> HIDE DEF t
    <3> QED
      BY <2>1, <2>2, <3>1, <3>4 DEF TargetStaged, SameExisting
  <2>3. CASE up[x].pc \notin {"source", "destination", "swap"}
    BY <2>3 DEF RunOK, TargetStaged
  <2> QED
    BY <2>2, <2>3
<1>5. Migrated(x)'
  <2>1. up[x].mode = "delete" /\ up[x].pc \in {"verifyDestination", "verifyBundles", "delete"}
            => \A t \in V5Active' : t \in Planned(x) /\ v5'[t] = up[x].plan[t].source
    <3> SUFFICES ASSUME up[x].mode = "delete",
                        up[x].pc \in {"verifyDestination", "verifyBundles", "delete"},
                        NEW t \in V5Active'
                 PROVE  t \in Planned(x) /\ v5'[t] = up[x].plan[t].source
      OBVIOUS
    <3>1. V5Kept
      BY DEF V5Stopped
    <3>2. t \in Targets /\ v5'[t].gen # None
      BY DEF V5Active
    <3>3. v5'[t] = v5[t] /\ t \in V5Active
      BY <3>1, <3>2 DEF V5Kept, V5Active
    <3> QED
      BY <3>3 DEF RunOK, Migrated
  <2>2. up[x].pc \in {"verifyBundles", "delete"}
            => \A t \in Planned(x) : up[x].plan[t].result \in named'[t]
    BY <1>1 DEF RunOK, Migrated, Grows
  <2>3. up[x].pc = "delete" => up[x].mode = "delete"
    BY DEF RunOK, Migrated
  <2> QED
    BY <1>2, <2>1, <2>2, <2>3 DEF Migrated
<1> QED
  BY <1>3, <1>4, <1>5 DEF RunOK

-----------------------------------------------------------------------------
(* A run that goes on with its plan, whatever work it has left. *)
LEMMA Onward ==
    ASSUME UpTypeOK, NEW u \in Upgraders, RunOK(u), Grows, V5Kept,
           NEW r \in UpRun, Shaped(r), Becomes(u, r),
           r.mode = up[u].mode, r.plan = up[u].plan,
           r.pc \in Planning => r.todo = {},
           r.pc \notin Planning => up[u].pc \notin Planning,
           r.pc \in {"existing", "source", "destination", "swap"}
               => r.todo # {} /\ r.todo = up[u].todo,
           r.pc \in {"source", "destination", "swap"}
               => bundle'[NextTarget(u)][up[u].plan[NextTarget(u)].result] = Canon,
           r.mode = "delete" /\ r.pc \in {"verifyDestination", "verifyBundles", "delete"}
               => \A t \in V5Active : t \in Planned(u) /\ v5[t] = up[u].plan[t].source,
           r.pc \in {"verifyBundles", "delete"}
               => \A t \in Planned(u) : up[u].plan[t].result \in named[t],
           r.pc = "delete" => r.mode = "delete"
    PROVE  UpTypeOK' /\ RunOK(u)' /\ \A x \in Upgraders : x # u => up'[x] = up[x]
<1>1. UpTypeOK' /\ up'[u] = r /\ \A x \in Upgraders : x # u => up'[x] = up[x]
  BY BecomesType
<1>2. Planned(u)' = Planned(u) /\ Planned(u) \subseteq Targets
  BY <1>1 DEF Planned
<1>3. PlanMade(u)'
  BY <1>1, <1>2 DEF RunOK, PlanMade
<1>4. TargetStaged(u)'
  <2>1. r.pc \in {"source", "destination", "swap"} => NextTarget(u)' = NextTarget(u)
    BY <1>1, PickNext
  <2>2. r.pc \in {"source", "destination", "swap"} => SameExisting(u, NextTarget(u))'
    BY <1>1, <2>1 DEF SameExisting
  <2> QED
    BY <1>1, <2>2 DEF TargetStaged
<1>5. \A t \in V5Active' : t \in V5Active /\ v5'[t] = v5[t]
  BY DEF V5Active, V5Kept
<1>6. Migrated(u)'
  BY <1>1, <1>2, <1>5 DEF Migrated, Grows
<1> QED
  BY <1>1, <1>3, <1>4, <1>6 DEF RunOK

(* A run that still makes its plan, or has just ended. *)
LEMMA Preparing ==
    ASSUME UpTypeOK, NEW u \in Upgraders,
           NEW r \in UpRun, Shaped(r), Becomes(u, r), r.pc \in Planning, r.todo = {}
    PROVE  UpTypeOK' /\ RunOK(u)' /\ \A x \in Upgraders : x # u => up'[x] = up[x]
<1>1. UpTypeOK' /\ up'[u] = r /\ \A x \in Upgraders : x # u => up'[x] = up[x]
  BY BecomesType
<1> QED
  BY <1>1 DEF RunOK, PlanMade, TargetStaged, Migrated, Planning

LEMMA Finishing ==
    ASSUME UpTypeOK, NEW u \in Upgraders, Finish(u)
    PROVE  UpTypeOK' /\ RunOK(u)' /\ \A x \in Upgraders : x # u => up'[x] = up[x]
<1>1. Becomes(u, Idle) /\ Idle.pc \in Planning /\ Idle.todo = {}
  BY DEF Finish, Becomes, Idle, Planning
<1> QED
  BY <1>1, Preparing, IdleShape

(* A target is given up or passed on to its commit; the bundle is there.   *)
LEMMA Committing ==
    ASSUME UpTypeOK, NEW u \in Upgraders, RunOK(u), Grows, V5Kept,
           up[u].pc \in {"stage", "existing"}, up[u].todo # {},
           bundle'[NextTarget(u)][up[u].plan[NextTarget(u)].result] = Canon,
           CommitUnlessMigrated(u)
    PROVE  UpTypeOK' /\ RunOK(u)' /\ \A x \in Upgraders : x # u => up'[x] = up[x]
<1>1. CASE AfterTarget(u)
  <2>1. PICK r \in UpRun :
            /\ Shaped(r) /\ Becomes(u, r)
            /\ r.pc = "stage" /\ r.mode = up[u].mode /\ r.plan = up[u].plan
    BY <1>1, AfterTargetView
  <2> QED
    BY <2>1, Onward DEF Planning
<1>2. CASE StepTo(u, "source")
  <2>1. PICK r \in UpRun :
            /\ Shaped(r) /\ Becomes(u, r)
            /\ r.pc = "source" /\ r.mode = up[u].mode /\ r.plan = up[u].plan
            /\ r.todo = up[u].todo
    BY <1>2, StepToView DEF UpStep
  <2> QED
    BY <2>1, Onward DEF Planning
<1> QED
  BY <1>1, <1>2 DEF CommitUnlessMigrated

(* The target at work is one of the plan, with its result. *)
LEMMA AtWork ==
    ASSUME UpTypeOK, NEW u \in Upgraders, RunOK(u), up[u].todo # {}
    PROVE  /\ NextTarget(u) \in Planned(u) /\ NextTarget(u) \in Targets
           /\ up[u].plan[NextTarget(u)].result \in Gens
           /\ up[u].plan[NextTarget(u)].result
                  = Convert[u][NextTarget(u)][up[u].plan[NextTarget(u)].source.gen]
<1>1. NextTarget(u) \in up[u].todo
  BY PickNext, PickIn
<1>2. up[u].todo \subseteq Planned(u) /\ Planned(u) \subseteq Targets
  BY DEF UpTypeOK, Shaped, PlannedIn, Planned
<1> QED
  BY <1>1, <1>2 DEF RunOK, PlanMade

-----------------------------------------------------------------------------
(* One step of an upgrade process: what it does to the store, and how it   *)
(* leaves its own run and those of the others.                             *)
RunStep(u) ==
    /\ StoreGood /\ V5Kept
    /\ UpTypeOK' /\ RunOK(u)'
    /\ \A x \in Upgraders : x # u => up'[x] = up[x]

(* From the start of a run to its plan. *)
LEMMA PlanningStep ==
    ASSUME StoreTypeOK, PointersIntact, Recorded, UpTypeOK,
           NEW u \in Upgraders, RunOK(u),
           \/ \E mode \in Mode : Begin(u, mode)
           \/ InspectV4(u)
           \/ SnapshotV5(u)
           \/ BuildPlan(u)
    PROVE  RunStep(u)
<1>1. OnlyReads
  BY DEF Begin, InspectV4, SnapshotV5, BuildPlan
<1>2. StoreGood /\ V5Kept /\ Grows
  BY <1>1, QuietStore DEF OnlyReads, StoreGood
<1>3. up[u] \in UpRun /\ Shaped(up[u]) /\ (up[u].pc \in Planning => up[u].todo = {})
  BY DEF UpTypeOK, RunOK, PlanMade
<1>4. ASSUME Finish(u) PROVE RunStep(u)
  BY <1>2, <1>4, Finishing DEF RunStep
<1>5. ASSUME NEW r \in UpRun, Becomes(u, r), r.pc \in Planning \ {"idle"}, r.todo = {}
      PROVE  RunStep(u)
  <2>1. Shaped(r)
    BY <1>5 DEF Shaped
  <2> QED
    BY <1>2, <1>5, <2>1, Preparing DEF RunStep
<1>6. CASE \E mode \in Mode : Begin(u, mode)
  <2>1. PICK mode \in Mode : Begin(u, mode)
    BY <1>6
  <2> DEFINE r == [up[u] EXCEPT !.pc = "v4", !.mode = mode]
  <2>2. r \in UpRun /\ r.pc = "v4" /\ r.todo = {}
    BY <1>3, <2>1 DEF UpRun, UpStep, Planning, Begin
  <2>3. Becomes(u, r)
    BY <2>1 DEF Begin, Becomes
  <2> QED
    BY <1>5, <2>2, <2>3 DEF Planning
<1>7. CASE InspectV4(u)
  <2>1. CASE StepTo(u, "v5")
    <3>1. PICK r \in UpRun : Becomes(u, r) /\ r.pc = "v5" /\ r.todo = up[u].todo
      BY <2>1, StepToView DEF UpStep
    <3> QED
      BY <1>3, <1>5, <1>7, <3>1 DEF InspectV4, Planning
  <2> QED
    BY <1>4, <1>7, <2>1 DEF InspectV4, Check
<1>8. CASE SnapshotV5(u)
  <2> DEFINE plan == [t \in Targets |-> [NoPlan EXCEPT !.source = v5[t]]]
             r == [up[u] EXCEPT !.pc = "v6", !.plan = plan]
  <2>1. plan \in [Targets -> TargetPlan]
    BY DEF StoreTypeOK, NoPlan, TargetPlan
  <2>2. Becomes(u, r)
    BY <1>8 DEF SnapshotV5, Becomes
  <2> HIDE DEF plan
  <2>3. r \in UpRun /\ r.pc = "v6" /\ r.todo = {}
    BY <1>3, <1>8, <2>1 DEF UpRun, UpStep, Planning, SnapshotV5
  <2> QED
    BY <1>5, <2>2, <2>3 DEF Planning
<1>9. CASE BuildPlan(u)
  <2>1. CASE Finish(u)
    BY <1>4, <2>1
  <2>2. CASE Plannable(u) /\ up[u].mode # "dry"
    <3> DEFINE plan == [t \in Targets |->
                   IF t \in Planned(u)
                   THEN [source |-> up[u].plan[t].source, result |-> Result(u, t),
                         migrated |-> t \in V6Active]
                   ELSE NoPlan]
               r == [up[u] EXCEPT !.pc = "stage", !.todo = Planned(u), !.plan = plan]
    <3>1. Becomes(u, r)
      BY <1>9, <2>2 DEF BuildPlan, Becomes
    <3>2. \A t \in Planned(u) :
              /\ t \in Targets
              /\ Result(u, t) \in Gens
              /\ Result(u, t) = Convert[u][t][up[u].plan[t].source.gen]
              /\ up[u].plan[t].source \in V5Pointer
      <4> SUFFICES ASSUME NEW t \in Planned(u)
                   PROVE  /\ t \in Targets
                          /\ Result(u, t) \in Gens
                          /\ Result(u, t) = Convert[u][t][up[u].plan[t].source.gen]
                          /\ up[u].plan[t].source \in V5Pointer
        OBVIOUS
      <4>1. t \in Targets
        BY DEF Planned
      <4>2. up[u].plan[t].source \in V5Pointer
        BY <1>3, <4>1 DEF UpRun, TargetPlan
      <4>3. up[u].plan[t].source.gen \in V5Gens /\ Result(u, t) # None
        BY <2>2, UpgradeAssumption DEF Plannable
      <4> QED
        BY <4>1, <4>2, <4>3, UpgradeAssumption DEF Result
    <3>3. NoPlan \in TargetPlan /\ NoPlan.source.gen = None
      BY DEF NoPlan, TargetPlan, V5Pointer, Absent
    <3>4. plan \in [Targets -> TargetPlan]
      <4>1. \A t \in Planned(u) :
                [source |-> up[u].plan[t].source, result |-> Result(u, t),
                 migrated |-> t \in V6Active] \in TargetPlan
        BY <3>2 DEF TargetPlan
      <4> QED
        BY <3>3, <4>1
    <3>5. \A t \in Targets :
              /\ t \in Planned(u) => /\ plan[t].source = up[u].plan[t].source
                                     /\ plan[t].result = Result(u, t)
              /\ t \notin Planned(u) => plan[t].source.gen = None
      BY <3>3
    <3>6. \A t \in Targets : plan[t].source.gen # None <=> t \in Planned(u)
      BY <3>5 DEF Planned
    <3> HIDE DEF plan
    <3>7. r \in UpRun /\ r.pc = "stage" /\ r.todo = Planned(u) /\ r.plan = plan
      BY <1>3, <3>4 DEF UpRun, UpStep, Planned
    <3> HIDE DEF r
    <3>8. PlannedIn(r) = Planned(u)
      BY <3>6, <3>7 DEF PlannedIn, Planned
    <3>9. Shaped(r)
      BY <3>7, <3>8 DEF Shaped
    <3>10. UpTypeOK' /\ up'[u] = r /\ \A x \in Upgraders : x # u => up'[x] = up[x]
      BY <3>1, <3>7, <3>9, BecomesType
    <3>11. Planned(u)' = Planned(u)
      BY <3>8, <3>10 DEF Planned, PlannedIn
    <3>12. PlanMade(u)'
      BY <3>2, <3>5, <3>7, <3>10, <3>11 DEF PlanMade, Planning
    <3>13. TargetStaged(u)' /\ Migrated(u)'
      BY <3>7, <3>10 DEF TargetStaged, Migrated
    <3> QED
      BY <1>2, <3>10, <3>12, <3>13 DEF RunStep, RunOK
  <2> QED
    BY <1>9, <2>1, <2>2 DEF BuildPlan
<1> QED
  BY <1>6, <1>7, <1>8, <1>9

(* The commit of one target after another. *)
LEMMA ApplyStep ==
    ASSUME StoreTypeOK, PointersIntact, Recorded, UpTypeOK,
           NEW u \in Upgraders, RunOK(u),
           \/ StageBundle(u)
           \/ ReadExisting(u)
           \/ CaptureSource(u)
           \/ CaptureDestination(u)
           \/ SwapFromSource(u)
           \/ Applied(u)
    PROVE  RunStep(u)
<1> DEFINE t == NextTarget(u)
           g == up[u].plan[t].result
<1>1. up[u] \in UpRun /\ Shaped(up[u])
  BY DEF UpTypeOK
<1>2. up[u].todo # {} => t \in Targets /\ g \in Gens
  BY AtWork
<1>3. ASSUME OnlyReads PROVE StoreGood /\ V5Kept /\ Grows /\ UNCHANGED bundle
  BY <1>3, QuietStore DEF OnlyReads, StoreGood, etcdVars
<1>4. ASSUME StoreGood, V5Kept, Finish(u) PROVE RunStep(u)
  BY <1>4, Finishing DEF RunStep
<1>5. /\ up[u].pc \in {"existing", "source", "destination", "swap"} => up[u].todo # {}
      /\ up[u].pc \in {"source", "destination", "swap"} => bundle[t][g] = Canon
  BY DEF RunOK, TargetStaged, SameExisting
<1> HIDE DEF t, g
<1>6. CASE StageBundle(u)
  <2>1. PICK created \in BOOLEAN :
            /\ StageBundleIfAbsent(t, g, Canon, created)
            /\ IF created THEN CommitUnlessMigrated(u) ELSE StepTo(u, "existing")
    BY <1>6 DEF StageBundle, t, g
  <2>2. up[u].pc = "stage" /\ up[u].todo # {} /\ UNCHANGED <<v4, v5, named>>
    BY <1>6 DEF StageBundle
  <2>3. StoreGood /\ V5Kept /\ Grows /\ (created => bundle'[t][g] = Canon)
    BY <1>2, <2>1, <2>2, StagedStore DEF StoreGood
  <2>4. CASE created
    BY <2>1, <2>2, <2>3, <2>4, Committing DEF RunStep, t, g
  <2>5. CASE ~created
    <3>1. PICK r \in UpRun :
              /\ Shaped(r) /\ Becomes(u, r)
              /\ r.pc = "existing" /\ r.mode = up[u].mode /\ r.plan = up[u].plan
              /\ r.todo = up[u].todo
      BY <2>1, <2>5, StepToView DEF UpStep
    <3> QED
      BY <2>2, <2>3, <3>1, Onward DEF RunStep, Planning
  <2> QED
    BY <2>4, <2>5
<1>7. CASE ReadExisting(u)
  <2>1. CASE bundle[t][g] = Canon
    <3>1. CommitUnlessMigrated(u)
      BY <1>7, <2>1 DEF ReadExisting, SameExisting, t, g
    <3>2. StoreGood /\ V5Kept /\ Grows /\ bundle'[t][g] = Canon
      BY <1>3, <1>7, <2>1 DEF ReadExisting
    <3> QED
      BY <1>5, <1>7, <3>1, <3>2, Committing DEF RunStep, ReadExisting, t, g
  <2>2. CASE bundle[t][g] # Canon
    BY <1>3, <1>4, <1>7, <2>2 DEF ReadExisting, SameExisting, t, g
  <2> QED
    BY <2>1, <2>2
<1>8. CASE CaptureSource(u)
  <2>1. CASE StepTo(u, "destination")
    <3>1. PICK r \in UpRun :
              /\ Shaped(r) /\ Becomes(u, r)
              /\ r.pc = "destination" /\ r.mode = up[u].mode /\ r.plan = up[u].plan
              /\ r.todo = up[u].todo
      BY <2>1, StepToView DEF UpStep
    <3>2. up[u].pc = "source" /\ bundle'[t][g] = Canon
      BY <1>3, <1>5, <1>8 DEF CaptureSource
    <3> QED
      BY <1>3, <1>5, <1>8, <3>1, <3>2, Onward DEF RunStep, CaptureSource, Planning, t, g
  <2> QED
    BY <1>3, <1>4, <1>8, <2>1 DEF CaptureSource, Check
<1>9. CASE CaptureDestination(u)
  <2>1. CASE StepTo(u, "swap")
    <3>1. PICK r \in UpRun :
              /\ Shaped(r) /\ Becomes(u, r)
              /\ r.pc = "swap" /\ r.mode = up[u].mode /\ r.plan = up[u].plan
              /\ r.todo = up[u].todo
      BY <2>1, StepToView DEF UpStep
    <3>2. up[u].pc = "destination" /\ bundle'[t][g] = Canon
      BY <1>3, <1>5, <1>9 DEF CaptureDestination
    <3> QED
      BY <1>3, <1>5, <1>9, <3>1, <3>2, Onward DEF RunStep, CaptureDestination, Planning, t, g
  <2> QED
    BY <1>3, <1>4, <1>9, <2>1 DEF CaptureDestination, Check
<1>10. CASE SwapFromSource(u)
  <2>1. up[u].pc = "swap" /\ up[u].todo # {} /\ UNCHANGED <<v4, v5>> /\ RecordNames
    BY <1>5, <1>10 DEF SwapFromSource
  <2>2. CASE PutActive(t, g) /\ AfterTarget(u)
    <3>1. StoreGood /\ V5Kept /\ Grows
      BY <1>2, <1>5, <2>1, <2>2, SwappedStore DEF StoreGood
    <3>2. PICK r \in UpRun :
              /\ Shaped(r) /\ Becomes(u, r)
              /\ r.pc = "stage" /\ r.mode = up[u].mode /\ r.plan = up[u].plan
      BY <2>2, AfterTargetView
    <3> QED
      BY <2>1, <3>1, <3>2, Onward DEF RunStep, Planning
  <2>3. CASE Finish(u) /\ UNCHANGED etcdVars
    <3>1. EtcdTypeOK'
      BY <2>3 DEF StoreTypeOK, EtcdTypeOK, etcdVars
    <3>2. StoreGood /\ V5Kept
      BY <2>1, <2>3, <3>1, StoreKept DEF StoreTypeOK, V5Kept, etcdVars
    <3> QED
      BY <1>4, <2>3, <3>2
  <2> QED
    BY <1>10, <2>2, <2>3 DEF SwapFromSource, t, g
<1>11. CASE Applied(u)
  <2>1. PICK r \in UpRun :
            /\ Shaped(r) /\ Becomes(u, r)
            /\ r.pc = "verifySource" /\ r.mode = up[u].mode /\ r.plan = up[u].plan
    BY <1>11, StepToView DEF Applied, UpStep
  <2> QED
    BY <1>3, <1>11, <2>1, Onward DEF RunStep, Applied, Planning
<1> QED
  BY <1>6, <1>7, <1>8, <1>9, <1>10, <1>11

(* Postverify finds no v5 pointer outside the plan: as many pointers as    *)
(* planned targets, and every planned target among them.                   *)
LEMMA NoOtherSource ==
    ASSUME NEW u \in Upgraders, SourceUnchanged(u)
    PROVE  \A t \in V5Active : t \in Planned(u) /\ v5[t] = up[u].plan[t].source
<1>1. IsFiniteSet(V5Active)
  BY UpgradeAssumption, FS_Subset DEF V5Active
<1>2. Planned(u) \subseteq V5Active
  BY DEF SourceUnchanged, Planned, V5Active
<1>3. Planned(u) = V5Active
  BY <1>1, <1>2, FS_Subset DEF SourceUnchanged
<1> QED
  BY <1>3 DEF SourceUnchanged

(* postverify and the deletion. *)
LEMMA VerifyStep ==
    ASSUME StoreTypeOK, PointersIntact, Recorded, UpTypeOK,
           NEW u \in Upgraders, RunOK(u),
           \/ VerifySource(u)
           \/ VerifyDestination(u)
           \/ VerifyBundle(u)
           \/ Verified(u)
           \/ DeleteOld(u)
    PROVE  RunStep(u)
<1>1. up[u] \in UpRun /\ Shaped(up[u]) /\ Planned(u) = PlannedIn(up[u])
  BY DEF UpTypeOK, Planned, PlannedIn
<1>2. ASSUME OnlyReads PROVE StoreGood /\ V5Kept /\ Grows
  BY <1>2, QuietStore DEF OnlyReads, StoreGood
<1>3. ASSUME StoreGood, V5Kept, Finish(u) PROVE RunStep(u)
  BY <1>3, Finishing DEF RunStep
<1>4. CASE VerifySource(u)
  <2>1. CASE SourceUnchanged(u) /\ StepTo(u, "verifyDestination")
    <3>1. PICK r \in UpRun :
              /\ Shaped(r) /\ Becomes(u, r)
              /\ r.pc = "verifyDestination" /\ r.mode = up[u].mode /\ r.plan = up[u].plan
      BY <2>1, StepToView DEF UpStep
    <3>2. \A t \in V5Active : t \in Planned(u) /\ v5[t] = up[u].plan[t].source
      BY <2>1, NoOtherSource
    <3> QED
      BY <1>2, <1>4, <3>1, <3>2, Onward DEF RunStep, VerifySource, Planning
  <2> QED
    BY <1>2, <1>3, <1>4, <2>1 DEF VerifySource, Check
<1>5. CASE VerifyDestination(u)
  <2>1. CASE /\ DestinationMatches(u)
             /\ up' = [up EXCEPT ![u].pc = "verifyBundles", ![u].todo = Planned(u)]
    <3> DEFINE r == [up[u] EXCEPT !.pc = "verifyBundles", !.todo = Planned(u)]
    <3>1. Becomes(u, r)
      BY <2>1 DEF Becomes
    <3>2. /\ r \in UpRun /\ r.pc = "verifyBundles" /\ r.mode = up[u].mode
          /\ r.plan = up[u].plan /\ r.todo = Planned(u)
      BY <1>1 DEF UpRun, UpStep, Planned
    <3> HIDE DEF r
    <3>3. Shaped(r)
      BY <1>1, <3>2 DEF Shaped, PlannedIn
    <3>4. up[u].pc = "verifyDestination"
      BY <1>5 DEF VerifyDestination
    <3>5. \A t \in Planned(u) : up[u].plan[t].result \in named[t]
      <4> SUFFICES ASSUME NEW t \in Planned(u) PROVE up[u].plan[t].result \in named[t]
        OBVIOUS
      <4>1. t \in Targets /\ up[u].plan[t].result \in Gens
        BY <3>4 DEF Planned, RunOK, PlanMade, Planning
      <4>2. active[t].gen = up[u].plan[t].result
        BY <2>1 DEF DestinationMatches
      <4> QED
        BY <4>1, <4>2, EtcdAssumption DEF Recorded
    <3>6. r.mode = "delete" => \A t \in V5Active : t \in Planned(u) /\ v5[t] = up[u].plan[t].source
      BY <3>2, <3>4 DEF RunOK, Migrated
    <3> QED
      BY <1>2, <1>5, <3>1, <3>2, <3>3, <3>4, <3>5, <3>6, Onward
         DEF RunStep, VerifyDestination, Planning
  <2> QED
    BY <1>2, <1>3, <1>5, <2>1 DEF VerifyDestination
<1>6. CASE VerifyBundle(u)
  <2>1. CASE up' = [up EXCEPT ![u].todo = @ \ {NextTarget(u)}]
    <3> DEFINE r == [up[u] EXCEPT !.todo = @ \ {NextTarget(u)}]
    <3>1. Becomes(u, r)
      BY <2>1 DEF Becomes
    <3>2. up[u].pc = "verifyBundles"
      BY <1>6 DEF VerifyBundle
    <3>3. /\ r \in UpRun /\ r.pc = "verifyBundles" /\ r.mode = up[u].mode
          /\ r.plan = up[u].plan /\ r.todo \subseteq up[u].todo
      BY <1>1, <3>2 DEF UpRun
    <3> HIDE DEF r
    <3>4. Shaped(r)
      BY <1>1, <3>3 DEF Shaped, PlannedIn
    <3>5. /\ \A t \in Planned(u) : up[u].plan[t].result \in named[t]
          /\ r.mode = "delete" =>
                 \A t \in V5Active : t \in Planned(u) /\ v5[t] = up[u].plan[t].source
      BY <3>2, <3>3 DEF RunOK, Migrated
    <3> QED
      BY <1>2, <1>6, <3>1, <3>2, <3>3, <3>4, <3>5, Onward DEF RunStep, VerifyBundle, Planning
  <2> QED
    BY <1>2, <1>3, <1>6, <2>1 DEF VerifyBundle
<1>7. CASE Verified(u)
  <2>1. CASE up[u].mode = "delete" /\ StepTo(u, "delete")
    <3>1. PICK r \in UpRun :
              /\ Shaped(r) /\ Becomes(u, r)
              /\ r.pc = "delete" /\ r.mode = up[u].mode /\ r.plan = up[u].plan
      BY <2>1, StepToView DEF UpStep
    <3>2. up[u].pc = "verifyBundles"
      BY <1>7 DEF Verified
    <3>3. /\ \A t \in Planned(u) : up[u].plan[t].result \in named[t]
          /\ \A t \in V5Active : t \in Planned(u) /\ v5[t] = up[u].plan[t].source
      BY <2>1, <3>2 DEF RunOK, Migrated
    <3> QED
      BY <1>2, <1>7, <2>1, <3>1, <3>2, <3>3, Onward DEF RunStep, Verified, Planning
  <2> QED
    BY <1>2, <1>3, <1>7, <2>1 DEF Verified
<1>8. CASE DeleteOld(u)
  <2>1. StoreGood /\ V5Kept
    BY <1>8, DeletedStore DEF DeleteOld
  <2> QED
    BY <1>3, <1>8, <2>1 DEF DeleteOld
<1> QED
  BY <1>4, <1>5, <1>6, <1>7, <1>8

(* A run that fails, or whose last transaction is committed unseen. *)
LEMMA FailStep ==
    ASSUME StoreTypeOK, PointersIntact, Recorded, UpTypeOK,
           NEW u \in Upgraders, RunOK(u), UpgradeAbort(u) \/ UpgradeReplyLost(u)
    PROVE  RunStep(u)
<1> DEFINE t == NextTarget(u)
           g == up[u].plan[t].result
<1>1. ASSUME StoreGood, V5Kept PROVE RunStep(u)
  BY <1>1, Finishing DEF RunStep, UpgradeAbort, UpgradeReplyLost
<1>2. CASE UpgradeAbort(u)
  BY <1>1, <1>2, QuietStore DEF UpgradeAbort
<1>3. CASE UpgradeReplyLost(u)
  <2>1. RecordNames /\ UNCHANGED v4
    BY <1>3 DEF UpgradeReplyLost
  <2>2. up[u].todo # {} => t \in Targets /\ g \in Gens
    BY AtWork
  <2>3. up[u].pc = "swap" => up[u].todo # {} /\ bundle[t][g] = Canon
    BY DEF RunOK, TargetStaged, SameExisting
  <2> HIDE DEF t, g
  <2>4. CASE up[u].todo # {} /\ StageBundleIfAbsent(t, g, Canon, TRUE) /\ UNCHANGED v5
    BY <1>1, <2>1, <2>2, <2>4, StagedStore
  <2>5. CASE up[u].pc = "swap" /\ PutActive(t, g) /\ UNCHANGED v5
    BY <1>1, <2>1, <2>2, <2>3, <2>5, SwappedStore
  <2>6. CASE /\ v5' = [s \in Targets |-> Absent] /\ rev' = rev + 1
             /\ UNCHANGED <<active, bundle>>
    BY <1>1, <2>1, <2>6, DeletedStore
  <2> QED
    BY <1>3, <2>4, <2>5, <2>6 DEF UpgradeReplyLost, t, g
<1> QED
  BY <1>2, <1>3

-----------------------------------------------------------------------------
(* Steps of the publishers. *)
LEMMA PublishV6Keeps ==
    ASSUME IInv, NEW p \in Publishers, PublishV6(p)
    PROVE  IInv'
<1>1. /\ StoreTypeOK /\ PublisherTypeOK /\ UpTypeOK /\ BudgetTypeOK /\ EtcdTypeOK
      /\ OwnBytes(Gens) /\ NamedBundles(Gens) /\ Recorded
  BY TypeParts, IntactIsNamed DEF IInv, StoreTypeOK
<1>2. PublisherStep(p) /\ RecordNames /\ UNCHANGED <<v4, v5, up, budget>>
  BY DEF PublishV6
<1>3. EtcdTypeOK' /\ PublisherTypeOK' /\ OwnBytes(Gens)' /\ NamedBundles(Gens)'
  BY <1>1, <1>2, PublisherStepType, OwnBytesStep, NamedBundlesStep
<1>4. /\ named' \in [Targets -> SUBSET Gens]
      /\ \A t \in Targets : named[t] \subseteq named'[t]
      /\ Recorded'
  BY <1>1, <1>2, <1>3, NamesRecorded
<1>5. Grows /\ V5Kept
  BY <1>1, <1>2, <1>4, PublisherKeeps DEF Grows, V5Kept
<1>6. \A u \in Upgraders : RunOK(u)'
  BY <1>1, <1>2, <1>5, RunKept DEF IInv
<1>7. StoreTypeOK' /\ UpTypeOK' /\ BudgetTypeOK' /\ PointersIntact'
  BY <1>1, <1>2, <1>3, <1>4, IntactIsNamed DEF StoreTypeOK, UpTypeOK, BudgetTypeOK
<1> QED
  BY <1>3, <1>4, <1>6, <1>7, TypeParts DEF IInv

LEMMA SpendType ==
    ASSUME BudgetTypeOK, NEW what \in {"v5", "faults"}, Spend(what)
    PROVE  BudgetTypeOK'
<1>1. MaxV5 \in Nat /\ MaxFaults \in Nat
  BY UpgradeAssumption
<1>2. CASE what = "v5"
  <2>1. budget.v5 < MaxV5 /\ budget' = [budget EXCEPT !.v5 = @ + 1]
    BY <1>2 DEF Spend
  <2> QED
    BY <1>1, <2>1 DEF BudgetTypeOK
<1>3. CASE what = "faults"
  <2>1. budget.faults < MaxFaults /\ budget' = [budget EXCEPT !.faults = @ + 1]
    BY <1>3 DEF Spend
  <2> QED
    BY <1>1, <2>1 DEF BudgetTypeOK
<1> QED
  BY <1>2, <1>3

LEMMA PublishV5Keeps ==
    ASSUME IInv, NEW t \in Targets, NEW h \in V5Gens, PublishV5(t, h)
    PROVE  IInv'
<1>1. /\ StoreTypeOK /\ PublisherTypeOK /\ UpTypeOK /\ BudgetTypeOK
      /\ OwnBytes(Gens) /\ PointersIntact /\ Recorded
  BY TypeParts DEF IInv
<1>2. /\ ~V5Stopped /\ Spend("v5")
      /\ v5' = [v5 EXCEPT ![t] = [gen |-> h, mod |-> rev + 1]] /\ rev' = rev + 1
      /\ UNCHANGED <<active, bundle, publisherVars, v4, up, named>>
  BY DEF PublishV5
<1>3. StoreTypeOK'
  BY <1>1, <1>2 DEF StoreTypeOK, EtcdTypeOK, V5Pointer
<1>4. PublisherTypeOK' /\ UpTypeOK' /\ OwnBytes(Gens)' /\ PointersIntact' /\ Recorded'
  BY <1>1, <1>2 DEF PublisherTypeOK, UpTypeOK, OwnBytes, PointersIntact, Recorded, publisherVars
<1>5. BudgetTypeOK'
  BY <1>1, <1>2, SpendType
<1>6. Grows
  BY <1>2 DEF Grows
<1>7. \A u \in Upgraders : RunOK(u)'
  BY <1>1, <1>2, <1>6, RunKept DEF IInv
<1> QED
  BY <1>3, <1>4, <1>5, <1>7, TypeParts DEF IInv

(* Steps of the upgrade processes. *)
LEMMA UpgraderKeeps ==
    ASSUME IInv, NEW u \in Upgraders,
           \/ \E mode \in Mode : Begin(u, mode)
           \/ UpgradeStep(u)
           \/ UpgradeAbort(u)
           \/ UpgradeReplyLost(u)
    PROVE  IInv'
<1>1. /\ StoreTypeOK /\ PublisherTypeOK /\ UpTypeOK /\ BudgetTypeOK
      /\ OwnBytes(Gens) /\ PointersIntact /\ Recorded /\ RunOK(u)
  BY TypeParts DEF IInv
<1>2. RunStep(u)
  BY <1>1, PlanningStep, ApplyStep, VerifyStep, FailStep DEF UpgradeStep
<1>3. /\ UNCHANGED publisherVars
      /\ UNCHANGED budget \/ Spend("faults")
  BY DEF Begin, UpgradeStep, InspectV4, SnapshotV5, BuildPlan, StageBundle, ReadExisting,
         CaptureSource, CaptureDestination, SwapFromSource, Applied, VerifySource,
         VerifyDestination, VerifyBundle, Verified, DeleteOld, UpgradeAbort, UpgradeReplyLost,
         OnlyReads
<1>4. PublisherTypeOK' /\ OwnBytes(Gens)'
  BY <1>1, <1>2, <1>3, OwnBytesKept
     DEF PublisherTypeOK, publisherVars, RunStep, StoreGood, Grows
<1>5. BudgetTypeOK'
  BY <1>1, <1>3, SpendType DEF BudgetTypeOK
<1>6. ASSUME NEW x \in Upgraders PROVE RunOK(x)'
  BY <1>1, <1>2, RunKept DEF IInv, RunStep, StoreGood
<1> QED
  BY <1>2, <1>4, <1>5, <1>6, TypeParts DEF IInv, RunStep, StoreGood

LEMMA Initially == Init => IInv
<1> SUFFICES ASSUME Init PROVE IInv
  OBVIOUS
<1>1. EtcdTypeOK /\ PublisherTypeOK /\ NamedBundles(Gens) /\ OwnBytes(Gens)
  BY EtcdInitType, PublisherInitType, PublisherInitStore DEF Init
<1>2. \A t \in Targets : active[t].gen \in Gens \cup {None}
  BY <1>1 DEF EtcdTypeOK, Pointer
<1>3. named \in [Targets -> SUBSET Gens] /\ Recorded
  BY <1>2 DEF Init, Recorded
<1>4. v5 \in [Targets -> V5Pointer]
  <2>1. {Absent} \cup [gen : V5Gens, mod : {1}] \subseteq V5Pointer
    BY DEF Absent, V5Pointer
  <2> QED
    BY <2>1 DEF Init
<1>5. StoreTypeOK
  BY <1>1, <1>3, <1>4 DEF Init, StoreTypeOK
<1>6. \A u \in Upgraders : up[u] = Idle
  BY DEF Init
<1>7. UpTypeOK
  BY <1>6, IdleShape DEF Init, UpTypeOK
<1>8. BudgetTypeOK
  BY UpgradeAssumption DEF Init, BudgetTypeOK
<1>9. \A u \in Upgraders : RunOK(u)
  BY <1>6 DEF RunOK, PlanMade, TargetStaged, Migrated, Planning, Idle
<1> QED
  BY <1>1, <1>3, <1>5, <1>7, <1>8, <1>9, TypeParts, IntactIsNamed DEF IInv

LEMMA Inductive == IInv /\ [Next]_vars => IInv'
<1> SUFFICES ASSUME IInv, [Next]_vars PROVE IInv'
  OBVIOUS
<1>1. CASE UNCHANGED vars
  <2>1. UNCHANGED <<rev, active, bundle, pub, starts, v4, v5, up, named, budget>>
    BY <1>1 DEF vars, etcdVars, publisherVars, upgradeVars
  <2>2. TypeOK' /\ OwnBytes(Gens)' /\ PointersIntact' /\ Recorded'
    BY <2>1 DEF IInv, TypeOK, EtcdTypeOK, PublisherTypeOK, OwnBytes, PointersIntact, Recorded,
                Planned
  <2>3. Grows /\ V5Kept
    BY <2>1 DEF Grows, V5Kept
  <2>4. \A u \in Upgraders : RunOK(u)'
    BY <2>1, <2>3, RunKept, TypeParts DEF IInv
  <2> QED
    BY <2>2, <2>4 DEF IInv
<1>2. CASE Next
  BY <1>2, PublishV6Keeps, PublishV5Keeps, UpgraderKeeps DEF Next
<1> QED
  BY <1>1, <1>2

(* The inductive invariant holds in every reachable state.                 *)
THEOREM Invariance == Spec => []IInv
BY Initially, Inductive, PTL DEF Spec

(* The variables of the namespace and of the runs keep their types, and a  *)
(* run works only on targets that its plan holds (buildPlan, applyPlan).   *)
THEOREM TypeCorrect == Spec => []TypeOK
<1>1. IInv => TypeOK
  BY DEF IInv
<1> QED
  BY <1>1, Invariance, PTL

(* However publishers and upgrade processes interleave and fail, every v6  *)
(* pointer names a bundle that decodes to its generation: applyPlan sets a *)
(* pointer only after it has staged the bundle or compared the bytes that  *)
(* it found, and bundles are never replaced.                               *)
THEOREM UpgradeKeepsPointersIntact == Spec => []PointersIntact
<1>1. IInv => PointersIntact
  BY DEF IInv
<1> QED
  BY <1>1, Invariance, PTL

-----------------------------------------------------------------------------
(* The only step of an upgrade that moves a v6 pointer. *)
LEMMA MovesActive ==
    ASSUME StoreTypeOK, UpTypeOK, NEW u \in Upgraders, RunOK(u), NEW t \in Targets,
           \/ \E mode \in Mode : Begin(u, mode)
           \/ UpgradeStep(u)
           \/ UpgradeAbort(u)
           \/ UpgradeReplyLost(u),
           active'[t] # active[t]
    PROVE  /\ active[t].gen = None
           /\ v5[t] = up[u].plan[t].source
           /\ active'[t].gen = Convert[u][t][v5[t].gen]
<1> DEFINE s == NextTarget(u)
           g == up[u].plan[s].result
<1>1. up[u].pc = "swap" /\ SourceAndDestination(u, s) /\ PutActive(s, g)
  BY DEF Begin, UpgradeStep, InspectV4, SnapshotV5, BuildPlan, StageBundle, ReadExisting,
         CaptureSource, CaptureDestination, SwapFromSource, Applied, VerifySource,
         VerifyDestination, VerifyBundle, Verified, DeleteOld, UpgradeAbort, UpgradeReplyLost,
         OnlyReads, StageBundleIfAbsent, PutBundle, etcdVars
<1>2. up[u].todo # {}
  BY <1>1 DEF RunOK, TargetStaged
<1>3. s \in Targets /\ g = Convert[u][s][up[u].plan[s].source.gen]
  BY <1>2, AtWork
<1> HIDE DEF s
<1>4. active' = [active EXCEPT ![s] = [gen |-> g, mod |-> rev + 1]]
  BY <1>1 DEF PutActive
<1>5. t = s
  BY <1>3, <1>4 DEF StoreTypeOK, EtcdTypeOK
<1>6. active'[t].gen = g
  BY <1>3, <1>4, <1>5 DEF StoreTypeOK, EtcdTypeOK
<1> QED
  BY <1>1, <1>3, <1>5, <1>6 DEF SourceAndDestination

(* For any number of upgrade processes and of v5 and v6 publishers: an     *)
(* upgrade sets a v6 pointer only where there is none, and to the          *)
(* conversion of the very v5 generation that is active at that moment      *)
(* (the two comparisons in SwapActiveFromSource).                          *)
THEOREM SourceIsCurrent == Spec => SourceCurrent
<1> DEFINE A == \A u \in Upgraders, t \in Targets :
                    up'[u] # up[u] /\ active'[t] # active[t]
                        => /\ active[t].gen = None
                           /\ v5[t] = up[u].plan[t].source
                           /\ active'[t].gen = Convert[u][t][v5[t].gen]
<1>1. IInv /\ [Next]_vars => [A]_vars
  <2> SUFFICES ASSUME IInv, Next, NEW u \in Upgraders, NEW t \in Targets,
                      up'[u] # up[u], active'[t] # active[t]
               PROVE  /\ active[t].gen = None
                      /\ v5[t] = up[u].plan[t].source
                      /\ active'[t].gen = Convert[u][t][v5[t].gen]
    OBVIOUS
  <2>1. StoreTypeOK /\ PointersIntact /\ Recorded /\ UpTypeOK /\ \A x \in Upgraders : RunOK(x)
    BY TypeParts DEF IInv
  <2>2. PICK w \in Upgraders : \/ \E mode \in Mode : Begin(w, mode)
                               \/ UpgradeStep(w)
                               \/ UpgradeAbort(w)
                               \/ UpgradeReplyLost(w)
    BY DEF Next, PublishV6, PublishV5
  <2>3. RunStep(w)
    BY <2>1, <2>2, PlanningStep, ApplyStep, VerifyStep, FailStep DEF UpgradeStep
  <2>4. u = w
    BY <2>3 DEF RunStep
  <2> QED
    BY <2>1, <2>2, <2>4, MovesActive
<1> QED
  BY <1>1, Invariance, PTL DEF Spec, SourceCurrent

(* The only step that removes a v5 pointer is a deletion of a run that is  *)
(* through with its verification.                                          *)
LEMMA RemovesSource ==
    ASSUME StoreTypeOK, Next, NEW t \in Targets, v5[t].gen # None, v5'[t].gen = None
    PROVE  \E u \in Upgraders : up[u].pc = "delete"
<1>1. v5' # v5
  OBVIOUS
<1>2. ASSUME NEW s \in Targets, NEW h \in V5Gens, PublishV5(s, h) PROVE FALSE
  <2>1. v5' = [v5 EXCEPT ![s] = [gen |-> h, mod |-> rev + 1]]
    BY <1>2 DEF PublishV5
  <2> QED
    BY <2>1, UpgradeAssumption DEF StoreTypeOK
<1>3. PICK u \in Upgraders : \/ \E mode \in Mode : Begin(u, mode)
                             \/ UpgradeStep(u)
                             \/ UpgradeAbort(u)
                             \/ UpgradeReplyLost(u)
  BY <1>1, <1>2 DEF Next, PublishV6
<1>4. up[u].pc = "delete"
  BY <1>1, <1>3 DEF Begin, UpgradeStep, InspectV4, SnapshotV5, BuildPlan, StageBundle,
         ReadExisting, CaptureSource, CaptureDestination, SwapFromSource, Applied, VerifySource,
         VerifyDestination, VerifyBundle, Verified, DeleteOld, UpgradeAbort, UpgradeReplyLost,
         OnlyReads
<1> QED
  BY <1>4

(* Deleting the v5 prefix loses no certificate, for any number of targets, *)
(* publishers and upgrade processes: whatever v5 generation is active when *)
(* the prefix goes, its conversion has been active in v6.  verifyPlan      *)
(* compares the number of v5 keys with the plan and every planned key with *)
(* its snapshot, which leaves no room for a target that was published      *)
(* after the plan was made.                                                *)
THEOREM NothingIsLost == Spec => NothingLost
<1> DEFINE A == \A t \in Targets :
                    v5[t].gen # None /\ v5'[t].gen = None
                        => \E u \in Upgraders : Convert[u][t][v5[t].gen] \in named[t]
<1>1. IInv /\ [Next]_vars => [A]_vars
  <2> SUFFICES ASSUME IInv, Next, NEW t \in Targets, v5[t].gen # None, v5'[t].gen = None
               PROVE  \E u \in Upgraders : Convert[u][t][v5[t].gen] \in named[t]
    OBVIOUS
  <2>1. StoreTypeOK /\ \A u \in Upgraders : RunOK(u)
    BY TypeParts DEF IInv
  <2>2. PICK u \in Upgraders : up[u].pc = "delete"
    BY <2>1, RemovesSource
  <2>3. t \in V5Active
    BY DEF V5Active
  <2>4. /\ t \in Planned(u) /\ v5[t] = up[u].plan[t].source
        /\ up[u].plan[t].result \in named[t]
    BY <2>1, <2>2, <2>3 DEF RunOK, Migrated
  <2>5. up[u].plan[t].result = Convert[u][t][v5[t].gen]
    BY <2>1, <2>2, <2>4 DEF RunOK, PlanMade, Planning
  <2> QED
    BY <2>4, <2>5
<1> QED
  BY <1>1, Invariance, PTL DEF Spec, NothingLost
=============================================================================
