------------------------------- MODULE Upgrade ------------------------------
(***************************************************************************)
(* internal/upgrade: "pemcast upgrade" converts the active v5 bundles of a *)
(* namespace to v6 while v5 and v6 publishers may still be at work.  The   *)
(* targets are committed one by one, each with a transaction that compares *)
(* the v5 and the v6 pointer; a run that stops half-way is run again.      *)
(* A run takes the targets in one fixed order, which is not modelled.      *)
(***************************************************************************)
EXTENDS Publisher, FiniteSets

CONSTANTS
    Upgraders,    \* upgrade processes
    V5Gens,       \* v5 generations
    Convertible,  \* those that decode and convert (a bundle that can be read)
    Convert,      \* Convert[u][t][h]: v6 generation of h with the type that
                  \* the options of u give t, None when there is no valid type
    Overrides,    \* Overrides[u]: targets with a --target-type of their own
    Canon,        \* the bytes that the v6 encoder produces
    MaxV5,        \* bound: publications of v5 publishers
    MaxFaults     \* bound: failed requests and lost replies

ASSUME UpgradeAssumption ==
    /\ IsFiniteSet(Targets)
    /\ None \notin V5Gens
    /\ Convertible \subseteq V5Gens
    /\ Convert \in [Upgraders -> [Targets -> [V5Gens -> Gens \cup {None}]]]
    /\ Overrides \in [Upgraders -> SUBSET Targets]
    /\ Canon \in Encodings
    /\ {MaxV5, MaxFaults} \subseteq Nat

VARIABLES
    v4,       \* <prefix>/v4/active/ is not empty
    v5,       \* <prefix>/v5/active/<target>
    up,       \* per upgrade process: its run
    named,    \* history: per target, the generations its v6 pointer has named
    budget    \* v5 publications and faults so far

upgradeVars == <<v4, v5, up, named, budget>>
vars == <<etcdVars, publisherVars, upgradeVars>>

UpStep == {"idle", "v4", "v5", "v6", "stage", "existing", "source", "destination",
           "swap", "verifySource", "verifyDestination", "verifyBundles", "delete"}
Mode == {"dry", "apply", "delete"}
V5Pointer == [gen : V5Gens \cup {None}, mod : Nat]
TargetPlan == [source : V5Pointer, result : Gens \cup {None}, migrated : BOOLEAN]

NoPlan == [source |-> Absent, result |-> None, migrated |-> FALSE]
Idle ==
    [pc |-> "idle", mode |-> "apply", plan |-> [t \in Targets |-> NoPlan], todo |-> {}]

V5Active == {t \in Targets : v5[t].gen # None}
V6Active == {t \in Targets : active[t].gen # None}
Planned(u) == {t \in Targets : up[u].plan[t].source.gen # None}

(* The variables keep their shape; a run works only on targets of its plan,*)
(* and nothing of one run is left for the next (buildPlan, applyPlan).     *)
TypeOK ==
    /\ EtcdTypeOK
    /\ PublisherTypeOK
    /\ v4 \in BOOLEAN
    /\ v5 \in [Targets -> V5Pointer]
    /\ up \in [Upgraders -> [pc : UpStep, mode : Mode, plan : [Targets -> TargetPlan],
                             todo : SUBSET Targets]]
    /\ \A u \in Upgraders :
          /\ up[u].todo \subseteq Planned(u)
          /\ up[u].pc = "idle" => up[u] = Idle
    /\ named \in [Targets -> SUBSET Gens]
    /\ budget \in [v5 : 0..MaxV5, faults : 0..MaxFaults]

Init ==
    /\ EtcdInit
    /\ PublisherInit
    /\ v4 \in BOOLEAN
    /\ v5 \in [Targets -> {Absent} \cup [gen : V5Gens, mod : {1}]]
    /\ up = [u \in Upgraders |-> Idle]
    /\ named = [t \in Targets |-> {active[t].gen} \ {None}]
    /\ budget = [v5 |-> 0, faults |-> 0]

Spend(what) ==
    /\ budget[what] < IF what = "v5" THEN MaxV5 ELSE MaxFaults
    /\ budget' = [budget EXCEPT ![what] = @ + 1]

RecordNames ==
    named' = [t \in Targets |-> named[t] \cup ({active'[t].gen} \ {None})]

StepTo(u, step) == up' = [up EXCEPT ![u].pc = step]
KeepPlan(u) == StepTo(u, "idle")
Finish(u) == up' = [up EXCEPT ![u] = Idle]
Check(u, condition, step) ==
    IF condition THEN StepTo(u, step) ELSE Finish(u)

(* A read that leaves store and history alone. *)
OnlyReads == UNCHANGED <<etcdVars, publisherVars, v4, v5, named, budget>>

-----------------------------------------------------------------------------
(* The rest of the namespace. *)
PublishV6(p) ==
    /\ PublisherStep(p)
    /\ RecordNames
    /\ UNCHANGED <<v4, v5, up, budget>>

(* The documentation asks to stop v5 publishers before a deletion; they    *)
(* are taken to be stopped once postverify has read the v5 pointers.       *)
V5Stopped ==
    \E u \in Upgraders :
        /\ up[u].mode = "delete"
        /\ up[u].pc \in {"verifyDestination", "verifyBundles", "delete"}

PublishV5(t, h) ==
    /\ ~V5Stopped
    /\ Spend("v5")
    /\ v5' = [v5 EXCEPT ![t] = [gen |-> h, mod |-> rev + 1]]
    /\ rev' = rev + 1
    /\ UNCHANGED <<active, bundle, publisherVars, v4, up, named>>

-----------------------------------------------------------------------------
(* Upgrade and buildPlan *)
Begin(u, mode) ==
    /\ up[u].pc = "idle"
    /\ up' = [up EXCEPT ![u].pc = "v4", ![u].mode = mode]
    /\ OnlyReads

InspectV4(u) ==
    /\ up[u].pc = "v4"
    /\ Check(u, ~v4, "v5")
    /\ OnlyReads

(* The v5 bundles are read at the revision of this snapshot. *)
SnapshotV5(u) ==
    /\ up[u].pc = "v5"
    /\ up' = [up EXCEPT ![u].pc = "v6",
              ![u].plan = [t \in Targets |-> [NoPlan EXCEPT !.source = v5[t]]]]
    /\ OnlyReads

Result(u, t) == Convert[u][t][up[u].plan[t].source.gen]

(* Every source converts, a v6 pointer that is there already is the result *)
(* of the conversion, and every --target-type names an active v5 target.   *)
Plannable(u) ==
    /\ Planned(u) # {}
    /\ V6Active \subseteq Planned(u)
    /\ Overrides[u] \subseteq Planned(u)
    /\ \A t \in Planned(u) :
          /\ up[u].plan[t].source.gen \in Convertible
          /\ Result(u, t) # None
          /\ active[t].gen \in {None, Result(u, t)}

BuildPlan(u) ==
    /\ up[u].pc = "v6"
    /\ IF Plannable(u) /\ up[u].mode # "dry"
       THEN up' = [up EXCEPT
                ![u].pc = "stage",
                ![u].todo = Planned(u),
                ![u].plan = [t \in Targets |->
                    IF t \in Planned(u)
                    THEN [source |-> up[u].plan[t].source, result |-> Result(u, t),
                          migrated |-> t \in V6Active]
                    ELSE NoPlan]]
       ELSE Finish(u)
    /\ OnlyReads

-----------------------------------------------------------------------------
(* applyPlan; the target at work is the one that NextTarget picks. *)
NextTarget(u) == CHOOSE t \in up[u].todo : TRUE

AfterTarget(u) ==
    up' = [up EXCEPT ![u].todo = @ \ {NextTarget(u)}, ![u].pc = "stage"]

(* Mutant: the shortcut for a migrated target is forgotten. *)
AlwaysCommit(u) == StepTo(u, "source")
CommitUnlessMigrated(u) ==
    IF up[u].plan[NextTarget(u)].migrated THEN AfterTarget(u) ELSE StepTo(u, "source")

StageBundle(u) ==
    LET t == NextTarget(u) IN
    /\ up[u].pc = "stage"
    /\ up[u].todo # {}
    /\ \E created \in BOOLEAN :
          /\ StageBundleIfAbsent(t, up[u].plan[t].result, Canon, created)
          /\ IF created THEN CommitUnlessMigrated(u) ELSE StepTo(u, "existing")
    /\ UNCHANGED <<publisherVars, v4, v5, named, budget>>

AnyExisting(u, t) == bundle[t][up[u].plan[t].result] # None
SameExisting(u, t) == bundle[t][up[u].plan[t].result] = Canon

ReadExisting(u) ==
    /\ up[u].pc = "existing"
    /\ IF SameExisting(u, NextTarget(u)) THEN CommitUnlessMigrated(u) ELSE Finish(u)
    /\ OnlyReads

CaptureSource(u) ==
    /\ up[u].pc = "source"
    /\ Check(u, v5[NextTarget(u)] = up[u].plan[NextTarget(u)].source, "destination")
    /\ OnlyReads

CaptureDestination(u) ==
    /\ up[u].pc = "destination"
    /\ Check(u, active[NextTarget(u)].gen = None, "swap")
    /\ OnlyReads

(* SwapActiveFromSource *)
DestinationOnly(u, t) == active[t].gen = None
SourceAndDestination(u, t) == v5[t] = up[u].plan[t].source /\ active[t].gen = None

SwapFromSource(u) ==
    LET t == NextTarget(u) IN
    /\ up[u].pc = "swap"
    /\ IF SourceAndDestination(u, t)
       THEN PutActive(t, up[u].plan[t].result) /\ AfterTarget(u)
       ELSE Finish(u) /\ UNCHANGED etcdVars
    /\ RecordNames
    /\ UNCHANGED <<publisherVars, v4, v5, budget>>

Applied(u) ==
    /\ up[u].pc = "stage"
    /\ up[u].todo = {}
    /\ StepTo(u, "verifySource")
    /\ OnlyReads

-----------------------------------------------------------------------------
(* verifyPlan *)
SourceExists(u) == V5Active = Planned(u)
SourceUnchanged(u) ==
    /\ Cardinality(V5Active) = Cardinality(Planned(u))
    /\ \A t \in Planned(u) : v5[t] = up[u].plan[t].source

VerifySource(u) ==
    /\ up[u].pc = "verifySource"
    /\ Check(u, SourceUnchanged(u), "verifyDestination")
    /\ OnlyReads

DestinationMatches(u) ==
    /\ Cardinality(V6Active) = Cardinality(Planned(u))
    /\ \A t \in Planned(u) : active[t].gen = up[u].plan[t].result

VerifyDestination(u) ==
    /\ up[u].pc = "verifyDestination"
    /\ IF DestinationMatches(u)
       THEN up' = [up EXCEPT ![u].pc = "verifyBundles", ![u].todo = Planned(u)]
       ELSE Finish(u)
    /\ OnlyReads

VerifyBundle(u) ==
    /\ up[u].pc = "verifyBundles"
    /\ up[u].todo # {}
    /\ IF SameExisting(u, NextTarget(u))
       THEN up' = [up EXCEPT ![u].todo = @ \ {NextTarget(u)}]
       ELSE Finish(u)
    /\ OnlyReads

Verified(u) ==
    /\ up[u].pc = "verifyBundles"
    /\ up[u].todo = {}
    /\ IF up[u].mode = "delete" THEN StepTo(u, "delete") ELSE Finish(u)
    /\ OnlyReads

(* DeletePrefix *)
DeleteOld(u) ==
    /\ up[u].pc = "delete"
    /\ v5' = [t \in Targets |-> Absent]
    /\ rev' = rev + 1
    /\ Finish(u)
    /\ UNCHANGED <<active, bundle, publisherVars, v4, named, budget>>

-----------------------------------------------------------------------------
(* A request fails without effect, the process dies, or a transaction is   *)
(* committed although its reply is lost.                                   *)
UpgradeAbort(u) ==
    /\ up[u].pc # "idle"
    /\ Spend("faults")
    /\ Finish(u)
    /\ UNCHANGED <<etcdVars, publisherVars, v4, v5, named>>

UpgradeReplyLost(u) ==
    LET t == NextTarget(u) IN
    /\ Spend("faults")
    /\ Finish(u)
    /\ \/ /\ up[u].pc = "stage"
          /\ up[u].todo # {}
          /\ StageBundleIfAbsent(t, up[u].plan[t].result, Canon, TRUE)
          /\ UNCHANGED v5
       \/ /\ up[u].pc = "swap"
          /\ SourceAndDestination(u, t)
          /\ PutActive(t, up[u].plan[t].result)
          /\ UNCHANGED v5
       \/ /\ up[u].pc = "delete"
          /\ v5' = [s \in Targets |-> Absent]
          /\ rev' = rev + 1
          /\ UNCHANGED <<active, bundle>>
    /\ RecordNames
    /\ UNCHANGED <<publisherVars, v4>>

UpgradeStep(u) ==
    \/ InspectV4(u)
    \/ SnapshotV5(u)
    \/ BuildPlan(u)
    \/ StageBundle(u)
    \/ ReadExisting(u)
    \/ CaptureSource(u)
    \/ CaptureDestination(u)
    \/ SwapFromSource(u)
    \/ Applied(u)
    \/ VerifySource(u)
    \/ VerifyDestination(u)
    \/ VerifyBundle(u)
    \/ Verified(u)
    \/ DeleteOld(u)

Next ==
    \/ \E p \in Publishers : PublishV6(p)
    \/ \E t \in Targets, h \in V5Gens : PublishV5(t, h)
    \/ \E u \in Upgraders :
          \/ \E mode \in Mode : Begin(u, mode)
          \/ UpgradeStep(u)
          \/ UpgradeAbort(u)
          \/ UpgradeReplyLost(u)

Spec == Init /\ [][Next]_vars

(* An operator who makes dry runs applies in the end, and repeats a run    *)
(* that failed; requests are answered or fail.                             *)
Fairness ==
    \A u \in Upgraders :
        WF_vars(UpgradeStep(u)) /\ SF_vars(\E m \in {"apply", "delete"} : Begin(u, m))

FairSpec == Spec /\ Fairness

-----------------------------------------------------------------------------
(* Every v6 pointer names a bundle that decodes to its generation, also    *)
(* one that an upgrade has set on a bundle which it found already staged   *)
(* (the comparison after StageBundleIfAbsent in applyPlan).                *)
PointersIntact ==
    \A t \in Targets :
        active[t].gen # None => bundle[t][active[t].gen] \in Encodings

(* At the moment an upgrade sets a v6 pointer, it did not exist and the v5 *)
(* pointer still names, unmoved, the generation that was converted         *)
(* (SwapActiveFromSource; an ordinary publisher sets what it likes).       *)
SourceCurrent ==
    [][ \A u \in Upgraders, t \in Targets :
            up'[u] # up[u] /\ active'[t] # active[t]
                => /\ active[t].gen = None
                   /\ v5[t] = up[u].plan[t].source
                   /\ active'[t].gen = Convert[u][t][v5[t].gen] ]_vars

(* Deleting v5 loses no certificate: the conversion of every v5 generation *)
(* that is active at that moment has been active in v6, although v5        *)
(* publishers were at work until postverify (verifyPlan before             *)
(* DeletePrefix).                                                          *)
NothingLost ==
    [][ \A t \in Targets :
            v5[t].gen # None /\ v5'[t].gen = None
                => \E u \in Upgraders : Convert[u][t][v5[t].gen] \in named[t] ]_vars

(* Nothing is there that an upgrade must refuse.                           *)
Migratable(u) ==
    \/ V5Active = {}
    \/ /\ ~v4
       /\ V6Active \subseteq V5Active
       /\ Overrides[u] \subseteq V5Active
       /\ \A t \in V5Active :
             /\ v5[t].gen \in Convertible
             /\ Convert[u][t][v5[t].gen] # None
             /\ active[t].gen \in {None, Convert[u][t][v5[t].gen]}
             /\ bundle[t][Convert[u][t][v5[t].gen]] \in {None, Canon}

(* Repeated runs get every target across, whatever run failed half-way, as *)
(* long as nothing that upgrade must refuse turns up: a migrated target    *)
(* does not stop the next run (alreadyMigrated in applyPlan).              *)
Completes ==
    \A u \in Upgraders :
        []Migratable(u) => <>[](V5Active \subseteq V6Active)
=============================================================================
