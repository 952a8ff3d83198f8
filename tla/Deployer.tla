------------------------------ MODULE Deployer ------------------------------
(***************************************************************************)
(* internal/deploy/deployer.go, with the callers of Activate that share an *)
(* output root: one agent process, which activates the generation its      *)
(* target should run, and seed commands.  Every file system step that      *)
(* changes something is an action, so that a process may be killed, a call *)
(* may fail, or the machine may lose power between any two of them.        *)
(*                                                                         *)
(* A directory has the entries the kernel shows and those that fsync has   *)
(* made durable; after a loss of power each entry that differs may be      *)
(* found either way (POSIX, no ordering between directories).  File data   *)
(* is fsynced before the file counts as written.  The directory of the     *)
(* releases is made by MkdirAll as an entry of .pemcast, which nothing     *)
(* ever syncs: it may go, with all that is in it, until a loss of power    *)
(* has spared it.  Release modes and bytes are one matter here: a release  *)
(* is intact when it holds all its files.                                  *)
(***************************************************************************)
EXTENDS Naturals, FiniteSets

CONSTANTS
    Gens,        \* generations; the digest in a release name
    Mapped,      \* files that the mappings of the target write
    Marker,      \* .pemcast-digest
    None,        \* no symlink
    Agents,      \* agent processes configured with this root
    Seeds,       \* seed commands for this root
    Retain,      \* output.retain-releases
    Hosts,       \* hosts to start from: "absent" is a new output root,
                 \* "durable" one whose releases directory is on disk
    MaxGoals,    \* bound: how often the goal changes
    MaxSeeds,    \* bound: seed activations
    FaultKinds,  \* subset of {"kill", "error", "power"}
    MaxFaults    \* bound: number of faults

Files == Mapped \cup {Marker}
Processes == Agents \cup Seeds

ASSUME DeployerAssumption ==
    /\ Marker \notin Mapped
    /\ None \notin Gens
    /\ None \notin Processes
    /\ Agents \cap Seeds = {}
    /\ IsFiniteSet(Gens)
    /\ Retain \in Nat
    /\ Hosts \subseteq {"absent", "durable"}
    /\ {MaxGoals, MaxSeeds, MaxFaults} \subseteq Nat

VARIABLES
    locked,    \* holder of the root lock
    proc,      \* per process: the activation it runs
    home,      \* the directory of the releases, .pemcast/releases
    present,   \* release directories
    content,   \* per release: its entries
    onDisk,    \* durable entries of the releases directory
    stored,    \* per release: its durable entries
    age,       \* per release: rank by mtime, 0 is the newest
    temp,      \* the temporary symlink
    current,   \* the symlink that consumers follow
    saved,     \* the durable entry of current
    goal,      \* generation the agent is to activate
    budget     \* goal changes, seed activations and faults so far

releaseVars == <<home, present, content, onDisk, stored, age>>
linkVars == <<temp, current, saved>>
vars == <<locked, proc, releaseVars, linkVars, goal, budget>>

Step == {"out", "idle", "write", "sync", "commit", "syncReleases",
         "unlink", "symlink", "swap", "syncRoot", "scan", "prune"}
Home == {"absent", "cached", "durable"}
Result == {"none", "unchanged", "switched", "failed", "corrupt"}

Quiet(step, g, result) ==
    [pc |-> step, want |-> g, staged |-> {}, synced |-> FALSE,
     victims |-> {}, result |-> result]
Exited == Quiet("out", None, "none")

(* The variables keep their shape, and no two releases are of the same age,*)
(* so that pruneReleases has one order to go by.                           *)
TypeOK ==
    /\ locked \in Processes \cup {None}
    /\ proc \in [Processes ->
           [pc : Step, want : Gens \cup {None}, staged : SUBSET Files,
            synced : BOOLEAN, victims : SUBSET Gens, result : Result]]
    /\ home \in Home
    /\ present \subseteq Gens
    /\ content \in [Gens -> SUBSET Files]
    /\ onDisk \subseteq Gens
    /\ stored \in [Gens -> SUBSET Files]
    /\ age \in [Gens -> Nat]
    /\ \A g, h \in Gens : age[g] = age[h] => g = h
    /\ {temp, current, saved} \subseteq Gens \cup {None}
    /\ goal \in Gens
    /\ budget \in [goals : 0..MaxGoals, seeds : 0..MaxSeeds, faults : 0..MaxFaults]

Init ==
    /\ locked = None
    /\ proc = [p \in Processes |-> Exited]
    /\ home \in Hosts
    /\ present = {}
    /\ content = [g \in Gens |-> {}]
    /\ onDisk = {}
    /\ stored = [g \in Gens |-> {}]
    /\ age \in {f \in [Gens -> 0..Cardinality(Gens) - 1] :
                   \A g, h \in Gens : f[g] = f[h] => g = h}
    /\ temp = None
    /\ current = None
    /\ saved = None
    /\ goal \in Gens
    /\ budget = [goals |-> 0, seeds |-> 0, faults |-> 0]

(* verifyRelease *)
Intact(g) == g \in present /\ content[g] = Files

(* CurrentDigest returns no error. *)
Readable == current # None => current \in present /\ Marker \in content[current]

(* Entry changes of a release directory make it the newest. *)
FrontOnly(g) == [age EXCEPT ![g] = 0]
Touch(g) ==
    [h \in Gens |-> IF h = g THEN 0
                    ELSE IF age[h] < age[g] THEN age[h] + 1 ELSE age[h]]

StepTo(p, step) == proc' = [proc EXCEPT ![p].pc = step]
Begin(p, g, step) ==
    proc' = [proc EXCEPT ![p] = Quiet(step, g, "none")]
Return(p, g, result) == proc' = [proc EXCEPT ![p] = Quiet("idle", g, result)]
Verified(p, g, step) ==
    IF Intact(g) THEN Begin(p, g, step) ELSE Return(p, g, "corrupt")
Spend(what) == budget' = [budget EXCEPT ![what] = @ + 1]

-----------------------------------------------------------------------------
(* The root lock and the goal. *)
LockIgnored == FALSE
LockTaken == locked # None

Lock(p) ==
    /\ proc[p].pc = "out"
    /\ ~LockTaken
    /\ locked' = p
    /\ StepTo(p, "idle")
    /\ IF p \in Seeds
       THEN budget.seeds < MaxSeeds /\ Spend("seeds")
       ELSE UNCHANGED budget
    /\ UNCHANGED <<releaseVars, linkVars, goal>>

(* A seed command is over after one call. *)
Unlock(p) ==
    /\ p \in Seeds
    /\ proc[p].pc = "idle"
    /\ proc[p].result # "none"
    /\ locked' = None
    /\ proc' = [proc EXCEPT ![p] = Exited]
    /\ UNCHANGED <<releaseVars, linkVars, goal, budget>>

Publish(g) ==
    /\ g # goal
    /\ budget.goals < MaxGoals
    /\ goal' = g
    /\ Spend("goals")
    /\ UNCHANGED <<locked, proc, releaseVars, linkVars>>
-----------------------------------------------------------------------------
(* Activate *)

(* MkdirAll *)
MakeDirectories ==
    /\ home' = IF home = "absent" THEN "cached" ELSE home
    /\ UNCHANGED <<present, content, onDisk, stored, age>>

(* CurrentDigest, then verifyRelease when the release exists already, as   *)
(* the active one or as one to switch to.                                  *)
Activate(p, g) ==
    /\ proc[p].pc = "idle"
    /\ \/ /\ ~Readable
          /\ Return(p, g, "corrupt")
          /\ UNCHANGED releaseVars
       \/ /\ Readable
          /\ g = current
          /\ Return(p, g, IF Intact(g) THEN "unchanged" ELSE "corrupt")
          /\ UNCHANGED releaseVars
       \/ /\ Readable
          /\ g # current
          /\ g \in present
          /\ Verified(p, g, "unlink")
          /\ MakeDirectories
       \/ /\ Readable
          /\ g # current
          /\ g \notin present
          /\ Begin(p, g, "write")
          /\ MakeDirectories
    /\ UNCHANGED <<locked, linkVars>>

ReconcileGoal(a) ==
    /\ Activate(a, goal)
    /\ UNCHANGED <<goal, budget>>

(* seed.Apply: without --force it replaces no other release. *)
Seed(s, g, force) ==
    /\ proc[s].pc = "idle"
    /\ proc[s].result = "none"
    /\ IF Readable /\ current \notin {None, g} /\ ~force
       THEN Return(s, g, "failed") /\ UNCHANGED <<locked, releaseVars, linkVars>>
       ELSE Activate(s, g)
    /\ UNCHANGED <<goal, budget>>

(* ensureRelease: fill a staging directory, sync it, rename it. *)
NextFiles(p) ==
    IF proc[p].staged = Mapped THEN {Marker} ELSE Mapped \ proc[p].staged

WriteReleaseFile(p) ==
    /\ proc[p].pc = "write"
    /\ \E f \in NextFiles(p) :
          LET staged == proc[p].staged \cup {f} IN
          proc' = [proc EXCEPT ![p].staged = staged,
                               ![p].pc = IF staged = Files THEN "sync" ELSE "write"]
    /\ UNCHANGED <<locked, releaseVars, linkVars, goal, budget>>

SyncDirectoryTree(p) ==
    /\ proc[p].pc = "sync"
    /\ proc' = [proc EXCEPT ![p].pc = "commit", ![p].synced = TRUE]
    /\ UNCHANGED <<locked, releaseVars, linkVars, goal, budget>>

(* A directory that was removed without being synced may still be found in *)
(* place of the new one after a loss of power.                             *)
CommitRelease(p) ==
    LET g == proc[p].want IN
    /\ proc[p].pc = "commit"
    /\ IF g \in present
       THEN /\ Verified(p, g, "unlink")
            /\ UNCHANGED releaseVars
       ELSE /\ StepTo(p, "syncReleases")
            /\ present' = present \cup {g}
            /\ content' = [content EXCEPT ![g] = proc[p].staged]
            /\ stored' = [stored EXCEPT ![g] =
                   IF proc[p].synced /\ g \notin onDisk THEN proc[p].staged ELSE {}]
            /\ age' = Touch(g)
            /\ UNCHANGED <<home, onDisk>>
    /\ UNCHANGED <<locked, linkVars, goal, budget>>

NoSync(p) ==
    /\ proc[p].pc = "syncReleases"
    /\ StepTo(p, "unlink")
    /\ UNCHANGED <<locked, releaseVars, linkVars, goal, budget>>

SyncReleases(p) ==
    LET g == proc[p].want IN
    /\ proc[p].pc = "syncReleases"
    /\ StepTo(p, "unlink")
    /\ onDisk' = present
    /\ stored' = [stored EXCEPT ![g] = IF proc[p].synced THEN content[g] ELSE @]
    /\ UNCHANGED <<locked, home, present, content, age, linkVars, goal, budget>>

(* switchSymlink: remove a temporary link left behind, link, rename, sync. *)
KeepTemporary(p) ==
    /\ proc[p].pc = "unlink"
    /\ StepTo(p, "symlink")
    /\ UNCHANGED <<locked, releaseVars, linkVars, goal, budget>>

RemoveTemporary(p) ==
    /\ proc[p].pc = "unlink"
    /\ temp' = None
    /\ StepTo(p, "symlink")
    /\ UNCHANGED <<locked, releaseVars, current, saved, goal, budget>>

Symlink(p) ==
    /\ proc[p].pc = "symlink"
    /\ IF temp = None
       THEN temp' = proc[p].want /\ StepTo(p, "swap")
       ELSE Return(p, proc[p].want, "failed") /\ UNCHANGED temp
    /\ UNCHANGED <<locked, releaseVars, current, saved, goal, budget>>

SwapSymlink(p) ==
    /\ proc[p].pc = "swap"
    /\ IF temp = None
       THEN Return(p, proc[p].want, "failed") /\ UNCHANGED <<temp, current>>
       ELSE StepTo(p, "syncRoot") /\ temp' = None /\ current' = temp
    /\ UNCHANGED <<locked, releaseVars, saved, goal, budget>>

(* Mutant: the old releases are removed before the link is durable.        *)
ScanUnsynced(p) ==
    /\ proc[p].pc = "syncRoot"
    /\ StepTo(p, "scan")
    /\ UNCHANGED <<locked, releaseVars, linkVars, goal, budget>>

SyncRoot(p) ==
    /\ proc[p].pc = "syncRoot"
    /\ saved' = current
    /\ StepTo(p, "scan")
    /\ UNCHANGED <<locked, releaseVars, temp, current, goal, budget>>

(* pruneReleases: all but the Retain newest of the inactive releases. *)
ExpiredOf(releases, n) ==
    {g \in releases : Cardinality({h \in releases : age[h] < age[g]}) >= n}
KeepOneMore(active) == ExpiredOf(present \ {active}, Retain + 1)
Expired(active) == ExpiredOf(present \ {active}, Retain)

ScanReleases(p) ==
    /\ proc[p].pc = "scan"
    /\ proc' = [proc EXCEPT ![p].pc = "prune", ![p].victims = Expired(proc[p].want)]
    /\ UNCHANGED <<locked, releaseVars, linkVars, goal, budget>>

(* RemoveAll unlinks the entries of a directory, then the directory. *)
RemoveEntry(p) ==
    /\ proc[p].pc = "prune"
    /\ \E g \in proc[p].victims :
          /\ \A h \in proc[p].victims : age[g] <= age[h]
          /\ \/ \E f \in content[g] :
                   /\ content' = [content EXCEPT ![g] = @ \ {f}]
                   /\ age' = Touch(g)
                   /\ UNCHANGED <<proc, present>>
             \/ /\ content[g] = {}
                /\ present' = present \ {g}
                /\ proc' = [proc EXCEPT ![p].victims = @ \ {g}]
                /\ UNCHANGED <<content, age>>
    /\ UNCHANGED <<locked, home, onDisk, stored, linkVars, goal, budget>>

Activated(p) ==
    /\ proc[p].pc = "prune"
    /\ proc[p].victims = {}
    /\ Return(p, proc[p].want, "switched")
    /\ UNCHANGED <<locked, releaseVars, linkVars, goal, budget>>

-----------------------------------------------------------------------------
(* Faults. *)
Fault(kind) ==
    /\ kind \in FaultKinds
    /\ budget.faults < MaxFaults
    /\ Spend("faults")

(* A file system call fails; deferred calls remove the staging directory   *)
(* and the temporary symlink.                                              *)
CallFails(p) ==
    /\ Fault("error")
    /\ proc[p].pc \notin {"out", "idle"}
    /\ Return(p, proc[p].want, "failed")
    /\ temp' = IF proc[p].pc = "swap" THEN None ELSE temp
    /\ UNCHANGED <<locked, releaseVars, current, saved, goal>>

(* The kernel releases the lock; a staging directory stays, unused. *)
Kill(p) ==
    /\ Fault("kill")
    /\ proc[p].pc # "out"
    /\ proc' = [proc EXCEPT ![p] = Exited]
    /\ locked' = IF locked = p THEN None ELSE locked
    /\ UNCHANGED <<releaseVars, linkVars, goal>>

(* What is found of the releases when their directory is.                  *)
ReleasesFound ==
    /\ present' \in {S \in SUBSET (present \cup onDisk) : present \cap onDisk \subseteq S}
    /\ content' \in {f \in [Gens -> SUBSET Files] :
           \A g \in Gens :
               IF g \in present'
               THEN /\ content[g] \cap stored[g] \subseteq f[g]
                    /\ f[g] \subseteq content[g] \cup stored[g]
               ELSE f[g] = {}}

PowerLoss ==
    /\ Fault("power")
    /\ locked' = None
    /\ proc' = [p \in Processes |-> Exited]
    /\ \/ /\ ReleasesFound
          /\ home' = IF home = "absent" THEN "absent" ELSE "durable"
          /\ current' \in {current, saved}
       \/ /\ home = "cached"
          /\ home' = "absent"
          /\ present' = {}
          /\ content' = [g \in Gens |-> {}]
          /\ current' \in {current, saved, None}
    /\ temp' \in {temp, None}
    /\ onDisk' = present'
    /\ stored' = content'
    /\ saved' = current'
    /\ UNCHANGED <<age, goal>>

-----------------------------------------------------------------------------
Progress(p) ==
    \/ WriteReleaseFile(p)
    \/ SyncDirectoryTree(p)
    \/ CommitRelease(p)
    \/ SyncReleases(p)
    \/ RemoveTemporary(p)
    \/ Symlink(p)
    \/ SwapSymlink(p)
    \/ SyncRoot(p)
    \/ ScanReleases(p)
    \/ RemoveEntry(p)
    \/ Activated(p)
    \/ Unlock(p)

Next ==
    \/ \E g \in Gens : Publish(g)
    \/ \E a \in Agents : ReconcileGoal(a)
    \/ \E s \in Seeds, g \in Gens, force \in BOOLEAN : Seed(s, g, force)
    \/ \E p \in Processes : Lock(p) \/ Progress(p) \/ CallFails(p) \/ Kill(p)
    \/ PowerLoss

Spec == Init /\ [][Next]_vars

(* Calls return; the agent is started again when it was killed (a          *)
(* supervisor restarts it) and reconciles again (watch.resync-interval).   *)
(* Nothing makes anyone run seed, but a seed that holds the lock goes on.  *)
Fairness ==
    /\ \A p \in Processes : WF_vars(Progress(p))
    /\ \A a \in Agents : WF_vars(Lock(a)) /\ WF_vars(ReconcileGoal(a))
    /\ \A s \in Seeds :
          WF_vars(\E g \in Gens, force \in BOOLEAN : Seed(s, g, force))

FairSpec == Spec /\ Fairness

-----------------------------------------------------------------------------
(* What current names is a complete release, whatever one step fails, is   *)
(* interrupted or lost (as the architecture describes Activate).           *)
CurrentComplete == current # None => Intact(current)

(* Consumers never see a mixed release, nor a missing one but when the     *)
(* releases are gone altogether (Activate, pruneReleases and the order of  *)
(* the syncs).                                                             *)
CompleteWhileKept == home # "absent" => CurrentComplete

(* An activation that reports success leaves its own generation current:   *)
(* no other writer of the root switched it in between (LockRoots).         *)
ReportTruthful ==
    \A p \in Processes :
        proc[p].result \in {"unchanged", "switched"} => current = proc[p].want

(* After a completed switch no more than Retain inactive releases are left *)
(* (pruneReleases).                                                        *)
RetentionBound ==
    \A p \in Processes :
        proc[p].result = "switched" => Cardinality(present \ {current}) <= Retain

(* Every step, faults included, is one that Activation allows: above all,  *)
(* no release loses a file before the link that replaced it is durable     *)
(* (switchSymlink syncs before pruneReleases removes).                     *)
Promise == INSTANCE Activation WITH
    Releases <- Gens, link <- current, durable <- saved, whole <- {g \in Gens : Intact(g)},
    secured <- home = "durable"
ImplementsActivation == Promise!Spec

(* A generation can always be activated again: what prune leaves behind is *)
(* never taken for a corrupt release (ensureRelease after pruneReleases).  *)
Rebuildable == \A p \in Processes : proc[p].result # "corrupt"

(* No removal was cut short: a damaged release is being removed.           *)
NoRemnant ==
    \A g \in present :
        Intact(g) \/ \E p \in Processes : g \in proc[p].victims

(* The releases went, and the link that names one of them stayed.          *)
Lost == home = "absent" /\ current # None

(* Unless a removal was cut short or the releases were lost, the goal      *)
(* becomes current for good: no left-over of a failed, killed or           *)
(* interrupted activation blocks the next ones (Activate, switchSymlink,   *)
(* lockRoot).                                                              *)
Settles == [](NoRemnant /\ ~Lost) => <>[](current = goal)
=============================================================================
