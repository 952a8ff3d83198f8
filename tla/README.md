# pemcast: TLA+ specifications and proofs

pemcast distributes TLS certificates through etcd. An operator or a CI job packs a
certificate into one *bundle*, `pemcast publish` stages the bundle under a
content-addressed key and moves the *active pointer* of its target to it, and an
agent on every consumer host follows the pointers of its targets, writes the bundle
into a local release directory, switches the symlink `current` and runs a hook.
`pemcast prune` removes old bundles, `pemcast seed` installs a pack without etcd,
`pemcast upgrade` converts a v5 namespace.

This directory models those protocols, checks them with TLC on small instances and
proves with TLAPS, for every instance, the safety properties of the remote half, of the
agent, of the deployer and its refinement, of the root locks, of packs, of seeds and of the
upgrade.

```
tlc -workers 2 -config MCAgent.cfg MCAgent      # any run of PROJECT.json
tlapm AgentProofs.tla                           # the proofs; likewise DeployerProofs,
                                                # PublisherProofs, RemoteProofs,
                                                # UpgradeProofs, RootLocksProofs,
                                                # SeedProofs, OrderLemmas
```

## 1. Inventory

| component | state | operations | hard part | what makes it correct |
|---|---|---|---|---|
| etcd access, `internal/etcdsource/{kv,bundles}.go` | the namespace (external) | `Get`, `StageBundleIfAbsent`, `SwapActive`, `DeleteBundleIfActiveUnchanged`, `SwapActiveFromSource`, `DeletePrefix` | lost replies, ABA | bundle keys immutable; a pointer moves only from the version that was seen |
| publisher, `internal/publisher` | none but the run: captured pointer | `Publish`: stage, compare, capture, swap | other publishers, prune in between, retry after a lost reply | reported bytes are in the store and stay; the pointer always has its bundle |
| prune, `internal/prune` | none but the run: snapshot, records | `Prune`: snapshot, list, read, inspect, delete | acts on old reads | only expired identity bundles that are not active at the moment of the deletion |
| agent loop, `internal/appcmd/agent` | revision, watch | snapshot, reconcile, watch, events, resync, restart | lost events, compaction, unsafe pointers, SIGTERM, crash | no event lost, never back, converges |
| controller, state, hook: `internal/{reconcile,state,hook}` | state file; what the service has loaded | `Reconcile`, `HandleDelete`, `Load`, `Save`, `Run` | failure of one step of several, timeouts, slots | state file truthful; a failed reload is retried |
| deployer, `internal/deploy/deployer.go` | release directories, `current` | `Activate` = verify, stage, rename, switch, prune | kill, failed call or loss of power between any two system calls | `current` names a complete release, always |
| root locks, `internal/deploy/lock.go`, `validateOutputRoots` | flocks, lock files | `LockRoots`, `Close` | several roots, several processes | one manager per root, not everyone refused |
| bundle codec, `internal/bundle`, `keyspace`, `ValidatePolicy` | none | `NewTLSManifest`, `Validate`, `ValidateFiles`, `Encode`, `Decode`, `ManifestDigest`, `ValidatePolicy` | any bytes of any writer; two encodings of one bundle | a generation names its content; validators of different packages agree |
| pack builder, `internal/pack` | pack directories, staging directories | `Build`, `Write`, `Read`, `Validate` | renewal of the source files, two writers of one path, kill, removal while it is read | a pack directory is whole and is never replaced; a read is one pack |
| seed, `internal/seed` | none but the release | `Material`, `Apply` | races the agent; configuration changed since the release was written | what is installed is exactly what was packed |
| target configuration, `internal/config` | none | `Target.Validate`, mappings, modes | accepted configurations that cannot be written | later steps can rely on what was validated |
| upgrade, `internal/upgrade` | none but the run: plan | plan, apply, verify, delete | v5 and v6 publishers at work, stop half-way | nothing stale committed, nothing lost, re-runs complete |
| v5 decoder, `internal/upgrade/legacy` | none | `Decode`, `ContentDigest`, `ConvertTLS` | order of files, other bytes for one generation | conversion and pack give the same bytes |
| status, CLI adapters, scripts | none | report, parse flags | - | not modelled |

Interaction: publishers, pruners, upgrades and agents share nothing but the etcd
namespace, and each of their requests is one atomic step of it. Pack commands hand a
directory to publish and seed commands, while the ACME client renews the source files
and operators remove or copy packs. The agent process and
seed commands share an output root and exclude each other with the root lock. The
watch loop and the reconciles of one snapshot share the semaphore; reconciles of one
target never overlap, because the loop waits for them.

The hazards at their lines, with the property that covers each, are in
`PROJECT.json` under `hazards`.

## 2. Modules

```
EtcdKV <- Publisher <-+- Remote <- MCRemote, RemoteProofs      PointerRegister (abstract)
       <- Prune     <-+
       <- Publisher <--- Upgrade <- MCUpgrade, UpgradeProofs
          Publisher <- PublisherProofs <- RemoteProofs, UpgradeProofs
Bundle <- Pack    <-+
       <- Legacy  <-+- Seed <- MCSeed, SeedProofs
       <- Release <-+
Agent <- MCAgent, AgentProofs
Deployer <- MCDeployer, DeployerProofs                         Activation (abstract)
RootLocks <- MCRootLocks, RootLocksProofs
OrderLemmas <- AgentProofs, RootLocksProofs, SeedProofs
```

Remote, Upgrade, Agent and Deployer abstract a bundle to its generation and a set of
acceptable generations; Bundle and the modules above it say what a bundle is, and show
what the others take for granted: that a generation names one content
(`GenerationNamesContent`), that what is published is fetched (`StagedIsFetched`), that an
upgrade gives the bytes of a pack (`ConversionAgrees`).

**EtcdKV** - one namespace: `rev`, `active` (value and ModRevision per target) and
`bundle` (value per target and generation), with one operator per transaction and its
reply `succeeded`. A generation names a *content* (it is the digest of the decoded
files); the *bytes* of a bundle are a member of `Encodings` (any byte string that
decodes to that content) or `Corrupt`. So packs that lay out their JSON differently,
list the files in another order or break their base64 text into lines are encodings of one
generation, and a comparison of bytes is not a comparison of generations.

**Publisher** - a run is a record with `pc` in `idle, stage, existing, capture, swap`,
one action per etcd request of `Publish` (`Stage`, `RequireExisting`, `CaptureActive`,
`Swap`). `Abort` is a request that fails or a process that dies; `StageReplyLost` and
`SwapReplyLost` commit the transaction and report an error. A retry is another `Start`.
`captureActive` also refuses a pointer that is not a safe name; pointers of this module
are generations, so that exit is an `Abort`.

**Prune** - `SnapshotActivePrefix`, `ListBundleKeys`, one `ReadBundle` per listed key,
`ReadDone`, then one `Inspect` or `Delete` per record. `Eligible` is `inspectRecord`
after decoding: active, trust, no pointer, retention. `Prunable` are the generations that
this leaves to any prune: identity bundles past retention. Dry runs have `delete` FALSE.

**Remote** composes the three, and states the properties. **PointerRegister** is the
abstract specification of publication: an array of registers that a writer may
overwrite only while the register is exactly the version it has observed. `Remote`
implements it with the mapping `register <- active`, `view <-` the captured pointer of
every publisher whose swap is pending.

**Agent** - remote side: `log`, the history of pointer events, whose index is the
store revision, and `compacted`. Host side: `current`, `state`, `loaded` (what the
consumer service runs with; a history of the hook's effect). Process: `pc`, `stopping`,
`rev`, and `work`, one reconcile per target, whose steps are those of
`Controller.Reconcile` (`AcquireSemaphore`, `FetchBundle`, `LoadState`, `Activate`,
`RunHook`, `SaveState`). The loop is `SnapshotActive`, `WatchActive`, `WatchEvent`,
and the four reasons to start over: `ResyncTimer`, `WatchFails`, `WatchUnsafe`,
`WatchCompacted`. `Terminate` cancels the context; every select and every request looks
at it. `Crash` loses everything but the host side. Faults are named by kind, and a
configuration chooses kinds and number. `deploy.Activate` is one action here with three
outcomes (done, failed before the switch, failed after it); `Deployer` has its steps. The hook of
a target in `Hookless` has no path: it succeeds at once, even when the context is cancelled.

**Deployer** - one output root: `present` and `content` are what the kernel shows,
`onDisk` and `stored` what fsync has made durable, likewise `current` and `saved`; `age`
is the order by modification time. Every system call that changes something is an
action: `WriteReleaseFile` (with the fsync of its data), `SyncDirectoryTree`,
`CommitRelease` (rename), `SyncReleases`, `RemoveTemporary`, `Symlink`, `SwapSymlink`,
`SyncRoot`, `ScanReleases`, `RemoveEntry`. `PowerLoss` keeps, for every entry of every directory
that was not synced since it changed, either version - what POSIX promises and no more;
journaling file systems are usually kinder. The directory `.pemcast/releases` is an entry too,
of `.pemcast`, which no code syncs: `home` says whether it is absent, there but not durable
(`MakeDirectories` has just made it), or durable, and a loss of power may take a directory that
is not durable with all that is in it. `Hosts` says what the program may find at its first start,
a new output root or an old one, whose directories are on disk. File bytes and modes are one
matter: `Intact` is `verifyRelease`, which Release has in full.

**Activation** is the abstract specification of `Activate`: `link` jumps from one whole
release to another, and a release is discarded only when neither the link nor its durable
version names it. As long as the place of the releases is not `secured`, a loss of power may
take all of them at once (`Ruin`), whatever the link names. Deployer implements it with
`link <- current`, `durable <- saved`, `whole <-` the intact releases and `secured <-
home = "durable"`, under every fault of the run. The order "make the new link
durable, then remove what it replaced" is the point: a prune before `SyncRoot` breaks the
refinement, although `current` itself never shows it.

**Bundle** - `internal/bundle` and the parts of its callers that only compute. A PEM file
is the sequence of its blocks, a certificate a record of key, signer, CA flag, usages,
names and validity, a key usable or weak. `Hash` keeps what was hashed (SHA-256 is free of
collisions). A manifest is a type and a list of files with name, role, checksum and
base64 text; the bytes of a bundle are a manifest and a JSON layout. `ManifestValid` is the
structural `Validate`, `MaterialValid` is `ValidateFiles`, `Decodes` both. `PolicyAccepts`
is `ValidatePolicy` at a moment, `PastRetention` the age limit of prune.

**Legacy** - the v5 decoder: another manifest, another digest, and `ConvertTLS`, which
puts the files in order and encodes them anew.

**Release** - `Target.Validate` for everything that later steps depend on, the tree that
`ensureRelease` writes under the umask of the process (`Written`), and `verifyRelease`
(`Verifies`), which refuses every entry that the mappings do not expect, every expected file
that is missing or differs, and a tree with another number of files. A path is the tuple of
its components, a mode the set of those who may access, a file's text the PEM of the bundle (`PemText`) or the one line of the digest file
(`DigestLine`).

**Pack** - pack commands and readers, one action per file that is read or written:
`ReadCertificate`, `ReadKeyAndEncode`, `StatOutput`, `WriteFile` (three times),
`RenameStaging`; `ReadMetadata`, `ReadBundle`. `BuildStops` is a failed call or a kill at any
of them. Around them `RenewChain` and `RenewKey` (the ACME client replaces two files, one
after the other), `RemoveEntry` and `RemoveDirectory` (an operator's `rm -r`, entry by
entry) and `PlaceForeignPack` (a pack of another tool, or one edited by hand). `built`
remembers every finished Build, `handled` the paths at which an operator is at work.

**Seed** - extends Pack with the seed command: every check of `Material` against a
configured target, `Apply` with and without `--force`, and `Activate` in one step (the
caller holds the root lock; Deployer has its steps) on a tree as Release describes it.
Target, moment, umask and force are chosen anew by every command: a release written under
one configuration is verified under another.

**RootLocks** - processes with any configuration of up to `MaxTargets` roots:
`validateOutputRoots`, then for each root in lexical order `OpenLockFile` and `Flock`. A
flock belongs to an inode, a path may lead to another inode later: `file`, `made` and the
inode in every lock keep the two apart.

**Upgrade** - extends Publisher with a v5 pointer per target and upgrade runs: plan from
two snapshots, then per target stage, compare, capture both pointers, swap with a
comparison of both; then postverify and, on request, the deletion of v5. `Convert` is
the conversion, which depends on the options of the run (the type of the target);
`Overrides` are the targets these options name, and a plan is refused when one of them has no
active v5 pointer.

## 3. Runs

Every run is in `PROJECT.json` with the properties it checks; the properties are stated
in comments where they are defined.

| run | instance | shows |
|---|---|---|
| `remote` | 2 publishers, 1 pruner, 3 publish commands, 1 prune command, 3 generations: one that is kept, published in 2 encodings; an expired identity, published too (a rollback); an expired trust bundle; any initial bundles | no pointer to a generation that is kept loses its bundle, no reported publication of one loses its bytes, deletions stay in scope while the pointer moves to and from what is being deleted, a pointer that moves away and back is an optimistic register |
| `remote_dangling` (violation) | 2 publishers, 1 pruner, two expired generations that are published (a rollback) | finding 1 |
| `agent` | 1 target, 1 foreign target, 3 generations (one refused by policy), 1 unsafe value, 3 events, any 2 faults of 9 kinds, compaction at any time | truthful and monotone state, no lost event, recorded failures retried, unsafe names kept out |
| `agent_live` | 2 targets, one of them without a hook, 1 slot, 2 events, any 3 faults of 6 kinds | convergence under fairness; `HookServed` where `Activate` fails cleanly |
| `agent_prune` (violation) | 1 target, 1 failed clean-up | finding 2 |
| `deployer` | 1 agent, 1 seed command (2 calls), 3 generations, retention 1, 3 goal changes, new and old output roots, 1 fault: kill, failed call or loss of power | complete release at any moment while the releases directory is there, truthful result, retention, eventual activation, the refinement of `Activation` |
| `deployer_rebuild` (violation) | 1 kill | finding 3 |
| `deployer_power` (violation) | an old output root, 1 kill, 1 loss of power | finding 4 |
| `deployer_releases` (violation) | a new output root, 1 loss of power | finding 5 |
| `root_locks` | 3 processes, 3 roots one of which lies below another, every configuration of 1 or 2 roots, kills at any moment | exclusion, progress, no self-conflict |
| `upgrade` | 2 targets, an override for one of them, 2 v5 and 2 v6 generations, 1 upgrade process (run as often as it likes), 1 v5 and 1 v6 publication, 1 fault | nothing stale committed, nothing lost, re-runs complete |
| `pack` | 1 output path, 2 builders, 1 reader, 3 commands of any type, 1 renewal, 3 packs of other tools, kills and removals at any step, 2 seeds under 4 configurations, 3 umasks and 3 moments | whole and genuine packs, agreement of the validators, exact and repeatable releases |

### Bounds

- `MaxStarts` 3, `MaxPrunes` 1: a violation of the pointer properties needs one publisher
  between two requests of another or of a pruner; a third publication gives the
  away-and-back movement. Several pruners and more commands are covered by the proofs of
  section 5. `remote_dangling` publishes only what a prune may remove; in `remote` one
  generation of each kind takes turns, and `PruneScope` fails as soon as the deleting
  transaction does not compare the pointer.
- `MaxRev` (2 or 3 pointer events): one before the snapshot, one between snapshot and
  watch, one during a reconcile. A longer log repeats these positions.
- `MaxFaults`: two faults at any two places, three for convergence. The safety properties
  of the agent are proved for any number of events, targets and faults.
- `MaxGoals`, `MaxSeeds` and three generations: with retention 1 the third activation
  is the first that removes a release, a fourth goes back to a removed one. Any
  retention and any number of generations and processes: section 5.
- `MaxTargets` 2 and three processes: enough for opposite orders of two roots and for a
  cycle of three.
- `MaxV5`: one v5 publication at any moment of an upgrade. `SmallInit` in MCUpgrade
  leaves out bundle keys that no conversion of the instance can meet.
- `MaxCommands` 3 (builds, reads and packs of other tools together): two builders race for the path and the third
  command reads, or builds once more after a removal. Two credentials give one renewal
  between any two steps. The times 1, 2, 3 lie around the expiry of the intermediate (2),
  of the second leaf (3) and before that of the first leaf (4).
- `MaxSeeds` 2: the second seed meets the release of the first, under the same or another
  configuration and umask. Four configurations: flat files, a nested file, two paths that
  exclude each other, and a target without all its files.

`CHECK_DEADLOCK FALSE` where a bounded system may come to rest: all commands spent, all
processes ended, or an agent whose resync is the only thing left to do. `agent_live`
checks deadlock, and so does `agent_prune`, which stops at its counterexample.

Symmetry is used for publish commands (Remote) and for processes (RootLocks), whose
identities occur in no definition, and only in runs without liveness.

### Fairness

- Agent (`FairSpec`): weak fairness of every step of the process (calls are bounded by
  request timeouts and the hook by its own), of the resync timer (`Resync`, 10 minutes
  by default) and of `Start`: operation.md asks for a supervisor that restarts a failed
  agent (`operation.md:142`). No fairness of publishers, compaction or faults.
  `Converges` assumes safe pointers at the end: one unsafe pointer stops every snapshot.
- Deployer (`FairSpec`): weak fairness of calls that are under way and of the agent's
  lock and reconcile. Nobody is obliged to run `seed`. `Settles` holds under the
  condition that no removal is cut short, which finding 3 shows to be needed, and that no
  loss of power has left a link without the directory it leads to (finding 5).
- Upgrade (`FairSpec`): weak fairness of the requests of a run and strong fairness of
  starting one that is not a dry run: an operator who was told to retry does.
  `Completes` holds as long as nothing turns up that the command must refuse
  (`Migratable`): a conflict, a bundle that cannot be converted, an override of a target
  without an active v5 pointer.

## 4. Findings

1. **Dangling pointer after a rollback** (`remote_dangling`). `Publish` compares an
   existing bundle, and its swap compares only the pointer. A prune with a current
   snapshot may delete that bundle in between, and the swap then commits a pointer
   without a bundle, against architecture.md:137. It takes a rollback to an expired
   identity generation; `RollForward` excludes exactly that, and under it the property
   is proved. A comparison of the bundle's CreateRevision in `SwapActive` would close it.
2. **Hook skipped after a failed clean-up** (`agent_prune`). `Activate` returns an error
   after it has switched. The hook does not run, nothing is recorded, and the next
   reconcile finds the release unchanged and records a success, against README.md:32.
   The same loss happens when the agent dies between switch and hook (add `"crash"` to
   `FaultKinds` of MCAgentLive), or when a hook fails and saving the failure fails
   (`"save"`).
3. **A removal that is cut short blocks the generation** (`deployer_rebuild`).
   `ensureRelease` takes a partial directory for a finished release and fails for good,
   against operation.md:362.
4. **Release lost with the power** (`deployer_power`). Killed between the rename of a
   release and the sync of its parent, the next run finds the directory, verifies it and
   switches without syncing the parent; after a loss of power `current` names nothing.
5. **Releases directory lost with the power** (`deployer_releases`). `MkdirAll` makes
   `.pemcast/releases`, and nothing syncs `.pemcast`: `ensureRelease` syncs the releases
   directory and `switchSymlink` that of the link. One loss of power after the first
   activation of a new output root may take all releases and leave `current`, which is
   durable. `CurrentDigest` then fails on every later activation, so that the agent does not
   recover by itself. A sync of `.pemcast` (and of what `MkdirAll` has made above it) after the
   `MkdirAll` would close it.

Four more observations are in the model as they are in the code:

- A umask that takes a configured bit (`0640` under `0077`) leaves a release that every
  later verification rejects: `writeReleaseFile` creates with the mode, `verifyRelease`
  compares it exactly. `Repeatable` says when this cannot happen: the umask takes nothing
  from the modes of files and directories, nor from `0600` of the digest file.
- `validateOutputRoots` compares in one direction, so a root that is followed by its ancestor
  passes while the reverse order is refused, although operation.md:22 forbids overlap
  (theorem `OrderDecidesOverlap`). Root locks do not help: they are on two files.
- Two mappings to `a` and `a/b`, or one to `.pemcast-digest`, pass `Target.Validate` and can
  never be written (`Writable`): every activation of that target fails.
- A manifest entry with an unknown name and no role passes the structural `Validate`, since
  a missing map entry is the empty role; only `ValidateFiles` refuses it. `Misnamed` of
  MCSeed is such a pack.

## 5. Proofs

### RemoteProofs

For any sets of targets, generations, encodings, publishers, pruners and packs, and any
number of commands (`EtcdAssumption`, `PublisherAssumption` and `PruneAssumption`
only say that these sets are what their names say, and that `None` and `Corrupt` are
nothing else):

| theorem | statement | argument |
|---|---|---|
| `TypeCorrect` | `Spec => []TypeOK` | one step per action; `TypeOK` is inductive |
| `BundlesImmutable` | `Spec => BundleImmutable` | a stage writes under an absent key only (`PublisherKeeps`, `PruneEffect`) |
| `PruneInScope` | `Spec => PruneScope` | the comparison in the deletion makes the pointer of the snapshot the pointer of the moment (`RemovesScope`) |
| `LiveBundlesKept` | `Spec => []LiveBundleIntact` | see below |
| `PublishedForEver` | `Spec => []PublishedBytes` | see below |
| `NoDanglingPointer` | `RollForward` gives `Spec => []ActiveBundleIntact` | see below |
| `RegisterRefinement` | `Spec => RefinesRegister` | `Versions` and `PublisherView` |

`PublisherEffect` and `PruneEffect` say what one step can do to the store (nothing, stage,
move a pointer, remove), and the later proofs use only them.

That a pointer names a bundle is not inductive: a swap makes it name one that was staged or
compared several steps before. `OwnBytes` carries that fact across the steps of others, so
`Inv` is `TypeOK`, `NamedBundles` (every pointer to one of a set of generations has its
bundle) and `OwnBytes`, both for the generations that no prune may remove (`Kept`). It is
inductive whatever is published, because a deletion hits none of them (`KeptStay`), and gives
the first two theorems for rollbacks too. `NoDanglingPointer` speaks of all generations:
under `RollForward` nobody publishes one outside `Kept`, and a pointer that named such a
one from the start keeps its bundle because the deletion compares the pointer
(`RemovesScope`). Without `RollForward` finding 1 is a counterexample.

The refinement needs `Versions`: a ModRevision is never ahead of the store revision, so
a write makes a new version; an absent pointer is exactly the condition `Absent` that a
capture of an absent key yields; a pending swap is a move to another generation.

The facts about `EtcdKV` and `Publisher` alone - types, what a publisher can do to the
store, and that what a publisher has staged or compared keeps its bytes (`OwnBytesStep`)
and every pointer its bundle (`NamedBundlesStep`) as long as nobody deletes - are in
PublisherProofs, which UpgradeProofs uses too.

### AgentProofs

For any targets, foreign targets, generations, unsafe values and policies, any history of
the pointers, any kinds of faults and any number of them (`AgentAssumption`):

| theorem | statement | argument |
|---|---|---|
| `TypeCorrect` | `Spec => []TypeOK` | `IInv` |
| `StateIsTruthful` | `Spec => []StateTruthful` | `WorkDone` up to `SaveState` |
| `WatchIsLossless` | `Spec => []LosslessWatch` | `OkIsCurrent`, `PointerAfter` |
| `StateIsMonotone` | `Spec => StateMonotone` | `WorkCurrent`: a reconcile under way is not behind the state file |
| `FailureIsRetried` | `Spec => RecordedFailureRetried` | `WorkDone`, `WorkSaved` |
| `HooksAreServed` | `CleanFaults` gives `Spec => []HookServed` | `Served`, one step of one target at a time (`OneAtATime`) |

None of them is inductive, because each compares what was read at one step (the pointers
of a snapshot, the state file, the release that was switched to) with what is true several
steps later. `IInv` carries that. `InStep`: the run is never ahead of the log, and no state file
ahead of the run. `WorkCurrent`: the pointer a reconcile works on is the one of its target at
its own revision *and* at the last revision the run has seen; so an event may have been
missed by neither the snapshot nor the watch, and that no second reconcile of the target
overlaps is part of it. `WorkSaved`: the state a reconcile has loaded is still what is on disk.
`WorkDone`: from the hook on, the release is current, and a pending success means that the
service has loaded it. `OkIsCurrent`: a success since the last snapshot stands for what the
run has seen of the target. The lemmas on `PointerIn` (`PointerStable`, `PointerAfter`) say what
an appended event does to the pointers of earlier and of later revisions.

`CleanFaults` (`FaultKinds` without `"prune"`, `"save"` and `"crash"`) is needed for `HookServed`
alone: finding 2 is the counterexample otherwise, one for each of the three kinds.

### DeployerProofs

For any generations, files, agents and seed commands, any retention and any bounds
(`DeployerAssumption`), with kills, failed calls and losses of power between any two
system calls:

| theorem | statement | argument |
|---|---|---|
| `TypeCorrect` | `Spec => []TypeOK` | `IInv` |
| `ReportIsTruthful` | `Spec => []ReportTruthful` | the lock: what a process has seen is still so (`Switching`, `Reported`) |
| `RetentionIsBounded` | `Spec => []RetentionBound` | `Pruning`, `NewestAreFew` |
| `CompleteIsKept` | `Tame` gives `Spec => []CompleteWhileKept` | `KeptInv` |
| `CurrentIsComplete` | `Tame`, and no loss of power or only old output roots, give `Spec => []CurrentComplete` | `KeptInv`, `HomeInv` |
| `ActivationRefinement` | `Tame` gives `Spec => ImplementsActivation` | `StepPromised` |

`IInv` is the outline of `Activate`: for every process, what its earlier system calls have
established at each `pc` (`Preparing` up to the rename, `Switching` from the symlink on,
`Pruning`, `Reported`), which nobody undoes because everybody else is out of the lock (`Holding`,
lemma `OnlyHolder`). So an action needs a proof for the process that takes it and none for the
others (`HolderStep`). `RetentionBound` rests on counting: modification times are distinct, so
no two releases have equally many younger ones (`RanksDiffer`), and those with fewer than `n`
younger ones are at most `n` by the pigeonhole principle (`NewestAreFew`).

`CompleteWhileKept` must survive a loss of power that keeps either version of every
entry that is not synced. `PowerSafe` says what no such choice can spoil: link and durable
link name releases whose every file is durable, and so does every release directory that a
later activation may find whole, except the one whose parent is about to be synced. It holds
as long as a loss of power is still possible (`PowerAhead`); `SafeInv` is its conjunction with
`CurrentComplete`, and `KeptInv` says that it holds while the releases directory is there.
`HomeInv` says what its absence means (nothing is present, nobody past `MakeDirectories`), and
that an old output root never loses it. `Tame` is the condition that finding 4 shows to be needed: the run has no
loss of power, or neither kill nor failed call, or a single fault. With a kill between a rename
and the sync of its parent and a later loss of power all three theorems are false. Without losses of
power, `Tame` allows any number of kills and failed calls. On a new output root a single
loss of power is enough against `CurrentComplete` (finding 5); `CompleteIsKept` and the
refinement, where that loss is a `Ruin`, say what is left there.

The refinement maps one step at a time: the rename creates a whole release (`CommitPromised`),
the swap moves the link to one (`SwapPromised`), `SyncRoot` makes the durable link equal, a
removal touches a release that neither names (`RemovePromised`); a loss of power keeps the
link or falls back to the durable one, or ruins an unsecured place, and every other step is a
stutter (`PowerPromised`).

### UpgradeProofs

For any targets (finitely many: they are read from one listing), v5 and v6 generations,
conversions, v6 publishers and upgrade processes, and any bounds (`UpgradeAssumption`):

| theorem | statement | argument |
|---|---|---|
| `TypeCorrect` | `Spec => []TypeOK` | `IInv` |
| `UpgradeKeepsPointersIntact` | `Spec => []PointersIntact` | `OwnBytes` for publishers, `TargetStaged` for upgrades |
| `SourceIsCurrent` | `Spec => SourceCurrent` | the transaction compares both pointers with the plan (`MovesActive`, `PlanMade`) |
| `NothingIsLost` | `Spec => NothingLost` | `Migrated` at the deletion (`RemovesSource`) |

The properties are about the step that swaps or deletes; what makes them true was read or
compared many requests before. `PlanMade` carries the conversion of the plan, `TargetStaged`
the comparison of the bundle that the next swap will name, `Migrated` what postverify
has found. `NothingLost` is the long one: the deletion has no comparison of the v5 keys, and rests
on the promise that v5 writers have stopped (`V5Stopped`); a v5 publication while
a deletion is pending is excluded by that and by nothing else. `VerifySource` compares the number
of active v5 pointers with the number of planned ones: every planned source is active and the
numbers agree, so there is no other (`NoOtherSource`; the sets must be finite). `Recorded` ties
the history `named` to the pointers, so that a converted pointer counts even when a v6
publisher has moved it on since.

### RootLocksProofs

For any processes, roots and configurations (`RootLocksAssumption`: `Rank` orders the
roots, `DotDot` is part of `Inside`):

| theorem | statement | argument |
|---|---|---|
| `TypeCorrect` | `Spec => []TypeOK` | `IInv` |
| `MutualExclusion` | `Spec => []Exclusive` | `LocksComplete`, `LocksSound` |
| `OneGetsThrough` | `Spec => []NotEveryoneRefused` | `SomeWinner` |
| `RefusedByOthers` | `Spec => NoSelfConflict` | lemma `OthersLock` |
| `OrderDecidesOverlap` | of a root and an ancestor of it, one order is refused and the other accepted | the two relative paths |

None of them is inductive. `Exclusive` needs that a running process has a lock for every
target (`LocksComplete`) and that there is one lock per root, because a lock is on the
inode in place (`LocksSound`) and a file that was opened is still the one in place when it
is locked (`OpenedSound`; this is where `Close` must keep the file). `NotEveryoneRefused`
needs a witness: a process that is past locking, or one whose remaining roots all rank
above every root at which somebody failed (`SomeWinner`). When a process fails at `r`, the
holder of `r` is such a witness unless it failed too; then it failed above `r` (`Sorted`),
and the old witness is still one. `NoSelfConflict` needs that accepted configurations have
distinct roots (`Admitted`, lemma `DistinctRoots`). `LeastNat` gives the least of a set of
ranks and with it what `CHOOSE` in `Target` returns. TLC checked `IInv` on the instance of
`root_locks` before it was proved.

### SeedProofs

For any options, output paths, renewals, builders, readers, packs of other tools, configured
targets, moments and umasks. `PackAssumption` asks of packs of other tools that their metadata
carry the checksum of their own bundle and that their manifests list PEM files; they may be
invalid in every other way. The sources of a Build are PEM files, a certificate has a
`notAfter`, and `SeedAssumption` says that the mappings of a target are a list: what each
of these values is, whatever it says.

| theorem | statement | argument |
|---|---|---|
| `PacksWhole` | `Spec => []PackWhole` | three files are staged before the rename, and the rename needs a path with nothing on it (`StagedWhole`, `RenameInv`) |
| `PacksNeverReplaced` | `Spec => NeverReplaced` | the same, as a property of steps |
| `ReadsGenuine` | `Spec => []ReadGenuine` | the checksum in the metadata names one bundle (`ChecksumNamesBundle`) |
| `StagedFetched` | `Spec => []StagedIsFetched` | `ResultsValid` |
| `GenerationsNameContent` | `Spec => []GenerationNamesContent` | a digest fixes type and files in whatever order (`DigestNamesFiles`) |
| `ReleasesPaired` | `Spec => []KeysPaired` | what decodes has a matching pair, or no key (`DecodedPair`) |
| `PrunedAreRefused` | `Spec => []PrunedIsRefused` | the certificates that prune looks at are those the policy looks at (`CertificatesOf`) |
| `ConversionsAgree` | `Spec => []ConversionAgrees` | `ConvertTLS` names, sorts and encodes as `Build` does (`Converted`) |
| `InstallsExact` | `Spec => []InstalledExact` | counting, below (`InstalledFiles`, `SeedInstalls`) |
| `ReleasesRepeatable` | `Spec => []Repeatable` | a release is `Written` for its own configuration and umask (`ReleasesWritten`) |
| `TypeCorrect` | `NoneApart => (Spec => []TypeOK)` | with both invariants; `NoneApart` says that `None` is not itself a directory or a result |

The inductive invariant `Inv`, of the first six, has two halves. For writers: a build that has passed `Encode`
holds one of the results in `built` (`ResultsBuilt`), each of which is valid but for its
own comparison with itself (`BuiltSound`). For readers: a metadata file, wherever it lies,
was written by a build or by a foreign tool (`MetadataGenuine`), and so was what a reader has
taken from it (`ReadersGenuine`), even when the directory has gone since. `ReadGenuine` then
follows from the checksum alone: the bundle that matches it is the one that was built
with it, whichever directory it was read from. That is the fact on which the
unlocked, two-file read of `pack.Read` rests.

The other five need a second invariant, `MadeInv`, inductive beside `Inv`. `SourceInRange` and
`BuildsStarted` say where the files of a Build come from, so that `BuiltCanonical` holds: what
a Build has made is the encoding of exactly the files its type has. `ConversionAgrees` is
then about two encodings of one function from names to files, and what remains is that the
two manifests list the same entries in the same order (`SameManifest`, with the sorted lists of
OrderLemmas). `ReleasesWritten` says that every release is what `ensureRelease` makes of the
configuration and umask it was first written under, which need not be those of the
seed that meets it later.

`InstalledExact` is where this matters. `verifyRelease` knows only the *present* mappings.
It refuses an entry that they do not expect and a file that differs, and then compares the
number of files with that of the mappings and one. The proof goes by the number: the paths of
valid mappings are distinct and the digest file has its own, so that is how many files are
expected (`CountFiles`, `CountOneMore`); all of them are in the tree, and a finite set with
a subset of its own size is that subset (`FS_Subset`).

`NoneApart` is a hypothesis of `TypeCorrect` and no assumption of the module: it compares a
model value with the set of all directories, which TLC does not enumerate.

### Only model-checked

Liveness (`Converges`, `Settles`, `Completes`) is beyond the prover. Every invariant and every
action property that a passing run checks is a theorem.

## 6. Not modelled, and why

- Parsing of JSON, hexadecimal text and X.509: what a PEM file or a manifest says is data.
  The size limit of a bundle, and `NewKeys` and `SafeName` of `keyspace`: a key is the tuple
  of its components. (The configuration accepts target names that `SafeName` refuses; such
  a target fails when its key is first made.)
- Loading of the configuration, by an external library, its defaults, and the validation
  of the sections that only refuse a start.
- The passing of time in Agent: a certificate that expires between two reconciles. Bundle
  and Seed judge at any moment.
- `agent --once` and `--dry-run`: the first is one `SnapshotActive` and its reconciles,
  the second stops before any state is touched.
- Lengths of retry delays (`retryDelay`): they do not change the order of steps.
- Staging directories left by killed processes: no consumer and no later step sees them, and
  nothing ever removes them.
- Owners of files; the pruning of old releases in Seed (Deployer has it); the moment between
  the `Lstat` of `os.Rename` and the kernel's own check, which are one step of Pack because
  both refuse a directory that is not empty.
- `status`: a read-only report of state file and link, which may belong to different
  moments; it has no lock and promises no consistency.
- etcd itself (a request is atomic, a transaction that writes takes the next revision),
  its client set-up, CLI adapters, scripts.

## 7. Plan

Done: the remote half, the agent, the deployer, the root locks, packs, seeds and the upgrade,
with their runs and the proofs of all their safety properties; the abstract specifications of
publication and of activation.

Next: an abstract specification of the agent, a register that follows the pointer, with a
refinement mapping from Agent.
