-------------------------------- MODULE Agent -------------------------------
(***************************************************************************)
(* internal/appcmd/agent, internal/reconcile, the snapshot, watch and      *)
(* fetch halves of internal/etcdsource and internal/state: one agent that  *)
(* follows the active pointers of its configured targets.                  *)
(*                                                                         *)
(* Remote side: the history of pointer events, one store revision each;    *)
(* old revisions may be compacted.  Host side: what survives the process   *)
(* (the release that current names, the state file) and what the consumer  *)
(* service has loaded.  The watch loop is sequential; the reconciles of    *)
(* one snapshot run concurrently, at most MaxConcurrent at a time.         *)
(* deploy.Activate is one step here; its steps are those of Deployer.tla.  *)
(***************************************************************************)
EXTENDS Naturals, Sequences, FiniteSets

CONSTANTS
    Targets,        \* targets configured on this host
    Others,         \* targets of other hosts under the same prefix
    Gens,           \* generations
    Unsafe,         \* pointer values that are not safe names (written by hand)
    Good,           \* generations whose bundle passes type and policy checks
    None,           \* no pointer, no release, no state
    MaxConcurrent,  \* agent.max-concurrent
    FailOnDelete,   \* targets with delete-policy "fail"
    Hookless,       \* targets configured without a hook
    Resync,         \* watch.resync-interval > 0
    MaxRev,         \* bound: length of the pointer history
    FaultKinds,     \* kinds of fault that may occur
    MaxFaults       \* bound: number of faults

ASSUME AgentAssumption ==
    /\ None \notin Gens \cup Unsafe
    /\ Gens \cap Unsafe = {}
    /\ Targets \cap Others = {}
    /\ Good \subseteq Gens
    /\ FailOnDelete \subseteq Targets
    /\ Hookless \subseteq Targets
    /\ MaxConcurrent \in Nat \ {0}
    /\ Resync \in BOOLEAN
    /\ MaxRev \in Nat
    /\ MaxFaults \in Nat

VARIABLES
    log,        \* pointer events; the index is the store revision
    compacted,  \* revisions below this one can no longer be read
    pc,         \* where the agent process is
    stopping,   \* the process context is cancelled (SIGTERM)
    rev,        \* revision of the snapshot, then next revision to be watched
    work,       \* per target: its reconcile
    current,    \* per target: generation of the release that current names
    state,      \* per target: state file
    loaded,     \* per target: generation the consumer service has loaded
    faults      \* number of faults so far

remoteVars == <<log, compacted>>
processVars == <<pc, stopping, rev, work>>
hostVars == <<current, state, loaded>>
vars == <<remoteVars, processVars, hostVars, faults>>

Phase == {"down", "snapshot", "reconcile", "watch"}
WorkStep == {"idle", "queued", "fetch", "load", "activate", "hook", "save"}
Result == {"none", "ok", "error"}
State == [gen : Gens \cup {None}, rev : Nat, hookError : BOOLEAN]
Work == [pc : WorkStep, gen : Gens \cup {None}, rev : Nat, saved : State,
         hookError : BOOLEAN, result : Result]

NoState == [gen |-> None, rev |-> 0, hookError |-> FALSE]
Idle(result) == [pc |-> "idle", gen |-> None, rev |-> 0, saved |-> NoState,
                 hookError |-> FALSE, result |-> result]
Queued(g, r) == [Idle("none") EXCEPT !.pc = "queued", !.gen = g, !.rev = r]

(* The variables keep their shape; a value that is not a safe name never   *)
(* gets from a pointer into the work of a target, its release path or its  *)
(* state file (snapshotFromResponse, activeEvent).                         *)
TypeOK ==
    /\ log \in Seq([target : Targets \cup Others, gen : Gens \cup Unsafe \cup {None}])
    /\ compacted \in Nat
    /\ pc \in Phase
    /\ stopping \in BOOLEAN
    /\ rev \in Nat
    /\ work \in [Targets -> Work]
    /\ current \in [Targets -> Gens \cup {None}]
    /\ state \in [Targets -> State]
    /\ loaded \in [Targets -> Gens \cup {None}]
    /\ faults \in Nat

(* A host whose targets may have been seeded: a release, no state, and a   *)
(* service started on that release.                                        *)
Init ==
    /\ log = <<>>
    /\ compacted = 0
    /\ pc = "snapshot"
    /\ stopping = FALSE
    /\ rev = 0
    /\ work = [t \in Targets |-> Idle("none")]
    /\ current \in [Targets -> Good \cup {None}]
    /\ state = [t \in Targets |-> NoState]
    /\ loaded = current
    /\ faults = 0

(* The pointer of t as of revision r. *)
PointerAt(t, r) ==
    LET events == {i \in 1..r : log[i].target = t} IN
    IF events = {} THEN None
    ELSE log[CHOOSE i \in events : \A j \in events : j <= i].gen

Fault(kind) ==
    /\ kind \in FaultKinds
    /\ faults < MaxFaults
    /\ faults' = faults + 1

AllIdle == \A t \in Targets : work[t].pc = "idle"

-----------------------------------------------------------------------------
(* The remote side. *)
Publish(t, g) ==
    /\ Len(log) < MaxRev
    /\ g # PointerAt(t, Len(log))
    /\ log' = Append(log, [target |-> t, gen |-> g])
    /\ UNCHANGED <<compacted, processVars, hostVars, faults>>

Compact ==
    /\ compacted < Len(log)
    /\ compacted' = Len(log)
    /\ UNCHANGED <<log, processVars, hostVars, faults>>

-----------------------------------------------------------------------------
(* The watch loop, application.go runWatch. *)

(* HandleDelete, for a snapshot without the target and for a delete event. *)
HandleDelete(t) == Idle(IF t \in FailOnDelete THEN "error" ELSE "ok")

Reconcile(t, g, r) == IF g = None THEN HandleDelete(t) ELSE Queued(g, r)

(* Mutant: a read that may be served by a member that lags behind.         *)
SerializableSnapshot ==
    /\ pc = "snapshot"
    /\ ~stopping
    /\ \E r \in 0..Len(log) :
          /\ rev' = r
          /\ work' = [t \in Targets |-> Reconcile(t, PointerAt(t, r), r)]
    /\ pc' = "reconcile"
    /\ UNCHANGED <<remoteVars, stopping, hostVars, faults>>

(* Mutant: revision and pointers come from two reads.                      *)
TornSnapshot ==
    /\ pc = "snapshot"
    /\ ~stopping
    /\ \E r \in 0..Len(log) :
          /\ rev' = r
          /\ work' = [t \in Targets |-> Reconcile(t, PointerAt(t, Len(log)), r)]
    /\ pc' = "reconcile"
    /\ UNCHANGED <<remoteVars, stopping, hostVars, faults>>

(* Mutant: pointer values are used as they are read.                       *)
UncheckedSnapshot ==
    /\ pc = "snapshot"
    /\ ~stopping
    /\ pc' = "reconcile"
    /\ rev' = Len(log)
    /\ work' = [t \in Targets |-> Reconcile(t, PointerAt(t, Len(log)), Len(log))]
    /\ UNCHANGED <<remoteVars, stopping, hostVars, faults>>

(* One linearizable read of the whole prefix.  When it fails, or when one  *)
(* pointer, of whatever target, is not a safe name, the process stays      *)
(* where it is and tries again after a delay.                              *)
SnapshotActive ==
    /\ pc = "snapshot"
    /\ ~stopping
    /\ \A t \in Targets \cup Others : PointerAt(t, Len(log)) \notin Unsafe
    /\ pc' = "reconcile"
    /\ rev' = Len(log)
    /\ work' = [t \in Targets |-> Reconcile(t, PointerAt(t, Len(log)), Len(log))]
    /\ UNCHANGED <<remoteVars, stopping, hostVars, faults>>

(* Mutant: takes the revision after the one to be watched next.            *)
WatchTooLate ==
    /\ pc = "reconcile"
    /\ AllIdle
    /\ pc' = "watch"
    /\ rev' = rev + 2
    /\ UNCHANGED <<remoteVars, stopping, work, hostVars, faults>>

(* ReconcileSnapshot waits for every target, and the watch starts at the   *)
(* revision after the snapshot.                                            *)
WatchActive ==
    /\ pc = "reconcile"
    /\ AllIdle
    /\ pc' = "watch"
    /\ rev' = rev + 1
    /\ UNCHANGED <<remoteVars, stopping, work, hostVars, faults>>

(* One event is received when the previous one has been handled; events of *)
(* targets that are not configured are skipped.                            *)
WatchEvent ==
    /\ pc = "watch"
    /\ AllIdle
    /\ rev <= Len(log)
    /\ log[rev].gen \notin Unsafe
    /\ rev' = rev + 1
    /\ LET event == log[rev] IN
       \/ event.target \notin Targets /\ UNCHANGED work
       \/ /\ event.target \in Targets
          /\ work' = [work EXCEPT ![event.target] = Reconcile(event.target, event.gen, rev)]
    /\ UNCHANGED <<remoteVars, pc, stopping, hostVars, faults>>

(* The loop leaves the watch and starts over from a new snapshot: events   *)
(* that were not received yet are dropped.                                 *)
Restart ==
    /\ pc = "watch"
    /\ AllIdle
    /\ pc' = "snapshot"
    /\ UNCHANGED <<remoteVars, stopping, rev, work, hostVars>>

ResyncTimer == Resync /\ Restart /\ UNCHANGED faults

(* The watch reports an error or closes: a broken stream, a pointer that   *)
(* is not a safe name, a revision that has been compacted.                 *)
WatchFails == Restart /\ Fault("watch")

WatchUnsafe ==
    /\ Restart
    /\ rev <= Len(log)
    /\ log[rev].gen \in Unsafe
    /\ UNCHANGED faults

WatchCompacted == rev < compacted /\ Restart /\ UNCHANGED faults

-----------------------------------------------------------------------------
(* One reconcile, controller.go Reconcile.  The mutex of the target is     *)
(* never contended: a snapshot has one reconcile per target and the watch  *)
(* loop waits for it.                                                      *)
Running == {t \in Targets : work[t].pc \notin {"idle", "queued"}}

StepTo(t, step) == work' = [work EXCEPT ![t].pc = step]
Return(t, result) == work' = [work EXCEPT ![t] = Idle(result)]

AcquireSemaphore(t) ==
    /\ work[t].pc = "queued"
    /\ \/ Cardinality(Running) < MaxConcurrent /\ StepTo(t, "fetch")
       \/ stopping /\ Return(t, "error")
    /\ UNCHANGED <<remoteVars, pc, stopping, rev, hostVars, faults>>

(* FetchBundle at the revision of the event, type check, ValidatePolicy.   *)
FetchBundle(t) ==
    /\ work[t].pc = "fetch"
    /\ \/ /\ work[t].gen \in Good
          /\ work[t].rev >= compacted
          /\ ~stopping
          /\ StepTo(t, "load")
          /\ UNCHANGED faults
       \/ /\ work[t].gen \notin Good \/ work[t].rev < compacted \/ stopping
          /\ Return(t, "error")
          /\ UNCHANGED faults
       \/ Return(t, "error") /\ Fault("fetch")
    /\ UNCHANGED <<remoteVars, pc, stopping, rev, hostVars>>

LoadState(t) ==
    /\ work[t].pc = "load"
    /\ \/ /\ work' = [work EXCEPT ![t].saved = state[t], ![t].pc = "activate"]
          /\ UNCHANGED faults
       \/ Return(t, "error") /\ Fault("load")
    /\ UNCHANGED <<remoteVars, pc, stopping, rev, hostVars>>

(* Mutant: a hook error of an earlier reconcile is not looked at.          *)
HookDueOnChange(t) == current[t] # work[t].gen

(* Whether the reconcile goes on to the hook. *)
HookDue(t) == current[t] # work[t].gen \/ work[t].saved.hookError

(* Activate reports whether current was switched.  An unchanged release    *)
(* with no recorded hook error needs at most a state update.               *)
Activate(t) ==
    /\ work[t].pc = "activate"
    /\ \/ /\ current' = [current EXCEPT ![t] = work[t].gen]
          /\ \/ HookDue(t) /\ StepTo(t, "hook")
             \/ ~HookDue(t) /\ work[t].saved.gen # work[t].gen /\ StepTo(t, "save")
             \/ ~HookDue(t) /\ work[t].saved.gen = work[t].gen /\ Return(t, "ok")
          /\ UNCHANGED faults
       \/ /\ Return(t, "error")
          /\ UNCHANGED current
          /\ Fault("deploy")
       \/ /\ current[t] # work[t].gen
          /\ current' = [current EXCEPT ![t] = work[t].gen]
          /\ Return(t, "error")
          /\ Fault("prune")
    /\ UNCHANGED <<remoteVars, pc, stopping, rev, state, loaded>>

(* Mutant: the failure is logged but not put on record.                    *)
HookFailedSilently(t) == StepTo(t, "save")

HookFailed(t) == work' = [work EXCEPT ![t].pc = "save", ![t].hookError = TRUE]

(* The hook runs to its end, or fails, or is killed by its timeout or by   *)
(* the cancelled context; a failed one may still have reloaded the service.*)
(* Without a hook Run returns at once, on a cancelled context too, and the *)
(* release counts as loaded: its consumer reads the files by itself.       *)
RunHook(t) ==
    /\ work[t].pc = "hook"
    /\ \/ /\ t \in Hookless \/ ~stopping
          /\ StepTo(t, "save")
          /\ loaded' = [loaded EXCEPT ![t] = current[t]]
          /\ UNCHANGED faults
       \/ /\ t \notin Hookless
          /\ HookFailed(t)
          /\ loaded' \in {loaded, [loaded EXCEPT ![t] = current[t]]}
          /\ \/ stopping /\ UNCHANGED faults
             \/ Fault("hook")
    /\ UNCHANGED <<remoteVars, pc, stopping, rev, current, state>>

(* Save replaces the state file; it may report an error before or after    *)
(* the rename.  A recorded hook failure makes the reconcile fail.          *)
SaveState(t) ==
    LET w == work[t]
        saved == [gen |-> w.gen, rev |-> w.rev, hookError |-> w.hookError]
    IN
    /\ w.pc = "save"
    /\ \/ /\ state' = [state EXCEPT ![t] = saved]
          /\ Return(t, IF w.hookError THEN "error" ELSE "ok")
          /\ UNCHANGED faults
       \/ /\ state' \in {state, [state EXCEPT ![t] = saved]}
          /\ Return(t, "error")
          /\ Fault("save")
    /\ UNCHANGED <<remoteVars, pc, stopping, rev, current, loaded>>

ReconcileStep(t) ==
    \/ AcquireSemaphore(t)
    \/ FetchBundle(t)
    \/ LoadState(t)
    \/ Activate(t)
    \/ RunHook(t)
    \/ SaveState(t)

-----------------------------------------------------------------------------
(* The process. *)
Terminate ==
    /\ pc # "down"
    /\ ~stopping
    /\ Fault("terminate")
    /\ stopping' = TRUE
    /\ UNCHANGED <<remoteVars, pc, rev, work, hostVars>>

(* runWatch returns when it next looks at the context. *)
Exit ==
    /\ stopping
    /\ pc \in {"snapshot", "watch"}
    /\ AllIdle
    /\ pc' = "down"
    /\ stopping' = FALSE
    /\ rev' = 0
    /\ work' = [t \in Targets |-> Idle("none")]
    /\ UNCHANGED <<remoteVars, hostVars, faults>>

(* The process dies at once; a hook that was running may or may not have   *)
(* reloaded its service.                                                   *)
Crash ==
    /\ pc # "down"
    /\ Fault("crash")
    /\ loaded' \in {l \in [Targets -> Gens \cup {None}] :
                       \A t \in Targets :
                           \/ l[t] = loaded[t]
                           \/ work[t].pc = "hook" /\ l[t] = current[t]}
    /\ pc' = "down"
    /\ stopping' = FALSE
    /\ rev' = 0
    /\ work' = [t \in Targets |-> Idle("none")]
    /\ UNCHANGED <<remoteVars, current, state>>

(* A supervisor starts the agent again. *)
Start ==
    /\ pc = "down"
    /\ pc' = "snapshot"
    /\ UNCHANGED <<remoteVars, stopping, rev, work, hostVars, faults>>

-----------------------------------------------------------------------------
Next ==
    \/ \E t \in Targets \cup Others, g \in Gens \cup Unsafe \cup {None} : Publish(t, g)
    \/ Compact
    \/ SnapshotActive
    \/ WatchActive
    \/ WatchEvent
    \/ ResyncTimer
    \/ WatchFails
    \/ WatchUnsafe
    \/ WatchCompacted
    \/ \E t \in Targets : ReconcileStep(t)
    \/ Terminate
    \/ Exit
    \/ Crash
    \/ Start

Spec == Init /\ [][Next]_vars

(* The agent process keeps running, every reconcile goes on, the resync    *)
(* timer fires, and the supervisor restarts an agent that has stopped.     *)
Fairness ==
    /\ WF_vars(SnapshotActive)
    /\ WF_vars(WatchActive)
    /\ WF_vars(WatchEvent)
    /\ WF_vars(ResyncTimer)
    /\ WF_vars(WatchUnsafe)
    /\ WF_vars(Exit)
    /\ WF_vars(Start)
    /\ \A t \in Targets : WF_vars(ReconcileStep(t))

FairSpec == Spec /\ Fairness

-----------------------------------------------------------------------------
(* What the state file says was true: its generation is the one the remote *)
(* pointer had at its revision, whatever was deployed, failed or crashed   *)
(* since (controller.go saves generation and revision of one reconcile).   *)
StateTruthful ==
    \A t \in Targets : state[t].rev > 0 => state[t].gen = PointerAt(t, state[t].rev)

(* An agent never goes back to an older pointer, not over a restarted      *)
(* watch, a crash or a compaction: snapshots are linearizable and a watch  *)
(* continues where its snapshot ends.                                      *)
StateMonotone == [][\A t \in Targets : state'[t].rev >= state[t].rev]_vars

(* No pointer event is lost between a snapshot and its watch, or by a      *)
(* dropped watch: when every event so far has been received, a target      *)
(* whose last reconcile succeeded has the release its pointer names.       *)
LosslessWatch ==
    \A t \in Targets :
        /\ pc = "watch" /\ AllIdle /\ rev > Len(log)
        /\ work[t].result = "ok"
        /\ PointerAt(t, Len(log)) # None
        => current[t] = PointerAt(t, Len(log))

(* A hook failure, once in the state file, is erased only after the        *)
(* service has loaded the release that is current, over any crash, failed  *)
(* save or change of pointer in between.                                   *)
RecordedFailureRetried ==
    [][ \A t \in Targets :
            state[t].hookError /\ ~state'[t].hookError => loaded[t] = current[t] ]_vars

(* "The hook runs after the switch; a failure is recorded in the state and *)
(* retried": a release that is current and that the state file reports as  *)
(* reconciled, without a hook failure, has been loaded by the service.     *)
HookServed ==
    \A t \in Targets :
        /\ work[t].pc = "idle"
        /\ current[t] # None
        /\ state[t].gen = current[t]
        /\ ~state[t].hookError
        => loaded[t] = current[t]

(* What the pointer of t asks for, when it can be had, is in place.        *)
Converged(t) ==
    LET g == PointerAt(t, Len(log)) IN
    g \in Good => current[t] = g /\ loaded[t] = g /\ ~state[t].hookError

SafePointers == \A t \in Targets \cup Others : PointerAt(t, Len(log)) \notin Unsafe

(* With resync enabled, an agent whose remote side comes to rest converges *)
(* whatever failed before: every target whose pointer names an acceptable  *)
(* bundle ends up with that release current, loaded, and no failure on     *)
(* record.  It needs every pointer of the prefix to be a safe name.        *)
Converges == \A t \in Targets : <>[](SafePointers => Converged(t))
=============================================================================
