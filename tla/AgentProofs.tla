----------------------------- MODULE AgentProofs ----------------------------
(***************************************************************************)
(* Proofs about Agent, for any targets, generations, pointer values and    *)
(* policies, any history of pointers, and any number of faults.            *)
(***************************************************************************)
EXTENDS Agent, OrderLemmas, TLAPS

Event == [target : Targets \cup Others, gen : Gens \cup Unsafe \cup {None}]

(* PointerAt in any history of pointers. *)
PointerIn(l, t, r) ==
    LET events == {i \in 1..r : l[i].target = t} IN
    IF events = {} THEN None
    ELSE l[CHOOSE i \in events : \A j \in events : j <= i].gen

(* The last revision whose pointers this run has taken into account.       *)
Seen == IF pc = "watch" THEN rev - 1 ELSE rev
Following == pc \in {"reconcile", "watch"}

(* A run is never ahead of the store, and no state file ahead of the run.  *)
InStep ==
    /\ Following => rev \in Nat /\ Seen \in 0..Len(log)
    /\ \A t \in Targets :
          /\ state[t].rev <= Len(log)
          /\ Following => state[t].rev <= Seen

(* A reconcile under way has a pointer that is still the last one the run  *)
(* has seen of its target, later than what is on record.                   *)
WorkCurrent(t) ==
    work[t].pc # "idle" =>
        /\ Following
        /\ work[t].gen \in Gens
        /\ work[t].rev \in 0..Seen
        /\ work[t].rev >= state[t].rev
        /\ work[t].gen = PointerIn(log, t, work[t].rev)
        /\ work[t].gen = PointerIn(log, t, Seen)

(* It has read the state file, which nobody else writes.                   *)
WorkSaved(t) ==
    work[t].pc \in {"activate", "hook", "save"} => work[t].saved = state[t]

(* After the activation the release is current; and unless the hook failed *)
(* the service has loaded it or no failure was on record.                  *)
WorkDone(t) ==
    /\ work[t].pc \in {"hook", "save"} => current[t] = work[t].gen
    /\ work[t].pc = "save" /\ ~work[t].hookError =>
          loaded[t] = current[t] \/ ~work[t].saved.hookError

(* A success since the last snapshot put in place what the run has seen.   *)
OkIsCurrent(t) ==
    Following /\ work[t].pc = "idle" /\ work[t].result = "ok"
        => PointerIn(log, t, Seen) \in {None, current[t]}

PerTarget(t) ==
    /\ WorkCurrent(t)
    /\ WorkSaved(t)
    /\ WorkDone(t)
    /\ OkIsCurrent(t)

IInv ==
    /\ TypeOK
    /\ InStep
    /\ \A t \in Targets : PerTarget(t)
    /\ StateTruthful

-----------------------------------------------------------------------------
(* Pointers as of a revision. *)
LEMMA PointerIsAt == \A t, r : PointerAt(t, r) = PointerIn(log, t, r)
BY DEF PointerAt, PointerIn

(* A pointer has the value of the last event of its target. *)
LEMMA PointerIsLast ==
    ASSUME NEW l \in Seq(Event), NEW r \in 0..Len(l), NEW t
    PROVE  \/ /\ \A j \in 1..r : l[j].target # t
              /\ PointerIn(l, t, r) = None
           \/ \E i \in 1..r :
                 /\ l[i].target = t
                 /\ \A j \in 1..r : l[j].target = t => j <= i
                 /\ PointerIn(l, t, r) = l[i].gen
<1> DEFINE events == {i \in 1..r : l[i].target = t}
           last == CHOOSE i \in events : \A j \in events : j <= i
<1>1. CASE events = {}
  BY <1>1 DEF PointerIn
<1>2. CASE events # {}
  <2>1. events \subseteq 0..r /\ r \in Nat
    OBVIOUS
  <2>2. \E i \in events : \A j \in events : j <= i
    <3> HIDE DEF events
    <3> QED
      BY <1>2, <2>1, GreatestNat
  <2>3. last \in events /\ \A j \in events : j <= last
    <3> HIDE DEF events
    <3> QED
      BY <2>2
  <2>4. PointerIn(l, t, r) = l[last].gen
    BY <1>2 DEF PointerIn
  <2> HIDE DEF last
  <2> QED
    BY <2>3, <2>4
<1> QED
  BY <1>1, <1>2

(* The value of a pointer is that of some event. *)
LEMMA PointerType ==
    ASSUME NEW l \in Seq(Event), NEW r \in 0..Len(l), NEW t
    PROVE  PointerIn(l, t, r) \in Gens \cup Unsafe \cup {None}
<1>1. \A i \in 1..r : l[i] \in Event
  OBVIOUS
<1>2. \A i \in 1..r : l[i].gen \in Gens \cup Unsafe \cup {None}
  BY <1>1 DEF Event
<1> QED
  BY <1>2, PointerIsLast

(* Two histories that agree up to a revision have the same pointers there. *)
LEMMA PointerStable ==
    ASSUME NEW l \in Seq(Event), NEW m \in Seq(Event), NEW r \in Nat, NEW t,
           r <= Len(l), r <= Len(m), \A i \in 1..r : l[i] = m[i]
    PROVE  PointerIn(l, t, r) = PointerIn(m, t, r)
<1> DEFINE p == PointerIn(l, t, r)
           q == PointerIn(m, t, r)
           Last(v, h) == \/ (\A j \in 1..r : h[j].target # t) /\ v = None
                         \/ \E i \in 1..r : /\ h[i].target = t
                                            /\ \A j \in 1..r : h[j].target = t => j <= i
                                            /\ v = h[i].gen
<1>1. Last(p, l) /\ Last(q, m)
  <2>1. r \in 0..Len(l) /\ r \in 0..Len(m)
    OBVIOUS
  <2>2. Last(p, l)
    BY <2>1, PointerIsLast
  <2>3. Last(q, m)
    BY <2>1, PointerIsLast
  <2> QED
    BY <2>2, <2>3
<1> HIDE DEF p, q
<1>2. ASSUME \A j \in 1..r : l[j].target # t PROVE p = q
  BY <1>1, <1>2
<1>3. ASSUME NEW i \in 1..r, l[i].target = t, p = l[i].gen,
             \A j \in 1..r : l[j].target = t => j <= i
      PROVE  p = q
  <2>1. PICK k \in 1..r : /\ m[k].target = t
                          /\ \A j \in 1..r : m[j].target = t => j <= k
                          /\ q = m[k].gen
    BY <1>1, <1>3
  <2>2. k <= i /\ i <= k
    BY <1>3, <2>1
  <2>3. k = i
    BY <2>2
  <2> QED
    BY <1>3, <2>1, <2>3
<1>4. p = q
  BY <1>1, <1>2, <1>3
<1> QED
  BY <1>4 DEF p, q

(* What one event does to the pointers as a watch sees them. *)
LEMMA PointerAfter ==
    ASSUME NEW l \in Seq(Event), NEW r \in 1..Len(l), NEW t
    PROVE  PointerIn(l, t, r) = IF l[r].target = t THEN l[r].gen ELSE PointerIn(l, t, r - 1)
<1>1. r - 1 \in 0..Len(l) /\ r \in 0..Len(l)
  OBVIOUS
<1>2. CASE l[r].target = t
  <2>1. PICK i \in 1..r : /\ l[i].target = t
                          /\ \A j \in 1..r : l[j].target = t => j <= i
                          /\ PointerIn(l, t, r) = l[i].gen
    BY <1>1, <1>2, PointerIsLast
  <2>2. i = r
    BY <1>2, <2>1
  <2> QED
    BY <1>2, <2>1, <2>2
<1>3. CASE l[r].target # t
  <2>1. \A j \in 1..r : l[j].target = t => j \in 1..r - 1
    BY <1>3
  <2> DEFINE p == PointerIn(l, t, r)
             q == PointerIn(l, t, r - 1)
             Last(v, k) == \/ (\A j \in 1..k : l[j].target # t) /\ v = None
                           \/ \E i \in 1..k : /\ l[i].target = t
                                              /\ \A j \in 1..k : l[j].target = t => j <= i
                                              /\ v = l[i].gen
  <2>2. Last(p, r) /\ Last(q, r - 1)
    BY <1>1, PointerIsLast
  <2> HIDE DEF p, q
  <2>3. ASSUME \A j \in 1..r : l[j].target # t PROVE p = q
    BY <2>1, <2>2, <2>3
  <2>4. ASSUME NEW i \in 1..r, l[i].target = t, p = l[i].gen,
               \A j \in 1..r : l[j].target = t => j <= i
        PROVE  p = q
    <3>1. i \in 1..r - 1
      BY <2>1, <2>4
    <3>2. PICK k \in 1..r - 1 : /\ l[k].target = t
                                /\ \A j \in 1..r - 1 : l[j].target = t => j <= k
                                /\ q = l[k].gen
      BY <2>2, <2>4, <3>1
    <3>3. k <= i /\ i <= k
      BY <2>4, <3>1, <3>2
    <3>4. k = i
      BY <3>3
    <3> QED
      BY <2>4, <3>2, <3>4
  <2>5. p = q
    BY <2>2, <2>3, <2>4
  <2> QED
    BY <1>3, <2>5 DEF p, q
<1> QED
  BY <1>2, <1>3

-----------------------------------------------------------------------------
(* Types. *)
LEMMA IdleType == ASSUME NEW result \in Result PROVE Idle(result) \in Work
BY DEF Idle, Work, NoState, State, WorkStep

LEMMA QueuedType ==
    ASSUME NEW g \in Gens, NEW r \in Nat
    PROVE  Queued(g, r) \in Work
BY DEF Queued, Idle, Work, NoState, State, WorkStep, Result

LEMMA ReconcileType ==
    ASSUME NEW t \in Targets, NEW g \in Gens \cup {None}, NEW r \in Nat
    PROVE  Reconcile(t, g, r) \in Work
BY IdleType, QueuedType DEF Reconcile, HandleDelete, Result

(* Replacing the work of one target. *)
LEMMA WorkView ==
    ASSUME TypeOK, NEW t \in Targets, NEW w \in Work, work' = [work EXCEPT ![t] = w]
    PROVE  /\ work' \in [Targets -> Work]
           /\ work'[t] = w
           /\ \A s \in Targets : s # t => work'[s] = work[s]
BY DEF TypeOK

LEMMA StepToView ==
    ASSUME TypeOK, NEW t \in Targets, NEW step \in WorkStep, StepTo(t, step)
    PROVE  /\ work' \in [Targets -> Work]
           /\ work'[t] = [work[t] EXCEPT !.pc = step]
           /\ \A s \in Targets : s # t => work'[s] = work[s]
<1>1. [work[t] EXCEPT !.pc = step] \in Work
  BY DEF TypeOK, Work
<1>2. work' = [work EXCEPT ![t] = [work[t] EXCEPT !.pc = step]]
  BY DEF StepTo, TypeOK
<1> QED
  BY <1>1, <1>2, WorkView

LEMMA ReturnView ==
    ASSUME TypeOK, NEW t \in Targets, NEW result \in Result, Return(t, result)
    PROVE  /\ work' \in [Targets -> Work]
           /\ work'[t] = Idle(result)
           /\ \A s \in Targets : s # t => work'[s] = work[s]
BY IdleType, WorkView DEF Return

LEMMA InitType == Init => TypeOK
<1> SUFFICES ASSUME Init PROVE TypeOK
  OBVIOUS
<1>1. work \in [Targets -> Work]
  BY IdleType DEF Init, Result
<1>2. state \in [Targets -> State]
  BY DEF Init, NoState, State
<1>3. current \in [Targets -> Gens \cup {None}]
  BY AgentAssumption DEF Init
<1>4. log \in Seq([target : Targets \cup Others, gen : Gens \cup Unsafe \cup {None}])
  BY DEF Init
<1> QED
  BY <1>1, <1>2, <1>3, <1>4 DEF Init, TypeOK, Phase

(* The faults that steps may spend. *)
LEMMA FaultType ==
    ASSUME TypeOK, NEW kind, UNCHANGED faults \/ Fault(kind)
    PROVE  faults' \in Nat
BY DEF TypeOK, Fault

LEMMA ReconcileStepType ==
    ASSUME TypeOK, NEW t \in Targets, ReconcileStep(t)
    PROVE  TypeOK'
<1> DEFINE Rest == /\ UNCHANGED <<log, compacted, pc, stopping, rev>>
                   /\ faults' \in Nat
<1>1. {"none", "ok", "error"} \subseteq Result
  BY DEF Result
<1>2. work[t] \in Work
  BY DEF TypeOK
<1>3. ASSUME Rest, work' \in [Targets -> Work], UNCHANGED hostVars PROVE TypeOK'
  BY <1>3 DEF TypeOK, hostVars
<1>4. CASE AcquireSemaphore(t)
  <2>1. Rest /\ UNCHANGED hostVars
    BY <1>4 DEF AcquireSemaphore, remoteVars, TypeOK
  <2>2. work' \in [Targets -> Work]
    BY <1>1, <1>4, StepToView, ReturnView DEF AcquireSemaphore, WorkStep
  <2> QED
    BY <1>3, <2>1, <2>2
<1>5. CASE FetchBundle(t)
  <2>1. Rest /\ UNCHANGED hostVars
    BY <1>5, FaultType DEF FetchBundle, remoteVars
  <2>2. work' \in [Targets -> Work]
    BY <1>1, <1>5, StepToView, ReturnView DEF FetchBundle, WorkStep
  <2> QED
    BY <1>3, <2>1, <2>2
<1>6. CASE LoadState(t)
  <2>1. Rest /\ UNCHANGED hostVars
    BY <1>6, FaultType DEF LoadState, remoteVars
  <2>2. CASE work' = [work EXCEPT ![t].saved = state[t], ![t].pc = "activate"]
    <3>1. [work[t] EXCEPT !.saved = state[t], !.pc = "activate"] \in Work
      BY <1>2 DEF TypeOK, Work, WorkStep
    <3>2. work' \in [Targets -> Work]
      BY <2>2, <3>1 DEF TypeOK
    <3> QED
      BY <1>3, <2>1, <3>2
  <2>3. CASE Return(t, "error")
    BY <1>1, <1>3, <2>1, <2>3, ReturnView
  <2> QED
    BY <1>6, <2>2, <2>3 DEF LoadState
<1>7. CASE Activate(t)
  <2>1. Rest /\ UNCHANGED <<state, loaded>>
    BY <1>7, FaultType DEF Activate, remoteVars
  <2>2. work' \in [Targets -> Work]
    BY <1>1, <1>7, StepToView, ReturnView DEF Activate, WorkStep
  <2>3. current' \in [Targets -> Gens \cup {None}]
    <3>1. current' = current \/ current' = [current EXCEPT ![t] = work[t].gen]
      BY <1>7 DEF Activate
    <3>2. work[t].gen \in Gens \cup {None}
      BY <1>2 DEF Work
    <3> QED
      BY <3>1, <3>2 DEF TypeOK
  <2> QED
    BY <2>1, <2>2, <2>3 DEF TypeOK
<1>8. CASE RunHook(t)
  <2>1. Rest /\ UNCHANGED <<current, state>>
    BY <1>8, FaultType DEF RunHook, remoteVars
  <2>2. work' \in [Targets -> Work]
    <3>1. CASE StepTo(t, "save")
      BY <3>1, StepToView DEF WorkStep
    <3>2. CASE HookFailed(t)
      <4>1. [work[t] EXCEPT !.pc = "save", !.hookError = TRUE] \in Work
        BY <1>2 DEF Work, WorkStep
      <4> QED
        BY <3>2, <4>1 DEF HookFailed, TypeOK
    <3> QED
      BY <1>8, <3>1, <3>2 DEF RunHook
  <2>3. loaded' \in [Targets -> Gens \cup {None}]
    <3>1. loaded' = loaded \/ loaded' = [loaded EXCEPT ![t] = current[t]]
      BY <1>8 DEF RunHook
    <3> QED
      BY <3>1 DEF TypeOK
  <2> QED
    BY <2>1, <2>2, <2>3 DEF TypeOK
<1>9. CASE SaveState(t)
  <2> DEFINE saved == [gen |-> work[t].gen, rev |-> work[t].rev, hookError |-> work[t].hookError]
  <2>1. Rest /\ UNCHANGED <<current, loaded>>
    BY <1>9, FaultType DEF SaveState, remoteVars
  <2>2. work' \in [Targets -> Work]
    BY <1>1, <1>9, ReturnView DEF SaveState
  <2>3. state' \in [Targets -> State]
    <3>1. saved \in State
      BY <1>2 DEF Work, State
    <3>2. state' = state \/ state' = [state EXCEPT ![t] = saved]
      BY <1>9 DEF SaveState
    <3> HIDE DEF saved
    <3> QED
      BY <3>1, <3>2 DEF TypeOK
  <2> QED
    BY <2>1, <2>2, <2>3 DEF TypeOK
<1> QED
  BY <1>4, <1>5, <1>6, <1>7, <1>8, <1>9 DEF ReconcileStep

(* The pointers of a snapshot and of an event are safe where they are used.*)
LEMMA SnapshotType ==
    ASSUME TypeOK, SnapshotActive, NEW t \in Targets
    PROVE  /\ PointerIn(log, t, Len(log)) \in Gens \cup {None}
           /\ work'[t] = Reconcile(t, PointerIn(log, t, Len(log)), Len(log))
           /\ work'[t] \in Work
<1>1. log \in Seq(Event) /\ Len(log) \in Nat
  BY DEF TypeOK, Event
<1>2. PointerIn(log, t, Len(log)) \in Gens \cup {None}
  BY <1>1, PointerType, PointerIsAt DEF SnapshotActive
<1>3. work'[t] = Reconcile(t, PointerIn(log, t, Len(log)), Len(log))
  BY PointerIsAt DEF SnapshotActive
<1> QED
  BY <1>1, <1>2, <1>3, ReconcileType

-----------------------------------------------------------------------------
(* The invariant. *)

(* StateTruthful and its successor, with the history as a parameter. *)
LEMMA TruthView ==
    /\ StateTruthful <=>
           \A t \in Targets : state[t].rev > 0 => state[t].gen = PointerIn(log, t, state[t].rev)
    /\ StateTruthful' <=>
           \A t \in Targets : state'[t].rev > 0 => state'[t].gen = PointerIn(log', t, state'[t].rev)
BY DEF StateTruthful, PointerAt, PointerIn

LEMMA InitInv == Init => IInv
<1> SUFFICES ASSUME Init PROVE IInv
  OBVIOUS
<1>1. TypeOK
  BY InitType
<1>2. \A t \in Targets : state[t] = NoState /\ work[t] = Idle("none")
  BY DEF Init
<1>3. ~Following /\ Len(log) = 0
  BY DEF Init, Following
<1>4. InStep
  BY <1>2, <1>3 DEF InStep, NoState
<1>5. \A t \in Targets : PerTarget(t)
  BY <1>2, <1>3 DEF PerTarget, WorkCurrent, WorkSaved, WorkDone, OkIsCurrent, Idle
<1>6. StateTruthful
  BY <1>2 DEF StateTruthful, NoState
<1> QED
  BY <1>1, <1>4, <1>5, <1>6 DEF IInv

(* A step of one target, which leaves the history, the loop and the other  *)
(* targets alone.                                                          *)
LEMMA OneTarget ==
    ASSUME IInv, TypeOK', NEW t \in Targets, UNCHANGED <<log, pc, rev>>,
           \A s \in Targets : s # t =>
               UNCHANGED <<work[s], current[s], state[s], loaded[s]>>,
           PerTarget(t)',
           \/ state'[t] = state[t]
           \/ /\ Following /\ state'[t].rev \in 0..Seen
              /\ state'[t].gen = PointerIn(log, t, state'[t].rev)
    PROVE  IInv'
<1>1. Following' = Following /\ Seen' = Seen
  BY DEF Following, Seen
<1>2. InStep'
  <2>1. Following => Seen \in 0..Len(log) /\ Len(log) \in Nat
    BY DEF IInv, InStep, TypeOK
  <2>2. (Following => rev \in Nat /\ Seen \in 0..Len(log))'
    BY <1>1 DEF IInv, InStep
  <2>3. ASSUME NEW s \in Targets
        PROVE  state'[s].rev <= Len(log) /\ (Following => state'[s].rev <= Seen)
    BY <2>1 DEF IInv, InStep
  <2> QED
    BY <1>1, <2>2, <2>3 DEF InStep
<1>3. \A s \in Targets : PerTarget(s)'
  <2>1. ASSUME NEW s \in Targets, s # t PROVE PerTarget(s)'
    BY <1>1, <2>1 DEF IInv, PerTarget, WorkCurrent, WorkSaved, WorkDone, OkIsCurrent
  <2> QED
    BY <2>1
<1>4. StateTruthful'
  BY TruthView DEF IInv
<1> QED
  BY <1>2, <1>3, <1>4 DEF IInv

(* A step that ends a run, or begins one that has not read a snapshot yet. *)
LEMMA NoRun ==
    ASSUME IInv, TypeOK', UNCHANGED <<log, state>>, pc' \in {"down", "snapshot"},
           \A t \in Targets : work'[t].pc = "idle"
    PROVE  IInv'
<1>1. ~Following'
  BY DEF Following
<1>2. InStep'
  BY <1>1 DEF IInv, InStep
<1>3. \A t \in Targets : PerTarget(t)'
  BY <1>1 DEF PerTarget, WorkCurrent, WorkSaved, WorkDone, OkIsCurrent
<1>4. StateTruthful'
  BY TruthView DEF IInv
<1> QED
  BY <1>2, <1>3, <1>4 DEF IInv
LEMMA ReconcileStepInv ==
    ASSUME IInv, NEW t \in Targets, ReconcileStep(t)
    PROVE  IInv'
<1>1. TypeOK /\ TypeOK'
  BY ReconcileStepType DEF IInv
<1>2. PerTarget(t) /\ work[t] \in Work /\ state[t] \in State
  BY <1>1 DEF IInv, TypeOK
<1>3. UNCHANGED <<log, pc, rev>>
  BY DEF ReconcileStep, AcquireSemaphore, FetchBundle, LoadState, Activate, RunHook,
         SaveState, remoteVars
<1>4. Following' = Following /\ Seen' = Seen
  BY <1>3 DEF Following, Seen
<1>5. {"none", "ok", "error"} \subseteq Result
  BY DEF Result
<1> DEFINE Same(f, g) == \A s \in Targets : s # t => g[s] = f[s]
(* Giving up disturbs nothing: what it had put in place stays. *)
<1>6. ASSUME Return(t, "error"), UNCHANGED loaded, Same(state, state'), Same(current, current'),
             \/ state'[t] = state[t]
             \/ /\ work[t].pc = "save"
                /\ state'[t].rev = work[t].rev
                /\ state'[t].gen = work[t].gen
      PROVE  IInv'
  <2>1. work'[t] = Idle("error") /\ Same(work, work')
    BY <1>1, <1>5, <1>6, ReturnView
  <2>2. PerTarget(t)'
    BY <2>1 DEF PerTarget, WorkCurrent, WorkSaved, WorkDone, OkIsCurrent, Idle
  <2>3. \/ state'[t] = state[t]
        \/ /\ Following /\ state'[t].rev \in 0..Seen
           /\ state'[t].gen = PointerIn(log, t, state'[t].rev)
    BY <1>2, <1>6 DEF PerTarget, WorkCurrent
  <2> QED
    BY <1>1, <1>3, <1>6, <2>1, <2>2, <2>3, OneTarget
<1>7. CASE AcquireSemaphore(t)
  <2>1. UNCHANGED hostVars
    BY <1>7 DEF AcquireSemaphore
  <2>2. CASE work[t].pc = "queued" /\ StepTo(t, "fetch")
    <3>1. work'[t] = [work[t] EXCEPT !.pc = "fetch"] /\ Same(work, work')
      BY <1>1, <2>2, StepToView DEF WorkStep
    <3>2. PerTarget(t)'
      BY <1>2, <1>3, <1>4, <2>1, <2>2, <3>1
         DEF PerTarget, WorkCurrent, WorkSaved, WorkDone, OkIsCurrent, hostVars, Work
    <3> QED
      BY <1>1, <1>3, <2>1, <3>1, <3>2, OneTarget DEF hostVars
  <2>3. CASE Return(t, "error")
    BY <1>6, <2>1, <2>3 DEF hostVars, Return
  <2> QED
    BY <1>7, <2>2, <2>3 DEF AcquireSemaphore
<1>8. CASE FetchBundle(t)
  <2>1. UNCHANGED hostVars
    BY <1>8 DEF FetchBundle
  <2>2. CASE work[t].pc = "fetch" /\ StepTo(t, "load")
    <3>1. work'[t] = [work[t] EXCEPT !.pc = "load"] /\ Same(work, work')
      BY <1>1, <2>2, StepToView DEF WorkStep
    <3>2. PerTarget(t)'
      BY <1>2, <1>3, <1>4, <2>1, <2>2, <3>1
         DEF PerTarget, WorkCurrent, WorkSaved, WorkDone, OkIsCurrent, hostVars, Work
    <3> QED
      BY <1>1, <1>3, <2>1, <3>1, <3>2, OneTarget DEF hostVars
  <2>3. CASE Return(t, "error")
    BY <1>6, <2>1, <2>3 DEF hostVars, Return
  <2> QED
    BY <1>8, <2>2, <2>3 DEF FetchBundle
<1>9. CASE LoadState(t)
  <2>1. UNCHANGED hostVars
    BY <1>9 DEF LoadState
  <2>2. CASE /\ work[t].pc = "load"
             /\ work' = [work EXCEPT ![t].saved = state[t], ![t].pc = "activate"]
    <3>1. /\ work'[t] = [work[t] EXCEPT !.saved = state[t], !.pc = "activate"]
          /\ Same(work, work')
      BY <1>1, <2>2 DEF TypeOK
    <3>2. /\ work'[t].pc = "activate" /\ work'[t].saved = state'[t]
          /\ work'[t].gen = work[t].gen /\ work'[t].rev = work[t].rev
      BY <1>2, <2>1, <3>1 DEF Work, hostVars
    <3>3. PerTarget(t)'
      BY <1>2, <1>3, <1>4, <2>1, <2>2, <3>2
         DEF PerTarget, WorkCurrent, WorkSaved, WorkDone, OkIsCurrent, hostVars
    <3> QED
      BY <1>1, <1>3, <2>1, <3>1, <3>3, OneTarget DEF hostVars
  <2>3. CASE Return(t, "error")
    BY <1>6, <2>1, <2>3 DEF hostVars, Return
  <2> QED
    BY <1>9, <2>2, <2>3 DEF LoadState
<1>10. CASE Activate(t)
  <2>1. UNCHANGED <<state, loaded>> /\ work[t].pc = "activate"
    BY <1>10 DEF Activate
  <2>2. CASE /\ current' = [current EXCEPT ![t] = work[t].gen]
             /\ \/ HookDue(t) /\ StepTo(t, "hook")
                \/ ~HookDue(t) /\ work[t].saved.gen # work[t].gen /\ StepTo(t, "save")
                \/ ~HookDue(t) /\ work[t].saved.gen = work[t].gen /\ Return(t, "ok")
    <3>1. current'[t] = work[t].gen /\ Same(current, current')
      BY <1>1, <2>2 DEF TypeOK
    <3>2. Same(work, work') /\ PerTarget(t)'
      <4>1. CASE HookDue(t) /\ StepTo(t, "hook")
        <5>1. work'[t] = [work[t] EXCEPT !.pc = "hook"] /\ Same(work, work')
          BY <1>1, <4>1, StepToView DEF WorkStep
        <5> QED
          BY <1>2, <1>3, <1>4, <2>1, <3>1, <5>1
             DEF PerTarget, WorkCurrent, WorkSaved, WorkDone, OkIsCurrent, Work
      <4>2. CASE ~HookDue(t) /\ StepTo(t, "save")
        <5>1. work'[t] = [work[t] EXCEPT !.pc = "save"] /\ Same(work, work')
          BY <1>1, <4>2, StepToView DEF WorkStep
        <5> QED
          BY <1>2, <1>3, <1>4, <2>1, <3>1, <4>2, <5>1
             DEF PerTarget, WorkCurrent, WorkSaved, WorkDone, OkIsCurrent, Work, HookDue
      <4>3. CASE Return(t, "ok")
        <5>1. work'[t] = Idle("ok") /\ Same(work, work')
          BY <1>1, <1>5, <4>3, ReturnView
        <5> QED
          BY <1>2, <1>3, <1>4, <2>1, <3>1, <5>1
             DEF PerTarget, WorkCurrent, WorkSaved, WorkDone, OkIsCurrent, Idle
      <4> QED
        BY <2>2, <4>1, <4>2, <4>3
    <3> QED
      BY <1>1, <1>3, <2>1, <3>1, <3>2, OneTarget
  <2>3. CASE UNCHANGED current /\ Return(t, "error")
    BY <1>6, <2>1, <2>3 DEF Return
  <2>4. CASE current' = [current EXCEPT ![t] = work[t].gen] /\ Return(t, "error")
    <3>1. Same(current, current')
      BY <1>1, <2>4 DEF TypeOK
    <3> QED
      BY <1>6, <2>1, <2>4, <3>1 DEF Return
  <2> QED
    BY <1>10, <2>2, <2>3, <2>4 DEF Activate
<1>11. CASE RunHook(t)
  <2>1. UNCHANGED <<current, state>> /\ work[t].pc = "hook"
    BY <1>11 DEF RunHook
  <2>2. CASE StepTo(t, "save") /\ loaded' = [loaded EXCEPT ![t] = current[t]]
    <3>1. work'[t] = [work[t] EXCEPT !.pc = "save"] /\ Same(work, work')
      BY <1>1, <2>2, StepToView DEF WorkStep
    <3>2. loaded'[t] = current[t] /\ Same(loaded, loaded')
      BY <1>1, <2>2 DEF TypeOK
    <3>3. PerTarget(t)'
      BY <1>2, <1>3, <1>4, <2>1, <3>1, <3>2
         DEF PerTarget, WorkCurrent, WorkSaved, WorkDone, OkIsCurrent, Work
    <3> QED
      BY <1>1, <1>3, <2>1, <3>1, <3>2, <3>3, OneTarget
  <2>3. CASE HookFailed(t) /\ loaded' \in {loaded, [loaded EXCEPT ![t] = current[t]]}
    <3>1. /\ work'[t] = [work[t] EXCEPT !.pc = "save", !.hookError = TRUE]
          /\ Same(work, work')
      BY <1>1, <2>3 DEF TypeOK, HookFailed
    <3>2. Same(loaded, loaded')
      BY <1>1, <2>3 DEF TypeOK
    <3>3. PerTarget(t)'
      BY <1>2, <1>3, <1>4, <2>1, <3>1
         DEF PerTarget, WorkCurrent, WorkSaved, WorkDone, OkIsCurrent, Work
    <3> QED
      BY <1>1, <1>3, <2>1, <3>1, <3>2, <3>3, OneTarget
  <2> QED
    BY <1>11, <2>2, <2>3 DEF RunHook
<1>12. CASE SaveState(t)
  <2> DEFINE saved == [gen |-> work[t].gen, rev |-> work[t].rev, hookError |-> work[t].hookError]
  <2>1. UNCHANGED <<current, loaded>> /\ work[t].pc = "save"
    BY <1>12 DEF SaveState
  <2>2. state' \in {state, [state EXCEPT ![t] = saved]}
    BY <1>12 DEF SaveState
  <2>3. /\ Same(state, state')
        /\ state'[t] = state[t] \/ state'[t] = saved
    <3> HIDE DEF saved
    <3> QED
      BY <1>1, <2>2 DEF TypeOK
  <2>4. CASE Return(t, "error")
    BY <1>6, <2>1, <2>3, <2>4 DEF Return
  <2>5. CASE Return(t, "ok") /\ state'[t] = saved
    <3>1. work'[t] = Idle("ok") /\ Same(work, work')
      BY <1>1, <1>5, <2>5, ReturnView
    <3>2. PerTarget(t)'
      BY <1>2, <1>3, <1>4, <2>1, <3>1
         DEF PerTarget, WorkCurrent, WorkSaved, WorkDone, OkIsCurrent, Idle
    <3>3. /\ Following /\ state'[t].rev \in 0..Seen
          /\ state'[t].gen = PointerIn(log, t, state'[t].rev)
      BY <1>2, <2>1, <2>5 DEF PerTarget, WorkCurrent
    <3> QED
      BY <1>1, <1>3, <2>1, <2>3, <3>1, <3>2, <3>3, OneTarget
  <2>6. ASSUME state' = [state EXCEPT ![t] = saved] PROVE state'[t] = saved
    <3> HIDE DEF saved
    <3> QED
      BY <1>1, <2>6 DEF TypeOK
  <2> QED
    BY <1>12, <2>4, <2>5, <2>6 DEF SaveState
<1> QED
  BY <1>7, <1>8, <1>9, <1>10, <1>11, <1>12 DEF ReconcileStep
LEMMA PublishInv ==
    ASSUME IInv, NEW p \in Targets \cup Others, NEW g \in Gens \cup Unsafe \cup {None},
           Publish(p, g)
    PROVE  IInv'
<1> DEFINE event == [target |-> p, gen |-> g]
<1>1. /\ log' = Append(log, event)
      /\ UNCHANGED <<compacted, pc, stopping, rev, work, current, state, loaded, faults>>
  BY DEF Publish, processVars, hostVars
<1>2. log \in Seq(Event) /\ event \in Event
  BY DEF IInv, TypeOK, Event
<1>3. log' \in Seq(Event) /\ Len(log') = Len(log) + 1 /\ \A i \in 1..Len(log) : log'[i] = log[i]
  <2> HIDE DEF event
  <2> QED
    BY <1>1, <1>2
<1>4. \A t \in Targets, r \in 0..Len(log) : PointerIn(log', t, r) = PointerIn(log, t, r)
  BY <1>2, <1>3, PointerStable
<1>5. Following' = Following /\ Seen' = Seen /\ Len(log) \in Nat
  BY <1>1, <1>2 DEF Following, Seen
<1>6. TypeOK'
  BY <1>1, <1>3 DEF IInv, TypeOK, Event
<1>7. InStep'
  <2>1. (Following => rev \in Nat /\ Seen \in 0..Len(log))'
    BY <1>1, <1>3, <1>5 DEF IInv, InStep
  <2>2. ASSUME NEW t \in Targets
        PROVE  state'[t].rev <= Len(log') /\ (Following => state'[t].rev <= Seen)
    <3>1. state[t].rev \in Nat
      BY DEF IInv, TypeOK, State
    <3> QED
      BY <1>1, <1>3, <1>5, <3>1 DEF IInv, InStep
  <2> QED
    BY <1>5, <2>1, <2>2 DEF InStep
<1>8. ASSUME NEW t \in Targets PROVE PerTarget(t)'
  <2>1. Following => /\ Seen \in 0..Len(log)
                     /\ PointerIn(log', t, Seen) = PointerIn(log, t, Seen)
    BY <1>4 DEF IInv, InStep
  <2>2. ASSUME work[t].pc # "idle"
        PROVE  PointerIn(log', t, work[t].rev) = PointerIn(log, t, work[t].rev)
    BY <1>4, <1>5, <2>1, <2>2 DEF IInv, PerTarget, WorkCurrent
  <2>3. PerTarget(t)
    BY DEF IInv
  <2>4. WorkCurrent(t)'
    BY <1>1, <1>5, <2>1, <2>2, <2>3 DEF PerTarget, WorkCurrent
  <2>5. OkIsCurrent(t)'
    BY <1>1, <1>5, <2>1, <2>3 DEF PerTarget, OkIsCurrent
  <2> QED
    BY <1>1, <2>3, <2>4, <2>5 DEF PerTarget, WorkSaved, WorkDone
<1>9. StateTruthful'
  <2>1. \A t \in Targets : state[t].rev \in 0..Len(log)
    BY <1>5 DEF IInv, InStep, TypeOK, State
  <2> QED
    BY <1>1, <1>4, <2>1, TruthView DEF IInv
<1> QED
  BY <1>6, <1>7, <1>8, <1>9 DEF IInv

(* Steps that only the loop and the faults notice. *)
LEMMA QuietInv ==
    ASSUME IInv, UNCHANGED <<log, pc, rev, work, hostVars>>,
           compacted' \in Nat, stopping' \in BOOLEAN, faults' \in Nat
    PROVE  IInv'
<1>1. Following' = Following /\ Seen' = Seen
  BY DEF Following, Seen
<1>2. TypeOK' /\ InStep'
  BY <1>1 DEF IInv, TypeOK, InStep, hostVars
<1>3. \A t \in Targets : PerTarget(t)'
  BY <1>1 DEF IInv, PerTarget, WorkCurrent, WorkSaved, WorkDone, OkIsCurrent, hostVars
<1>4. StateTruthful'
  BY TruthView DEF IInv, hostVars
<1> QED
  BY <1>2, <1>3, <1>4 DEF IInv

LEMMA SnapshotInv == ASSUME IInv, SnapshotActive PROVE IInv'
<1>1. /\ UNCHANGED <<log, compacted, stopping, current, state, loaded, faults>>
      /\ pc' = "reconcile" /\ rev' = Len(log)
  BY DEF SnapshotActive, remoteVars, hostVars
<1>2. TypeOK /\ log \in Seq(Event) /\ Len(log) \in Nat
  BY DEF IInv, TypeOK, Event
<1>3. Following' /\ Seen' = Len(log)
  BY <1>1 DEF Following, Seen
<1>4. TypeOK'
  <2>1. work' \in [Targets -> Work]
    <3>1. work' = [t \in Targets |-> work'[t]]
      BY DEF SnapshotActive
    <3>2. \A t \in Targets : work'[t] \in Work
      BY <1>2, SnapshotType
    <3> QED
      BY <3>1, <3>2
  <2> QED
    BY <1>1, <1>2, <2>1 DEF TypeOK, Phase
<1>5. InStep'
  BY <1>1, <1>2, <1>3 DEF IInv, InStep
<1>6. ASSUME NEW t \in Targets PROVE PerTarget(t)'
  <2> DEFINE p == PointerIn(log, t, Len(log))
  <2>1. p \in Gens \cup {None} /\ work'[t] = Reconcile(t, p, Len(log))
    BY <1>2, SnapshotType
  <2>2. PointerIn(log', t, Seen') = p /\ state'[t].rev <= Len(log)
    BY <1>1, <1>3 DEF IInv, InStep
  <2> HIDE DEF p
  <2>3. CASE p = None
    <3>1. work'[t].pc = "idle"
      BY <2>1, <2>3 DEF Reconcile, HandleDelete, Idle
    <3> QED
      BY <2>2, <2>3, <3>1 DEF PerTarget, WorkCurrent, WorkSaved, WorkDone, OkIsCurrent
  <2>4. CASE p # None
    <3>1. /\ work'[t].pc = "queued" /\ work'[t].gen = p /\ work'[t].rev = Len(log)
          /\ p \in Gens
      BY <2>1, <2>4 DEF Reconcile, Queued, Idle
    <3>2. WorkCurrent(t)'
      BY <1>1, <1>2, <1>3, <2>2, <3>1 DEF WorkCurrent
    <3> QED
      BY <3>1, <3>2 DEF PerTarget, WorkSaved, WorkDone, OkIsCurrent
  <2> QED
    BY <2>3, <2>4
<1>7. StateTruthful'
  BY <1>1, TruthView DEF IInv
<1> QED
  BY <1>4, <1>5, <1>6, <1>7 DEF IInv

LEMMA WatchActiveInv == ASSUME IInv, WatchActive PROVE IInv'
<1>1. /\ UNCHANGED <<log, compacted, stopping, work, current, state, loaded, faults>>
      /\ pc = "reconcile" /\ pc' = "watch" /\ rev' = rev + 1
  BY DEF WatchActive, remoteVars, hostVars
<1>2. Following /\ Following' /\ rev \in Nat
  BY <1>1 DEF IInv, TypeOK, Following
<1>3. Seen' = Seen
  BY <1>1, <1>2 DEF Seen
<1>4. TypeOK' /\ InStep'
  BY <1>1, <1>2, <1>3 DEF IInv, TypeOK, InStep, Phase
<1>5. \A t \in Targets : PerTarget(t)'
  BY <1>1, <1>2, <1>3 DEF IInv, PerTarget, WorkCurrent, WorkSaved, WorkDone, OkIsCurrent
<1>6. StateTruthful'
  BY <1>1, TruthView DEF IInv
<1> QED
  BY <1>4, <1>5, <1>6 DEF IInv

LEMMA WatchEventInv == ASSUME IInv, WatchEvent PROVE IInv'
<1> DEFINE event == log[rev]
<1>1. /\ UNCHANGED <<log, compacted, pc, stopping, current, state, loaded, faults>>
      /\ pc = "watch" /\ rev' = rev + 1 /\ AllIdle
      /\ rev <= Len(log) /\ event.gen \notin Unsafe
  BY DEF WatchEvent, remoteVars, hostVars
<1>2. TypeOK /\ log \in Seq(Event) /\ Len(log) \in Nat
  BY DEF IInv, TypeOK, Event
<1>3. Following /\ Following' /\ Seen = rev - 1 /\ Seen' = rev /\ rev \in 1..Len(log)
  <2>1. Following /\ Following' /\ rev \in Nat /\ Seen = rev - 1 /\ Seen' = rev + 1 - 1
    BY <1>1, <1>2 DEF Following, Seen, TypeOK
  <2>2. rev - 1 \in 0..Len(log)
    BY <2>1 DEF IInv, InStep
  <2> QED
    BY <1>1, <1>2, <2>1, <2>2
<1>4. event \in Event
  BY <1>2, <1>3
<1>5. event.gen \in Gens \cup {None}
  BY <1>1, <1>4 DEF Event
<1>6. \A t \in Targets : PointerIn(log, t, rev) = IF event.target = t THEN event.gen
                                                   ELSE PointerIn(log, t, rev - 1)
  BY <1>2, <1>3, PointerAfter
<1> HIDE DEF event
<1>7. /\ work' \in [Targets -> Work]
      /\ \A t \in Targets : work'[t] = IF event.target = t THEN Reconcile(t, event.gen, rev)
                                       ELSE work[t]
  <2>1. CASE event.target \notin Targets /\ UNCHANGED work
    BY <1>2, <2>1 DEF TypeOK
  <2>2. CASE /\ event.target \in Targets
             /\ work' = [work EXCEPT ![event.target] = Reconcile(event.target, event.gen, rev)]
    <3>1. Reconcile(event.target, event.gen, rev) \in Work
      BY <1>3, <1>5, <2>2, ReconcileType
    <3> QED
      BY <1>2, <2>2, <3>1, WorkView
  <2> QED
    BY <2>1, <2>2 DEF WatchEvent, event
<1>8. TypeOK'
  BY <1>1, <1>2, <1>3, <1>7 DEF TypeOK
<1>9. InStep'
  <2>1. \A t \in Targets : state[t].rev \in Nat
    BY <1>2 DEF TypeOK, State
  <2> QED
    BY <1>1, <1>2, <1>3, <2>1 DEF IInv, InStep
<1>10. ASSUME NEW t \in Targets PROVE PerTarget(t)'
  <2>1. PerTarget(t) /\ work[t].pc = "idle"
    BY <1>1 DEF IInv, AllIdle
  <2>2. CASE event.target # t
    <3>1. work'[t] = work[t] /\ PointerIn(log', t, Seen') = PointerIn(log, t, Seen)
      BY <1>1, <1>3, <1>6, <1>7, <2>2
    <3> QED
      BY <1>1, <1>3, <2>1, <3>1
         DEF PerTarget, WorkCurrent, WorkSaved, WorkDone, OkIsCurrent
  <2>3. CASE event.target = t /\ event.gen = None
    <3>1. work'[t].pc = "idle"
      BY <1>7, <2>3 DEF Reconcile, HandleDelete, Idle
    <3>2. PointerIn(log', t, Seen') = None
      BY <1>1, <1>3, <1>6, <2>3
    <3> QED
      BY <3>1, <3>2 DEF PerTarget, WorkCurrent, WorkSaved, WorkDone, OkIsCurrent
  <2>4. CASE event.target = t /\ event.gen # None
    <3>1. work'[t].pc = "queued" /\ work'[t].gen = event.gen /\ work'[t].rev = rev
      BY <1>7, <2>4 DEF Reconcile, Queued, Idle
    <3>2. PointerIn(log', t, Seen') = event.gen /\ Seen' = rev /\ event.gen \in Gens
      BY <1>1, <1>3, <1>5, <1>6, <2>4
    <3>3. state'[t].rev <= rev
      <4>1. state[t].rev \in Nat /\ state[t].rev <= rev - 1
        BY <1>2, <1>3 DEF IInv, InStep, TypeOK, State
      <4> QED
        BY <1>1, <1>3, <4>1
    <3>4. WorkCurrent(t)'
      BY <1>1, <1>3, <3>1, <3>2, <3>3 DEF WorkCurrent
    <3> QED
      BY <3>1, <3>4 DEF PerTarget, WorkSaved, WorkDone, OkIsCurrent
  <2> QED
    BY <2>2, <2>3, <2>4
<1>11. StateTruthful'
  BY <1>1, TruthView DEF IInv
<1> QED
  BY <1>8, <1>9, <1>10, <1>11 DEF IInv
LEMMA ProcessInv ==
    ASSUME IInv, Terminate \/ Exit \/ Crash \/ Start
    PROVE  IInv'
<1>1. TypeOK
  BY DEF IInv
<1>2. CASE Terminate
  <2>1. /\ UNCHANGED <<log, pc, rev, work, hostVars>> /\ compacted' \in Nat
        /\ stopping' \in BOOLEAN /\ faults' \in Nat
    BY <1>1, <1>2, FaultType DEF Terminate, remoteVars, TypeOK
  <2> QED
    BY <2>1, QuietInv
<1>3. ASSUME work' = [t \in Targets |-> Idle("none")]
      PROVE  /\ work' \in [Targets -> Work]
             /\ \A t \in Targets : work'[t].pc = "idle"
  <2>1. Idle("none") \in Work /\ Idle("none").pc = "idle"
    BY IdleType DEF Idle, Result
  <2> HIDE DEF Idle
  <2> QED
    BY <1>3, <2>1
<1>4. CASE Exit
  <2>1. /\ UNCHANGED <<log, compacted, current, state, loaded, faults>>
        /\ pc' = "down" /\ stopping' = FALSE /\ rev' = 0
        /\ work' = [t \in Targets |-> Idle("none")]
    BY <1>4 DEF Exit, remoteVars, hostVars
  <2>2. TypeOK'
    BY <1>1, <1>3, <2>1 DEF TypeOK, Phase
  <2> QED
    BY <1>3, <2>1, <2>2, NoRun
<1>5. CASE Crash
  <2>1. /\ UNCHANGED <<log, compacted, current, state>> /\ faults' \in Nat
        /\ pc' = "down" /\ stopping' = FALSE /\ rev' = 0
        /\ work' = [t \in Targets |-> Idle("none")]
        /\ loaded' \in [Targets -> Gens \cup {None}]
    BY <1>1, <1>5, FaultType DEF Crash, remoteVars
  <2>2. TypeOK'
    BY <1>1, <1>3, <2>1 DEF TypeOK, Phase
  <2> QED
    BY <1>3, <2>1, <2>2, NoRun
<1>6. CASE Start
  <2>1. /\ UNCHANGED <<log, compacted, stopping, rev, work, current, state, loaded, faults>>
        /\ pc = "down" /\ pc' = "snapshot"
    BY <1>6 DEF Start, remoteVars, hostVars
  <2>2. TypeOK'
    BY <1>1, <2>1 DEF TypeOK, Phase
  <2>3. \A t \in Targets : work[t].pc = "idle"
    BY <2>1 DEF IInv, PerTarget, WorkCurrent, Following
  <2> QED
    BY <2>1, <2>2, <2>3, NoRun
<1> QED
  BY <1>2, <1>4, <1>5, <1>6

LEMMA RestartInv ==
    ASSUME IInv, Restart, faults' \in Nat
    PROVE  IInv'
<1>1. /\ UNCHANGED <<log, compacted, stopping, rev, work, current, state, loaded>>
      /\ pc' = "snapshot" /\ AllIdle
  BY DEF Restart, remoteVars, hostVars
<1>2. TypeOK'
  BY <1>1 DEF IInv, TypeOK, Phase
<1> QED
  BY <1>1, <1>2, NoRun DEF AllIdle

LEMMA NextInv == ASSUME IInv, [Next]_vars PROVE IInv'
<1>1. TypeOK
  BY DEF IInv
<1>2. CASE \E t \in Targets \cup Others, g \in Gens \cup Unsafe \cup {None} : Publish(t, g)
  BY <1>2, PublishInv
<1>3. CASE Compact
  <2>1. UNCHANGED <<log, pc, stopping, rev, work, hostVars, faults>> /\ compacted' = Len(log)
    BY <1>3 DEF Compact, processVars
  <2>2. compacted' \in Nat /\ stopping' \in BOOLEAN /\ faults' \in Nat
    BY <1>1, <2>1 DEF TypeOK
  <2> QED
    BY <2>1, <2>2, QuietInv
<1>4. CASE SnapshotActive
  BY <1>4, SnapshotInv
<1>5. CASE WatchActive
  BY <1>5, WatchActiveInv
<1>6. CASE WatchEvent
  BY <1>6, WatchEventInv
<1>7. CASE ResyncTimer \/ WatchFails \/ WatchUnsafe \/ WatchCompacted
  <2>1. Restart /\ faults' \in Nat
    BY <1>1, <1>7, FaultType
       DEF ResyncTimer, WatchFails, WatchUnsafe, WatchCompacted, TypeOK
  <2> QED
    BY <2>1, RestartInv
<1>8. CASE \E t \in Targets : ReconcileStep(t)
  BY <1>8, ReconcileStepInv
<1>9. CASE Terminate \/ Exit \/ Crash \/ Start
  BY <1>9, ProcessInv
<1>10. CASE UNCHANGED vars
  <2>1. /\ UNCHANGED <<log, compacted, pc, stopping, rev, work, hostVars, faults>>
    BY <1>10 DEF vars, remoteVars, processVars
  <2> QED
    BY <1>1, <2>1, QuietInv DEF TypeOK
<1> QED
  BY <1>2, <1>3, <1>4, <1>5, <1>6, <1>7, <1>8, <1>9, <1>10 DEF Next

THEOREM Invariance == Spec => []IInv
<1>1. Init => IInv
  BY InitInv
<1>2. IInv /\ [Next]_vars => IInv'
  BY NextInv
<1> QED
  BY <1>1, <1>2, PTL DEF Spec

-----------------------------------------------------------------------------
(* The variables keep their shape, and no pointer value that is not a safe *)
(* name gets into the work, the release or the state file of a target.     *)
THEOREM TypeCorrect == Spec => []TypeOK
<1>1. IInv => TypeOK
  BY DEF IInv
<1> QED
  BY <1>1, Invariance, PTL

(* What a state file says of the remote pointer was true at its revision.  *)
THEOREM StateIsTruthful == Spec => []StateTruthful
<1>1. IInv => StateTruthful
  BY DEF IInv
<1> QED
  BY <1>1, Invariance, PTL

(* An agent that has received every event has the release of its pointer   *)
(* in place for each target whose last reconcile succeeded.                *)
THEOREM WatchIsLossless == Spec => []LosslessWatch
<1>1. ASSUME IInv PROVE LosslessWatch
  <2> SUFFICES ASSUME NEW t \in Targets,
                      pc = "watch", AllIdle, rev > Len(log), work[t].result = "ok",
                      PointerAt(t, Len(log)) # None
               PROVE  current[t] = PointerAt(t, Len(log))
    BY DEF LosslessWatch
  <2>1. rev \in Nat /\ Len(log) \in Nat /\ Following
    BY <1>1 DEF IInv, TypeOK, Following
  <2>2. Seen = Len(log)
    BY <1>1, <2>1 DEF IInv, InStep, Seen
  <2>3. PointerIn(log, t, Len(log)) \in {None, current[t]}
    BY <1>1, <2>1, <2>2 DEF IInv, PerTarget, OkIsCurrent, AllIdle
  <2> QED
    BY <2>3, PointerIsAt
<1> QED
  BY <1>1, Invariance, PTL

(* Only the last step of a reconcile writes a state file. *)
LEMMA StateWrites ==
    ASSUME TypeOK, [Next]_vars, NEW t \in Targets, state'[t] # state[t]
    PROVE  /\ work[t].pc = "save"
           /\ state'[t].gen = work[t].gen
           /\ state'[t].rev = work[t].rev
           /\ state'[t].hookError = work[t].hookError
<1>1. PICK s \in Targets : SaveState(s)
  BY DEF Next, vars, Publish, Compact, SnapshotActive, WatchActive, WatchEvent, Restart,
         ResyncTimer, WatchFails, WatchUnsafe, WatchCompacted, ReconcileStep,
         AcquireSemaphore, FetchBundle, LoadState, Activate, RunHook, Terminate, Exit,
         Crash, Start, hostVars
<1> DEFINE saved == [gen |-> work[s].gen, rev |-> work[s].rev, hookError |-> work[s].hookError]
<1>2. /\ work[s].pc = "save"
      /\ state' \in {state, [state EXCEPT ![s] = saved]}
  BY <1>1 DEF SaveState
<1>3. s = t /\ state'[s] = saved
  <2> HIDE DEF saved
  <2> QED
    BY <1>2 DEF TypeOK
<1> QED
  BY <1>2, <1>3

(* The revision in a state file never goes back. *)
THEOREM StateIsMonotone == Spec => StateMonotone
<1>1. ASSUME IInv, [Next]_vars, NEW t \in Targets PROVE state'[t].rev >= state[t].rev
  <2>1. TypeOK /\ state[t].rev \in Nat /\ PerTarget(t)
    BY <1>1 DEF IInv, TypeOK, State
  <2>2. CASE state'[t] = state[t]
    BY <2>1, <2>2
  <2>3. CASE state'[t] # state[t]
    <3>1. work[t].pc = "save" /\ state'[t].rev = work[t].rev
      BY <1>1, <2>1, <2>3, StateWrites
    <3> QED
      BY <2>1, <3>1 DEF PerTarget, WorkCurrent
  <2> QED
    BY <2>2, <2>3
<1>2. IInv /\ [Next]_vars => [\A t \in Targets : state'[t].rev >= state[t].rev]_vars
  BY <1>1
<1> QED
  BY <1>2, Invariance, PTL DEF Spec, StateMonotone

(* A hook failure leaves the state file only once the service has loaded   *)
(* the release that is current.                                            *)
THEOREM FailureIsRetried == Spec => RecordedFailureRetried
<1>1. ASSUME IInv, [Next]_vars, NEW t \in Targets, state[t].hookError, ~state'[t].hookError
      PROVE  loaded[t] = current[t]
  <2>1. TypeOK /\ PerTarget(t)
    BY <1>1 DEF IInv
  <2>2. work[t].pc = "save" /\ ~work[t].hookError
    <3>1. state'[t] # state[t]
      BY <1>1
    <3>2. state'[t].hookError = work[t].hookError /\ work[t].pc = "save"
      BY <1>1, <2>1, <3>1, StateWrites
    <3> QED
      BY <1>1, <3>2
  <2> QED
    BY <1>1, <2>1, <2>2 DEF PerTarget, WorkSaved, WorkDone
<1>2. IInv /\ [Next]_vars =>
          [\A t \in Targets : state[t].hookError /\ ~state'[t].hookError
                                  => loaded[t] = current[t]]_vars
  BY <1>1
<1> QED
  BY <1>2, Invariance, PTL DEF Spec, RecordedFailureRetried
-----------------------------------------------------------------------------
(* Hooks, where activation fails cleanly, a state file is either saved or  *)
(* reported as not saved, and the process is not killed.                   *)
CleanFaults == FaultKinds \cap {"prune", "save", "crash"} = {}

(* A release that nobody is about to reload, and no failure on record, has *)
(* been loaded; and a reconcile that saves a success has loaded it.        *)
Served(t) ==
    /\ work[t].pc \notin {"hook", "save"} /\ ~state[t].hookError
           => current[t] \in {None, loaded[t]}
    /\ work[t].pc = "save" /\ ~work[t].hookError => loaded[t] = current[t]

(* What a step may do to one target. *)
LEMMA OneAtATime ==
    ASSUME CleanFaults, IInv, [Next]_vars, NEW t \in Targets
    PROVE  \/ UNCHANGED <<work[t], current[t], loaded[t], state[t]>>
           \/ ReconcileStep(t)
           \/ /\ UNCHANGED <<current, loaded, state>>
              /\ work[t].pc = "idle" /\ work'[t].pc \in {"idle", "queued"}
<1>1. TypeOK
  BY DEF IInv
<1>2. \A s \in Targets : \A g, r : Reconcile(s, g, r).pc \in {"idle", "queued"}
  BY DEF Reconcile, HandleDelete, Queued, Idle
<1>3. ~Following => work[t].pc = "idle"
  BY DEF IInv, PerTarget, WorkCurrent
<1>4. ASSUME NEW s \in Targets, ReconcileStep(s), s # t
      PROVE  UNCHANGED <<work[t], current[t], loaded[t], state[t]>>
  <2>1. /\ work' = work \/ \E w : work' = [work EXCEPT ![s] = w]
        /\ current' = current \/ \E w : current' = [current EXCEPT ![s] = w]
        /\ loaded' = loaded \/ \E w : loaded' = [loaded EXCEPT ![s] = w]
        /\ state' = state \/ \E w : state' = [state EXCEPT ![s] = w]
    <3>1. CASE AcquireSemaphore(s) \/ FetchBundle(s)
      BY <3>1 DEF AcquireSemaphore, FetchBundle, StepTo, Return, hostVars
    <3>2. CASE LoadState(s)
      BY <3>2 DEF LoadState, Return, hostVars
    <3>3. CASE Activate(s)
      BY <3>3 DEF Activate, StepTo, Return
    <3>4. CASE RunHook(s)
      BY <3>4 DEF RunHook, StepTo, HookFailed
    <3>5. CASE SaveState(s)
      BY <3>5 DEF SaveState, Return
    <3> QED
      BY <1>4, <3>1, <3>2, <3>3, <3>4, <3>5 DEF ReconcileStep
  <2> QED
    BY <1>1, <1>4, <2>1 DEF TypeOK
<1>5. CASE SnapshotActive
  <2>1. ~Following /\ UNCHANGED <<current, loaded, state>>
    BY <1>5 DEF SnapshotActive, Following, hostVars
  <2> QED
    BY <1>2, <1>3, <1>5, <2>1 DEF SnapshotActive
<1>6. CASE WatchEvent
  <2>1. AllIdle /\ UNCHANGED <<current, loaded, state>>
    BY <1>6 DEF WatchEvent, hostVars
  <2>2. \/ UNCHANGED work
        \/ work' = [work EXCEPT ![log[rev].target] =
                        Reconcile(log[rev].target, log[rev].gen, rev)]
           /\ log[rev].target \in Targets
    BY <1>6 DEF WatchEvent
  <2>3. work'[t] = work[t] \/ work'[t].pc \in {"idle", "queued"}
    BY <1>1, <1>2, <2>2 DEF TypeOK
  <2> QED
    BY <2>1, <2>3 DEF AllIdle
<1>7. CASE Exit
  <2>1. /\ AllIdle /\ UNCHANGED <<current, loaded, state>>
        /\ work' = [s \in Targets |-> Idle("none")]
    BY <1>7 DEF Exit, hostVars
  <2> QED
    BY <2>1 DEF AllIdle, Idle
<1>8. ~Crash
  BY DEF Crash, Fault, CleanFaults
<1>9. CASE \/ \E s \in Targets \cup Others, g \in Gens \cup Unsafe \cup {None} : Publish(s, g)
           \/ Compact \/ WatchActive \/ ResyncTimer \/ WatchFails \/ WatchUnsafe
           \/ WatchCompacted \/ Terminate \/ Start \/ UNCHANGED vars
  BY <1>9 DEF Publish, Compact, WatchActive, Restart, ResyncTimer, WatchFails, WatchUnsafe,
              WatchCompacted, Terminate, Start, vars, processVars, hostVars
<1> QED
  BY <1>4, <1>5, <1>6, <1>7, <1>8, <1>9 DEF Next

(* A target whose service, release, state file and reconcile stay.         *)
LEMMA ServedStays ==
    ASSUME NEW t \in Targets, Served(t), work'[t].pc \notin {"hook", "save"},
           work[t].pc \notin {"hook", "save"},
           UNCHANGED <<current[t], loaded[t], state[t]>>
    PROVE  Served(t)'
BY DEF Served

LEMMA ServedStep ==
    ASSUME CleanFaults, IInv, NEW t \in Targets, Served(t), ReconcileStep(t)
    PROVE  Served(t)'
<1>1. TypeOK /\ PerTarget(t) /\ work[t] \in Work
  BY DEF IInv, TypeOK
<1>2. ~Fault("prune") /\ ~Fault("save")
  BY DEF CleanFaults, Fault
<1>3. ASSUME NEW result \in Result, Return(t, result) PROVE work'[t].pc = "idle"
  <2>1. work'[t] = Idle(result)
    BY <1>1, <1>3, ReturnView
  <2> QED
    BY <2>1 DEF Idle
<1>4. ASSUME NEW step \in WorkStep, StepTo(t, step)
      PROVE  work'[t].pc = step /\ work'[t].hookError = work[t].hookError
  BY <1>1, <1>4, StepToView DEF Work
<1>5. CASE AcquireSemaphore(t) \/ FetchBundle(t) \/ LoadState(t)
  <2>1. UNCHANGED hostVars /\ work[t].pc \in {"queued", "fetch", "load"}
    BY <1>5 DEF AcquireSemaphore, FetchBundle, LoadState
  <2>2. work'[t].pc \notin {"hook", "save"}
    <3>1. CASE work' = [work EXCEPT ![t].saved = state[t], ![t].pc = "activate"]
      BY <1>1, <3>1 DEF TypeOK, Work
    <3>2. CASE Return(t, "error")
      BY <1>3, <3>2 DEF Result
    <3>3. CASE StepTo(t, "fetch") \/ StepTo(t, "load")
      BY <1>4, <3>3 DEF WorkStep
    <3> QED
      BY <1>5, <3>1, <3>2, <3>3 DEF AcquireSemaphore, FetchBundle, LoadState
  <2> QED
    BY <2>1, <2>2, ServedStays DEF hostVars
<1>6. CASE Activate(t)
  <2>1. UNCHANGED <<state, loaded>> /\ work[t].pc = "activate" /\ work[t].saved = state[t]
    BY <1>1, <1>6 DEF Activate, PerTarget, WorkSaved
  <2>2. CASE HookDue(t) /\ StepTo(t, "hook")
    BY <1>4, <2>2 DEF Served, WorkStep
  <2>3. CASE /\ current' = [current EXCEPT ![t] = work[t].gen]
             /\ ~HookDue(t)
             /\ StepTo(t, "save") \/ Return(t, "ok")
    <3>1. current'[t] = current[t] /\ ~state[t].hookError /\ current[t] \in Gens
      BY <1>1, <2>1, <2>3 DEF HookDue, TypeOK, PerTarget, WorkCurrent
    <3>2. loaded[t] = current[t]
      BY <2>1, <3>1, AgentAssumption DEF Served
    <3> QED
      BY <2>1, <3>1, <3>2 DEF Served
  <2>4. CASE UNCHANGED current /\ Return(t, "error")
    <3>1. work'[t].pc = "idle"
      BY <1>3, <2>4 DEF Result
    <3> QED
      BY <2>1, <2>4, <3>1, ServedStays
  <2> QED
    BY <1>2, <1>6, <2>2, <2>3, <2>4 DEF Activate
<1>7. CASE RunHook(t)
  <2>1. UNCHANGED <<current, state>> /\ work[t].pc = "hook"
    BY <1>7 DEF RunHook
  <2>2. CASE StepTo(t, "save") /\ loaded' = [loaded EXCEPT ![t] = current[t]]
    <3>1. loaded'[t] = current[t] /\ work'[t].pc = "save"
      BY <1>1, <1>4, <2>2 DEF TypeOK, WorkStep
    <3> QED
      BY <2>1, <3>1 DEF Served
  <2>3. CASE HookFailed(t)
    <3>1. work'[t].pc = "save" /\ work'[t].hookError
      BY <1>1, <2>3 DEF HookFailed, TypeOK, Work
    <3> QED
      BY <3>1 DEF Served
  <2> QED
    BY <1>7, <2>2, <2>3 DEF RunHook
<1>8. CASE SaveState(t)
  <2> DEFINE saved == [gen |-> work[t].gen, rev |-> work[t].rev, hookError |-> work[t].hookError]
  <2>1. /\ UNCHANGED <<current, loaded>> /\ work[t].pc = "save"
        /\ state' = [state EXCEPT ![t] = saved]
        /\ Return(t, IF work[t].hookError THEN "error" ELSE "ok")
    BY <1>2, <1>8 DEF SaveState
  <2>2. state'[t].hookError = work[t].hookError
    BY <1>1, <2>1 DEF TypeOK
  <2>3. work'[t].pc = "idle"
    BY <1>3, <2>1 DEF Result
  <2> QED
    BY <2>1, <2>2, <2>3 DEF Served
<1> QED
  BY <1>5, <1>6, <1>7, <1>8 DEF ReconcileStep

(* "The hook runs after the switch; a failure is recorded in the state and *)
(* retried" holds of such a host over any number of failed fetches, loads, *)
(* activations, hooks, watches and SIGTERMs.                               *)
THEOREM HooksAreServed == CleanFaults => (Spec => []HookServed)
<1> SUFFICES ASSUME CleanFaults PROVE Spec => []HookServed
  OBVIOUS
<1> DEFINE SInv == \A t \in Targets : Served(t)
<1>1. Init => SInv
  BY DEF Init, Served, Idle
<1>2. ASSUME SInv, IInv, [Next]_vars PROVE SInv'
  <2>1. ASSUME NEW t \in Targets PROVE Served(t)'
    <3>1. CASE UNCHANGED <<work[t], current[t], loaded[t], state[t]>>
      BY <1>2, <3>1 DEF Served
    <3>2. CASE ReconcileStep(t)
      BY <1>2, <3>2, ServedStep
    <3>3. CASE /\ UNCHANGED <<current, loaded, state>>
               /\ work[t].pc = "idle" /\ work'[t].pc \in {"idle", "queued"}
      BY <1>2, <3>3, ServedStays
    <3> QED
      BY <1>2, <3>1, <3>2, <3>3, OneAtATime
  <2> QED
    BY <2>1
<1>3. IInv /\ SInv => HookServed
  BY DEF Served, HookServed
<1> HIDE DEF SInv
<1> QED
  BY <1>1, <1>2, <1>3, Invariance, PTL DEF Spec

=============================================================================
