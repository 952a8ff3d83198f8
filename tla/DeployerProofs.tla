--------------------------- MODULE DeployerProofs ---------------------------
(***************************************************************************)
(* Proofs about Deployer, for any generations, files, agents and seed      *)
(* commands of an output root, any retention, and any bounds.              *)
(***************************************************************************)
EXTENDS Deployer, FiniteSetTheorems, TLAPS

(* Where an activation is: it holds the lock, and what its last steps have *)
(* put in place is still there.                                            *)
Holding(p) ==
    /\ proc[p].pc = "out" => proc[p] = Exited
    /\ proc[p].pc # "out" => locked = p
    /\ proc[p].pc \notin {"out", "idle"} => proc[p].want \in Gens /\ proc[p].result = "none"

Preparing(p) ==
    /\ proc[p].pc \in {"write", "sync", "commit"} => proc[p].want \notin present
    /\ proc[p].pc \in {"sync", "commit"} => proc[p].staged = Files
    /\ proc[p].pc \in {"commit", "syncReleases"} => proc[p].synced
    /\ proc[p].pc \in {"syncReleases", "unlink", "symlink", "swap"} => Intact(proc[p].want)

Switching(p) ==
    /\ proc[p].pc = "symlink" => temp = None
    /\ proc[p].pc = "swap" => temp = proc[p].want
    /\ proc[p].pc \in {"syncRoot", "scan", "prune"} => current = proc[p].want
    /\ proc[p].pc \in {"scan", "prune"} => saved = current

(* What is left when the victims are gone. *)
Pruning(p) ==
    proc[p].pc = "prune" =>
        /\ proc[p].victims \subseteq present \ {proc[p].want}
        /\ Cardinality((present \ {proc[p].want}) \ proc[p].victims) <= Retain

Reported(p) ==
    /\ proc[p].result \in {"unchanged", "switched"} =>
          proc[p].pc = "idle" /\ current = proc[p].want
    /\ proc[p].result = "switched" => Cardinality(present \ {current}) <= Retain

Doing(p) ==
    /\ Holding(p)
    /\ Preparing(p)
    /\ Switching(p)
    /\ Pruning(p)
    /\ Reported(p)

IInv == TypeOK /\ \A p \in Processes : Doing(p)

-----------------------------------------------------------------------------
(* Types. *)
Activity == [pc : Step, want : Gens \cup {None}, staged : SUBSET Files, synced : BOOLEAN,
             victims : SUBSET Gens, result : Result]
Budget == [goals : 0..MaxGoals, seeds : 0..MaxSeeds, faults : 0..MaxFaults]

StoreType ==
    /\ home \in Home
    /\ present \subseteq Gens
    /\ content \in [Gens -> SUBSET Files]
    /\ onDisk \subseteq Gens
    /\ stored \in [Gens -> SUBSET Files]
    /\ age \in [Gens -> Nat]
    /\ \A g, h \in Gens : age[g] = age[h] => g = h

LEMMA TypeView ==
    /\ TypeOK <=> /\ locked \in Processes \cup {None}
                  /\ proc \in [Processes -> Activity]
                  /\ StoreType
                  /\ {temp, current, saved} \subseteq Gens \cup {None}
                  /\ goal \in Gens
                  /\ budget \in Budget
    /\ TypeOK' <=> /\ locked' \in Processes \cup {None}
                   /\ proc' \in [Processes -> Activity]
                   /\ StoreType'
                   /\ {temp', current', saved'} \subseteq Gens \cup {None}
                   /\ goal' \in Gens
                   /\ budget' \in Budget
BY DEF TypeOK, StoreType, Activity, Budget

LEMMA QuietType ==
    ASSUME NEW step \in Step, NEW g \in Gens \cup {None}, NEW result \in Result
    PROVE  Quiet(step, g, result) \in Activity
BY DEF Quiet, Activity

LEMMA ExitedType == Exited \in Activity
BY QuietType DEF Exited, Step, Result

(* What the helpers make of the activations. *)
LEMMA ProcView ==
    ASSUME TypeOK, NEW p \in Processes, NEW w \in Activity, proc' = [proc EXCEPT ![p] = w]
    PROVE  /\ proc' \in [Processes -> Activity]
           /\ proc'[p] = w
           /\ \A q \in Processes : q # p => proc'[q] = proc[q]
BY TypeView

LEMMA StepToView ==
    ASSUME TypeOK, NEW p \in Processes, NEW step \in Step, StepTo(p, step)
    PROVE  /\ proc' \in [Processes -> Activity]
           /\ proc'[p] = [proc[p] EXCEPT !.pc = step]
           /\ \A q \in Processes : q # p => proc'[q] = proc[q]
<1>1. [proc[p] EXCEPT !.pc = step] \in Activity
  BY TypeView DEF Activity
<1>2. proc' = [proc EXCEPT ![p] = [proc[p] EXCEPT !.pc = step]]
  BY TypeView DEF StepTo
<1> QED
  BY <1>1, <1>2, ProcView

LEMMA ReturnView ==
    ASSUME TypeOK, NEW p \in Processes, NEW g \in Gens \cup {None}, NEW result \in Result,
           Return(p, g, result)
    PROVE  /\ proc' \in [Processes -> Activity]
           /\ proc'[p] = Quiet("idle", g, result)
           /\ \A q \in Processes : q # p => proc'[q] = proc[q]
BY QuietType, ProcView DEF Return, Step

LEMMA BeginView ==
    ASSUME TypeOK, NEW p \in Processes, NEW g \in Gens, NEW step \in Step, Begin(p, g, step)
    PROVE  /\ proc' \in [Processes -> Activity]
           /\ proc'[p] = Quiet(step, g, "none")
           /\ \A q \in Processes : q # p => proc'[q] = proc[q]
BY QuietType, ProcView DEF Begin, Result

(* Ages stay distinct when one release becomes the newest. *)
LEMMA TouchType ==
    ASSUME StoreType, NEW k \in Gens
    PROVE  /\ Touch(k) \in [Gens -> Nat]
           /\ \A g, h \in Gens : Touch(k)[g] = Touch(k)[h] => g = h
<1>1. \A g \in Gens : age[g] \in Nat
  BY DEF StoreType
<1>2. \A g \in Gens : Touch(k)[g] = IF g = k THEN 0
                                    ELSE IF age[g] < age[k] THEN age[g] + 1 ELSE age[g]
  BY DEF Touch
<1>3. Touch(k) \in [Gens -> Nat]
  BY <1>1 DEF Touch
<1>4. ASSUME NEW g \in Gens, NEW h \in Gens, Touch(k)[g] = Touch(k)[h] PROVE g = h
  <2>1. g # k => age[g] # age[k]
    BY DEF StoreType
  <2>2. h # k => age[h] # age[k]
    BY DEF StoreType
  <2>3. g = h \/ age[g] # age[h]
    BY DEF StoreType
  <2> QED
    BY <1>1, <1>2, <1>4, <2>1, <2>2, <2>3
<1> QED
  BY <1>3, <1>4

LEMMA SpendType ==
    ASSUME budget \in Budget
    PROVE  /\ Spend("goals") /\ budget.goals < MaxGoals => budget' \in Budget
           /\ Spend("seeds") /\ budget.seeds < MaxSeeds => budget' \in Budget
           /\ Spend("faults") /\ budget.faults < MaxFaults =>
                 budget' \in Budget /\ budget'.faults = budget.faults + 1
BY DeployerAssumption DEF Spend, Budget

-----------------------------------------------------------------------------
(* The lock. *)
LEMMA NoneIsNoProcess == None \notin Processes
BY DeployerAssumption

(* Nobody but the holder is at work. *)
LEMMA OnlyHolder ==
    ASSUME IInv, NEW p \in Processes, NEW q \in Processes, p # q, proc[p].pc # "out"
    PROVE  proc[q] = Exited /\ locked = p
BY DEF IInv, Doing, Holding

LEMMA ExitedIsFine ==
    /\ \A q : proc[q] = Exited => Doing(q)
    /\ \A q : proc'[q] = Exited => Doing(q)'
BY DEF Doing, Holding, Preparing, Switching, Pruning, Reported, Exited, Quiet

(* So a step of the holder concerns the holder alone. *)
LEMMA HolderStep ==
    ASSUME IInv, NEW p \in Processes, proc[p].pc # "out", TypeOK', Doing(p)',
           \A q \in Processes : q # p => proc'[q] = proc[q]
    PROVE  IInv'
<1>1. ASSUME NEW q \in Processes, q # p PROVE Doing(q)'
  BY <1>1, OnlyHolder, ExitedIsFine
<1> QED
  BY <1>1 DEF IInv

LEMMA InitInv == Init => IInv
<1> SUFFICES ASSUME Init PROVE IInv
  OBVIOUS
<1>1. proc \in [Processes -> Activity] /\ \A p \in Processes : proc[p] = Exited
  BY ExitedType DEF Init
<1>2. Cardinality(Gens) \in Nat
  BY DeployerAssumption, FS_CardinalityType
<1>3. StoreType
  BY <1>2, DeployerAssumption DEF Init, StoreType, Home
<1>4. budget \in Budget
  BY DeployerAssumption DEF Init, Budget
<1>5. TypeOK
  BY <1>1, <1>3, <1>4, TypeView DEF Init
<1> QED
  BY <1>1, <1>5, ExitedIsFine DEF IInv

LEMMA LockInv == ASSUME IInv, NEW p \in Processes, Lock(p) PROVE IInv'
<1>1. TypeOK /\ \A q \in Processes : Doing(q)
  BY DEF IInv
<1>2. /\ proc[p].pc = "out" /\ locked = None /\ locked' = p /\ StepTo(p, "idle")
      /\ UNCHANGED <<home, present, content, onDisk, stored, age, temp, current, saved, goal>>
  BY DEF Lock, LockTaken, releaseVars, linkVars
<1>3. /\ proc' \in [Processes -> Activity]
      /\ proc'[p] = [proc[p] EXCEPT !.pc = "idle"]
      /\ \A q \in Processes : q # p => proc'[q] = proc[q]
  BY <1>1, <1>2, StepToView DEF Step
<1>4. \A q \in Processes : proc[q] = Exited
  BY <1>1, <1>2, NoneIsNoProcess DEF Doing, Holding
<1>5. budget' \in Budget
  BY <1>1, TypeView, SpendType DEF Lock
<1>6. TypeOK'
  BY <1>1, <1>2, <1>3, <1>5, TypeView DEF StoreType
<1>7. Doing(p)'
  BY <1>2, <1>3, <1>4
     DEF Doing, Holding, Preparing, Switching, Pruning, Reported, Exited, Quiet
<1>8. \A q \in Processes : q # p => Doing(q)'
  BY <1>3, <1>4, ExitedIsFine
<1> QED
  BY <1>6, <1>7, <1>8 DEF IInv

LEMMA UnlockInv == ASSUME IInv, NEW p \in Processes, Unlock(p) PROVE IInv'
<1>1. TypeOK
  BY DEF IInv
<1>2. /\ proc[p].pc = "idle" /\ locked' = None /\ proc' = [proc EXCEPT ![p] = Exited]
      /\ UNCHANGED <<home, present, content, onDisk, stored, age, temp, current, saved, goal,
                     budget>>
  BY DEF Unlock, releaseVars, linkVars
<1>3. /\ proc' \in [Processes -> Activity] /\ proc'[p] = Exited
      /\ \A q \in Processes : q # p => proc'[q] = proc[q]
  BY <1>1, <1>2, ProcView, ExitedType
<1>4. TypeOK'
  BY <1>1, <1>2, <1>3, TypeView DEF StoreType
<1> QED
  BY <1>2, <1>3, <1>4, HolderStep, ExitedIsFine

(* Nothing that an activation relies on changes. *)
LEMMA QuietInv ==
    ASSUME IInv, UNCHANGED <<locked, proc, releaseVars, linkVars>>,
           goal' \in Gens, budget' \in Budget
    PROVE  IInv'
<1>1. UNCHANGED <<locked, proc, home, present, content, onDisk, stored, age, temp, current, saved>>
  BY DEF releaseVars, linkVars
<1>2. TypeOK'
  BY <1>1, TypeView DEF IInv, StoreType
<1>3. ASSUME NEW p \in Processes PROVE Doing(p)'
  <2>1. Doing(p)
    BY DEF IInv
  <2>2. Holding(p)' /\ Preparing(p)'
    BY <1>1, <2>1 DEF Doing, Holding, Preparing, Intact
  <2>3. Switching(p)' /\ Pruning(p)' /\ Reported(p)'
    BY <1>1, <2>1 DEF Doing, Switching, Pruning, Reported
  <2> QED
    BY <2>2, <2>3 DEF Doing
<1> QED
  BY <1>2, <1>3 DEF IInv

(* An activation ends, and what it reports is true. *)
LEMMA ReturnInv ==
    ASSUME IInv, NEW p \in Processes, proc[p].pc # "out",
           NEW g \in Gens \cup {None}, NEW result \in Result, Return(p, g, result),
           UNCHANGED <<locked, present, content, onDisk, stored, age, current, saved>>,
           home' \in Home, temp' \in Gens \cup {None}, goal' \in Gens, budget' \in Budget,
           result \in {"unchanged", "switched"} => current = g,
           result = "switched" => Cardinality(present \ {current}) <= Retain
    PROVE  IInv'
<1>1. TypeOK
  BY DEF IInv
<1>2. /\ proc' \in [Processes -> Activity]
      /\ proc'[p] = Quiet("idle", g, result)
      /\ \A q \in Processes : q # p => proc'[q] = proc[q]
  BY <1>1, ReturnView
<1>3. TypeOK'
  BY <1>1, <1>2, TypeView DEF StoreType
<1>4. locked' = p
  BY DEF IInv, Doing, Holding
<1>5. Doing(p)'
  BY <1>2, <1>4 DEF Doing, Holding, Preparing, Switching, Pruning, Reported, Quiet
<1> QED
  BY <1>2, <1>3, <1>5, HolderStep

LEMMA BeginInv ==
    ASSUME IInv, NEW p \in Processes, proc[p].pc # "out",
           NEW g \in Gens, NEW step \in {"write", "unlink"}, Begin(p, g, step),
           UNCHANGED <<locked, linkVars>>, MakeDirectories, goal' \in Gens, budget' \in Budget,
           step = "write" => g \notin present,
           step = "unlink" => Intact(g)
    PROVE  IInv'
<1>1. TypeOK
  BY DEF IInv
<1>2. /\ UNCHANGED <<present, content, onDisk, stored, age, temp, current, saved>>
      /\ home' \in Home
  BY <1>1, TypeView DEF MakeDirectories, Home, StoreType, linkVars
<1>3. /\ proc' \in [Processes -> Activity]
      /\ proc'[p] = Quiet(step, g, "none")
      /\ \A q \in Processes : q # p => proc'[q] = proc[q]
  BY <1>1, BeginView DEF Step
<1>4. TypeOK'
  BY <1>1, <1>2, <1>3, TypeView DEF StoreType
<1>5. locked' = p
  BY DEF IInv, Doing, Holding
<1>6. Doing(p)'
  BY <1>2, <1>3, <1>5
     DEF Doing, Holding, Preparing, Switching, Pruning, Reported, Quiet, Intact
<1> QED
  BY <1>3, <1>4, <1>6, HolderStep

LEMMA ActivateInv ==
    ASSUME IInv, NEW p \in Processes, NEW g \in Gens, Activate(p, g),
           goal' \in Gens, budget' \in Budget
    PROVE  IInv'
<1>1. TypeOK
  BY DEF IInv
<1>2. /\ proc[p].pc = "idle" /\ UNCHANGED <<locked, linkVars>>
      /\ temp' \in Gens \cup {None}
  BY <1>1, TypeView DEF Activate, linkVars
<1>3. /\ UNCHANGED <<locked, present, content, onDisk, stored, age, current, saved>>
      /\ home' \in Home
  BY <1>1, TypeView DEF Activate, MakeDirectories, Home, StoreType, releaseVars, linkVars
<1>4. CASE Return(p, g, "corrupt")
  BY <1>2, <1>3, <1>4, ReturnInv DEF Result
<1>5. CASE g = current /\ Return(p, g, "unchanged")
  BY <1>2, <1>3, <1>5, ReturnInv DEF Result
<1>6. CASE Intact(g) /\ Begin(p, g, "unlink") /\ MakeDirectories
  BY <1>2, <1>6, BeginInv
<1>7. CASE g \notin present /\ Begin(p, g, "write") /\ MakeDirectories
  BY <1>2, <1>7, BeginInv
<1> QED
  BY <1>4, <1>5, <1>6, <1>7 DEF Activate, Verified

LEMMA SeedInv ==
    ASSUME IInv, NEW p \in Processes, NEW g \in Gens, NEW force \in BOOLEAN, Seed(p, g, force)
    PROVE  IInv'
<1>1. TypeOK
  BY DEF IInv
<1>2. goal' \in Gens /\ budget' \in Budget /\ proc[p].pc = "idle"
  BY <1>1, TypeView DEF Seed
<1>3. CASE Activate(p, g)
  BY <1>2, <1>3, ActivateInv
<1>4. CASE Return(p, g, "failed") /\ UNCHANGED <<locked, releaseVars, linkVars>>
  <2>1. /\ UNCHANGED <<locked, present, content, onDisk, stored, age, current, saved>>
        /\ temp' \in Gens \cup {None} /\ home' \in Home
    BY <1>1, <1>4, TypeView DEF StoreType, releaseVars, linkVars
  <2> QED
    BY <1>2, <1>4, <2>1, ReturnInv DEF Result
<1> QED
  BY <1>3, <1>4 DEF Seed

(* A step of an activation that only the activation notices. *)
LEMMA ProceedInv ==
    ASSUME IInv, NEW p \in Processes, proc[p].pc # "out", NEW w \in Activity,
           proc' = [proc EXCEPT ![p] = w], UNCHANGED <<locked, goal, budget>>,
           StoreType', {temp', current', saved'} \subseteq Gens \cup {None},
           w.pc \notin {"out", "idle"}, w.want \in Gens, w.result = "none",
           Preparing(p)', Switching(p)', Pruning(p)'
    PROVE  IInv'
<1>1. TypeOK
  BY DEF IInv
<1>2. /\ proc' \in [Processes -> Activity] /\ proc'[p] = w
      /\ \A q \in Processes : q # p => proc'[q] = proc[q]
  BY <1>1, ProcView
<1>3. TypeOK'
  BY <1>1, <1>2, TypeView
<1>4. locked' = p
  BY DEF IInv, Doing, Holding
<1>5. Holding(p)' /\ Reported(p)'
  BY <1>2, <1>4 DEF Holding, Reported
<1> QED
  BY <1>2, <1>3, <1>5, HolderStep DEF Doing
(* What is known of an activation at work. *)
LEMMA AtWork ==
    ASSUME IInv, NEW p \in Processes, proc[p].pc \notin {"out", "idle"}
    PROVE  /\ TypeOK /\ proc[p] \in Activity /\ proc[p].want \in Gens
           /\ proc[p].result = "none" /\ Doing(p)
BY TypeView DEF IInv, Doing, Holding

LEMMA WriteInv == ASSUME IInv, NEW p \in Processes, WriteReleaseFile(p) PROVE IInv'
<1>1. /\ proc[p].pc = "write"
      /\ UNCHANGED <<locked, home, present, content, onDisk, stored, age, temp, current, saved,
                     goal, budget>>
  BY DEF WriteReleaseFile, releaseVars, linkVars
<1>2. /\ TypeOK /\ proc[p] \in Activity /\ proc[p].want \in Gens
      /\ proc[p].result = "none" /\ Doing(p)
  BY <1>1, AtWork
<1>3. PICK f \in NextFiles(p) :
          proc' = [proc EXCEPT ![p].staged = proc[p].staged \cup {f},
                               ![p].pc = IF proc[p].staged \cup {f} = Files THEN "sync"
                                         ELSE "write"]
  BY DEF WriteReleaseFile
<1> DEFINE staged == proc[p].staged \cup {f}
           w == [proc[p] EXCEPT !.staged = staged,
                                !.pc = IF staged = Files THEN "sync" ELSE "write"]
<1>4. staged \subseteq Files
  BY <1>2, <1>3 DEF NextFiles, Files, Activity
<1>5. w \in Activity /\ proc' = [proc EXCEPT ![p] = w]
  BY <1>2, <1>3, <1>4, TypeView DEF Activity, Step
<1>6. proc'[p] = w
  BY <1>2, <1>5, ProcView
<1>7. /\ w.pc \in {"write", "sync"} /\ w.want = proc[p].want /\ w.result = "none"
      /\ w.pc = "sync" => w.staged = Files
  BY <1>2 DEF Activity
<1>8. Preparing(p)' /\ Switching(p)' /\ Pruning(p)'
  <2> HIDE DEF w
  <2> QED
    BY <1>1, <1>2, <1>6, <1>7 DEF Doing, Preparing, Switching, Pruning
<1>9. StoreType' /\ {temp', current', saved'} \subseteq Gens \cup {None}
  BY <1>1, <1>2, TypeView DEF StoreType
<1> HIDE DEF w
<1> QED
  BY <1>1, <1>2, <1>5, <1>7, <1>8, <1>9, ProceedInv

LEMMA SyncTreeInv == ASSUME IInv, NEW p \in Processes, SyncDirectoryTree(p) PROVE IInv'
<1>1. /\ proc[p].pc = "sync"
      /\ UNCHANGED <<locked, home, present, content, onDisk, stored, age, temp, current, saved,
                     goal, budget>>
  BY DEF SyncDirectoryTree, releaseVars, linkVars
<1>2. /\ TypeOK /\ proc[p] \in Activity /\ proc[p].want \in Gens
      /\ proc[p].result = "none" /\ Doing(p)
  BY <1>1, AtWork
<1> DEFINE w == [proc[p] EXCEPT !.pc = "commit", !.synced = TRUE]
<1>3. w \in Activity /\ proc' = [proc EXCEPT ![p] = w]
  BY <1>2, TypeView DEF SyncDirectoryTree, Activity, Step
<1>4. proc'[p] = w
  BY <1>2, <1>3, ProcView
<1>5. /\ w.pc = "commit" /\ w.synced /\ w.want = proc[p].want /\ w.result = "none"
      /\ w.staged = proc[p].staged
  BY <1>2 DEF Activity
<1>6. Preparing(p)' /\ Switching(p)' /\ Pruning(p)'
  <2> HIDE DEF w
  <2> QED
    BY <1>1, <1>2, <1>4, <1>5 DEF Doing, Preparing, Switching, Pruning
<1>7. StoreType' /\ {temp', current', saved'} \subseteq Gens \cup {None}
  BY <1>1, <1>2, TypeView DEF StoreType
<1> HIDE DEF w
<1> QED
  BY <1>1, <1>2, <1>3, <1>5, <1>6, <1>7, ProceedInv

(* A step to the next pc and no other field. *)
LEMMA StepInv ==
    ASSUME IInv, NEW p \in Processes, proc[p].pc \notin {"out", "idle"},
           NEW step \in Step \ {"out", "idle"}, StepTo(p, step),
           UNCHANGED <<locked, goal, budget>>,
           StoreType', {temp', current', saved'} \subseteq Gens \cup {None},
           Preparing(p)', Switching(p)', Pruning(p)'
    PROVE  IInv'
<1>1. /\ TypeOK /\ proc[p] \in Activity /\ proc[p].want \in Gens
      /\ proc[p].result = "none"
  BY AtWork
<1> DEFINE w == [proc[p] EXCEPT !.pc = step]
<1>2. w \in Activity /\ proc' = [proc EXCEPT ![p] = w]
  BY <1>1, TypeView DEF StepTo, Activity
<1>3. w.pc = step /\ w.want = proc[p].want /\ w.result = "none"
  BY <1>1 DEF Activity
<1> HIDE DEF w
<1> QED
  BY <1>1, <1>2, <1>3, ProceedInv

LEMMA StepFields ==
    ASSUME TypeOK, NEW p \in Processes, NEW step \in Step, StepTo(p, step)
    PROVE  /\ proc'[p].pc = step /\ proc'[p].want = proc[p].want
           /\ proc'[p].staged = proc[p].staged /\ proc'[p].synced = proc[p].synced
           /\ proc'[p].victims = proc[p].victims
<1>1. proc[p] \in Activity
  BY TypeView
<1>2. proc'[p] = [proc[p] EXCEPT !.pc = step]
  BY StepToView
<1> QED
  BY <1>1, <1>2 DEF Activity

(* The release that is renamed into place: nobody made it in between.      *)
LEMMA CommitFacts ==
    ASSUME IInv, NEW p \in Processes, CommitRelease(p)
    PROVE  /\ proc[p].want \notin present /\ StepTo(p, "syncReleases")
           /\ present' = present \cup {proc[p].want}
           /\ content' = [content EXCEPT ![proc[p].want] = Files]
           /\ stored' = [stored EXCEPT ![proc[p].want] =
                             IF proc[p].want \notin onDisk THEN Files ELSE {}]
           /\ age' = Touch(proc[p].want)
           /\ UNCHANGED <<locked, home, onDisk, temp, current, saved, goal, budget>>
<1>1. proc[p].pc = "commit"
  BY DEF CommitRelease
<1>2. Preparing(p)
  BY <1>1, AtWork DEF Doing
<1> QED
  BY <1>1, <1>2 DEF CommitRelease, Preparing, linkVars

LEMMA CommitInv == ASSUME IInv, NEW p \in Processes, CommitRelease(p) PROVE IInv'
<1>1. proc[p].pc = "commit"
  BY DEF CommitRelease
<1>2. /\ TypeOK /\ proc[p] \in Activity /\ proc[p].want \in Gens /\ Doing(p)
  BY <1>1, AtWork
<1> DEFINE g == proc[p].want
<1>3. /\ g \notin present /\ StepTo(p, "syncReleases")
      /\ present' = present \cup {g}
      /\ content' = [content EXCEPT ![g] = Files]
      /\ stored' = [stored EXCEPT ![g] = IF g \notin onDisk THEN Files ELSE {}]
      /\ age' = Touch(g)
      /\ UNCHANGED <<locked, home, onDisk, temp, current, saved, goal, budget>>
  BY CommitFacts
<1>4. StoreType /\ {temp, current, saved} \subseteq Gens \cup {None}
  BY <1>2, TypeView
<1>5. StoreType'
  BY <1>2, <1>3, <1>4, TouchType DEF StoreType
<1>6. /\ proc'[p].pc = "syncReleases" /\ proc'[p].want = g /\ proc'[p].synced = proc[p].synced
  BY <1>2, <1>3, StepFields DEF Step
<1>7. content'[g] = Files
  BY <1>2, <1>3, <1>4 DEF StoreType
<1> HIDE DEF g
<1>8. Preparing(p)'
  BY <1>1, <1>2, <1>3, <1>6, <1>7 DEF Doing, Preparing, Intact
<1>9. Switching(p)' /\ Pruning(p)'
  BY <1>6 DEF Switching, Pruning
<1>10. {temp', current', saved'} \subseteq Gens \cup {None}
  BY <1>3, <1>4
<1> QED
  BY <1>1, <1>3, <1>5, <1>8, <1>9, <1>10, StepInv DEF Step

LEMMA SyncReleasesInv == ASSUME IInv, NEW p \in Processes, SyncReleases(p) PROVE IInv'
<1> DEFINE g == proc[p].want
<1>1. /\ proc[p].pc = "syncReleases" /\ StepTo(p, "unlink") /\ onDisk' = present
      /\ stored' = [stored EXCEPT ![g] = IF proc[p].synced THEN content[g] ELSE @]
      /\ UNCHANGED <<locked, home, present, content, age, temp, current, saved, goal, budget>>
  BY DEF SyncReleases, linkVars
<1>2. /\ TypeOK /\ proc[p] \in Activity /\ g \in Gens /\ Doing(p)
  BY <1>1, AtWork
<1>3. StoreType'
  BY <1>1, <1>2, TypeView DEF StoreType
<1>4. proc'[p].pc = "unlink" /\ proc'[p].want = g
  BY <1>1, <1>2, StepFields DEF Step
<1> HIDE DEF g
<1>5. Preparing(p)' /\ Switching(p)' /\ Pruning(p)'
  BY <1>1, <1>2, <1>4 DEF Doing, Preparing, Intact, Switching, Pruning, g
<1>6. {temp', current', saved'} \subseteq Gens \cup {None}
  BY <1>1, <1>2, TypeView
<1> QED
  BY <1>1, <1>3, <1>5, <1>6, StepInv DEF Step

LEMMA RemoveTemporaryInv ==
    ASSUME IInv, NEW p \in Processes, RemoveTemporary(p)
    PROVE  IInv'
<1>1. /\ proc[p].pc = "unlink" /\ StepTo(p, "symlink") /\ temp' = None
      /\ UNCHANGED <<locked, home, present, content, onDisk, stored, age, current, saved, goal,
                     budget>>
  BY DEF RemoveTemporary, releaseVars
<1>2. TypeOK /\ proc[p].want \in Gens /\ Doing(p)
  BY <1>1, AtWork
<1>3. StoreType' /\ {temp', current', saved'} \subseteq Gens \cup {None}
  BY <1>1, <1>2, TypeView DEF StoreType
<1>4. proc'[p].pc = "symlink" /\ proc'[p].want = proc[p].want
  BY <1>1, <1>2, StepFields DEF Step
<1>5. Preparing(p)' /\ Switching(p)' /\ Pruning(p)'
  BY <1>1, <1>2, <1>4 DEF Doing, Preparing, Intact, Switching, Pruning
<1> QED
  BY <1>1, <1>3, <1>5, StepInv DEF Step

(* The name of the temporary link is free: the step before has seen to it. *)
LEMMA SymlinkFacts ==
    ASSUME IInv, NEW p \in Processes, Symlink(p)
    PROVE  /\ proc[p].pc = "symlink" /\ StepTo(p, "swap") /\ temp' = proc[p].want
           /\ UNCHANGED <<locked, home, present, content, onDisk, stored, age, current, saved,
                          goal, budget>>
<1>1. proc[p].pc = "symlink"
  BY DEF Symlink
<1>2. temp = None
  BY <1>1, AtWork DEF Doing, Switching
<1> QED
  BY <1>1, <1>2 DEF Symlink, releaseVars

LEMMA SymlinkInv == ASSUME IInv, NEW p \in Processes, Symlink(p) PROVE IInv'
<1>1. /\ proc[p].pc = "symlink" /\ StepTo(p, "swap") /\ temp' = proc[p].want
      /\ UNCHANGED <<locked, home, present, content, onDisk, stored, age, current, saved, goal,
                     budget>>
  BY SymlinkFacts
<1>2. TypeOK /\ proc[p].want \in Gens /\ Doing(p)
  BY <1>1, AtWork
<1>3. StoreType' /\ {temp', current', saved'} \subseteq Gens \cup {None}
  BY <1>1, <1>2, TypeView DEF StoreType
<1>4. proc'[p].pc = "swap" /\ proc'[p].want = proc[p].want
  BY <1>1, <1>2, StepFields DEF Step
<1>5. Preparing(p)' /\ Switching(p)' /\ Pruning(p)'
  BY <1>1, <1>2, <1>4 DEF Doing, Preparing, Intact, Switching, Pruning
<1> QED
  BY <1>1, <1>3, <1>5, StepInv DEF Step

(* The link is switched to the release that the activation has verified.   *)
LEMMA SwapFacts ==
    ASSUME IInv, NEW p \in Processes, SwapSymlink(p)
    PROVE  /\ StepTo(p, "syncRoot") /\ temp' = None /\ current' = proc[p].want
           /\ Intact(proc[p].want)
           /\ UNCHANGED <<locked, home, present, content, onDisk, stored, age, saved, goal, budget>>
<1>1. proc[p].pc = "swap"
  BY DEF SwapSymlink
<1>2. proc[p].want \in Gens /\ Preparing(p) /\ Switching(p)
  BY <1>1, AtWork DEF Doing
<1>3. temp = proc[p].want /\ temp # None /\ Intact(proc[p].want)
  BY <1>1, <1>2, DeployerAssumption DEF Preparing, Switching
<1> QED
  BY <1>3 DEF SwapSymlink, releaseVars

LEMMA SwapInv == ASSUME IInv, NEW p \in Processes, SwapSymlink(p) PROVE IInv'
<1>1. proc[p].pc = "swap"
  BY DEF SwapSymlink
<1>2. TypeOK /\ proc[p].want \in Gens
  BY <1>1, AtWork
<1>3. /\ StepTo(p, "syncRoot") /\ temp' = None /\ current' = proc[p].want
      /\ UNCHANGED <<locked, home, present, content, onDisk, stored, age, saved, goal, budget>>
  BY SwapFacts
<1>4. StoreType' /\ {temp', current', saved'} \subseteq Gens \cup {None}
  BY <1>2, <1>3, TypeView DEF StoreType
<1>5. proc'[p].pc = "syncRoot" /\ proc'[p].want = proc[p].want
  BY <1>2, <1>3, StepFields DEF Step
<1>6. Preparing(p)' /\ Switching(p)' /\ Pruning(p)'
  BY <1>3, <1>5 DEF Preparing, Switching, Pruning
<1> QED
  BY <1>1, <1>3, <1>4, <1>6, StepInv DEF Step

LEMMA SyncRootInv == ASSUME IInv, NEW p \in Processes, SyncRoot(p) PROVE IInv'
<1>1. /\ proc[p].pc = "syncRoot" /\ StepTo(p, "scan") /\ saved' = current
      /\ UNCHANGED <<locked, home, present, content, onDisk, stored, age, temp, current, goal,
                     budget>>
  BY DEF SyncRoot, releaseVars
<1>2. TypeOK /\ Doing(p)
  BY <1>1, AtWork
<1>3. StoreType' /\ {temp', current', saved'} \subseteq Gens \cup {None}
  BY <1>1, <1>2, TypeView DEF StoreType
<1>4. proc'[p].pc = "scan" /\ proc'[p].want = proc[p].want
  BY <1>1, <1>2, StepFields DEF Step
<1>5. Preparing(p)' /\ Switching(p)' /\ Pruning(p)'
  BY <1>1, <1>2, <1>4 DEF Doing, Preparing, Switching, Pruning
<1> QED
  BY <1>1, <1>3, <1>5, StepInv DEF Step
-----------------------------------------------------------------------------
(* Prune. *)
Younger(S, g) == {h \in S : age[h] < age[g]}

(* Releases of different ages have different ranks. *)
LEMMA RanksDiffer ==
    ASSUME StoreType, NEW S, S \subseteq Gens, NEW g \in S, NEW h \in S, g # h
    PROVE  Cardinality(Younger(S, g)) # Cardinality(Younger(S, h))
<1>1. \A x \in S : age[x] \in Nat
  BY DEF StoreType
<1>2. IsFiniteSet(S)
  BY DeployerAssumption, FS_Subset
<1>3. \A x \in S : IsFiniteSet(Younger(S, x))
  BY <1>2, FS_Subset DEF Younger
<1>4. ASSUME NEW x \in S, NEW y \in S, age[x] < age[y]
      PROVE  Cardinality(Younger(S, x)) # Cardinality(Younger(S, y))
  <2>1. Younger(S, x) \subseteq Younger(S, y) /\ x \in Younger(S, y) /\ x \notin Younger(S, x)
    BY <1>1, <1>4 DEF Younger
  <2> QED
    BY <1>3, <2>1, FS_Subset
<1>5. age[g] < age[h] \/ age[h] < age[g]
  <2>1. age[g] # age[h]
    BY DEF StoreType
  <2> QED
    BY <1>1, <2>1
<1> QED
  BY <1>4, <1>5

(* What is not expired has ranks below n, so it is no more than n releases.*)
LEMMA NewestAreFew ==
    ASSUME StoreType, NEW S, S \subseteq Gens, NEW n \in Nat
    PROVE  Cardinality(S \ ExpiredOf(S, n)) <= n
<1> DEFINE kept == S \ ExpiredOf(S, n)
           rank == [g \in kept |-> Cardinality(Younger(S, g))]
<1>1. IsFiniteSet(S) /\ IsFiniteSet(kept)
  BY DeployerAssumption, FS_Subset
<1>2. \A g \in S : Cardinality(Younger(S, g)) \in Nat
  BY <1>1, FS_Subset, FS_CardinalityType DEF Younger
<1>3. \A g \in kept : g \in S /\ Cardinality(Younger(S, g)) < n
  BY <1>2 DEF ExpiredOf, Younger
<1>4. rank \in [kept -> 0..n - 1]
  BY <1>2, <1>3
<1>5. IsFiniteSet(0..n - 1) /\ Cardinality(0..n - 1) = n
  BY FS_Interval
<1>6. ASSUME Cardinality(kept) > n PROVE FALSE
  <2> HIDE DEF kept, rank
  <2>1. PICK g \in kept, h \in kept : g # h /\ rank[g] = rank[h]
    BY <1>1, <1>4, <1>5, <1>6, FS_PigeonHole
  <2>2. Cardinality(Younger(S, g)) = Cardinality(Younger(S, h))
    BY <2>1 DEF rank
  <2> QED
    BY <1>3, <2>1, <2>2, RanksDiffer
<1>7. Cardinality(kept) \in Nat
  BY <1>1, FS_CardinalityType
<1> QED
  BY <1>6, <1>7

LEMMA ScanInv == ASSUME IInv, NEW p \in Processes, ScanReleases(p) PROVE IInv'
<1> DEFINE g == proc[p].want
           inactive == present \ {g}
           w == [proc[p] EXCEPT !.pc = "prune", !.victims = ExpiredOf(inactive, Retain)]
<1>1. /\ proc[p].pc = "scan"
      /\ UNCHANGED <<locked, home, present, content, onDisk, stored, age, temp, current, saved,
                     goal, budget>>
  BY DEF ScanReleases, releaseVars, linkVars
<1>2. /\ TypeOK /\ proc[p] \in Activity /\ g \in Gens /\ proc[p].result = "none" /\ Doing(p)
  BY <1>1, AtWork
<1>3. StoreType /\ inactive \subseteq Gens
  BY <1>2, TypeView DEF StoreType
<1>4. ExpiredOf(inactive, Retain) \subseteq inactive
  BY DEF ExpiredOf
<1>5. Cardinality(inactive \ ExpiredOf(inactive, Retain)) <= Retain
  <2> HIDE DEF inactive
  <2> QED
    BY <1>3, NewestAreFew, DeployerAssumption
<1>6. w \in Activity /\ proc' = [proc EXCEPT ![p] = w]
  BY <1>2, <1>3, <1>4, TypeView DEF ScanReleases, Expired, Activity, Step
<1>7. proc'[p] = w
  BY <1>2, <1>6, ProcView
<1>8. /\ w.pc = "prune" /\ w.want = g /\ w.result = "none"
      /\ w.victims = ExpiredOf(inactive, Retain)
  BY <1>2 DEF Activity
<1>9. Preparing(p)' /\ Switching(p)' /\ Pruning(p)'
  <2> HIDE DEF w
  <2> QED
    BY <1>1, <1>2, <1>4, <1>5, <1>7, <1>8 DEF Doing, Preparing, Switching, Pruning
<1>10. StoreType' /\ {temp', current', saved'} \subseteq Gens \cup {None}
  BY <1>1, <1>2, TypeView DEF StoreType
<1> HIDE DEF w
<1> QED
  BY <1>1, <1>2, <1>6, <1>8, <1>9, <1>10, ProceedInv

(* A removal takes entries of inactive releases only. *)
LEMMA RemoveFacts ==
    ASSUME IInv, NEW p \in Processes, RemoveEntry(p)
    PROVE  /\ proc[p].pc = "prune" /\ current = proc[p].want /\ saved = current
           /\ UNCHANGED <<locked, home, onDisk, stored, temp, current, saved, goal, budget>>
           /\ \E g \in proc[p].victims :
                 /\ g \in present /\ g # current
                 /\ \/ \E f \in content[g] :
                          /\ content' = [content EXCEPT ![g] = @ \ {f}]
                          /\ age' = Touch(g)
                          /\ UNCHANGED <<proc, present>>
                    \/ /\ content[g] = {}
                       /\ present' = present \ {g}
                       /\ proc' = [proc EXCEPT ![p].victims = @ \ {g}]
                       /\ UNCHANGED <<content, age>>
<1>1. proc[p].pc = "prune"
  BY DEF RemoveEntry
<1>2. Doing(p)
  BY <1>1, AtWork
<1>3. /\ current = proc[p].want /\ saved = current
      /\ proc[p].victims \subseteq present \ {proc[p].want}
  BY <1>1, <1>2 DEF Doing, Switching, Pruning
<1> QED
  BY <1>1, <1>3 DEF RemoveEntry, linkVars

LEMMA RemoveInv == ASSUME IInv, NEW p \in Processes, RemoveEntry(p) PROVE IInv'
<1>1. /\ proc[p].pc = "prune" /\ current = proc[p].want /\ saved = current
      /\ UNCHANGED <<locked, home, onDisk, stored, temp, current, saved, goal, budget>>
  BY RemoveFacts
<1>2. /\ TypeOK /\ proc[p] \in Activity /\ proc[p].want \in Gens
      /\ proc[p].result = "none" /\ Doing(p)
  BY <1>1, AtWork
<1>3. /\ proc[p].victims \subseteq present \ {proc[p].want}
      /\ Cardinality((present \ {proc[p].want}) \ proc[p].victims) <= Retain
  BY <1>1, <1>2 DEF Doing, Pruning
<1>4. StoreType /\ {temp', current', saved'} \subseteq Gens \cup {None}
  BY <1>1, <1>2, TypeView
<1>5. PICK g \in proc[p].victims :
          /\ g \in present /\ g # current
          /\ \/ \E f \in content[g] :
                   /\ content' = [content EXCEPT ![g] = @ \ {f}]
                   /\ age' = Touch(g)
                   /\ UNCHANGED <<proc, present>>
             \/ /\ content[g] = {}
                /\ present' = present \ {g}
                /\ proc' = [proc EXCEPT ![p].victims = @ \ {g}]
                /\ UNCHANGED <<content, age>>
  BY RemoveFacts
<1>6. g \in Gens
  BY <1>4, <1>5 DEF StoreType
<1>7. CASE /\ \E f \in content[g] : content' = [content EXCEPT ![g] = @ \ {f}]
           /\ age' = Touch(g) /\ UNCHANGED <<proc, present>>
  <2>1. StoreType'
    BY <1>1, <1>4, <1>6, <1>7, TouchType DEF StoreType
  <2>2. proc' = [proc EXCEPT ![p] = proc[p]]
    BY <1>2, <1>7, TypeView
  <2>3. Preparing(p)' /\ Switching(p)' /\ Pruning(p)'
    BY <1>1, <1>2, <1>7 DEF Doing, Preparing, Switching, Pruning
  <2> QED
    BY <1>1, <1>2, <1>4, <2>1, <2>2, <2>3, ProceedInv
<1>8. CASE /\ present' = present \ {g} /\ UNCHANGED <<content, age>>
           /\ proc' = [proc EXCEPT ![p].victims = @ \ {g}]
  <2> DEFINE w == [proc[p] EXCEPT !.victims = proc[p].victims \ {g}]
  <2>1. StoreType'
    BY <1>1, <1>4, <1>8 DEF StoreType
  <2>2. w \in Activity /\ proc' = [proc EXCEPT ![p] = w]
    BY <1>2, <1>8, TypeView DEF Activity
  <2>3. proc'[p] = w
    BY <1>2, <2>2, ProcView
  <2>4. /\ w.pc = "prune" /\ w.want = proc[p].want /\ w.result = "none"
        /\ w.victims = proc[p].victims \ {g}
    BY <1>1, <1>2 DEF Activity
  <2> HIDE DEF w
  <2>5. (present' \ {w.want}) \ w.victims = (present \ {proc[p].want}) \ proc[p].victims
    BY <1>5, <1>8, <2>4
  <2>6. w.victims \subseteq present' \ {w.want}
    BY <1>3, <1>8, <2>4
  <2>7. Preparing(p)' /\ Switching(p)' /\ Pruning(p)'
    BY <1>1, <1>3, <2>3, <2>4, <2>5, <2>6 DEF Preparing, Switching, Pruning
  <2> QED
    BY <1>1, <1>2, <1>4, <2>1, <2>2, <2>4, <2>7, ProceedInv
<1> QED
  BY <1>5, <1>7, <1>8

LEMMA ActivatedInv == ASSUME IInv, NEW p \in Processes, Activated(p) PROVE IInv'
<1>1. /\ proc[p].pc = "prune" /\ proc[p].victims = {}
      /\ Return(p, proc[p].want, "switched")
      /\ UNCHANGED <<locked, releaseVars, temp, current, saved, goal, budget>>
  BY DEF Activated, linkVars
<1>2. TypeOK /\ proc[p].want \in Gens /\ Doing(p)
  BY <1>1, AtWork
<1>3. current = proc[p].want /\ Cardinality((present \ {current}) \ {}) <= Retain
  BY <1>1, <1>2 DEF Doing, Switching, Pruning
<1>4. (present \ {current}) \ {} = present \ {current}
  OBVIOUS
<1>5. temp' \in Gens \cup {None} /\ goal' \in Gens /\ budget' \in Budget /\ home' \in Home
  BY <1>1, <1>2, TypeView DEF StoreType, releaseVars
<1>6. UNCHANGED <<locked, present, content, onDisk, stored, age, current, saved>>
  BY <1>1 DEF releaseVars
<1> QED
  BY <1>1, <1>2, <1>3, <1>4, <1>5, <1>6, ReturnInv DEF Result
-----------------------------------------------------------------------------
(* Faults. *)
LEMMA FaultSpends ==
    ASSUME TypeOK, NEW kind, Fault(kind)
    PROVE  /\ budget' \in Budget
           /\ budget.faults < MaxFaults /\ budget'.faults = budget.faults + 1
BY TypeView, SpendType DEF Fault

LEMMA CallFailsInv == ASSUME IInv, NEW p \in Processes, CallFails(p) PROVE IInv'
<1>1. /\ proc[p].pc \notin {"out", "idle"} /\ Return(p, proc[p].want, "failed")
      /\ temp' = (IF proc[p].pc = "swap" THEN None ELSE temp)
      /\ UNCHANGED <<locked, releaseVars, current, saved, goal>>
  BY DEF CallFails
<1>2. TypeOK /\ proc[p].want \in Gens
  BY <1>1, AtWork
<1>3. budget' \in Budget /\ temp' \in Gens \cup {None} /\ goal' \in Gens
  BY <1>1, <1>2, FaultSpends, TypeView DEF CallFails
<1>4. /\ UNCHANGED <<locked, present, content, onDisk, stored, age, current, saved>>
      /\ home' \in Home
  BY <1>1, <1>2, TypeView DEF StoreType, releaseVars
<1> QED
  BY <1>1, <1>2, <1>3, <1>4, ReturnInv DEF Result

LEMMA KillInv == ASSUME IInv, NEW p \in Processes, Kill(p) PROVE IInv'
<1>1. /\ proc[p].pc # "out" /\ proc' = [proc EXCEPT ![p] = Exited]
      /\ locked' = (IF locked = p THEN None ELSE locked)
      /\ UNCHANGED <<home, present, content, onDisk, stored, age, temp, current, saved, goal>>
  BY DEF Kill, releaseVars, linkVars
<1>2. TypeOK
  BY DEF IInv
<1>3. /\ proc' \in [Processes -> Activity] /\ proc'[p] = Exited
      /\ \A q \in Processes : q # p => proc'[q] = proc[q]
  BY <1>1, <1>2, ProcView, ExitedType
<1>4. budget' \in Budget
  BY <1>2, FaultSpends DEF Kill
<1>5. TypeOK'
  BY <1>1, <1>2, <1>3, <1>4, TypeView DEF StoreType
<1> QED
  BY <1>1, <1>3, <1>5, HolderStep, ExitedIsFine

LEMMA PowerFacts ==
    ASSUME TypeOK, PowerLoss
    PROVE  /\ TypeOK'
           /\ \A p \in Processes : proc'[p] = Exited
<1>1. StoreType /\ {temp, current, saved} \subseteq Gens \cup {None} /\ goal \in Gens
  BY TypeView
<1>2. present' \subseteq Gens /\ content' \in [Gens -> SUBSET Files]
  BY <1>1 DEF PowerLoss, ReleasesFound, StoreType
<1>3. StoreType'
  BY <1>1, <1>2 DEF PowerLoss, Home, StoreType
<1>4. proc' \in [Processes -> Activity] /\ \A p \in Processes : proc'[p] = Exited
  BY ExitedType DEF PowerLoss
<1>5. {temp', current', saved'} \subseteq Gens \cup {None} /\ goal' \in Gens /\ locked' = None
  BY <1>1 DEF PowerLoss
<1>6. budget' \in Budget
  BY FaultSpends DEF PowerLoss
<1> QED
  BY <1>3, <1>4, <1>5, <1>6, TypeView

LEMMA PowerInv == ASSUME IInv, PowerLoss PROVE IInv'
BY PowerFacts, ExitedIsFine DEF IInv

-----------------------------------------------------------------------------
LEMMA NextInv == ASSUME IInv, [Next]_vars PROVE IInv'
<1>1. TypeOK
  BY DEF IInv
<1>2. ASSUME NEW g \in Gens, Publish(g) PROVE IInv'
  <2>1. UNCHANGED <<locked, proc, releaseVars, linkVars>> /\ goal' \in Gens
    BY <1>2 DEF Publish
  <2>2. budget' \in Budget
    BY <1>1, <1>2, TypeView, SpendType DEF Publish
  <2> QED
    BY <2>1, <2>2, QuietInv
<1>3. ASSUME NEW a \in Agents, ReconcileGoal(a) PROVE IInv'
  <2>1. a \in Processes /\ Activate(a, goal) /\ goal \in Gens /\ goal' \in Gens
        /\ budget' \in Budget
    BY <1>1, <1>3, TypeView DEF ReconcileGoal, Processes
  <2> QED
    BY <2>1, ActivateInv
<1>4. ASSUME NEW q \in Seeds, NEW g \in Gens, NEW force \in BOOLEAN, Seed(q, g, force)
      PROVE  IInv'
  BY <1>4, SeedInv DEF Processes
<1>5. ASSUME NEW p \in Processes, Lock(p) \/ Progress(p) \/ CallFails(p) \/ Kill(p)
      PROVE  IInv'
  BY <1>5, LockInv, UnlockInv, WriteInv, SyncTreeInv, CommitInv, SyncReleasesInv,
     RemoveTemporaryInv, SymlinkInv, SwapInv, SyncRootInv, ScanInv, RemoveInv, ActivatedInv, CallFailsInv, KillInv
     DEF Progress
<1>6. CASE PowerLoss
  BY <1>6, PowerInv
<1>7. CASE UNCHANGED vars
  <2>1. UNCHANGED <<locked, proc, releaseVars, linkVars, goal, budget>>
    BY <1>7 DEF vars
  <2> QED
    BY <1>1, <2>1, TypeView, QuietInv
<1> QED
  BY <1>2, <1>3, <1>4, <1>5, <1>6, <1>7 DEF Next

THEOREM Invariance == Spec => []IInv
<1>1. Init => IInv
  BY InitInv
<1>2. IInv /\ [Next]_vars => IInv'
  BY NextInv
<1> QED
  BY <1>1, <1>2, PTL DEF Spec

(* The variables keep their shape; ages stay distinct.                     *)
THEOREM TypeCorrect == Spec => []TypeOK
<1>1. IInv => TypeOK
  BY DEF IInv
<1> QED
  BY <1>1, Invariance, PTL

(* A successful activation left its own generation current, whatever       *)
(* happened since in other processes.                                      *)
THEOREM ReportIsTruthful == Spec => []ReportTruthful
<1>1. IInv => ReportTruthful
  BY DEF IInv, Doing, Reported, ReportTruthful
<1> QED
  BY <1>1, Invariance, PTL

(* A completed switch leaves at most Retain inactive releases, whatever    *)
(* was there before it.                                                    *)
THEOREM RetentionIsBounded == Spec => []RetentionBound
<1>1. IInv => RetentionBound
  BY DEF IInv, Doing, Reported, RetentionBound
<1> QED
  BY <1>1, Invariance, PTL
-----------------------------------------------------------------------------
(* Where there is no directory for them there are no releases, and nobody  *)
(* is past MkdirAll; only a loss of power leaves a link there.             *)
Homeless ==
    home = "absent" =>
        /\ present = {}
        /\ onDisk = {}
        /\ saved = current
        /\ current # None => "power" \in FaultKinds
        /\ \A p \in Processes : proc[p].pc \in {"out", "idle"}

HomeInv == Homeless /\ (Hosts \subseteq {"durable"} => home = "durable")

LEMMA InitHome == Init => HomeInv
BY DeployerAssumption DEF Init, HomeInv, Homeless, Exited, Quiet

(* Steps that begin or go on with nothing where the directory is absent.   *)
LEMMA SameHome ==
    ASSUME HomeInv, UNCHANGED <<releaseVars, current, saved>>,
           \A q \in Processes : proc[q].pc \in {"out", "idle"} => proc'[q].pc \in {"out", "idle"}
    PROVE  HomeInv'
BY DEF HomeInv, Homeless, releaseVars

LEMMA ReturnIdles ==
    ASSUME TypeOK, NEW p \in Processes, NEW g \in Gens, NEW result \in Result,
           Return(p, g, result)
    PROVE  proc'[p].pc = "idle" /\ \A q \in Processes : q # p => proc'[q] = proc[q]
<1>1. /\ proc'[p] = Quiet("idle", g, result)
      /\ \A q \in Processes : q # p => proc'[q] = proc[q]
  BY ReturnView
<1> QED
  BY <1>1 DEF Quiet

LEMMA ActivateHome ==
    ASSUME TypeOK, HomeInv, NEW p \in Processes, NEW g \in Gens, Activate(p, g)
    PROVE  HomeInv'
<1>1. UNCHANGED <<current, saved>>
  BY DEF Activate, linkVars
<1>2. CASE MakeDirectories
  <2>1. home' # "absent" /\ (home = "durable" => home' = "durable")
    BY <1>2 DEF MakeDirectories
  <2> QED
    BY <2>1 DEF HomeInv, Homeless
<1>3. CASE UNCHANGED releaseVars /\ \E result \in Result : Return(p, g, result)
  <2>1. PICK result \in Result : Return(p, g, result)
    BY <1>3
  <2>2. proc'[p].pc = "idle" /\ \A q \in Processes : q # p => proc'[q] = proc[q]
    BY <2>1, ReturnIdles
  <2> QED
    BY <1>1, <1>3, <2>2, SameHome
<1> QED
  BY <1>2, <1>3 DEF Activate, Result

LEMMA NextHome == ASSUME IInv, HomeInv, [Next]_vars PROVE HomeInv'
<1>1. TypeOK
  BY DEF IInv
<1>2. CASE (\E g \in Gens : Publish(g)) \/ UNCHANGED vars
  BY <1>2, SameHome DEF Publish, vars, linkVars
<1>3. ASSUME NEW a \in Agents, ReconcileGoal(a) PROVE HomeInv'
  BY <1>1, <1>3, TypeView, ActivateHome DEF ReconcileGoal, Processes
<1>4. ASSUME NEW q \in Seeds, NEW g \in Gens, NEW force \in BOOLEAN, Seed(q, g, force)
      PROVE  HomeInv'
  <2>1. q \in Processes
    BY DEF Processes
  <2>2. CASE Activate(q, g)
    BY <1>1, <2>1, <2>2, ActivateHome
  <2>3. CASE Return(q, g, "failed") /\ UNCHANGED <<releaseVars, linkVars>>
    <3>1. proc'[q].pc = "idle" /\ \A r \in Processes : r # q => proc'[r] = proc[r]
      BY <1>1, <2>1, <2>3, ReturnIdles DEF Result
    <3> QED
      BY <2>3, <3>1, SameHome DEF linkVars
  <2> QED
    BY <1>4, <2>2, <2>3 DEF Seed
<1>5. ASSUME NEW p \in Processes, Lock(p) \/ Unlock(p) \/ Kill(p) PROVE HomeInv'
  <2>1. UNCHANGED <<releaseVars, current, saved>>
    BY <1>5 DEF Lock, Unlock, Kill, linkVars
  <2>2. proc'[p].pc \in {"out", "idle"} /\ \A q \in Processes : q # p => proc'[q] = proc[q]
    <3>1. CASE Lock(p)
      <4>1. StepTo(p, "idle")
        BY <3>1 DEF Lock
      <4> QED
        BY <1>1, <4>1, StepFields, StepToView DEF Step
    <3>2. CASE Unlock(p) \/ Kill(p)
      <4>1. proc' = [proc EXCEPT ![p] = Exited]
        BY <3>2 DEF Unlock, Kill
      <4>2. proc'[p] = Exited /\ \A q \in Processes : q # p => proc'[q] = proc[q]
        BY <1>1, <4>1, ProcView, ExitedType
      <4> QED
        BY <4>2 DEF Exited, Quiet
    <3> QED
      BY <1>5, <3>1, <3>2
  <2> QED
    BY <2>1, <2>2, SameHome
<1>6. ASSUME NEW p \in Processes, Progress(p) \/ CallFails(p), ~Unlock(p) PROVE HomeInv'
  <2>1. proc[p].pc \notin {"out", "idle"}
    BY <1>6 DEF Progress, CallFails, WriteReleaseFile, SyncDirectoryTree, CommitRelease,
                SyncReleases, RemoveTemporary, Symlink, SwapSymlink, SyncRoot, ScanReleases,
                RemoveEntry, Activated
  <2>2. home # "absent"
    BY <2>1 DEF HomeInv, Homeless
  <2>3. UNCHANGED home
    BY <1>6 DEF Progress, CallFails, WriteReleaseFile, SyncDirectoryTree, CommitRelease,
                SyncReleases, RemoveTemporary, Symlink, SwapSymlink, SyncRoot, ScanReleases,
                RemoveEntry, Activated, releaseVars
  <2> QED
    BY <2>2, <2>3 DEF HomeInv, Homeless
<1>7. CASE PowerLoss
  <2>1. home' = "absent" => home \in {"absent", "cached"}
    BY <1>7 DEF PowerLoss
  <2>2. \A p \in Processes : proc'[p].pc = "out"
    BY <1>7 DEF PowerLoss, Exited, Quiet
  <2>3. "power" \in FaultKinds /\ saved' = current' /\ onDisk' = present'
    BY <1>7 DEF PowerLoss, Fault
  <2>4. home' = "absent" => present' = {}
    BY <1>7 DEF PowerLoss, ReleasesFound, HomeInv, Homeless
  <2>5. home = "durable" => home' = "durable"
    BY <1>7 DEF PowerLoss
  <2> QED
    BY <2>2, <2>3, <2>4, <2>5 DEF HomeInv, Homeless
<1> QED
  BY <1>2, <1>3, <1>4, <1>5, <1>6, <1>7 DEF Next, Progress

-----------------------------------------------------------------------------
(* A power loss that follows a kill or a failed call may find an entry of  *)
(* the releases directory that nobody has synced.                          *)
Tame ==
    "power" \in FaultKinds /\ FaultKinds \cap {"kill", "error"} # {} => MaxFaults <= 1

PowerAhead == "power" \in FaultKinds /\ budget.faults < MaxFaults

Durable(g) == Intact(g) /\ g \in onDisk /\ stored[g] = Files

(* While the power may still be lost, what the link names or would name is *)
(* durable among the releases, and so is every whole release but the one   *)
(* that is being made so.                                                  *)
PowerSafe ==
    PowerAhead =>
        /\ \A g \in {current, saved} : g # None => Durable(g)
        /\ \A g \in present :
              \/ g \in onDisk /\ (content[g] = Files => stored[g] = Files)
              \/ \E p \in Processes : proc[p].pc = "syncReleases" /\ proc[p].want = g

SafeInv == PowerSafe /\ CurrentComplete

KeptInv == home # "absent" => SafeInv

(* Steps that leave the store and the link alone. *)
LEMMA SameStore ==
    ASSUME SafeInv, UNCHANGED <<present, content, onDisk, stored, current, saved>>,
           budget'.faults = budget.faults,
           \A q \in Processes : proc[q].pc = "syncReleases" => proc'[q] = proc[q]
    PROVE  SafeInv'
<1>1. CurrentComplete'
  BY DEF SafeInv, CurrentComplete, Intact
<1>2. ASSUME PowerAhead' PROVE PowerAhead
  BY <1>2 DEF PowerAhead
<1>3. PowerSafe'
  BY <1>2 DEF SafeInv, PowerSafe, Durable, Intact
<1> QED
  BY <1>1, <1>3 DEF SafeInv

(* After any other fault the power stays on. *)
LEMMA NoMorePower ==
    ASSUME Tame, TypeOK, NEW kind \in {"kill", "error"}, Fault(kind)
    PROVE  ~PowerAhead'
<1>1. budget'.faults = budget.faults + 1 /\ budget.faults \in Nat /\ kind \in FaultKinds
  BY FaultSpends, TypeView DEF Fault, Budget
<1>2. ASSUME "power" \in FaultKinds PROVE MaxFaults <= 1
  BY <1>1, <1>2 DEF Tame
<1> QED
  BY <1>1, <1>2, DeployerAssumption DEF PowerAhead

LEMMA InitSafe == Init => SafeInv
BY DEF Init, SafeInv, PowerSafe, CurrentComplete

(* The directory is made where nothing is active.                          *)
LEMMA Founded ==
    ASSUME HomeInv, [Next]_vars, home = "absent", home' # "absent"
    PROVE  SafeInv
<1>1. present = {} /\ saved = current /\ \A p \in Processes : proc[p].pc \in {"out", "idle"}
  BY DEF HomeInv, Homeless
<1>2. ASSUME Readable PROVE SafeInv
  BY <1>1, <1>2 DEF Readable, SafeInv, PowerSafe, CurrentComplete
<1>3. ASSUME NEW p \in Processes, Progress(p) \/ CallFails(p) PROVE UNCHANGED home
  BY <1>1, <1>3 DEF Progress, CallFails, WriteReleaseFile, SyncDirectoryTree, CommitRelease,
                    SyncReleases, RemoveTemporary, Symlink, SwapSymlink, SyncRoot, ScanReleases,
                    RemoveEntry, Activated, Unlock, releaseVars
<1>4. ASSUME NEW p, NEW g, Activate(p, g) PROVE SafeInv \/ UNCHANGED home
  BY <1>2, <1>4 DEF Activate, releaseVars
<1> QED
  BY <1>3, <1>4
     DEF Next, Publish, ReconcileGoal, Seed, Lock, Kill, PowerLoss, releaseVars, vars

LEMMA CommitSafe ==
    ASSUME IInv, SafeInv, NEW p \in Processes, CommitRelease(p)
    PROVE  SafeInv'
<1> DEFINE g == proc[p].want
<1>1. proc[p].pc = "commit"
  BY DEF CommitRelease
<1>2. TypeOK /\ StoreType /\ g \in Gens
  BY <1>1, AtWork, TypeView
<1>3. /\ g \notin present /\ StepTo(p, "syncReleases")
      /\ present' = present \cup {g}
      /\ content' = [content EXCEPT ![g] = Files]
      /\ stored' = [stored EXCEPT ![g] = IF g \notin onDisk THEN Files ELSE {}]
      /\ UNCHANGED <<onDisk, current, saved, budget>>
  BY CommitFacts
<1>4. /\ proc'[p].pc = "syncReleases" /\ proc'[p].want = g
      /\ \A q \in Processes : q # p => proc'[q] = proc[q]
  BY <1>2, <1>3, StepFields, StepToView DEF Step
<1> HIDE DEF g
<1>5. \A h \in present : h \in Gens /\ h # g /\ content'[h] = content[h] /\ stored'[h] = stored[h]
  BY <1>2, <1>3 DEF StoreType
<1>6. CurrentComplete'
  BY <1>3, <1>5 DEF SafeInv, CurrentComplete, Intact
<1>7. ASSUME PowerAhead' PROVE PowerAhead
  BY <1>3, <1>7 DEF PowerAhead
<1>8. ASSUME PowerAhead', NEW h \in {current', saved'}, h # None PROVE Durable(h)'
  <2>1. Durable(h)
    BY <1>3, <1>7, <1>8 DEF SafeInv, PowerSafe
  <2> QED
    BY <1>3, <1>5, <2>1 DEF Durable, Intact
<1>9. ASSUME PowerAhead', NEW h \in present'
      PROVE  \/ h \in onDisk' /\ (content'[h] = Files => stored'[h] = Files)
             \/ \E q \in Processes : proc'[q].pc = "syncReleases" /\ proc'[q].want = h
  <2>1. CASE h = g
    BY <1>4, <2>1
  <2>2. CASE h # g
    <3>1. h \in present
      BY <1>3, <1>9, <2>2
    <3>2. CASE h \in onDisk /\ (content[h] = Files => stored[h] = Files)
      BY <1>3, <1>5, <3>1, <3>2
    <3>3. ASSUME NEW q \in Processes, proc[q].pc = "syncReleases", proc[q].want = h
          PROVE  \E r \in Processes : proc'[r].pc = "syncReleases" /\ proc'[r].want = h
      BY <1>1, <1>4, <3>3
    <3> QED
      BY <1>7, <1>9, <3>1, <3>2, <3>3 DEF SafeInv, PowerSafe
  <2> QED
    BY <2>1, <2>2
<1> QED
  BY <1>6, <1>8, <1>9 DEF SafeInv, PowerSafe

LEMMA SyncReleasesSafe ==
    ASSUME IInv, SafeInv, NEW p \in Processes, SyncReleases(p)
    PROVE  SafeInv'
<1> DEFINE g == proc[p].want
<1>1. /\ proc[p].pc = "syncReleases" /\ onDisk' = present
      /\ stored' = [stored EXCEPT ![g] = IF proc[p].synced THEN content[g] ELSE @]
      /\ UNCHANGED <<present, content, current, saved, budget>>
  BY DEF SyncReleases, linkVars
<1>2. StoreType /\ g \in Gens /\ Preparing(p)
  BY <1>1, AtWork, TypeView DEF Doing
<1>3. Intact(g) /\ stored'[g] = Files
  BY <1>1, <1>2 DEF Preparing, StoreType, Intact
<1>4. \A q \in Processes : proc[q].pc = "syncReleases" => proc[q].want = g
  BY <1>1, OnlyHolder DEF Exited, Quiet
<1> HIDE DEF g
<1>5. \A h \in Gens : h # g => stored'[h] = stored[h]
  BY <1>1, <1>2 DEF StoreType, g
<1>6. CurrentComplete'
  BY <1>1 DEF SafeInv, CurrentComplete, Intact
<1>7. ASSUME PowerAhead' PROVE PowerAhead
  BY <1>1, <1>7 DEF PowerAhead
<1>8. ASSUME PowerAhead', NEW h \in {current', saved'}, h # None PROVE Durable(h)'
  <2>1. Durable(h) /\ h \in Gens
    BY <1>1, <1>2, <1>7, <1>8 DEF SafeInv, PowerSafe, Durable, Intact, StoreType
  <2> QED
    BY <1>1, <1>3, <1>5, <2>1 DEF Durable, Intact
<1>9. ASSUME PowerAhead', NEW h \in present'
      PROVE  h \in onDisk' /\ (content'[h] = Files => stored'[h] = Files)
  <2>1. h \in present /\ h \in Gens
    BY <1>1, <1>2, <1>9 DEF StoreType
  <2>2. CASE h = g
    BY <1>1, <1>3, <2>1, <2>2
  <2>3. CASE h # g
    <3>1. content[h] = Files => stored[h] = Files
      BY <1>4, <1>7, <1>9, <2>1, <2>3 DEF SafeInv, PowerSafe
    <3> QED
      BY <1>1, <1>5, <2>1, <2>3, <3>1
  <2> QED
    BY <2>2, <2>3
<1> QED
  BY <1>6, <1>8, <1>9 DEF SafeInv, PowerSafe

(* The switch: nobody is about to make anything durable. *)
LEMMA SwapSafe ==
    ASSUME IInv, SafeInv, NEW p \in Processes, SwapSymlink(p)
    PROVE  SafeInv'
<1> DEFINE g == proc[p].want
<1>1. /\ current' = g /\ Intact(g)
      /\ UNCHANGED <<present, content, onDisk, stored, saved, budget>>
  BY SwapFacts
<1>2. proc[p].pc = "swap"
  BY DEF SwapSymlink
<1>3. \A q \in Processes : proc[q].pc # "syncReleases"
  BY <1>2, OnlyHolder DEF Exited, Quiet
<1> HIDE DEF g
<1>4. CurrentComplete'
  BY <1>1 DEF CurrentComplete, Intact
<1>5. ASSUME PowerAhead' PROVE PowerAhead
  BY <1>1, <1>5 DEF PowerAhead
<1>6. ASSUME PowerAhead PROVE Durable(g)
  BY <1>1, <1>3, <1>6 DEF SafeInv, PowerSafe, Durable, Intact
<1>7. PowerSafe'
  BY <1>1, <1>3, <1>5, <1>6 DEF SafeInv, PowerSafe, Durable, Intact
<1> QED
  BY <1>4, <1>7 DEF SafeInv

LEMMA SyncRootSafe ==
    ASSUME IInv, SafeInv, NEW p \in Processes, SyncRoot(p)
    PROVE  SafeInv'
<1>1. /\ saved' = current /\ proc[p].pc = "syncRoot"
      /\ UNCHANGED <<present, content, onDisk, stored, current, budget>>
  BY DEF SyncRoot, releaseVars
<1>2. \A q \in Processes : proc[q].pc # "syncReleases"
  BY <1>1, OnlyHolder DEF Exited, Quiet
<1>3. ASSUME PowerAhead' PROVE PowerAhead
  BY <1>1, <1>3 DEF PowerAhead
<1>4. PowerSafe'
  BY <1>1, <1>2, <1>3 DEF SafeInv, PowerSafe, Durable, Intact
<1> QED
  BY <1>1, <1>4 DEF SafeInv, CurrentComplete, Intact

(* A removal takes nothing that the link names, now or after a power loss. *)
LEMMA RemoveSafe ==
    ASSUME IInv, SafeInv, NEW p \in Processes, RemoveEntry(p)
    PROVE  SafeInv'
<1>1. /\ proc[p].pc = "prune" /\ saved = current
      /\ UNCHANGED <<onDisk, stored, current, saved, budget>>
  BY RemoveFacts
<1>2. PICK g \in present :
          /\ g # current
          /\ \/ /\ \E f \in content[g] : content' = [content EXCEPT ![g] = @ \ {f}]
                /\ UNCHANGED present
             \/ /\ present' = present \ {g}
                /\ UNCHANGED content
  BY RemoveFacts
<1>3. StoreType
  BY <1>1, AtWork, TypeView
<1>4. \A q \in Processes : proc[q].pc # "syncReleases"
  BY <1>1, OnlyHolder DEF Exited, Quiet
<1>5. /\ present' \subseteq present
      /\ \A h \in present : h # g => h \in present' /\ content'[h] = content[h]
      /\ g \in present' => content'[g] # Files
  BY <1>2, <1>3 DEF StoreType
<1>6. CurrentComplete'
  BY <1>1, <1>2, <1>5 DEF SafeInv, CurrentComplete, Intact
<1>7. ASSUME PowerAhead' PROVE PowerAhead
  BY <1>1, <1>7 DEF PowerAhead
<1>8. ASSUME PowerAhead', NEW h \in {current', saved'}, h # None PROVE Durable(h)'
  <2>1. Durable(h) /\ h # g
    BY <1>1, <1>2, <1>7, <1>8 DEF SafeInv, PowerSafe
  <2> QED
    BY <1>1, <1>5, <2>1 DEF Durable, Intact
<1>9. ASSUME PowerAhead', NEW h \in present'
      PROVE  h \in onDisk' /\ (content'[h] = Files => stored'[h] = Files)
  <2>1. h \in onDisk /\ (content[h] = Files => stored[h] = Files)
    BY <1>4, <1>5, <1>7, <1>9 DEF SafeInv, PowerSafe
  <2> QED
    BY <1>1, <1>5, <1>9, <2>1
<1> QED
  BY <1>6, <1>8, <1>9 DEF SafeInv, PowerSafe

LEMMA PowerLossSafe ==
    ASSUME TypeOK, SafeInv, PowerLoss, home' # "absent"
    PROVE  SafeInv'
<1>1. PowerAhead
  BY DEF PowerLoss, Fault, PowerAhead
<1>2. /\ present \cap onDisk \subseteq present' /\ present' \subseteq Gens
      /\ \A g \in present' : content[g] \cap stored[g] \subseteq content'[g]
      /\ content' \in [Gens -> SUBSET Files]
      /\ current' \in {current, saved} /\ saved' = current'
      /\ onDisk' = present' /\ stored' = content'
  BY TypeView DEF PowerLoss, ReleasesFound, StoreType
<1>3. ASSUME current' # None
      PROVE  /\ current' \in present' /\ content'[current'] = Files
             /\ current' \in onDisk' /\ stored'[current'] = Files
  <2>1. current' \in present \cap onDisk /\ content[current'] = Files /\ stored[current'] = Files
    BY <1>1, <1>2, <1>3 DEF SafeInv, PowerSafe, Durable, Intact
  <2>2. current' \in present' /\ Files \subseteq content'[current']
    BY <1>2, <2>1
  <2>3. content'[current'] = Files
    BY <1>2, <2>2
  <2> QED
    BY <1>2, <2>2, <2>3
<1>4. CurrentComplete'
  BY <1>3 DEF CurrentComplete, Intact
<1>5. PowerSafe'
  BY <1>2, <1>3 DEF PowerSafe, Durable, Intact
<1> QED
  BY <1>4, <1>5 DEF SafeInv

(* Steps of one process that change neither release nor link.              *)
LEMMA OtherSafe ==
    ASSUME IInv, SafeInv, NEW p \in Processes,
           \/ Lock(p) \/ Unlock(p)
           \/ \E g \in Gens : Activate(p, g) /\ UNCHANGED budget
           \/ \E g \in Gens, force \in BOOLEAN : Seed(p, g, force)
           \/ WriteReleaseFile(p) \/ SyncDirectoryTree(p) \/ RemoveTemporary(p) \/ Symlink(p)
           \/ ScanReleases(p) \/ Activated(p)
    PROVE  SafeInv'
<1>1. TypeOK
  BY DEF IInv
<1>2. /\ UNCHANGED <<present, content, onDisk, stored, current, saved>>
      /\ proc[p].pc # "syncReleases"
  BY DEF Lock, Unlock, Activate, Seed, WriteReleaseFile, SyncDirectoryTree, RemoveTemporary,
         Symlink, ScanReleases, Activated, MakeDirectories, releaseVars, linkVars
<1>3. budget'.faults = budget.faults
  <2>1. budget' = budget \/ (Lock(p) /\ Spend("seeds"))
    BY DEF Lock, Unlock, Activate, Seed, WriteReleaseFile, SyncDirectoryTree, RemoveTemporary,
           Symlink, ScanReleases, Activated
  <2>2. Spend("seeds") => budget'.faults = budget.faults
    BY <1>1, TypeView DEF Spend, Budget
  <2> QED
    BY <2>1, <2>2
<1>4. \E w : proc' = [proc EXCEPT ![p] = w]
  BY DEF Lock, Unlock, Activate, Seed, WriteReleaseFile, SyncDirectoryTree, RemoveTemporary,
         Symlink, ScanReleases, Activated, StepTo, Begin, Return, Verified
<1>5. \A q \in Processes : q # p => proc'[q] = proc[q]
  BY <1>1, <1>4, TypeView
<1> QED
  BY <1>2, <1>3, <1>5, SameStore

LEMMA NextSafe == ASSUME Tame, IInv, HomeInv, KeptInv, [Next]_vars PROVE KeptInv'
<1> SUFFICES ASSUME home' # "absent" PROVE SafeInv'
  BY DEF KeptInv
<1>1. TypeOK
  BY DEF IInv
<1>2. SafeInv
  BY Founded DEF KeptInv
<1>3. ASSUME NEW g \in Gens, Publish(g) PROVE SafeInv'
  <2>1. UNCHANGED <<present, content, onDisk, stored, current, saved, proc>>
    BY <1>3 DEF Publish, releaseVars, linkVars
  <2>2. budget'.faults = budget.faults
    BY <1>1, <1>3, TypeView DEF Publish, Spend, Budget
  <2> QED
    BY <1>2, <2>1, <2>2, SameStore
<1>4. ASSUME NEW a \in Agents, ReconcileGoal(a) PROVE SafeInv'
  <2>1. a \in Processes /\ Activate(a, goal) /\ goal \in Gens /\ UNCHANGED budget
    BY <1>1, <1>4, TypeView DEF ReconcileGoal, Processes
  <2> QED
    BY <1>2, <2>1, OtherSafe
<1>5. ASSUME NEW q \in Seeds, NEW g \in Gens, NEW force \in BOOLEAN, Seed(q, g, force)
      PROVE  SafeInv'
  BY <1>2, <1>5, OtherSafe DEF Processes
<1>6. ASSUME NEW p \in Processes, Lock(p) \/ Progress(p) PROVE SafeInv'
  BY <1>2, <1>6, OtherSafe, CommitSafe, SyncReleasesSafe, SwapSafe, SyncRootSafe, RemoveSafe
     DEF Progress
<1>7. ASSUME NEW p \in Processes, CallFails(p) \/ Kill(p) PROVE SafeInv'
  <2>1. ~PowerAhead'
    BY <1>1, <1>7, NoMorePower DEF CallFails, Kill
  <2>2. UNCHANGED <<present, content, current>>
    BY <1>7 DEF CallFails, Kill, releaseVars, linkVars
  <2> QED
    BY <1>2, <2>1, <2>2 DEF SafeInv, PowerSafe, CurrentComplete, Intact
<1>8. CASE PowerLoss
  BY <1>2, <1>1, <1>8, PowerLossSafe
<1>9. CASE UNCHANGED vars
  BY <1>2, <1>9, SameStore DEF vars, releaseVars, linkVars
<1> QED
  BY <1>3, <1>4, <1>5, <1>6, <1>7, <1>8, <1>9 DEF Next

LEMMA SafeInvariance == ASSUME Tame PROVE Spec => [](IInv /\ HomeInv /\ KeptInv)
<1>1. Init => IInv /\ HomeInv /\ KeptInv
  BY InitInv, InitHome, InitSafe DEF KeptInv
<1>2. IInv /\ HomeInv /\ KeptInv /\ [Next]_vars => (IInv /\ HomeInv /\ KeptInv)'
  BY NextInv, NextHome, NextSafe
<1> QED
  BY <1>1, <1>2, PTL DEF Spec

(* As long as the releases are there at all, what current names is         *)
(* complete at every moment of any number of kills and failed calls, of    *)
(* any number of power losses, or of one of either.                        *)
THEOREM CompleteIsKept == Tame => (Spec => []CompleteWhileKept)
<1> SUFFICES ASSUME Tame PROVE Spec => []CompleteWhileKept
  OBVIOUS
<1>1. KeptInv => CompleteWhileKept
  BY DEF KeptInv, SafeInv, CompleteWhileKept
<1> QED
  BY <1>1, SafeInvariance, PTL

(* What current names is complete outright where the power does not fail,  *)
(* and where the directories were on disk before pemcast came to them.     *)
THEOREM CurrentIsComplete ==
    /\ Tame
    /\ "power" \in FaultKinds => Hosts \subseteq {"durable"}
    => (Spec => []CurrentComplete)
<1> SUFFICES ASSUME Tame, "power" \in FaultKinds => Hosts \subseteq {"durable"}
             PROVE  Spec => []CurrentComplete
  OBVIOUS
<1>1. HomeInv /\ KeptInv => CurrentComplete
  BY DEF HomeInv, Homeless, KeptInv, SafeInv, CurrentComplete
<1> QED
  BY <1>1, SafeInvariance, PTL
-----------------------------------------------------------------------------
(* Deployer implements Activation. *)
Whole == {g \in Gens : Intact(g)}

LEMMA WholeStays ==
    UNCHANGED <<present, content>> => Whole' = Whole
BY DEF Whole, Intact

(* The steps of the abstract activation, without its names for them. *)
Secured == home = "durable"

Promised ==
    \/ /\ \E g \in Gens \ Whole : Whole' = Whole \cup {g}
       /\ UNCHANGED <<current, saved, Secured>>
    \/ /\ \E g \in Whole \ {current, saved} : Whole' = Whole \ {g}
       /\ UNCHANGED <<current, saved, Secured>>
    \/ current' \in Whole /\ UNCHANGED <<saved, Whole, Secured>>
    \/ saved' = current /\ UNCHANGED <<current, Whole, Secured>>
    \/ /\ current' \in {current, saved}
       /\ saved' = current'
       /\ Whole' \in {W \in SUBSET Gens : current' # None => current' \in W}
       /\ Secured' \in {TRUE, Secured}
    \/ /\ ~Secured
       /\ current' \in {current, saved, None}
       /\ saved' = current'
       /\ Whole' = {}
       /\ UNCHANGED Secured
    \/ UNCHANGED <<current, saved, Whole, Secured>>

LEMMA CommitPromised ==
    ASSUME IInv, NEW p \in Processes, CommitRelease(p)
    PROVE  Promised
<1> DEFINE g == proc[p].want
<1>1. proc[p].pc = "commit"
  BY DEF CommitRelease
<1>2. StoreType /\ g \in Gens
  BY <1>1, AtWork, TypeView
<1>3. /\ g \notin present /\ present' = present \cup {g}
      /\ content' = [content EXCEPT ![g] = Files]
      /\ UNCHANGED <<home, current, saved>>
  BY CommitFacts
<1> HIDE DEF g
<1>4. g \in Gens \ Whole /\ Whole' = Whole \cup {g}
  BY <1>2, <1>3 DEF Whole, Intact, StoreType
<1> QED
  BY <1>3, <1>4 DEF Promised, Secured

LEMMA SwapPromised ==
    ASSUME IInv, NEW p \in Processes, SwapSymlink(p)
    PROVE  Promised
<1>1. /\ current' = proc[p].want /\ Intact(proc[p].want)
      /\ UNCHANGED <<home, present, content, saved>>
  BY SwapFacts
<1>2. proc[p].want \in Gens
  BY AtWork DEF SwapSymlink
<1> QED
  BY <1>1, <1>2, WholeStays DEF Promised, Secured, Whole

LEMMA RemovePromised ==
    ASSUME IInv, NEW p \in Processes, RemoveEntry(p)
    PROVE  Promised
<1>1. proc[p].pc = "prune" /\ saved = current /\ UNCHANGED <<home, current, saved>>
  BY RemoveFacts
<1>2. StoreType
  BY <1>1, AtWork, TypeView
<1>3. PICK g \in present :
          /\ g # current
          /\ \/ /\ \E f \in content[g] : content' = [content EXCEPT ![g] = @ \ {f}]
                /\ UNCHANGED present
             \/ /\ content[g] = {} /\ present' = present \ {g}
                /\ UNCHANGED content
  BY RemoveFacts
<1>4. /\ \A h \in Gens : h # g => (Intact(h)' <=> Intact(h))
      /\ ~Intact(g)'
  BY <1>2, <1>3 DEF StoreType, Intact
<1>5. g \in Gens /\ Whole' = Whole \ {g}
  BY <1>2, <1>3, <1>4 DEF StoreType, Whole
<1>6. CASE g \in Whole
  BY <1>1, <1>3, <1>5, <1>6 DEF Promised, Secured
<1>7. CASE g \notin Whole
  <2>1. Whole' = Whole
    BY <1>5, <1>7
  <2> QED
    BY <1>1, <2>1 DEF Promised, Secured
<1> QED
  BY <1>6, <1>7

LEMMA PowerPromised ==
    ASSUME IInv, HomeInv, KeptInv', PowerLoss
    PROVE  Promised
<1>1. Whole' \subseteq Gens /\ saved' = current'
  BY DEF Whole, PowerLoss
<1>2. CASE home' # "absent"
  <2>1. current' \in {current, saved} /\ Secured' = TRUE
    BY <1>2 DEF PowerLoss, Secured
  <2>2. ASSUME current' # None PROVE current' \in Whole'
    <3>1. {current', saved'} \subseteq Gens \cup {None}
      BY PowerFacts, TypeView DEF IInv
    <3> QED
      BY <1>2, <2>2, <3>1 DEF KeptInv, SafeInv, CurrentComplete, Whole
  <2> QED
    BY <1>1, <2>1, <2>2 DEF Promised
<1>3. CASE home' = "absent"
  <2>1. ~Secured /\ ~Secured' /\ current' \in {current, saved, None}
    BY <1>3 DEF PowerLoss, Secured
  <2>2. present' = {}
    BY <1>3 DEF PowerLoss, ReleasesFound, HomeInv, Homeless
  <2>3. Whole' = {}
    BY <2>2 DEF Whole, Intact
  <2> QED
    BY <1>1, <2>1, <2>3 DEF Promised, Secured
<1> QED
  BY <1>2, <1>3

LEMMA StepPromised ==
    ASSUME IInv, HomeInv, KeptInv', [Next]_vars
    PROVE  Promised
<1>1. ASSUME UNCHANGED <<present, content, current, saved>>, Secured' = Secured PROVE Promised
  BY <1>1, WholeStays DEF Promised
<1>2. CASE \/ \E g \in Gens : Publish(g)
           \/ \E a \in Agents : ReconcileGoal(a)
           \/ \E q \in Seeds, g \in Gens, force \in BOOLEAN : Seed(q, g, force)
           \/ \E p \in Processes : Lock(p) \/ CallFails(p) \/ Kill(p)
           \/ UNCHANGED vars
  <2>1. UNCHANGED <<present, content, current, saved>> /\ (home' = home \/ MakeDirectories)
    BY <1>2 DEF Publish, ReconcileGoal, Seed, Activate, MakeDirectories, Lock, CallFails, Kill,
                vars, releaseVars, linkVars
  <2>2. Secured' = Secured
    BY <2>1 DEF Secured, MakeDirectories
  <2> QED
    BY <1>1, <2>1, <2>2
<1>3. ASSUME NEW p \in Processes, Progress(p) PROVE Promised
  <2>1. CASE \/ WriteReleaseFile(p) \/ SyncDirectoryTree(p) \/ SyncReleases(p)
             \/ RemoveTemporary(p) \/ Symlink(p) \/ ScanReleases(p) \/ Activated(p)
             \/ Unlock(p)
    BY <1>1, <2>1
       DEF WriteReleaseFile, SyncDirectoryTree, SyncReleases, RemoveTemporary, Symlink,
           ScanReleases, Activated, Unlock, Secured, releaseVars, linkVars
  <2>2. CASE SyncRoot(p)
    BY <2>2, WholeStays DEF SyncRoot, releaseVars, Promised, Secured
  <2> QED
    BY <1>3, <2>1, <2>2, CommitPromised, SwapPromised, RemovePromised DEF Progress
<1> QED
  BY <1>2, <1>3, PowerPromised DEF Next

(* Every step is one that Activation allows: the link only ever moves to a *)
(* whole release, no release is taken apart while the link or its durable  *)
(* entry names it, and a power loss leaves a link to a whole release, or,  *)
(* as long as none has spared the directories, no release at all.          *)
THEOREM ActivationRefinement == Tame => (Spec => ImplementsActivation)
<1> SUFFICES ASSUME Tame PROVE Spec => ImplementsActivation
  OBVIOUS
<1>1. Init => Promise!Init
  BY DEF Init, Promise!Init, Intact
<1>2. IInv /\ HomeInv /\ KeptInv' /\ [Next]_vars
          => [Promise!Next]_<<current, saved, {g \in Gens : Intact(g)}, home = "durable">>
  <2> SUFFICES ASSUME IInv, HomeInv, KeptInv', [Next]_vars
               PROVE  Promise!Next \/ UNCHANGED <<current, saved, Whole, Secured>>
    BY DEF Whole, Secured
  <2>1. Promised
    BY StepPromised
  <2> QED
    BY <2>1 DEF Promised, Whole, Secured, Promise!Next, Promise!Prepare, Promise!Discard,
                Promise!Switch, Promise!Settle, Promise!PowerLoss, Promise!Ruin
<1>3. Spec => [](IInv /\ HomeInv /\ KeptInv)
  BY SafeInvariance
<1> QED
  BY <1>1, <1>2, <1>3, PTL DEF Spec, ImplementsActivation, Promise!Spec

=============================================================================
