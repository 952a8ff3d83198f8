--------------------------- MODULE RootLocksProofs --------------------------
(***************************************************************************)
(* Proofs about RootLocks, for any processes, output roots and             *)
(* configurations.                                                         *)
(***************************************************************************)
EXTENDS RootLocks, OrderLemmas, TLAPS

RankOf(p, i) == Rank[config[p][i]]

(* A lock is one of a target that its process has passed, on the inode     *)
(* that is still in place, and there is one lock per root.                 *)
LocksSound ==
    /\ \A l \in locks :
           /\ l.target \in DOMAIN config[l.proc]
           /\ l.target \notin left[l.proc]
           /\ l.root = config[l.proc][l.target]
           /\ l.inode = file[l.root]
           /\ l.inode # 0
    /\ \A l, m \in locks : l.root = m.root => l = m

(* A lock file that has just been opened is the one in place. *)
OpenedSound ==
    \A p \in Processes :
        opened[p] # 0 =>
            status[p] = "locking" /\ left[p] # {} /\ opened[p] = file[Root(p)]

(* A process holds the locks of all the targets it has passed. *)
LocksComplete ==
    \A p \in Processes :
        /\ status[p] = "running" => left[p] = {}
        /\ status[p] \in {"locking", "running"} =>
               \A i \in DOMAIN config[p] :
                   i \in left[p] \/ \E l \in locks : l.proc = p /\ l.target = i

(* Only accepted configurations get this far. *)
Admitted ==
    \A p \in Processes :
        status[p] \notin {"new", "rejected"} => Accepted(config[p])

(* Roots are locked in increasing rank. *)
Sorted ==
    \A l \in locks : \A i \in left[l.proc] : Rank[l.root] < RankOf(l.proc, i)

(* A process that gave up still knows the target at which it failed. *)
Failed == {p \in Processes : status[p] \in {"closing", "refused"}}
FailedSomewhere == \A p \in Failed : left[p] # {}

(* The winner: done, or beyond every root at which anyone has failed. *)
Ahead(g) == \A p \in Failed, i \in left[g] : Rank[Root(p)] < RankOf(g, i)
Winner(g) ==
    \/ status[g] \in {"running", "exiting", "exited", "killed"}
    \/ status[g] = "locking" /\ Ahead(g)
SomeWinner == Failed # {} => \E g \in Processes : Winner(g)

IInv ==
    /\ TypeOK
    /\ LocksSound
    /\ OpenedSound
    /\ LocksComplete
    /\ Admitted
    /\ Sorted
    /\ FailedSomewhere
    /\ SomeWinner

-----------------------------------------------------------------------------
(* The next target is one of those left, and none of them has a root of   *)
(* lower rank: what the sort of LockRoots ensures.                        *)
LEMMA TargetIsLeast ==
    ASSUME TypeOK, NEW p \in Processes, left[p] # {}
    PROVE  /\ Target(p) \in left[p]
           /\ \A j \in left[p] : RankOf(p, Target(p)) <= RankOf(p, j)
<1>. DEFINE T == {RankOf(p, i) : i \in left[p]}
<1>1. \A i \in left[p] : RankOf(p, i) \in Nat
    BY RootLocksAssumption DEF TypeOK, Configs, RankOf
<1>2. PICK m \in T : \A n \in T : m <= n
    <2>1. T \subseteq Nat /\ T # {}
        BY <1>1
    <2>. QED BY <2>1, LeastNat
<1>3. \E i \in left[p] : \A j \in left[p] : Rank[config[p][i]] <= Rank[config[p][j]]
    BY <1>2 DEF RankOf
<1>. QED BY <1>3 DEF Target, RankOf

(* Where a process stands does not change while it keeps what is left. *)
LEMMA RootStable ==
    ASSUME NEW q \in Processes, config' = config, left'[q] = left[q]
    PROVE  /\ Root(q)' = Root(q)
           /\ \A i : RankOf(q, i)' = RankOf(q, i)
BY DEF Root, Target, RankOf

(* The roots of an accepted configuration are distinct. *)
LEMMA DistinctRoots ==
    ASSUME TypeOK, NEW p \in Processes, Accepted(config[p]),
           NEW i \in DOMAIN config[p], NEW j \in DOMAIN config[p],
           i # j
    PROVE  config[p][i] # config[p][j]
<1>1. i \in Nat /\ j \in Nat
    BY RootLocksAssumption DEF TypeOK, Configs
<1>2. i < j \/ j < i
    BY <1>1
<1>. QED BY <1>2 DEF Accepted, Overlap

(* Ranks are natural numbers, and equal only for the same root. *)
LEMMA Ranks ==
    ASSUME TypeOK, NEW p \in Processes, NEW i \in DOMAIN config[p]
    PROVE  /\ config[p][i] \in Roots
           /\ RankOf(p, i) \in Nat
           /\ \A j \in DOMAIN config[p] :
                  RankOf(p, i) = RankOf(p, j) => config[p][i] = config[p][j]
BY RootLocksAssumption DEF TypeOK, Configs, RankOf

(* The lock that refuses a process is another process's. *)
LEMMA OthersLock ==
    ASSUME IInv, NEW p \in Processes, status[p] = "locking", left[p] # {},
           NEW l \in locks, l.root = Root(p)
    PROVE  l.proc # p
<1>. SUFFICES ASSUME l.proc = p PROVE FALSE
    OBVIOUS
<1>1. Target(p) \in left[p] /\ Target(p) \in DOMAIN config[p]
    BY TargetIsLeast DEF IInv, TypeOK
<1>2. l.target \in DOMAIN config[p] /\ l.target # Target(p) /\ l.root = config[p][l.target]
    BY <1>1 DEF IInv, LocksSound
<1>3. Accepted(config[p])
    BY DEF IInv, Admitted
<1>. QED BY <1>1, <1>2, <1>3, DistinctRoots DEF IInv, Root

-----------------------------------------------------------------------------
LEMMA InitIInv == Init => IInv
<1>. SUFFICES ASSUME Init PROVE IInv
    OBVIOUS
<1>. USE DEF Init
<1>1. TypeOK
    BY DEF TypeOK, Status
<1>2. LocksSound /\ OpenedSound /\ Sorted
    BY DEF LocksSound, OpenedSound, Sorted
<1>3. LocksComplete /\ Admitted
    BY DEF LocksComplete, Admitted
<1>4. FailedSomewhere /\ SomeWinner
    BY DEF FailedSomewhere, SomeWinner, Failed
<1>. QED BY <1>1, <1>2, <1>3, <1>4 DEF IInv

LEMMA StartStep ==
    ASSUME IInv, NEW p \in Processes, Start(p)
    PROVE  IInv'
<1>. USE DEF Start
<1>0. TypeOK
    BY DEF IInv
<1>1. TypeOK'
    <2>1. DOMAIN config[p] \in SUBSET (1..MaxTargets)
        BY <1>0, RootLocksAssumption DEF TypeOK, Configs
    <2>2. left' \in [Processes -> SUBSET (1..MaxTargets)]
        BY <1>0, <2>1 DEF TypeOK
    <2>3. \A q \in Processes : left'[q] \subseteq DOMAIN config[q]
        BY <1>0 DEF TypeOK
    <2>4. status' \in [Processes -> Status]
        BY <1>0 DEF TypeOK, Status
    <2>5. \A l \in locks : status'[l.proc] \in {"locking", "closing", "running", "exiting"}
        BY <1>0 DEF TypeOK, Lock
    <2>. QED BY <1>0, <2>2, <2>3, <2>4, <2>5 DEF TypeOK
<1>2. /\ \A l \in locks : l.proc \in Processes /\ l.proc # p
      /\ \A q \in Processes \ {p} : status'[q] = status[q] /\ left'[q] = left[q]
      /\ opened[p] = 0
      /\ status'[p] \in {"locking", "rejected"}
    BY <1>0 DEF TypeOK, Lock, IInv, OpenedSound
<1>3. \A q \in Processes \ {p} : Root(q)' = Root(q) /\ \A i : RankOf(q, i)' = RankOf(q, i)
    BY <1>2, RootStable
<1>4. Failed' = Failed /\ p \notin Failed
    BY <1>2 DEF Failed
<1>5. LocksSound'
    BY <1>2 DEF IInv, LocksSound
<1>6. OpenedSound'
    BY <1>2, <1>3 DEF IInv, OpenedSound
<1>7. LocksComplete'
    BY <1>0, <1>2 DEF IInv, LocksComplete, TypeOK
<1>8. Admitted'
    BY <1>0, <1>2 DEF IInv, Admitted, TypeOK
<1>9. Sorted'
    BY <1>2, <1>3 DEF IInv, Sorted
<1>10. FailedSomewhere'
    BY <1>2, <1>4 DEF IInv, FailedSomewhere, Failed
<1>11. SomeWinner'
    <2>. SUFFICES ASSUME Failed # {} PROVE \E g \in Processes : Winner(g)'
        BY <1>4 DEF SomeWinner
    <2>1. PICK g \in Processes : Winner(g)
        BY DEF IInv, SomeWinner
    <2>2. g # p
        BY <2>1 DEF Winner
    <2>3. Ahead(g) => Ahead(g)'
        BY <1>2, <1>3, <1>4, <2>2 DEF Ahead, Failed
    <2>. QED BY <1>2, <2>1, <2>2, <2>3 DEF Winner
<1>. QED BY <1>1, <1>5, <1>6, <1>7, <1>8, <1>9, <1>10, <1>11 DEF IInv

LEMMA OpenLockFileStep ==
    ASSUME IInv, NEW p \in Processes, OpenLockFile(p)
    PROVE  IInv'
<1>. USE DEF OpenLockFile
<1>0. TypeOK
    BY DEF IInv
<1>1. Root(p) \in Roots
    BY <1>0, TargetIsLeast, Ranks DEF TypeOK, Root
<1>2. TypeOK'
    BY <1>0, <1>1 DEF TypeOK
<1>3. /\ opened'[p] = file'[Root(p)]
      /\ \A q \in Processes \ {p} : opened'[q] = opened[q]
      /\ \A r \in Roots : file[r] # 0 => file'[r] = file[r]
    BY <1>0, <1>1 DEF TypeOK
<1>4. \A q \in Processes : Root(q)' = Root(q) /\ \A i : RankOf(q, i)' = RankOf(q, i)
    BY RootStable
<1>5. LocksSound'
    BY <1>0, <1>3 DEF IInv, LocksSound, TypeOK, Lock
<1>6. OpenedSound'
    <2>. SUFFICES ASSUME NEW q \in Processes, opened'[q] # 0
                  PROVE  status[q] = "locking" /\ left[q] # {} /\ opened'[q] = file'[Root(q)]
        BY <1>4 DEF OpenedSound
    <2>1. CASE q = p
        BY <1>3, <2>1
    <2>2. CASE q # p
        <3>1. opened[q] # 0 /\ status[q] = "locking" /\ left[q] # {} /\ opened[q] = file[Root(q)]
            BY <1>3, <2>2 DEF IInv, OpenedSound
        <3>2. Root(q) \in Roots
            BY <1>0, <3>1, TargetIsLeast, Ranks DEF TypeOK, Root
        <3>. QED BY <1>3, <2>2, <3>1, <3>2
    <2>. QED BY <2>1, <2>2
<1>7. LocksComplete' /\ Admitted'
    BY DEF IInv, LocksComplete, Admitted
<1>8. Sorted' /\ FailedSomewhere'
    BY DEF IInv, Sorted, FailedSomewhere, Failed, RankOf
<1>9. SomeWinner'
    <2>1. Failed' = Failed
        BY DEF Failed
    <2>2. \A g \in Processes : Winner(g) => Winner(g)'
        BY <1>4, <2>1 DEF Winner, Ahead, Failed
    <2>. QED BY <2>1, <2>2 DEF IInv, SomeWinner
<1>. QED BY <1>2, <1>5, <1>6, <1>7, <1>8, <1>9 DEF IInv

(* Refused: the holder of the lock, or whoever is ahead of it, wins. *)
LEMMA RefusedStep ==
    ASSUME IInv, NEW p \in Processes, Flock(p), Held(Root(p), opened[p])
    PROVE  IInv'
<1>. USE DEF Flock
<1>0. TypeOK
    BY DEF IInv
<1>1. /\ status[p] = "locking" /\ left[p] # {}
      /\ \A q \in Processes \ {p} : status'[q] = status[q] /\ opened'[q] = opened[q]
      /\ status'[p] = "closing" /\ opened'[p] = 0
      /\ left' = left /\ locks' = locks /\ config' = config /\ file' = file
    BY <1>0 DEF TypeOK, IInv, OpenedSound
<1>2. TypeOK'
    BY <1>0, <1>1 DEF TypeOK, Status, Lock
<1>3. \A q \in Processes : Root(q)' = Root(q) /\ \A i : RankOf(q, i)' = RankOf(q, i)
    BY <1>1, RootStable
<1>4. Failed' = Failed \cup {p} /\ p \notin Failed
    BY <1>1 DEF Failed
<1>5. LocksSound' /\ Sorted'
    <2>1. \A q, i : RankOf(q, i)' = RankOf(q, i)
        BY <1>1 DEF RankOf
    <2>2. Sorted'
        BY <1>1, <2>1 DEF IInv, Sorted
    <2>. QED BY <1>1, <2>2 DEF IInv, LocksSound
<1>6. OpenedSound'
    BY <1>1, <1>3 DEF IInv, OpenedSound
<1>7. LocksComplete' /\ Admitted'
    BY <1>1 DEF IInv, LocksComplete, Admitted
<1>8. FailedSomewhere'
    BY <1>1, <1>4 DEF IInv, FailedSomewhere
<1>9. SomeWinner'
    <2>1. PICK l \in locks : l.root = Root(p)
        BY DEF Held
    <2>. DEFINE q == l.proc
    <2>2. q \in Processes /\ q # p
        BY <1>0, <1>1, <2>1, OthersLock DEF TypeOK, Lock
    <2>3. \A i \in left[q] : Rank[Root(p)] < RankOf(q, i)
        BY <2>1 DEF IInv, Sorted
    <2>4. \A f \in Failed \cup {p} :
              /\ Target(f) \in left[f]
              /\ Rank[Root(f)] = RankOf(f, Target(f))
              /\ Rank[Root(f)] \in Nat
        <3>. SUFFICES ASSUME NEW f \in Failed \cup {p}
                      PROVE  /\ Target(f) \in left[f]
                             /\ Rank[Root(f)] = RankOf(f, Target(f))
                             /\ Rank[Root(f)] \in Nat
            OBVIOUS
        <3>1. f \in Processes /\ left[f] # {}
            BY <1>1 DEF IInv, FailedSomewhere, Failed
        <3>2. Target(f) \in left[f] /\ Target(f) \in DOMAIN config[f]
            BY <1>0, <3>1, TargetIsLeast DEF TypeOK
        <3>. QED BY <1>0, <3>1, <3>2, Ranks DEF Root, RankOf
    <2>5. CASE \A f \in Failed : Rank[Root(f)] < Rank[Root(p)]
        <3>1. q \notin Failed
            BY <2>2, <2>3, <2>4, <2>5
        <3>2. status[q] \in {"locking", "running", "exiting"}
            BY <1>0, <2>2, <3>1 DEF TypeOK, Failed
        <3>3. \A f \in Failed \cup {p}, i \in left[q] : Rank[Root(f)] < RankOf(q, i)
            <4>1. \A i \in left[q] : RankOf(q, i) \in Nat
                BY <1>0, <2>2, Ranks DEF TypeOK
            <4>. QED BY <2>3, <2>4, <2>5, <4>1
        <3>4. Ahead(q)'
            BY <1>1, <1>3, <1>4, <2>2, <3>3 DEF Ahead, Failed
        <3>. QED BY <1>1, <2>2, <3>2, <3>4 DEF SomeWinner, Winner
    <2>6. CASE \E f \in Failed : ~ (Rank[Root(f)] < Rank[Root(p)])
        <3>1. PICK g \in Processes : Winner(g)
            BY <2>6 DEF IInv, SomeWinner
        <3>2. CASE status[g] \in {"running", "exiting", "exited", "killed"}
            BY <1>1, <3>1, <3>2 DEF SomeWinner, Winner
        <3>3. CASE status[g] = "locking" /\ Ahead(g)
            <4>1. PICK f \in Failed : ~ (Rank[Root(f)] < Rank[Root(p)])
                BY <2>6
            <4>2. \A i \in left[g] : Rank[Root(f)] < RankOf(g, i) /\ RankOf(g, i) \in Nat
                BY <1>0, <3>3, Ranks DEF Ahead, TypeOK
            <4>3. \A i \in left[g] : Rank[Root(p)] < RankOf(g, i)
                BY <2>4, <4>1, <4>2
            <4>4. g # p
                BY <2>4, <4>3
            <4>5. \A e \in Failed \cup {p}, i \in left[g] : Rank[Root(e)] < RankOf(g, i)
                BY <3>3, <4>3 DEF Ahead
            <4>6. Ahead(g)'
                BY <1>1, <1>3, <1>4, <4>5 DEF Ahead, Failed
            <4>. QED BY <1>1, <3>3, <4>4, <4>6 DEF SomeWinner, Winner
        <3>. QED BY <3>1, <3>2, <3>3 DEF Winner
    <2>. QED BY <2>5, <2>6
<1>. QED BY <1>2, <1>5, <1>6, <1>7, <1>8, <1>9 DEF IInv

(* Locked: the new lock is alone on its root and below what is left. *)
LEMMA LockedStep ==
    ASSUME IInv, NEW p \in Processes, Flock(p), ~ Held(Root(p), opened[p])
    PROVE  IInv'
<1>. USE DEF Flock
<1>0. TypeOK
    BY DEF IInv
<1>. DEFINE t == Target(p)
            n == [proc |-> p, target |-> t, root |-> Root(p), inode |-> opened[p]]
<1>1. /\ status[p] = "locking" /\ left[p] # {}
      /\ opened[p] = file[Root(p)] /\ opened[p] # 0
    BY DEF IInv, OpenedSound
<1>2. /\ t \in left[p] /\ t \in DOMAIN config[p]
      /\ \A j \in left[p] : RankOf(p, t) <= RankOf(p, j)
    BY <1>0, <1>1, TargetIsLeast DEF TypeOK
<1>3. Root(p) \in Roots /\ Root(p) = config[p][t] /\ Rank[Root(p)] = RankOf(p, t)
    BY <1>0, <1>2, Ranks DEF Root, RankOf
<1>4. /\ locks' = locks \cup {n}
      /\ left'[p] = left[p] \ {t}
      /\ \A q \in Processes \ {p} : left'[q] = left[q] /\ opened'[q] = opened[q]
      /\ opened'[p] = 0
      /\ config' = config /\ file' = file /\ status' = status
    BY <1>0 DEF TypeOK
<1>5. n \in Lock
    <2>1. t \in Nat
        BY <1>0, <1>2, RootLocksAssumption DEF TypeOK, Configs
    <2>. QED BY <1>0, <1>3, <2>1 DEF TypeOK, Lock
<1>6. TypeOK'
    <2>1. left' \in [Processes -> SUBSET (1..MaxTargets)]
        BY <1>0 DEF TypeOK
    <2>2. \A q \in Processes : left'[q] \subseteq DOMAIN config[q]
        BY <1>0, <1>4 DEF TypeOK
    <2>3. \A l \in locks' : status[l.proc] \in {"locking", "closing", "running", "exiting"}
        BY <1>0, <1>1, <1>4 DEF TypeOK
    <2>4. opened' \in [Processes -> Nat] /\ made' = made
        BY <1>0 DEF TypeOK
    <2>. QED BY <1>0, <1>4, <1>5, <2>1, <2>2, <2>3, <2>4 DEF TypeOK
<1>7. /\ \A q \in Processes \ {p} : Root(q)' = Root(q)
      /\ \A q, i : RankOf(q, i)' = RankOf(q, i)
    BY <1>4, RootStable DEF RankOf
<1>8. LocksSound'
    <2>1. \A l \in locks : l.root # Root(p)
        BY <1>1 DEF IInv, LocksSound, Held
    <2>2. \A l \in locks : l.target \notin left'[l.proc]
        BY <1>0, <1>4 DEF IInv, LocksSound, TypeOK, Lock
    <2>3. n.target \notin left'[n.proc]
        BY <1>4
    <2>. QED BY <1>1, <1>2, <1>3, <1>4, <2>1, <2>2, <2>3 DEF IInv, LocksSound
<1>9. OpenedSound'
    BY <1>4, <1>7 DEF IInv, OpenedSound
<1>10. LocksComplete'
    <2>1. \A q \in Processes : status[q] = "running" => left'[q] = {}
        BY <1>1, <1>4 DEF IInv, LocksComplete
    <2>2. \A q \in Processes : status[q] \in {"locking", "running"} =>
              \A i \in DOMAIN config[q] :
                  i \in left'[q] \/ \E l \in locks' : l.proc = q /\ l.target = i
        <3>. SUFFICES ASSUME NEW q \in Processes, status[q] \in {"locking", "running"},
                             NEW i \in DOMAIN config[q], i \notin left'[q]
                      PROVE  \E l \in locks' : l.proc = q /\ l.target = i
            OBVIOUS
        <3>1. CASE q = p /\ i = t
            <4>1. n \in locks' /\ n.proc = p /\ n.target = t
                BY <1>4
            <4>. QED BY <3>1, <4>1, Zenon
        <3>2. CASE ~ (q = p /\ i = t)
            <4>1. i \notin left[q]
                BY <1>4, <3>2
            <4>. QED BY <1>4, <4>1 DEF IInv, LocksComplete
        <3>. QED BY <3>1, <3>2
    <2>. QED BY <1>4, <2>1, <2>2 DEF LocksComplete
<1>11. Admitted'
    BY <1>4 DEF IInv, Admitted
<1>12. Sorted'
    <2>1. \A l \in locks : \A i \in left'[l.proc] : Rank[l.root] < RankOf(l.proc, i)
        BY <1>0, <1>4 DEF IInv, Sorted, TypeOK, Lock
    <2>2. \A i \in left'[p] : Rank[Root(p)] < RankOf(p, i)
        <3>. SUFFICES ASSUME NEW i \in left[p], i # t
                      PROVE  RankOf(p, t) < RankOf(p, i)
            BY <1>3, <1>4
        <3>1. i \in DOMAIN config[p] /\ Accepted(config[p])
            BY <1>0, <1>1 DEF TypeOK, IInv, Admitted
        <3>2. config[p][t] # config[p][i]
            BY <1>0, <1>2, <3>1, DistinctRoots
        <3>3. RankOf(p, t) # RankOf(p, i) /\ RankOf(p, t) \in Nat /\ RankOf(p, i) \in Nat
            BY <1>0, <1>2, <3>1, <3>2, Ranks
        <3>. QED BY <1>2, <3>3
    <2>. QED BY <1>4, <1>7, <2>1, <2>2 DEF Sorted
<1>13. Failed' = Failed /\ p \notin Failed
    BY <1>1, <1>4 DEF Failed
<1>14. FailedSomewhere'
    BY <1>4, <1>13 DEF IInv, FailedSomewhere, Failed
<1>15. SomeWinner'
    <2>1. \A g \in Processes : Ahead(g) => Ahead(g)'
        BY <1>4, <1>7, <1>13 DEF Ahead, Failed
    <2>. QED BY <1>4, <1>13, <2>1 DEF IInv, SomeWinner, Winner
<1>. QED BY <1>6, <1>8, <1>9, <1>10, <1>11, <1>12, <1>14, <1>15 DEF IInv

LEMMA RunExitStep ==
    ASSUME IInv, NEW p \in Processes, Run(p) \/ Exit(p)
    PROVE  IInv'
<1>. USE DEF Run, Exit
<1>0. TypeOK
    BY DEF IInv
<1>1. /\ status[p] \in {"locking", "running"} /\ left[p] = {}
      /\ status'[p] \in {"running", "exiting"}
      /\ \A q \in Processes \ {p} : status'[q] = status[q]
      /\ opened[p] = 0
      /\ UNCHANGED <<config, left, opened, file, made, locks>>
    BY <1>0 DEF TypeOK, IInv, OpenedSound, LocksComplete
<1>2. TypeOK'
    BY <1>0, <1>1 DEF TypeOK, Status, Lock
<1>3. /\ \A q \in Processes : Root(q)' = Root(q)
      /\ \A q, i : RankOf(q, i)' = RankOf(q, i)
    BY <1>1, RootStable DEF RankOf
<1>4. LocksSound' /\ Sorted'
    <2>1. LocksSound'
        BY <1>1 DEF IInv, LocksSound
    <2>. QED BY <1>1, <1>3, <2>1 DEF IInv, Sorted
<1>5. OpenedSound'
    BY <1>1, <1>3 DEF IInv, OpenedSound
<1>6. LocksComplete' /\ Admitted'
    BY <1>1 DEF IInv, LocksComplete, Admitted
<1>7. Failed' = Failed
    BY <1>1 DEF Failed
<1>8. FailedSomewhere'
    BY <1>1, <1>7 DEF IInv, FailedSomewhere
<1>9. SomeWinner'
    <2>1. \A g \in Processes : Ahead(g) => Ahead(g)'
        BY <1>1, <1>3, <1>7 DEF Ahead, Failed
    <2>. QED BY <1>1, <1>7, <2>1 DEF IInv, SomeWinner, Winner
<1>. QED BY <1>2, <1>4, <1>5, <1>6, <1>8, <1>9 DEF IInv

LEMMA CloseStep ==
    ASSUME IInv, NEW p \in Processes, Close(p) \/ Closed(p)
    PROVE  IInv'
<1>0. TypeOK
    BY DEF IInv
<1>1. /\ status[p] \in {"closing", "exiting"}
      /\ status'[p] \in {status[p], IF status[p] = "closing" THEN "refused" ELSE "exited"}
      /\ \A q \in Processes \ {p} : status'[q] = status[q]
      /\ UNCHANGED <<config, left, opened, file, made>>
      /\ locks' \subseteq locks
      /\ \A l \in locks : l.proc # p => l \in locks'
    BY <1>0 DEF TypeOK, Close, Closed, LocksOf
<1>2. TypeOK'
    <2>1. \A l \in locks' : status'[l.proc] \in {"locking", "closing", "running", "exiting"}
        BY <1>0, <1>1 DEF TypeOK, Lock, Close, Closed, LocksOf
    <2>2. status' \in [Processes -> Status]
        BY <1>0 DEF TypeOK, Status, Close, Closed
    <2>. QED BY <1>0, <1>1, <2>1, <2>2 DEF TypeOK
<1>3. /\ \A q \in Processes : Root(q)' = Root(q)
      /\ \A q, i : RankOf(q, i)' = RankOf(q, i)
    BY <1>1, RootStable DEF RankOf
<1>4. LocksSound' /\ Sorted'
    <2>1. LocksSound'
        BY <1>1 DEF IInv, LocksSound
    <2>. QED BY <1>1, <1>3, <2>1 DEF IInv, Sorted
<1>5. OpenedSound'
    BY <1>1, <1>3 DEF IInv, OpenedSound
<1>6. LocksComplete'
    BY <1>1 DEF IInv, LocksComplete
<1>7. Admitted'
    BY <1>1 DEF IInv, Admitted
<1>8. Failed' = Failed
    BY <1>1 DEF Failed
<1>9. FailedSomewhere'
    BY <1>1, <1>8 DEF IInv, FailedSomewhere
<1>10. SomeWinner'
    <2>1. \A g \in Processes : Ahead(g) => Ahead(g)'
        BY <1>1, <1>3, <1>8 DEF Ahead, Failed
    <2>. QED BY <1>1, <1>8, <2>1 DEF IInv, SomeWinner, Winner
<1>. QED BY <1>2, <1>4, <1>5, <1>6, <1>7, <1>9, <1>10 DEF IInv

LEMMA KillStep ==
    ASSUME IInv, NEW p \in Processes, Kill(p)
    PROVE  IInv'
<1>. USE DEF Kill
<1>0. TypeOK
    BY DEF IInv
<1>1. /\ status'[p] = "killed" /\ opened'[p] = 0
      /\ \A q \in Processes \ {p} : status'[q] = status[q] /\ opened'[q] = opened[q]
      /\ UNCHANGED <<config, left, file, made>>
      /\ locks' \subseteq locks
      /\ \A l \in locks : l \in locks' <=> l.proc # p
    BY <1>0 DEF TypeOK, LocksOf
<1>2. TypeOK'
    <2>1. \A l \in locks' : status'[l.proc] \in {"locking", "closing", "running", "exiting"}
        BY <1>0, <1>1 DEF TypeOK, Lock
    <2>2. status' \in [Processes -> Status] /\ opened' \in [Processes -> Nat]
        BY <1>0 DEF TypeOK, Status
    <2>. QED BY <1>0, <1>1, <2>1, <2>2 DEF TypeOK
<1>3. /\ \A q \in Processes : Root(q)' = Root(q)
      /\ \A q, i : RankOf(q, i)' = RankOf(q, i)
    BY <1>1, RootStable DEF RankOf
<1>4. LocksSound' /\ Sorted'
    <2>1. LocksSound'
        BY <1>1 DEF IInv, LocksSound
    <2>. QED BY <1>1, <1>3, <2>1 DEF IInv, Sorted
<1>5. OpenedSound'
    BY <1>1, <1>3 DEF IInv, OpenedSound
<1>6. LocksComplete'
    BY <1>1 DEF IInv, LocksComplete
<1>7. Admitted'
    BY DEF IInv, Admitted, TypeOK
<1>8. FailedSomewhere'
    BY <1>1 DEF IInv, FailedSomewhere, Failed
<1>9. SomeWinner'
    BY <1>1 DEF SomeWinner, Winner
<1>. QED BY <1>2, <1>4, <1>5, <1>6, <1>7, <1>8, <1>9 DEF IInv

LEMMA StutterStep == IInv /\ UNCHANGED vars => IInv'
<1>. SUFFICES ASSUME IInv, UNCHANGED vars PROVE IInv'
    OBVIOUS
<1>. USE DEF vars
<1>1. TypeOK' /\ LocksSound' /\ LocksComplete' /\ Admitted'
    BY DEF IInv, TypeOK, LocksSound, LocksComplete, Admitted
<1>2. \A q, i : RankOf(q, i)' = RankOf(q, i) /\ Root(q)' = Root(q)
    BY DEF RankOf, Root, Target
<1>3. OpenedSound' /\ Sorted'
    BY <1>2 DEF IInv, OpenedSound, Sorted
<1>4. FailedSomewhere' /\ SomeWinner'
    BY <1>2 DEF IInv, FailedSomewhere, SomeWinner, Failed, Winner, Ahead
<1>. QED BY <1>1, <1>3, <1>4 DEF IInv

LEMMA NextIInv == IInv /\ [Next]_vars => IInv'
<1>. SUFFICES ASSUME IInv, [Next]_vars PROVE IInv'
    OBVIOUS
<1>1. CASE UNCHANGED vars
    BY <1>1, StutterStep
<1>2. ASSUME NEW p \in Processes, Start(p) PROVE IInv'
    BY <1>2, StartStep
<1>3. ASSUME NEW p \in Processes, OpenLockFile(p) PROVE IInv'
    BY <1>3, OpenLockFileStep
<1>4. ASSUME NEW p \in Processes, Flock(p) PROVE IInv'
    BY <1>4, RefusedStep, LockedStep
<1>5. ASSUME NEW p \in Processes, Run(p) \/ Exit(p) PROVE IInv'
    BY <1>5, RunExitStep
<1>6. ASSUME NEW p \in Processes, Close(p) \/ Closed(p) PROVE IInv'
    BY <1>6, CloseStep
<1>7. ASSUME NEW p \in Processes, Kill(p) PROVE IInv'
    BY <1>7, KillStep
<1>. QED BY <1>1, <1>2, <1>3, <1>4, <1>5, <1>6, <1>7 DEF Next

(* The inductive invariant holds in every behaviour of lock.go. *)
LEMMA Invariance == Spec => []IInv
BY InitIInv, NextIInv, PTL DEF Spec

-----------------------------------------------------------------------------
(* The variables keep their shape, and only a process that locks, runs or  *)
(* gives back holds a lock (LockRoots, Close).                             *)
THEOREM TypeCorrect == Spec => []TypeOK
<1>1. IInv => TypeOK
    BY DEF IInv
<1>. QED BY <1>1, Invariance, PTL

(* Two processes that run never manage the same root: a flock on an inode  *)
(* excludes because the file in place keeps its inode while it is held.    *)
THEOREM MutualExclusion == Spec => []Exclusive
<1>1. IInv => Exclusive
    <2>. SUFFICES ASSUME IInv, NEW p \in Processes, NEW q \in Processes, p # q,
                         status[p] = "running", status[q] = "running",
                         NEW i \in DOMAIN config[p], NEW j \in DOMAIN config[q],
                         config[p][i] = config[q][j]
                  PROVE  FALSE
        BY DEF Exclusive, Managed
    <2>1. PICK l \in locks : l.proc = p /\ l.target = i
        BY DEF IInv, LocksComplete
    <2>2. PICK m \in locks : m.proc = q /\ m.target = j
        BY DEF IInv, LocksComplete
    <2>. QED BY <2>1, <2>2 DEF IInv, LocksSound
<1>. QED BY <1>1, Invariance, PTL

(* Processes started together do not all refuse each other, whatever their *)
(* number and their targets, because LockRoots locks in sorted order.      *)
THEOREM OneGetsThrough == Spec => []NotEveryoneRefused
<1>1. IInv => NotEveryoneRefused
    BY DEF IInv, SomeWinner, Winner, Failed, NotEveryoneRefused
<1>. QED BY <1>1, Invariance, PTL

(* A process that is refused met a lock of another process, never its own. *)
THEOREM RefusedByOthers == Spec => NoSelfConflict
<1>. DEFINE Refusal == \A p \in Processes :
                status[p] = "locking" /\ status'[p] = "closing"
                    => \E l \in locks : l.proc # p /\ l.root = Root(p)
<1>1. IInv /\ [Next]_vars => [Refusal]_vars
    <2>. SUFFICES ASSUME IInv, Next, NEW p \in Processes,
                         status[p] = "locking", status'[p] = "closing"
                  PROVE  \E l \in locks : l.proc # p /\ l.root = Root(p)
        OBVIOUS
    <2>1. Flock(p)
        BY DEF Next, IInv, TypeOK, Start, OpenLockFile, Flock, Run, Exit, Close, Closed, Kill
    <2>2. PICK l \in locks : l.root = Root(p)
        BY <2>1 DEF Flock, Held, IInv, TypeOK
    <2>3. left[p] # {}
        BY <2>1 DEF Flock, IInv, OpenedSound
    <2>. QED BY <2>2, <2>3, OthersLock
<1>. QED BY <1>1, Invariance, PTL DEF Spec, NoSelfConflict


(* Whether two overlapping roots are refused depends on which comes first  *)
(* in the configuration: the path from an ancestor to its descendant is    *)
(* recognised, the path from the descendant to the ancestor ("..") is not. *)
THEOREM OrderDecidesOverlap ==
    ASSUME NEW outer \in Roots, NEW inner \in Roots,
           <<outer, inner>> \in Inside \ DotDot, <<inner, outer>> \notin Inside
    PROVE  /\ ~Accepted(<<outer, inner>>)
           /\ Accepted(<<inner, outer>>)
<1>1. inner # outer
    BY RootLocksAssumption
<1>2. Overlap(outer, inner) /\ ~Overlap(inner, outer)
    BY <1>1 DEF Overlap
<1>3. \A x, y : <<x, y>>[1] = x /\ <<x, y>>[2] = y /\ DOMAIN <<x, y>> = {1, 2}
    OBVIOUS
<1>4. ~Accepted(<<outer, inner>>)
    BY <1>2, <1>3 DEF Accepted
<1>5. Accepted(<<inner, outer>>)
    BY <1>2, <1>3 DEF Accepted
<1>. QED BY <1>4, <1>5
=============================================================================
