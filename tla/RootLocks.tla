----------------------------- MODULE RootLocks ------------------------------
(***************************************************************************)
(* internal/deploy/lock.go and validateOutputRoots of internal/config: how *)
(* processes (agents, seed commands) that are started at the same time     *)
(* share the output roots of one host.  A process locks the roots of its   *)
(* targets one after the other with a non-blocking flock on the file       *)
(* agent.lock of each root, and gives back what it holds when one is taken.*)
(* A flock belongs to the inode that was opened, not to the path.          *)
(* Every process is one attempt; a retry is another process.               *)
(***************************************************************************)
EXTENDS Naturals, Sequences, FiniteSets

CONSTANTS
    Processes,  \* started at any time, each with its own configuration
    Roots,      \* output roots
    Rank,       \* Rank[r]: position of r in lexical order
    Inside,     \* <<l, r>>: r lies below l
    DotDot,     \* <<l, r>> of Inside where the path from l starts with ".."
    MaxTargets  \* bound: targets of one configuration

ASSUME RootLocksAssumption ==
    /\ Rank \in [Roots -> Nat]
    /\ \A r, s \in Roots : Rank[r] = Rank[s] => r = s
    /\ Inside \subseteq Roots \X Roots
    /\ \A r \in Roots : <<r, r>> \notin Inside
    /\ DotDot \subseteq Inside
    /\ MaxTargets \in Nat

VARIABLES
    config,  \* per process: the output roots of its targets, in file order
    status,  \* per process: where it is
    left,    \* per process: targets not locked yet
    opened,  \* per process: inode of the lock file it has just opened
    file,    \* per root: inode of agent.lock, 0 when there is none
    made,    \* per root: inodes ever created for it
    locks    \* flocks held

vars == <<config, status, left, opened, file, made, locks>>

Status == {"new", "rejected", "locking", "closing", "refused",
           "running", "exiting", "exited", "killed"}
Lock == [proc : Processes, target : Nat, root : Roots, inode : Nat]
Configs == UNION {[1..n -> Roots] : n \in 1..MaxTargets}

(* The variables keep their shape, and a process that has been refused, has*)
(* exited or was killed holds no lock (Close, LockRoots on its error path).*)
TypeOK ==
    /\ config \in [Processes -> Configs]
    /\ status \in [Processes -> Status]
    /\ left \in [Processes -> SUBSET (1..MaxTargets)]
    /\ \A p \in Processes : left[p] \subseteq DOMAIN config[p]
    /\ opened \in [Processes -> Nat]
    /\ file \in [Roots -> Nat]
    /\ made \in [Roots -> Nat]
    /\ locks \subseteq Lock
    /\ \A l \in locks : status[l.proc] \in {"locking", "closing", "running", "exiting"}

Init ==
    /\ config \in [Processes -> Configs]
    /\ status = [p \in Processes |-> "new"]
    /\ left = [p \in Processes |-> {}]
    /\ opened = [p \in Processes |-> 0]
    /\ file = [r \in Roots |-> 0]
    /\ made = [r \in Roots |-> 0]
    /\ locks = {}

LocksOf(p) == {l \in locks : l.proc = p}

-----------------------------------------------------------------------------
(* validateOutputRoots compares each root with the ones after it: Rel(l, r) *)
(* is "." or does not start with "..".                                      *)
OverlapNotSame(l, r) == <<l, r>> \in Inside \ DotDot
Overlap(l, r) == l = r \/ <<l, r>> \in Inside \ DotDot

Accepted(roots) ==
    \A i, j \in DOMAIN roots : i < j => ~Overlap(roots[i], roots[j])

Start(p) ==
    /\ status[p] = "new"
    /\ IF Accepted(config[p])
       THEN /\ status' = [status EXCEPT ![p] = "locking"]
            /\ left' = [left EXCEPT ![p] = DOMAIN config[p]]
       ELSE /\ status' = [status EXCEPT ![p] = "rejected"]
            /\ UNCHANGED left
    /\ UNCHANGED <<config, opened, file, made, locks>>

(* The target to be locked next: LockRoots sorts them by root. *)
InFileOrder(p) == CHOOSE i \in left[p] : \A j \in left[p] : i <= j
Target(p) ==
    CHOOSE i \in left[p] :
        \A j \in left[p] : Rank[config[p][i]] <= Rank[config[p][j]]
Root(p) == config[p][Target(p)]

(* lockRoot: open or create the lock file. *)
OpenLockFile(p) ==
    LET r == Root(p) IN
    /\ status[p] = "locking"
    /\ left[p] # {}
    /\ opened[p] = 0
    /\ IF file[r] = 0
       THEN /\ made' = [made EXCEPT ![r] = @ + 1]
            /\ file' = [file EXCEPT ![r] = made[r] + 1]
            /\ opened' = [opened EXCEPT ![p] = made[r] + 1]
       ELSE /\ opened' = [opened EXCEPT ![p] = file[r]]
            /\ UNCHANGED <<file, made>>
    /\ UNCHANGED <<config, status, left, locks>>

Held(r, inode) == \E l \in locks : l.root = r /\ l.inode = inode

(* lockRoot: flock without waiting. *)
Flock(p) ==
    LET r == Root(p) IN
    /\ status[p] = "locking"
    /\ opened[p] # 0
    /\ IF Held(r, opened[p])
       THEN /\ status' = [status EXCEPT ![p] = "closing"]
            /\ UNCHANGED <<left, locks>>
       ELSE /\ locks' = locks \cup
                   {[proc |-> p, target |-> Target(p), root |-> r, inode |-> opened[p]]}
            /\ left' = [left EXCEPT ![p] = @ \ {Target(p)}]
            /\ UNCHANGED status
    /\ opened' = [opened EXCEPT ![p] = 0]
    /\ UNCHANGED <<config, file, made>>

Run(p) ==
    /\ status[p] = "locking"
    /\ left[p] = {}
    /\ status' = [status EXCEPT ![p] = "running"]
    /\ UNCHANGED <<config, left, opened, file, made, locks>>

Exit(p) ==
    /\ status[p] = "running"
    /\ status' = [status EXCEPT ![p] = "exiting"]
    /\ UNCHANGED <<config, left, opened, file, made, locks>>

(* Close, one lock at a time; the lock file stays. *)
CloseAndUnlink(p) ==
    /\ status[p] \in {"closing", "exiting"}
    /\ \E l \in LocksOf(p) :
          /\ locks' = locks \ {l}
          /\ file' = [file EXCEPT ![l.root] = 0]
    /\ UNCHANGED <<config, status, left, opened, made>>

Close(p) ==
    /\ status[p] \in {"closing", "exiting"}
    /\ \E l \in LocksOf(p) : locks' = locks \ {l}
    /\ UNCHANGED <<config, status, left, opened, file, made>>

ClosedAtOnce(p) ==
    /\ status[p] \in {"closing", "exiting"}
    /\ status' = [status EXCEPT ![p] = IF @ = "closing" THEN "refused" ELSE "exited"]
    /\ UNCHANGED <<config, left, opened, file, made, locks>>

Closed(p) ==
    /\ status[p] \in {"closing", "exiting"}
    /\ LocksOf(p) = {}
    /\ status' = [status EXCEPT ![p] = IF @ = "closing" THEN "refused" ELSE "exited"]
    /\ UNCHANGED <<config, left, opened, file, made, locks>>

(* The kernel closes what a killed process had open. *)
Kill(p) ==
    /\ status[p] \in {"locking", "closing", "running", "exiting"}
    /\ status' = [status EXCEPT ![p] = "killed"]
    /\ locks' = locks \ LocksOf(p)
    /\ opened' = [opened EXCEPT ![p] = 0]
    /\ UNCHANGED <<config, left, file, made>>

Next ==
    \E p \in Processes :
        \/ Start(p)
        \/ OpenLockFile(p)
        \/ Flock(p)
        \/ Run(p)
        \/ Exit(p)
        \/ Close(p)
        \/ Closed(p)
        \/ Kill(p)

Spec == Init /\ [][Next]_vars

-----------------------------------------------------------------------------
Managed(p) == {config[p][i] : i \in DOMAIN config[p]}

(* Two running processes never manage the same output root, although a     *)
(* lock is tied to an inode and files are created on demand (lockRoot, the *)
(* retained lock file of Close).                                           *)
Exclusive ==
    \A p, q \in Processes :
        p # q /\ status[p] = "running" /\ status[q] = "running"
            => Managed(p) \cap Managed(q) = {}

(* However the attempts of processes started together interleave, they do  *)
(* not all refuse each other: when one has been refused, another has run,  *)
(* runs, can still run, or was killed (the sorted order of LockRoots).     *)
NotEveryoneRefused ==
    (\E p \in Processes : status[p] \in {"closing", "refused"}) =>
        \E q \in Processes :
            status[q] \in {"locking", "running", "exiting", "exited", "killed"}

(* No process is refused because of its own lock: a root that two targets  *)
(* share is rejected with the configuration, not reported as managed by    *)
(* another process (validateOutputRoots before LockRoots).                 *)
NoSelfConflict ==
    [][\A p \in Processes :
          status[p] = "locking" /\ status'[p] = "closing"
              => \E l \in locks : l.proc # p /\ l.root = Root(p)]_vars
=============================================================================
