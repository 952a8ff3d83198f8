-------------------------------- MODULE Prune -------------------------------
(***************************************************************************)
(* internal/prune and the listing half of internal/etcdsource/bundles.go:  *)
(* "pemcast prune" snapshots the pointers in one range read, lists the     *)
(* bundle keys, reads every listed bundle by exact key, then inspects the  *)
(* records one by one and deletes the eligible ones, each in a transaction *)
(* that compares the pointer with the SNAPSHOT taken at the beginning.     *)
(* Names are abstract, so records are taken in any order; the code takes   *)
(* them in key order.                                                      *)
(***************************************************************************)
EXTENDS EtcdKV

CONSTANTS
    Pruners,        \* prune processes
    TrustGens,      \* generations whose bundle has type "trust"
    PastRetention,  \* generations with now - earliest NotAfter > retention
    MaxPrunes       \* bound: number of prune commands ever started

ASSUME PruneAssumption ==
    /\ TrustGens \subseteq Gens
    /\ PastRetention \subseteq Gens
    /\ MaxPrunes \in Nat

VARIABLES
    prn,            \* per pruner: where it is, options.Delete, snapshot, keys, records
    prunes          \* number of commands started so far

pruneVars == <<prn, prunes>>

Key == Targets \X Gens
Record == [target : Targets, gen : Gens, data : Encodings \cup {Corrupt}]

Run == [pc : {"idle", "list", "read", "scan"}, delete : BOOLEAN,
        snap : [Targets -> Pointer], keys : SUBSET Key, records : SUBSET Record,
        status : {"none", "done", "error"}]

PruneTypeOK ==
    /\ prn \in [Pruners -> Run]
    /\ prunes \in Nat

NoSnapshot == [t \in Targets |-> Absent]

PruneInit ==
    /\ prn = [q \in Pruners |-> [pc |-> "idle", delete |-> FALSE, snap |-> NoSnapshot,
                                 keys |-> {}, records |-> {}, status |-> "none"]]
    /\ prunes = 0

(* The end of a run; what it had read is forgotten. *)
Finish(q, status) ==
    prn' = [prn EXCEPT ![q] = [pc |-> "idle", delete |-> FALSE, snap |-> NoSnapshot,
                               keys |-> {}, records |-> {}, status |-> status]]

(* Identity bundles past retention: all that any prune may ever remove.    *)
Prunable == PastRetention \ TrustGens

(* inspectRecord, after decoding: only an identity bundle past retention   *)
(* that is not active, of a target that has a pointer, may go.             *)
Eligible(r, pointer) ==
    /\ pointer.gen # r.gen
    /\ pointer.gen # None
    /\ r.gen \in Prunable

SnapshotActivePrefix(q) ==
    /\ prn[q].pc = "idle"
    /\ prunes < MaxPrunes
    /\ \E delete \in BOOLEAN :
          prn' = [prn EXCEPT ![q] = [pc |-> "list", delete |-> delete, snap |-> active,
                                     keys |-> {}, records |-> {}, status |-> "none"]]
    /\ prunes' = prunes + 1
    /\ UNCHANGED etcdVars

ListBundleKeys(q) ==
    /\ prn[q].pc = "list"
    /\ prn' = [prn EXCEPT ![q].pc = "read",
                          ![q].keys = {k \in Key : bundle[k[1]][k[2]] # None}]
    /\ UNCHANGED <<prunes, etcdVars>>

(* Mutant: the components of the key are taken in the wrong order.         *)
RecordSwapped(k, data) == {[target |-> k[2], gen |-> k[1], data |-> data]}

RecordOf(k, data) ==
    IF data = None THEN {} ELSE {[target |-> k[1], gen |-> k[2], data |-> data]}

(* One exact-key read of the listing loop; a key that has gone is skipped. *)
ReadBundle(q) ==
    /\ prn[q].pc = "read"
    /\ \E k \in prn[q].keys :
          prn' = [prn EXCEPT ![q].keys = @ \ {k},
                             ![q].records = @ \cup RecordOf(k, bundle[k[1]][k[2]])]
    /\ UNCHANGED <<prunes, etcdVars>>

ReadDone(q) ==
    /\ prn[q].pc = "read"
    /\ prn[q].keys = {}
    /\ prn' = [prn EXCEPT ![q].pc = "scan"]
    /\ UNCHANGED <<prunes, etcdVars>>

(* One record: a malformed bundle fails the command; one that is not       *)
(* eligible, or any in a dry run, is only reported.                        *)
Inspect(q) ==
    /\ prn[q].pc = "scan"
    /\ \E r \in prn[q].records :
          \/ r.data = Corrupt /\ Finish(q, "error")
          \/ /\ r.data # Corrupt
             /\ ~(Eligible(r, prn[q].snap[r.target]) /\ prn[q].delete)
             /\ prn' = [prn EXCEPT ![q].records = @ \ {r}]
    /\ UNCHANGED <<prunes, etcdVars>>

Delete(q) ==
    /\ prn[q].pc = "scan"
    /\ prn[q].delete
    /\ \E r \in prn[q].records, deleted \in BOOLEAN :
          /\ r.data # Corrupt
          /\ Eligible(r, prn[q].snap[r.target])
          /\ DeleteBundleIfActiveUnchanged(r.target, r.gen, prn[q].snap[r.target], deleted)
          /\ \/ deleted /\ prn' = [prn EXCEPT ![q].records = @ \ {r}]
             \/ ~deleted /\ Finish(q, "error")
    /\ UNCHANGED prunes

ScanDone(q) ==
    /\ prn[q].pc = "scan"
    /\ prn[q].records = {}
    /\ Finish(q, "done")
    /\ UNCHANGED <<prunes, etcdVars>>

PruneAbort(q) ==
    /\ prn[q].pc # "idle"
    /\ Finish(q, "error")
    /\ UNCHANGED <<prunes, etcdVars>>

DeleteReplyLost(q) ==
    /\ prn[q].pc = "scan"
    /\ prn[q].delete
    /\ \E r \in prn[q].records :
          /\ r.data # Corrupt
          /\ Eligible(r, prn[q].snap[r.target])
          /\ DeleteBundleIfActiveUnchanged(r.target, r.gen, prn[q].snap[r.target], TRUE)
    /\ Finish(q, "error")
    /\ UNCHANGED prunes

PruneStep(q) ==
    \/ SnapshotActivePrefix(q)
    \/ ListBundleKeys(q)
    \/ ReadBundle(q)
    \/ ReadDone(q)
    \/ Inspect(q)
    \/ Delete(q)
    \/ ScanDone(q)
    \/ PruneAbort(q)
    \/ DeleteReplyLost(q)
=============================================================================
