------------------------------ MODULE Publisher -----------------------------
(***************************************************************************)
(* internal/publisher: "pemcast publish" stages an immutable bundle and    *)
(* commits the active pointer with a compare-and-swap.  Several publishers *)
(* run against one namespace; each etcd request of a run is a step.  A run *)
(* may stop at any point (a request fails, its deadline passes, the        *)
(* process dies), and a transaction may commit although its reply is lost. *)
(***************************************************************************)
EXTENDS EtcdKV

CONSTANTS
    Publishers,  \* publish processes
    Packs,       \* validated packs: target, generation, bytes of bundle.json
    MaxStarts    \* bound: number of publish commands ever started

Pack == [target : Targets, gen : Gens, enc : Encodings]

ASSUME PublisherAssumption ==
    /\ Packs \subseteq Pack
    /\ Packs # {}
    /\ MaxStarts \in Nat

VARIABLES
    pub,         \* per publisher: where it is, its pack, the captured pointer
    starts       \* number of commands started so far

publisherVars == <<pub, starts>>

Step == {"idle", "stage", "existing", "capture", "swap"}
Outcome == {"none", "published", "no-op", "error"}

PublisherTypeOK ==
    /\ pub \in [Publishers -> [pc : Step, pack : Packs, expected : Pointer,
                               outcome : Outcome]]
    /\ starts \in Nat

PublisherInit ==
    /\ pub \in [Publishers -> [pc : {"idle"}, pack : {CHOOSE k \in Packs : TRUE},
                               expected : {Absent}, outcome : {"none"}]]
    /\ starts = 0

Goto(p, step) ==
    /\ pub' = [pub EXCEPT ![p].pc = step]
    /\ UNCHANGED starts

(* The end of a run; only its pack and what it reported are remembered.    *)
Return(p, outcome) ==
    /\ pub' = [pub EXCEPT ![p].pc = "idle", ![p].expected = Absent, ![p].outcome = outcome]
    /\ UNCHANGED starts

Start(p) ==
    /\ pub[p].pc = "idle"
    /\ starts < MaxStarts
    /\ \E k \in Packs :
          pub' = [pub EXCEPT ![p] = [pc |-> "stage", pack |-> k, expected |-> Absent,
                                     outcome |-> "none"]]
    /\ starts' = starts + 1
    /\ UNCHANGED etcdVars

Stage(p) ==
    LET k == pub[p].pack IN
    /\ pub[p].pc = "stage"
    /\ \E created \in BOOLEAN :
          /\ StageBundleIfAbsent(k.target, k.gen, k.enc, created)
          /\ Goto(p, IF created THEN "capture" ELSE "existing")

(* Mutants: the existing value is not compared, or only decoded.           *)
AnyBytes(k) == bundle[k.target][k.gen] # None
SameContent(k) == bundle[k.target][k.gen] \in Encodings

(* requireExistingBundle: the key must still be there with the same bytes. *)
SameBytes(k) == bundle[k.target][k.gen] = k.enc

RequireExisting(p) ==
    /\ pub[p].pc = "existing"
    /\ \/ SameBytes(pub[p].pack) /\ Goto(p, "capture")
       \/ ~SameBytes(pub[p].pack) /\ Return(p, "error")
    /\ UNCHANGED etcdVars

CaptureActive(p) ==
    LET k == pub[p].pack
        captured == active[k.target]
    IN
    /\ pub[p].pc = "capture"
    /\ \/ captured.gen = k.gen /\ Return(p, "no-op")
       \/ /\ captured.gen # k.gen
          /\ pub' = [pub EXCEPT ![p].pc = "swap", ![p].expected = captured]
          /\ UNCHANGED starts
    /\ UNCHANGED etcdVars

Swap(p) ==
    LET k == pub[p].pack IN
    /\ pub[p].pc = "swap"
    /\ \E updated \in BOOLEAN :
          /\ SwapActive(k.target, k.gen, pub[p].expected, updated)
          /\ Return(p, IF updated THEN "published" ELSE "error")

(* A request fails without effect, or the process dies between requests.   *)
Abort(p) ==
    /\ pub[p].pc # "idle"
    /\ Return(p, "error")
    /\ UNCHANGED etcdVars

(* A transaction is committed but the command sees a deadline or a broken  *)
(* connection: the run ends with an error although the store has changed.  *)
StageReplyLost(p) ==
    LET k == pub[p].pack IN
    /\ pub[p].pc = "stage"
    /\ StageBundleIfAbsent(k.target, k.gen, k.enc, TRUE)
    /\ Return(p, "error")

SwapReplyLost(p) ==
    LET k == pub[p].pack IN
    /\ pub[p].pc = "swap"
    /\ SwapActive(k.target, k.gen, pub[p].expected, TRUE)
    /\ Return(p, "error")

PublisherStep(p) ==
    \/ Start(p)
    \/ Stage(p)
    \/ RequireExisting(p)
    \/ CaptureActive(p)
    \/ Swap(p)
    \/ Abort(p)
    \/ StageReplyLost(p)
    \/ SwapReplyLost(p)
=============================================================================
