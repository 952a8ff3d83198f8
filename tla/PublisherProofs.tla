--------------------------- MODULE PublisherProofs --------------------------
(***************************************************************************)
(* Lemmas about a publish command and the store it writes to, for the      *)
(* proofs about the modules that put publishers beside other commands.     *)
(***************************************************************************)
EXTENDS Publisher, TLAPS

-----------------------------------------------------------------------------
(* The two writes and the three transactions of etcdsource keep the store  *)
(* well typed.                                                             *)
LEMMA PutBundleType ==
    ASSUME EtcdTypeOK, NEW t \in Targets, NEW g \in Gens,
           NEW data \in Encodings \cup {Corrupt, None}, PutBundle(t, g, data)
    PROVE  EtcdTypeOK'
BY DEF EtcdTypeOK, PutBundle, Pointer

LEMMA PutActiveType ==
    ASSUME EtcdTypeOK, NEW t \in Targets, NEW g \in Gens, PutActive(t, g)
    PROVE  EtcdTypeOK'
BY DEF EtcdTypeOK, PutActive, Pointer

LEMMA StageType ==
    ASSUME EtcdTypeOK, NEW t \in Targets, NEW g \in Gens, NEW data \in Encodings,
           NEW succeeded \in BOOLEAN, StageBundleIfAbsent(t, g, data, succeeded)
    PROVE  EtcdTypeOK'
<1>1. CASE PutBundle(t, g, data)
  BY <1>1, PutBundleType
<1>2. CASE UNCHANGED etcdVars
  BY <1>2 DEF EtcdTypeOK, etcdVars
<1> QED
  BY <1>1, <1>2 DEF StageBundleIfAbsent

LEMMA SwapType ==
    ASSUME EtcdTypeOK, NEW t \in Targets, NEW g \in Gens, NEW expected,
           NEW succeeded \in BOOLEAN, SwapActive(t, g, expected, succeeded)
    PROVE  EtcdTypeOK'
<1>1. CASE PutActive(t, g)
  BY <1>1, PutActiveType
<1>2. CASE UNCHANGED etcdVars
  BY <1>2 DEF EtcdTypeOK, etcdVars
<1> QED
  BY <1>1, <1>2 DEF SwapActive

-----------------------------------------------------------------------------
LEMMA EtcdInitType == EtcdInit => EtcdTypeOK
BY DEF EtcdInit, EtcdTypeOK, Pointer, Absent

LEMMA PublisherInitType == PublisherInit => PublisherTypeOK
<1>1. (CHOOSE k \in Packs : TRUE) \in Packs
  BY PublisherAssumption
<1>2. Absent \in Pointer
  BY DEF Absent, Pointer
<1> QED
  BY <1>1, <1>2 DEF PublisherInit, PublisherTypeOK, Step, Outcome

(* The ends of Publish: what Return and Goto leave in the run. *)
LEMMA ReturnView ==
    ASSUME PublisherTypeOK, NEW p \in Publishers, NEW outcome, Return(p, outcome)
    PROVE  /\ pub'[p] = [pub[p] EXCEPT !.pc = "idle", !.expected = Absent, !.outcome = outcome]
           /\ pub'[p].pc = "idle" /\ pub'[p].pack = pub[p].pack
           /\ pub'[p].expected = Absent /\ pub'[p].outcome = outcome
           /\ \A o \in Publishers : o # p => pub'[o] = pub[o]
BY DEF PublisherTypeOK, Return

LEMMA GotoView ==
    ASSUME PublisherTypeOK, NEW p \in Publishers, NEW step, Goto(p, step)
    PROVE  /\ pub'[p].pc = step /\ pub'[p].pack = pub[p].pack
           /\ pub'[p].expected = pub[p].expected /\ pub'[p].outcome = pub[p].outcome
           /\ \A o \in Publishers : o # p => pub'[o] = pub[o]
BY DEF PublisherTypeOK, Goto

(* One step of a publish command. *)
LEMMA PublisherStepType ==
    ASSUME EtcdTypeOK, PublisherTypeOK, NEW p \in Publishers, PublisherStep(p)
    PROVE  EtcdTypeOK' /\ PublisherTypeOK'
<1> DEFINE k == pub[p].pack
<1>1. /\ EtcdTypeOK /\ PublisherTypeOK
      /\ k \in Packs /\ k.target \in Targets /\ k.gen \in Gens /\ k.enc \in Encodings
  BY PublisherAssumption DEF PublisherTypeOK, Pack
<1>3. Absent \in Pointer /\ active[k.target] \in Pointer
  BY <1>1 DEF EtcdTypeOK, Pointer, Absent
<1>4. ASSUME UNCHANGED etcdVars PROVE EtcdTypeOK'
  BY <1>1, <1>4 DEF EtcdTypeOK, etcdVars
<1>5. ASSUME NEW step \in Step, Goto(p, step) PROVE PublisherTypeOK'
  BY <1>1, <1>5 DEF PublisherTypeOK, Goto
<1>6. ASSUME NEW outcome \in Outcome, Return(p, outcome) PROVE PublisherTypeOK'
  <2> DEFINE R == [pc : Step, pack : Packs, expected : Pointer, outcome : Outcome]
             r == [pub[p] EXCEPT !.pc = "idle", !.expected = Absent, !.outcome = outcome]
  <2>1. pub \in [Publishers -> R] /\ starts \in Nat
    BY <1>1 DEF PublisherTypeOK
  <2>2. r \in R
    BY <1>3, <2>1 DEF Step
  <2>3. pub' = [pub EXCEPT ![p] = r]
    BY <1>6, <2>1 DEF Return
  <2>4. pub' \in [Publishers -> R]
    <3> HIDE DEF R, r
    <3> QED
      BY <2>1, <2>2, <2>3
  <2> QED
    BY <1>6, <2>1, <2>4 DEF PublisherTypeOK, Return
<1>7. PublisherTypeOK' /\ EtcdTypeOK'
  <2>1. CASE Start(p)
    <3>1. PublisherTypeOK'
      BY <1>1, <1>3, <2>1 DEF Start, PublisherTypeOK, Step, Outcome
    <3> QED
      BY <1>4, <2>1, <3>1 DEF Start
  <2>2. CASE Stage(p)
    <3>1. PICK created \in BOOLEAN :
              /\ StageBundleIfAbsent(k.target, k.gen, k.enc, created)
              /\ Goto(p, IF created THEN "capture" ELSE "existing")
      BY <2>2 DEF Stage
    <3>2. PublisherTypeOK'
      BY <1>5, <3>1 DEF Step
    <3> HIDE DEF k
    <3> QED
      BY <1>1, <3>1, <3>2, StageType
  <2>3. CASE RequireExisting(p)
    <3>1. PublisherTypeOK'
      BY <1>5, <1>6, <2>3 DEF RequireExisting, Step, Outcome
    <3> QED
      BY <1>4, <2>3, <3>1 DEF RequireExisting
  <2>4. CASE CaptureActive(p)
    <3>1. CASE Return(p, "no-op")
      BY <1>4, <1>6, <2>4, <3>1 DEF CaptureActive, Outcome
    <3>2. CASE /\ pub' = [pub EXCEPT ![p].pc = "swap", ![p].expected = active[k.target]]
               /\ UNCHANGED starts
      <4>1. PublisherTypeOK'
        BY <1>1, <1>3, <3>2 DEF PublisherTypeOK, Step
      <4> QED
        BY <1>4, <2>4, <4>1 DEF CaptureActive
    <3> QED
      BY <2>4, <3>1, <3>2 DEF CaptureActive
  <2>5. CASE Swap(p)
    <3>1. PICK updated \in BOOLEAN :
              /\ SwapActive(k.target, k.gen, pub[p].expected, updated)
              /\ Return(p, IF updated THEN "published" ELSE "error")
      BY <2>5 DEF Swap
    <3>2. PublisherTypeOK'
      BY <1>6, <3>1 DEF Outcome
    <3> HIDE DEF k
    <3> QED
      BY <1>1, <3>1, <3>2, SwapType
  <2>6. CASE Abort(p)
    BY <1>4, <1>6, <2>6 DEF Abort, Outcome
  <2>7. CASE StageReplyLost(p)
    <3>1. StageBundleIfAbsent(k.target, k.gen, k.enc, TRUE) /\ Return(p, "error")
      BY <2>7 DEF StageReplyLost
    <3> HIDE DEF k
    <3> QED
      BY <1>1, <1>6, <3>1, StageType DEF Outcome
  <2>8. CASE SwapReplyLost(p)
    <3>1. SwapActive(k.target, k.gen, pub[p].expected, TRUE) /\ Return(p, "error")
      BY <2>8 DEF SwapReplyLost
    <3> HIDE DEF k
    <3> QED
      BY <1>1, <1>6, <3>1, SwapType DEF Outcome
  <2> QED
    BY <2>1, <2>2, <2>3, <2>4, <2>5, <2>6, <2>7, <2>8 DEF PublisherStep
<1> QED
  BY <1>7

-----------------------------------------------------------------------------
(* What a publish command can do to the store: nothing that matters, stage *)
(* a bundle under an absent key, or move a pointer that is as the          *)
(* publisher saw it.                                                       *)
Untouched == UNCHANGED <<active, bundle>>

Stages(p) ==
    LET k == pub[p].pack IN
    /\ pub[p].pc = "stage"
    /\ bundle[k.target][k.gen] = None
    /\ bundle' = [bundle EXCEPT ![k.target][k.gen] = k.enc]
    /\ UNCHANGED active

Moves(p) ==
    LET k == pub[p].pack IN
    /\ pub[p].pc = "swap"
    /\ ActiveComparison(k.target, pub[p].expected)
    /\ active' = [active EXCEPT ![k.target] = [gen |-> k.gen, mod |-> rev + 1]]
    /\ UNCHANGED bundle

LEMMA PublisherEffect ==
    ASSUME NEW p \in Publishers, PublisherStep(p)
    PROVE  Untouched \/ Stages(p) \/ Moves(p)
<1>1. CASE Start(p) \/ RequireExisting(p) \/ CaptureActive(p) \/ Abort(p)
  BY <1>1 DEF Start, RequireExisting, CaptureActive, Abort, etcdVars, Untouched
<1>2. CASE Stage(p) \/ StageReplyLost(p)
  BY <1>2 DEF Stage, StageReplyLost, StageBundleIfAbsent, PutBundle, etcdVars, Untouched, Stages
<1>3. CASE Swap(p) \/ SwapReplyLost(p)
  BY <1>3 DEF Swap, SwapReplyLost, SwapActive, PutActive, etcdVars, Untouched, Moves
<1> QED
  BY <1>1, <1>2, <1>3 DEF PublisherStep

(* No publish command replaces or removes a bundle. *)
LEMMA PublisherKeeps ==
    ASSUME EtcdTypeOK, PublisherTypeOK, NEW p \in Publishers, PublisherStep(p)
    PROVE  \A t \in Targets, g \in Gens : bundle[t][g] # None => bundle'[t][g] = bundle[t][g]
<1>1. CASE Untouched \/ Moves(p)
  BY <1>1 DEF Untouched, Moves
<1>2. CASE Stages(p)
  <2> DEFINE k == pub[p].pack
  <2>1. k.target \in Targets /\ k.gen \in Gens
    BY PublisherAssumption DEF PublisherTypeOK, Pack
  <2>2. bundle[k.target][k.gen] = None /\ bundle' = [bundle EXCEPT ![k.target][k.gen] = k.enc]
    BY <1>2 DEF Stages
  <2> HIDE DEF k
  <2> QED
    BY <2>1, <2>2 DEF EtcdTypeOK
<1> QED
  BY <1>1, <1>2, PublisherEffect

-----------------------------------------------------------------------------
(* What a publisher has staged or compared, or reported, is in the store,  *)
(* as far as its generation is one of S (those that nobody removes).       *)
OwnBytes(S) ==
    \A p \in Publishers :
        LET k == pub[p].pack IN
        k.gen \in S /\ (pub[p].pc \in {"capture", "swap"} \/ pub[p].outcome \in {"published", "no-op"})
            => bundle[k.target][k.gen] = k.enc

(* A pointer to a generation of S names a bundle that decodes to it.       *)
NamedBundles(S) ==
    \A t \in Targets : active[t].gen \in S => bundle[t][active[t].gen] \in Encodings

LEMMA PublisherInitStore ==
    ASSUME NEW S \in SUBSET Gens, EtcdInit, PublisherInit
    PROVE  NamedBundles(S) /\ OwnBytes(S)
<1>1. NamedBundles(S)
  BY EtcdAssumption DEF EtcdInit, NamedBundles, Absent
<1>2. OwnBytes(S)
  BY DEF PublisherInit, OwnBytes
<1> QED
  BY <1>1, <1>2

(* Nobody who only adds bundles disturbs what a publisher relies on.       *)
LEMMA OwnBytesKept ==
    ASSUME NEW S \in SUBSET Gens, PublisherTypeOK, OwnBytes(S), UNCHANGED publisherVars,
           \A t \in Targets, g \in Gens : bundle[t][g] # None => bundle'[t][g] = bundle[t][g]
    PROVE  OwnBytes(S)'
<1>1. \A p \in Publishers : /\ pub[p].pack.target \in Targets
                            /\ pub[p].pack.gen \in Gens
                            /\ pub[p].pack.enc # None
  BY PublisherAssumption, EtcdAssumption DEF PublisherTypeOK, Pack
<1> QED
  BY <1>1 DEF OwnBytes, publisherVars

LEMMA OwnBytesStep ==
    ASSUME NEW S \in SUBSET Gens, EtcdTypeOK, PublisherTypeOK, OwnBytes(S),
           NEW p \in Publishers, PublisherStep(p)
    PROVE  OwnBytes(S)'
<1> SUFFICES ASSUME NEW o \in Publishers, pub'[o].pack.gen \in S,
                    \/ pub'[o].pc \in {"capture", "swap"}
                    \/ pub'[o].outcome \in {"published", "no-op"}
             PROVE  bundle'[pub'[o].pack.target][pub'[o].pack.gen] = pub'[o].pack.enc
  BY DEF OwnBytes
<1> DEFINE k == pub[p].pack
           Was(x) == \/ pub[x].pc \in {"capture", "swap"}
                     \/ pub[x].outcome \in {"published", "no-op"}
<1>1. pub \in [Publishers -> [pc : Step, pack : Packs, expected : Pointer, outcome : Outcome]]
  BY DEF PublisherTypeOK
<1>2. \A x \in Publishers : /\ pub[x].pack.target \in Targets
                            /\ pub[x].pack.gen \in Gens
                            /\ pub[x].pack.enc \in Encodings \ {None}
  BY <1>1, PublisherAssumption, EtcdAssumption DEF Pack
<1>3. ASSUME NEW x \in Publishers, pub[x].pack.gen \in S, Was(x)
      PROVE  bundle'[pub[x].pack.target][pub[x].pack.gen] = pub[x].pack.enc
  <2>1. bundle[pub[x].pack.target][pub[x].pack.gen] = pub[x].pack.enc
    BY <1>3 DEF OwnBytes
  <2> QED
    BY <1>2, <2>1, PublisherKeeps
<1>4. CASE o # p
  <2>1. pub'[o] = pub[o]
    BY <1>1, <1>4 DEF PublisherStep, Start, Stage, RequireExisting, CaptureActive, Swap, Abort,
                      StageReplyLost, SwapReplyLost, Goto, Return
  <2> QED
    BY <1>3, <2>1
<1>5. CASE o = p
  <2>1. CASE Start(p)
    BY <1>1, <1>5, <2>1 DEF Start
  <2>2. CASE Stage(p)
    <3>1. PICK created \in BOOLEAN :
              /\ StageBundleIfAbsent(k.target, k.gen, k.enc, created)
              /\ Goto(p, IF created THEN "capture" ELSE "existing")
      BY <2>2 DEF Stage
    <3>2. pub'[p].pack = k /\ pub'[p].outcome = pub[p].outcome
      BY <1>1, <3>1 DEF Goto
    <3>3. CASE created
      BY <1>2, <1>5, <3>1, <3>2, <3>3 DEF StageBundleIfAbsent, PutBundle, EtcdTypeOK
    <3>4. CASE ~created
      <4>1. pub'[p].pc = "existing"
        BY <1>1, <3>1, <3>4 DEF Goto
      <4> QED
        BY <1>3, <1>5, <3>2, <4>1
    <3> QED
      BY <3>3, <3>4
  <2>3. CASE RequireExisting(p)
    <3>1. pub'[p].pack = k
      BY <1>1, <2>3 DEF RequireExisting, Goto, Return
    <3>2. CASE SameBytes(k)
      BY <1>5, <2>3, <3>1, <3>2 DEF RequireExisting, SameBytes, etcdVars
    <3>3. CASE ~SameBytes(k)
      BY <1>1, <1>5, <2>3, <3>3 DEF RequireExisting, Return
    <3> QED
      BY <3>2, <3>3
  <2>4. CASE CaptureActive(p)
    <3>1. pub'[p].pack = k /\ Was(p)
      BY <1>1, <2>4 DEF CaptureActive, Return
    <3> QED
      BY <1>3, <1>5, <3>1
  <2>5. CASE Swap(p) \/ SwapReplyLost(p)
    <3>1. pub'[p].pack = k /\ Was(p)
      <4>1. PICK outcome \in Outcome : Return(p, outcome)
        BY <2>5 DEF Swap, SwapReplyLost, Outcome
      <4> QED
        BY <2>5, <4>1, ReturnView DEF Swap, SwapReplyLost
    <3> QED
      BY <1>3, <1>5, <3>1
  <2>6. CASE Abort(p) \/ StageReplyLost(p)
    <3>1. Return(p, "error")
      BY <2>6 DEF Abort, StageReplyLost
    <3>2. pub'[p].pc = "idle" /\ pub'[p].outcome = "error"
      BY <3>1, ReturnView
    <3> QED
      BY <1>5, <3>2
  <2> QED
    BY <2>1, <2>2, <2>3, <2>4, <2>5, <2>6 DEF PublisherStep
<1> QED
  BY <1>4, <1>5

LEMMA NamedBundlesStep ==
    ASSUME NEW S \in SUBSET Gens, EtcdTypeOK, PublisherTypeOK, NamedBundles(S), OwnBytes(S),
           NEW p \in Publishers, PublisherStep(p)
    PROVE  NamedBundles(S)'
<1> DEFINE k == pub[p].pack
<1>1. k.target \in Targets /\ k.gen \in Gens /\ k.enc \in Encodings
  BY PublisherAssumption DEF PublisherTypeOK, Pack
<1>2. \A t \in Targets : active[t].gen \in Gens \cup {None}
  BY DEF EtcdTypeOK, Pointer
<1>3. ASSUME UNCHANGED active PROVE NamedBundles(S)'
  BY <1>2, <1>3, PublisherKeeps, EtcdAssumption DEF NamedBundles
<1>4. CASE Moves(p)
  <2>1. k.gen \in S => bundle[k.target][k.gen] = k.enc
    BY <1>4 DEF Moves, OwnBytes
  <2> HIDE DEF k
  <2>2. active' = [active EXCEPT ![k.target] = [gen |-> k.gen, mod |-> rev + 1]]
        /\ UNCHANGED bundle
    BY <1>4 DEF Moves, k
  <2> QED
    BY <1>1, <2>1, <2>2 DEF NamedBundles, EtcdTypeOK
<1> QED
  BY <1>3, <1>4, PublisherEffect DEF Untouched, Stages
=============================================================================
