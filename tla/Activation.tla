----------------------------- MODULE Activation -----------------------------
(***************************************************************************)
(* What deploy.Activate promises to those who follow the current link of   *)
(* an output root, whatever fails: the link only ever moves from one whole *)
(* release to another, and a release goes away only when neither the link  *)
(* nor what a loss of power would bring back names it.                     *)
(***************************************************************************)
CONSTANTS Releases, None

VARIABLES
    link,      \* release that the link names
    durable,   \* release that it names after a loss of power
    whole,     \* releases that have all their files
    secured    \* the place where the releases are outlives a loss of power

Init ==
    /\ link = None
    /\ durable = None
    /\ whole = {}
    /\ secured \in BOOLEAN

Prepare ==
    /\ \E g \in Releases \ whole : whole' = whole \cup {g}
    /\ UNCHANGED <<link, durable, secured>>

Discard ==
    /\ \E g \in whole \ {link, durable} : whole' = whole \ {g}
    /\ UNCHANGED <<link, durable, secured>>

Switch ==
    /\ link' \in whole
    /\ UNCHANGED <<durable, whole, secured>>

Settle ==
    /\ durable' = link
    /\ UNCHANGED <<link, whole, secured>>

(* A loss of power may also undo a Prepare or a Discard, of any release    *)
(* that the link it leaves does not name.                                  *)
PowerLoss ==
    /\ link' \in {link, durable}
    /\ durable' = link'
    /\ whole' \in {W \in SUBSET Releases : link' # None => link' \in W}
    /\ secured' \in {TRUE, secured}

(* Until the place of the releases is secured, it takes all or nothing.    *)
Ruin ==
    /\ ~secured
    /\ link' \in {link, durable, None}
    /\ durable' = link'
    /\ whole' = {}
    /\ UNCHANGED secured

Next == Prepare \/ Discard \/ Switch \/ Settle \/ PowerLoss \/ Ruin

Spec == Init /\ [][Next]_<<link, durable, whole, secured>>
=============================================================================
