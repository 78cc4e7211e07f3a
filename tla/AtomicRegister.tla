--------------------------- MODULE AtomicRegister ---------------------------
(***************************************************************************)
(* What the wallet relies on when it saves its image: a register that      *)
(* holds one whole image at any time, and whose saved value a power cut    *)
(* cannot take back.                                                       *)
(***************************************************************************)
CONSTANTS Blobs, None

VARIABLES
    pending,    \* the image being saved, or None
    seen,       \* what a boot reads if the power stays on
    kept        \* what a boot may read after a power cut

vars == <<pending, seen, kept>>

Init ==
    /\ pending = None /\ seen \in Blobs \cup {None} /\ kept = {seen}

Save(b) == pending = None /\ pending' = b /\ UNCHANGED <<seen, kept>>

\* The new image replaces the old one in one step.
Publish ==
    /\ pending # None /\ seen' = pending
    /\ kept' \in SUBSET (kept \cup {pending}) /\ pending \in kept'
    /\ UNCHANGED pending

\* The storage catches up.
Settle == kept' = {seen} /\ UNCHANGED <<pending, seen>>

\* A save that worked is there to stay.
Saved == pending # None /\ seen = pending /\ kept' = {seen} /\ pending' = None /\ UNCHANGED seen

Lost == pending # None /\ pending' = None /\ UNCHANGED <<seen, kept>>

PowerCut == seen' \in kept /\ kept' = {seen'} /\ pending' = None

Next == (\E b \in Blobs : Save(b)) \/ Publish \/ Settle \/ Saved \/ Lost \/ PowerCut

Spec == Init /\ [][Next]_vars
=============================================================================
