----------------------------- MODULE PinLockout -----------------------------
(***************************************************************************)
(* The lockout as its owner sees it: verdicts on PINs, a wallet that is    *)
(* open or closed, and a lock that is final.  No PIN, no counter, no file: *)
(* ColdWallet is shown to implement this under a refinement mapping.       *)
(***************************************************************************)
EXTENDS Naturals

CONSTANTS
    Max,        \* wrong verdicts in a row that the lock allows
    MaxLost,    \* storage writes that may be lost
    MaxUnread   \* power-ons that may find the storage unreadable

VARIABLES
    misses,     \* wrong verdicts since the last right one
    lost,       \* storage writes lost
    unread,     \* power-ons that took the wallet for absent
    locked,     \* the wallet refuses every PIN, for ever
    open        \* the wallet can be used

vars == <<misses, lost, unread, locked, open>>

\* The lock closes no later than the last allowed verdict.
Bound ==
    /\ misses <= Max + lost
    /\ misses = Max + lost => locked

Init == misses = 0 /\ lost = 0 /\ unread = 0 /\ locked = FALSE /\ open = FALSE

\* Only a wallet taken for absent can be set up anew over its lock.
Replaceable == locked => unread > 0

\* A step writes to storage once at most; the write may be lost.
MayLose ==
    /\ lost' = lost \/ (lost < MaxLost /\ lost' = lost + 1)
    /\ UNCHANGED unread

\* A right PIN, or a new one set: the count starts again.
Accept ==
    /\ Replaceable
    /\ misses' = 0 /\ open' \in BOOLEAN
    /\ locked' \in {locked, FALSE}
    /\ MayLose

Reject ==
    /\ Replaceable /\ ~open
    /\ misses' = misses + 1 /\ locked' \in BOOLEAN
    /\ MayLose /\ Bound'
    /\ UNCHANGED open

\* The owner is asked for the PIN again, or the power is cut.
Close == open' = FALSE /\ UNCHANGED <<misses, lost, unread, locked>>

\* A write that no verdict comes with: an attempt is counted in advance.
Write ==
    /\ Replaceable
    /\ locked' \in {locked, FALSE}
    /\ MayLose /\ UNCHANGED <<misses, open>>

MistakeForNew ==
    /\ unread < MaxUnread /\ unread' = unread + 1
    /\ UNCHANGED <<misses, lost, locked, open>>

Next == Accept \/ Reject \/ Close \/ Write \/ MistakeForNew

Spec == Init /\ [][Next]_vars
=============================================================================
