----------------------------- MODULE PersistBlob -----------------------------
(***************************************************************************)
(* persist_blob of wallet-sim/src/main.rs: write a temporary file, fsync   *)
(* it, rename it over wallet.bin, fsync the directory.  One action per     *)
(* system call; any of them may fail, and the power may be cut or the      *)
(* process killed between any two.                                         *)
(*                                                                         *)
(* The file system is modelled as POSIX lets it behave: contents reach     *)
(* stable storage at fsync, directory entries at fsync of the directory or *)
(* at any earlier moment the kernel chooses, and a rename is atomic.       *)
(***************************************************************************)
CONSTANTS
    None,   \* no such file; no image
    Torn,   \* contents that are no image: empty, or written in part
    Blobs   \* images

VARIABLES
    pc,         \* the next system call, or "idle"
    blob,       \* the argument of the current or last call
    outcome,    \* of the last call; the code returns nothing either way
    tmp, bin,   \* wallet.bin.tmp and wallet.bin as a process sees them
    stable      \* wallet.bin as the directory on stable storage has it

vars == <<pc, blob, outcome, tmp, bin, stable>>

File(data, synced) == [data |-> data, synced |-> synced]
Files == [data : Blobs \cup {Torn}, synced : BOOLEAN]

ASSUME BlobsAssumption ==
    None \notin Blobs /\ Torn \notin Blobs /\ None # Torn /\ None \notin Files

TypeOK ==
    /\ pc \in {"idle", "create", "write", "sync", "rename", "dirsync"}
    /\ blob \in Blobs \cup {None} /\ outcome \in {"none", "saved", "lost"}
    /\ tmp \in Files \cup {None} /\ bin \in Files \cup {None} /\ stable \in Files \cup {None}

Init ==
    /\ pc = "idle" /\ blob = None /\ outcome = "none" /\ tmp = None
    /\ bin \in {None} \cup {File(b, TRUE) : b \in Blobs} /\ stable = bin

Call(b) ==
    /\ pc = "idle" /\ pc' = "create"
    /\ blob' = b /\ outcome' = "none"
    /\ UNCHANGED <<tmp, bin, stable>>

Create ==
    /\ pc = "create" /\ pc' = "write"
    /\ tmp' = File(Torn, FALSE)
    /\ UNCHANGED <<blob, outcome, bin, stable>>

WriteAll ==
    /\ pc = "write" /\ pc' = "sync"
    /\ tmp' = File(blob, FALSE)
    /\ UNCHANGED <<blob, outcome, bin, stable>>

\* Mutant: no fsync of the contents.
FlushOnly ==
    /\ pc = "sync" /\ pc' = "rename"
    /\ UNCHANGED <<blob, outcome, tmp, bin, stable>>
SyncAll ==
    /\ pc = "sync" /\ pc' = "rename"
    /\ tmp' = File(blob, TRUE)
    /\ UNCHANGED <<blob, outcome, bin, stable>>

Rename ==
    /\ pc = "rename" /\ pc' = "dirsync"
    /\ bin' = tmp /\ tmp' = None
    /\ UNCHANGED <<blob, outcome, stable>>

\* Mutant: no fsync of the directory.
ReturnEarly ==
    /\ pc = "dirsync" /\ pc' = "idle" /\ outcome' = "saved"
    /\ UNCHANGED <<blob, tmp, bin, stable>>
SyncDir ==
    /\ pc = "dirsync" /\ pc' = "idle" /\ outcome' = "saved"
    /\ stable' = bin
    /\ UNCHANGED <<blob, tmp, bin>>

\* Mutant: the clean-up removes wallet.bin.
RemoveWallet ==
    /\ pc \in {"create", "write", "sync", "rename"} /\ bin' \in {None, bin} /\ UNCHANGED tmp
    /\ pc' = "idle" /\ outcome' = "lost"
    /\ UNCHANGED <<blob, stable>>
\* A call fails before the rename: remove_file, which may fail too, and return.
\* A write that fails leaves part of the contents behind.
GiveUp ==
    /\ pc \in {"create", "write", "sync", "rename"}
    /\ tmp' \in {None, tmp}
    /\ pc' = "idle" /\ outcome' = "lost"
    /\ UNCHANGED <<blob, bin, stable>>

\* The directory cannot be opened or synced: ignored.
SyncDirFails ==
    /\ pc = "dirsync" /\ pc' = "idle" /\ outcome' = "lost"
    /\ UNCHANGED <<blob, tmp, bin, stable>>

-----------------------------------------------------------------------------
(* The kernel, the power and the process *)

WritebackDir ==
    /\ stable' = bin
    /\ UNCHANGED <<pc, blob, outcome, tmp, bin>>

\* Contents that were not synced may be lost.
Surviving(f) ==
    IF f # None /\ ~f.synced THEN {File(f.data, TRUE), File(Torn, TRUE)} ELSE {f}

PowerCut ==
    /\ pc' = "idle"
    /\ stable' \in Surviving(stable) /\ bin' = stable'
    /\ tmp' \in {None, File(Torn, TRUE)}
    /\ UNCHANGED <<blob, outcome>>

Kill ==
    /\ pc # "idle" /\ pc' = "idle"
    /\ UNCHANGED <<blob, outcome, tmp, bin, stable>>

Next ==
    \/ \E b \in Blobs : Call(b)
    \/ Create \/ WriteAll \/ SyncAll \/ Rename \/ SyncDir \/ GiveUp \/ SyncDirFails
    \/ WritebackDir \/ PowerCut \/ Kill

Spec == Init /\ [][Next]_vars

-----------------------------------------------------------------------------
(* Properties *)

\* wallet.bin is a whole image at every moment, also right after a power cut: no
\* boot ever finds it half written.  ("durably and atomically", main.rs)
NeverTorn == bin # None => bin.data \in Blobs

\* Once persist_blob has gone through, every boot finds that image until the next
\* call, whatever power cuts and kills come in between: the write-ahead of the
\* failure counter cannot be rewound.  ("no brute-force-by-restart", main.rs)
SavedIsSafe == outcome = "saved" => bin = File(blob, TRUE) /\ stable = bin

\* The contract: a register that is replaced whole, and keeps what was saved.
Data(f) == IF f = None THEN None ELSE f.data
Register == INSTANCE AtomicRegister WITH
    pending <- IF pc = "idle" THEN None ELSE blob,
    seen <- Data(bin), kept <- {Data(stable), Data(bin)}
ImplementsRegister == Register!Spec
=============================================================================
