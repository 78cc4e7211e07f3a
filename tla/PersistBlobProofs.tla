-------------------------- MODULE PersistBlobProofs --------------------------
(***************************************************************************)
(* persist_blob implements the atomic register, for any set of images and  *)
(* any sequence of failures, kills and power cuts.                         *)
(***************************************************************************)
EXTENDS PersistBlob, TLAPS

\* A file that holds a whole image, on stable storage.
Whole == {File(b, TRUE) : b \in Blobs}

\* What is under the name wallet.bin is always synced; the call in progress has
\* got as far as its program counter says.
PInv ==
    /\ TypeOK
    /\ bin \in Whole \cup {None} /\ stable \in Whole \cup {None}
    /\ pc # "idle" => blob \in Blobs /\ outcome = "none"
    /\ pc = "rename" => tmp = File(blob, TRUE)
    /\ pc = "dirsync" => bin = File(blob, TRUE)
    /\ SavedIsSafe

\* A file is a file, and never absent.
LEMMA FileType ==
    ASSUME NEW d \in Blobs \cup {Torn}, NEW s \in BOOLEAN
    PROVE  File(d, s) \in Files /\ File(d, s) # None
<1>1. File(d, s) \in Files
  BY DEF File, Files
<1>. QED BY <1>1, BlobsAssumption

\* A synced file of an image is whole.
LEMMA WholeFile ==
    ASSUME NEW b \in Blobs
    PROVE  File(b, TRUE) \in Whole /\ File(b, TRUE) \in Files /\ File(b, TRUE).data = b
           /\ File(b, TRUE) # None /\ b # None
<1>1. File(b, TRUE) \in Files /\ File(b, TRUE) # None
  BY FileType
<1>. QED BY <1>1, BlobsAssumption DEF File, Whole

\* The invariant holds at the start.
LEMMA PInit == Init => PInv
<1> SUFFICES ASSUME Init PROVE PInv
  OBVIOUS
<1>1. bin \in Whole \cup {None} /\ stable = bin
  BY DEF Init, Whole
<1>2. TypeOK
  BY <1>1, WholeFile DEF Init, TypeOK, Whole
<1>. QED BY <1>1, <1>2 DEF Init, PInv, SavedIsSafe

\* A power cut spares whole files.
LEMMA WholeSurvives ==
    ASSUME NEW f \in Whole \cup {None}
    PROVE  Surviving(f) = {f}
  BY DEF Surviving, Whole, File

\* The inductive step: one case per system call and per event of the environment.
LEMMA PNext == PInv /\ [Next]_vars => PInv'
<1> SUFFICES ASSUME PInv, [Next]_vars PROVE PInv'
  OBVIOUS
<1> USE DEF PInv, TypeOK, SavedIsSafe
<1>0. /\ \A b \in Blobs : File(b, TRUE) \in Whole /\ File(b, TRUE) \in Files
      /\ \A b \in Blobs : File(b, FALSE) \in Files
      /\ File(Torn, FALSE) \in Files /\ File(Torn, TRUE) \in Files
  BY FileType, WholeFile
<1>1. CASE UNCHANGED vars
  BY <1>1 DEF vars
<1>2. ASSUME NEW b \in Blobs, Call(b) PROVE PInv'
  BY <1>2 DEF Call
<1>3. CASE Create
  BY <1>0, <1>3 DEF Create
<1>4. CASE WriteAll
  BY <1>0, <1>4 DEF WriteAll
<1>5. CASE SyncAll
  BY <1>0, <1>5 DEF SyncAll
<1>6. CASE Rename
  BY <1>0, <1>6 DEF Rename
<1>7. CASE SyncDir
  BY <1>7 DEF SyncDir
<1>8. CASE GiveUp \/ SyncDirFails
  BY <1>8 DEF GiveUp, SyncDirFails
<1>9. CASE WritebackDir
  BY <1>9 DEF WritebackDir
<1>10. CASE PowerCut
  <2>1. stable' = stable /\ bin' = stable
    BY <1>10, WholeSurvives DEF PowerCut
  <2>2. tmp' \in Files \cup {None}
    BY <1>0, <1>10 DEF PowerCut
  <2>. QED BY <1>10, <2>1, <2>2 DEF PowerCut
<1>11. CASE Kill
  BY <1>11 DEF Kill
<1>. QED BY <1>1, <1>2, <1>3, <1>4, <1>5, <1>6, <1>7, <1>8, <1>9, <1>10, <1>11 DEF Next

\* The invariant holds in every reachable state.
LEMMA PInvariance == Spec => []PInv
  BY PInit, PNext, PTL DEF Spec

-----------------------------------------------------------------------------
\* No sequence of failing calls, kills and power cuts leaves persist_blob's
\* wallet.bin half written.
THEOREM AlwaysWhole == Spec => []NeverTorn
<1>1. PInv => NeverTorn
  BY DEF PInv, NeverTorn, Whole, File
<1>. QED BY <1>1, PInvariance, PTL

\* What persist_blob has synced is what every boot finds until the next call.
THEOREM SavedStays == Spec => []SavedIsSafe
<1>1. PInv => SavedIsSafe
  BY DEF PInv
<1>. QED BY <1>1, PInvariance, PTL

\* persist_blob implements AtomicRegister: its rename publishes the new image,
\* its last fsync settles it, and everything else is invisible.
THEOREM RegisterRefinement == Spec => ImplementsRegister
<1>1. Init => Register!Init
  BY DEF Init, Register!Init, Data, File
<1>2. PInv /\ [Next]_vars => [Register!Next]_Register!vars
  <2> SUFFICES ASSUME PInv, [Next]_vars PROVE Register!Next \/ UNCHANGED Register!vars
    OBVIOUS
  <2> USE DEF PInv, Data
  <2>0. \A b \in Blobs : File(b, TRUE).data = b /\ File(b, TRUE) # None /\ b # None
    BY WholeFile
  <2>1. CASE UNCHANGED vars
    BY <2>1 DEF vars, Register!vars
  <2>2. ASSUME NEW b \in Blobs, Call(b) PROVE Register!Next
    <3>1. Register!Save(b)
      BY <2>2 DEF Call, Register!Save
    <3>. QED BY <2>2, <3>1 DEF Register!Next
  <2>3. CASE Create \/ WriteAll \/ SyncAll
    BY <2>3 DEF Create, WriteAll, SyncAll, Register!vars
  <2>4. CASE Rename
    <3>1. Register!Publish
      BY <2>0, <2>4 DEF Rename, Register!Publish
    <3>. QED BY <3>1 DEF Register!Next
  <2>5. CASE SyncDir
    <3>1. Register!Saved
      BY <2>0, <2>5 DEF SyncDir, Register!Saved
    <3>. QED BY <3>1 DEF Register!Next
  <2>6. CASE GiveUp \/ SyncDirFails \/ Kill
    <3>1. Register!Lost
      BY <2>0, <2>6 DEF GiveUp, SyncDirFails, Kill, Register!Lost
    <3>. QED BY <3>1 DEF Register!Next
  <2>7. CASE WritebackDir
    <3>1. Register!Settle
      BY <2>7 DEF WritebackDir, Register!Settle
    <3>. QED BY <3>1 DEF Register!Next
  <2>8. CASE PowerCut
    <3>1. stable' = stable /\ bin' = stable
      BY <2>8, WholeSurvives DEF PowerCut
    <3>2. Register!PowerCut
      BY <2>8, <3>1 DEF PowerCut, Register!PowerCut
    <3>. QED BY <3>2 DEF Register!Next
  <2>. QED BY <2>1, <2>2, <2>3, <2>4, <2>5, <2>6, <2>7, <2>8 DEF Next
<1>. QED BY <1>1, <1>2, PInvariance, PTL DEF Spec, ImplementsRegister, Register!Spec
=============================================================================
