----------------------------- MODULE HostProofs -----------------------------
(***************************************************************************)
(* Proofs about what is installed on a machine: model files are installed  *)
(* whole, an authorized workflow is active, a failed node pack leaves the  *)
(* old one, and a workflow package stays what its installs answered, for   *)
(* any number of installers, packs, packages, jobs and faults.             *)
(***************************************************************************)
EXTENDS ComfyHost, ModelStore, CapabilityStore, WorkflowRegistry, TLAPS

-----------------------------------------------------------------------------
(* Model files *)

ModelSpec == ModelInit /\ [][ModelNext]_modelVars

Placed == [digest : ModelDigests \cup {"none", "foreign"}, ok : BOOLEAN]

ModelPlaces == {"idle", "lock", "check", "open", "fetch", "verify", "publish", "unlink", "link",
                "protect"}

InstallerRow == [pc : ModelPlaces, digest : ModelDigests \cup {"none"}, path : Paths \cup {"none"}]

ModelTyped ==
    /\ part \in [ModelDigests -> [n : Nat, ok : BOOLEAN]]
    /\ blob \in [ModelDigests -> Placed]
    /\ tgt \in [Paths -> Placed]
    /\ lock \in [ModelDigests -> Installers \cup {Nobody}]
    /\ ins \in [Installers -> InstallerRow]

\* An installer past the lock has it, and one about to publish has verified the
\* partial file, which nobody else may touch.
LockDiscipline ==
    \A i \in Installers :
        /\ ins[i].pc # "idle" => ins[i].digest \in ModelDigests /\ ins[i].path \in Paths
        /\ ins[i].pc \notin {"idle", "lock"} => lock[ins[i].digest] = i
        /\ ins[i].pc = "publish" => part[ins[i].digest].ok

ModelInv == ModelTyped /\ LockDiscipline /\ InstalledIsWhole

\* A fresh store is empty (ModelInstaller).
LEMMA ModelStarts == ModelInit => ModelInv
<1> SUFFICES ASSUME ModelInit PROVE ModelInv
  OBVIOUS
<1> USE DEF ModelInit
<1>1. Empty \in [n : Nat, ok : BOOLEAN] /\ NoFile \in Placed /\ Resting \in InstallerRow
  BY DEF Empty, NoFile, Resting, Placed, InstallerRow, ModelPlaces
<1>2. ModelTyped
  BY <1>1 DEF ModelTyped
<1>3. LockDiscipline
  BY DEF LockDiscipline, Resting
<1>4. InstalledIsWhole
  BY DEF InstalledIsWhole, NoFile
<1> QED
  BY <1>2, <1>3, <1>4 DEF ModelInv

\* A job asks for a model (install).
LEMMA AskKeeps ==
    ASSUME ModelInv, NEW i \in Installers, NEW pin \in Pins, Ask(i, pin)
    PROVE  ModelInv'
<1>1. pin.digest \in ModelDigests /\ pin.path \in Paths
  BY DEF ModelDigests, Paths
<1> USE DEF ModelInv, ModelTyped
<1>2. ins' \in [Installers -> InstallerRow]
  BY <1>1 DEF Ask, InstallerRow, ModelPlaces
<1>3. LockDiscipline'
  BY <1>1 DEF Ask, LockDiscipline, InstallerRow
<1> QED
  BY <1>2, <1>3 DEF Ask, ModelInv, InstalledIsWhole

\* Giving up the lock leaves the locks of the others (_digest_lock).
LEMMA LeavesKeeps ==
    ASSUME ModelInv, NEW i \in Installers, Leaves(i),
           part' \in [ModelDigests -> [n : Nat, ok : BOOLEAN]],
           ins[i].pc \in {"idle", "lock"} => part' = part,
           \A d \in ModelDigests : d # ins[i].digest => part'[d] = part[d]
    PROVE  /\ lock' \in [ModelDigests -> Installers \cup {Nobody}]
           /\ ins' \in [Installers -> InstallerRow]
           /\ LockDiscipline'
<1> USE DEF ModelInv, ModelTyped
<1>1. lock' \in [ModelDigests -> Installers \cup {Nobody}]
  BY DEF Leaves
<1>2. ins' = [ins EXCEPT ![i] = Resting]
  BY DEF Leaves
<1>3. ins' \in [Installers -> InstallerRow]
  <2>1. Resting \in InstallerRow
    BY DEF Resting, InstallerRow, ModelPlaces
  <2> QED BY <1>2, <2>1
<1>4. ASSUME NEW k \in Installers
      PROVE  /\ ins'[k].pc # "idle" => ins'[k].digest \in ModelDigests /\ ins'[k].path \in Paths
             /\ ins'[k].pc \notin {"idle", "lock"} => lock'[ins'[k].digest] = k
             /\ ins'[k].pc = "publish" => part'[ins'[k].digest].ok
  <2>1. CASE k = i
    BY <1>2, <2>1 DEF Resting
  <2>2. CASE k # i
    <3>1. ins'[k] = ins[k]
      BY <1>2, <2>2
    <3>2. CASE ins[k].pc \notin {"idle", "lock"}
      <4>1. ins[k].digest \in ModelDigests /\ ins[k].path \in Paths /\ lock[ins[k].digest] = k
        BY <3>2 DEF LockDiscipline
      <4>2. lock'[ins[k].digest] = k
        BY <4>1, <2>2 DEF Leaves
      <4>3. part'[ins[k].digest] = part[ins[k].digest]
        <5>1. CASE ins[i].pc \in {"idle", "lock"}
          BY <5>1
        <5>2. CASE ins[i].pc \notin {"idle", "lock"}
          BY <5>2, <4>1, <2>2 DEF LockDiscipline
        <5> QED BY <5>1, <5>2
      <4> QED BY <3>1, <4>1, <4>2, <4>3 DEF LockDiscipline
    <3>3. CASE ins[k].pc \in {"idle", "lock"}
      BY <3>1, <3>3 DEF LockDiscipline
    <3> QED BY <3>2, <3>3
  <2> QED BY <2>1, <2>2
<1> QED
  BY <1>1, <1>3, <1>4 DEF LockDiscipline

\* Going on under the lock leaves what the others know (_install_locked).
LEMMA MovesKeeps ==
    ASSUME ModelInv, NEW i \in Installers, NEW pc \in ModelPlaces, Moves(i, pc),
           ins[i].pc \notin {"idle", "lock"}, pc \notin {"idle", "lock"}, lock' = lock,
           part' \in [ModelDigests -> [n : Nat, ok : BOOLEAN]],
           \A d \in ModelDigests : d # ins[i].digest => part'[d] = part[d],
           pc = "publish" => part'[ins[i].digest].ok
    PROVE  /\ lock' \in [ModelDigests -> Installers \cup {Nobody}]
           /\ ins' \in [Installers -> InstallerRow]
           /\ LockDiscipline'
<1> USE DEF ModelInv, ModelTyped
<1>2. ins' = [ins EXCEPT ![i].pc = pc]
  BY DEF Moves
<1>3. ins' \in [Installers -> InstallerRow]
  BY SMTT(30), <1>2 DEF InstallerRow
<1>4. ASSUME NEW k \in Installers
      PROVE  /\ ins'[k].pc # "idle" => ins'[k].digest \in ModelDigests /\ ins'[k].path \in Paths
             /\ ins'[k].pc \notin {"idle", "lock"} => lock'[ins'[k].digest] = k
             /\ ins'[k].pc = "publish" => part'[ins'[k].digest].ok
  <2>0. /\ ins[i].digest \in ModelDigests /\ ins[i].path \in Paths /\ lock[ins[i].digest] = i
    BY DEF LockDiscipline
  <2>1. CASE k = i
    <3>1. ins'[k].pc = pc /\ ins'[k].digest = ins[i].digest /\ ins'[k].path = ins[i].path
      BY <1>2, <2>1 DEF InstallerRow
    <3> QED BY <2>0, <3>1, <2>1
  <2>2. CASE k # i
    <3>1. ins'[k] = ins[k]
      BY <1>2, <2>2
    <3>2. CASE ins[k].pc \notin {"idle", "lock"}
      <4>1. ins[k].digest \in ModelDigests /\ ins[k].path \in Paths /\ lock[ins[k].digest] = k
        BY <3>2 DEF LockDiscipline
      <4>3. part'[ins[k].digest] = part[ins[k].digest]
        BY <4>1, <2>0, <2>2
      <4> QED BY <3>1, <4>1, <4>3 DEF LockDiscipline
    <3>3. CASE ins[k].pc \in {"idle", "lock"}
      BY <3>1, <3>3 DEF LockDiscipline
    <3> QED BY <3>2, <3>3
  <2> QED BY <2>1, <2>2
<1> QED
  BY <1>3, <1>4 DEF LockDiscipline

\* Taking the lock, or giving up on it (_digest_lock).
LEMMA LockDigestKeeps ==
    ASSUME ModelInv, NEW i \in Installers, LockDigest(i)
    PROVE  ModelInv'
<1> USE DEF ModelInv, ModelTyped
<1>0. ins[i].pc = "lock" /\ UNCHANGED <<part, blob, tgt>>
  BY DEF LockDigest
<1>1. CASE lock[ins[i].digest] # Nobody
  <2>1. Leaves(i)
    BY <1>1 DEF LockDigest
  <2> QED BY <2>1, <1>0, LeavesKeeps DEF InstalledIsWhole
<1>2. CASE lock[ins[i].digest] = Nobody
  <2>1. lock' = [lock EXCEPT ![ins[i].digest] = i] /\ ins' = [ins EXCEPT ![i].pc = "check"]
    BY <1>2 DEF LockDigest, Moves
  <2>2. lock' \in [ModelDigests -> Installers \cup {Nobody}]
    BY Zenon, <2>1
  <2>3. ins' \in [Installers -> InstallerRow]
    BY ZenonT(30), <2>1 DEF InstallerRow, ModelPlaces
  <2>4. LockDiscipline'
    BY <1>0, <1>2, <2>1, PinsAssumption DEF LockDiscipline, InstallerRow
  <2> QED BY <1>0, <2>2, <2>3, <2>4 DEF InstalledIsWhole
<1> QED BY <1>1, <1>2

\* What an installer under the lock may do to the files (_install_locked).
LEMMA FilesKept ==
    ASSUME ModelInv, NEW i \in Installers, ins[i].pc \notin {"idle", "lock"}
    PROVE  /\ ins[i].digest \in ModelDigests /\ ins[i].path \in Paths
           /\ part[ins[i].digest].n \in Nat /\ part[ins[i].digest].ok \in BOOLEAN
           /\ blob[ins[i].digest] \in Placed /\ blob[ins[i].digest].ok
           /\ tgt[ins[i].path] \in Placed /\ tgt[ins[i].path].ok
           /\ NoFile \in Placed /\ NoFile.ok
           /\ Empty \in [n : Nat, ok : BOOLEAN]
  BY DEF ModelInv, ModelTyped, LockDiscipline, InstalledIsWhole, Placed, NoFile, Empty

\* Linking a verified file into the store (_publish_blob).
LEMMA PublishBlobKeeps ==
    ASSUME ModelInv, NEW d \in ModelDigests, NEW file \in Placed, file.ok, PublishBlob(d, file),
           tgt' = tgt
    PROVE  blob' \in [ModelDigests -> Placed] /\ InstalledIsWhole'
  BY DEF ModelInv, ModelTyped, InstalledIsWhole, PublishBlob

\* An existing file at the path is used (_existing_target).
LEMMA UseTargetKeeps ==
    ASSUME ModelInv, NEW i \in Installers, ins[i].pc \notin {"idle", "lock"},
           UseTarget(i, ins[i].digest, ins[i].path), tgt' = tgt
    PROVE  blob' \in [ModelDigests -> Placed] /\ InstalledIsWhole' /\ Leaves(i)
<1>1. CASE tgt[ins[i].path] = [digest |-> ins[i].digest, ok |-> TRUE]
  <2>1. PublishBlob(ins[i].digest, tgt[ins[i].path])
    BY <1>1 DEF UseTarget
  <2> QED BY <2>1, FilesKept, PublishBlobKeeps DEF UseTarget
<1>2. CASE tgt[ins[i].path] # [digest |-> ins[i].digest, ok |-> TRUE]
  BY SMTT(30), <1>2 DEF UseTarget, ModelInv, ModelTyped, InstalledIsWhole
<1> QED BY <1>1, <1>2

\* The first look under the lock (_install_locked).
LEMMA CheckKeeps ==
    ASSUME ModelInv, NEW i \in Installers, Check(i)
    PROVE  ModelInv'
<1> USE DEF ModelInv, ModelTyped
<1> DEFINE d == ins[i].digest
           p == ins[i].path
<1>0. ins[i].pc = "check" /\ ins[i].pc \notin {"idle", "lock"} /\ tgt' = tgt
  BY DEF Check
<1>f. d \in ModelDigests /\ p \in Paths
  BY <1>0, FilesKept
<1>1. CASE tgt[p] # NoFile /\ UseTarget(i, d, p) /\ part' = part
  BY <1>0, <1>1, UseTargetKeeps, LeavesKeeps
<1>2. CASE Moves(i, "link") /\ UNCHANGED <<part, blob, lock>>
  BY <1>0, <1>2, MovesKeeps DEF InstalledIsWhole, ModelPlaces
<1>3. CASE part[d].ok /\ Moves(i, "publish") /\ UNCHANGED <<part, blob, lock>>
  BY SMTT(30), <1>0, <1>3, MovesKeeps DEF InstalledIsWhole, ModelPlaces
<1>4. CASE part' = [part EXCEPT ![d] = Resumable(d)] /\ Moves(i, "open") /\ UNCHANGED <<blob, lock>>
  <2>1. Resumable(d) \in [n : Nat, ok : BOOLEAN]
    BY <1>f DEF Resumable, Empty
  <2>2. part' \in [ModelDigests -> [n : Nat, ok : BOOLEAN]]
    BY Zenon, <1>4, <2>1
  <2>3. \A e \in ModelDigests : e # d => part'[e] = part[e]
    BY <1>4
  <2> QED BY SMTT(30), <1>0, <1>4, <2>2, <2>3, MovesKeeps DEF InstalledIsWhole, ModelPlaces
<1> QED BY <1>1, <1>2, <1>3, <1>4 DEF Check

\* The origin's answer to the request (_download).
LEMMA OpenKeeps ==
    ASSUME ModelInv, NEW i \in Installers, Open(i)
    PROVE  ModelInv'
<1> USE DEF ModelInv, ModelTyped
<1> DEFINE d == ins[i].digest
<1>0. ins[i].pc = "open" /\ ins[i].pc \notin {"idle", "lock"} /\ UNCHANGED <<blob, tgt>>
  BY DEF Open
<1>f. d \in ModelDigests /\ Empty \in [n : Nat, ok : BOOLEAN]
  BY <1>0, FilesKept
<1>1. CASE Moves(i, "fetch") /\ UNCHANGED <<part, lock>>
  BY SMTT(30), <1>0, <1>1, MovesKeeps DEF InstalledIsWhole, ModelPlaces
<1>2. CASE part' = [part EXCEPT ![d] = Empty] /\ Moves(i, "fetch") /\ UNCHANGED lock
  <2>1. part' \in [ModelDigests -> [n : Nat, ok : BOOLEAN]]
    BY <1>2, <1>f
  <2>2. \A e \in ModelDigests : e # d => part'[e] = part[e]
    BY <1>2
  <2> QED BY <1>0, <1>2, <2>1, <2>2, MovesKeeps DEF InstalledIsWhole, ModelPlaces
<1>3. CASE Leaves(i) /\ UNCHANGED part
  BY SMTT(30), <1>0, <1>3, LeavesKeeps DEF InstalledIsWhole
<1> QED BY <1>1, <1>2, <1>3 DEF Open

\* A chunk of the download (_download).
LEMMA FetchKeeps ==
    ASSUME ModelInv, NEW i \in Installers, Fetch(i)
    PROVE  ModelInv'
<1> USE DEF ModelInv, ModelTyped
<1> DEFINE d == ins[i].digest
           more(ok) == part' = [part EXCEPT ![d] = [n |-> part[d].n + 1, ok |-> part[d].ok /\ ok]]
<1>0. ins[i].pc = "fetch" /\ ins[i].pc \notin {"idle", "lock"} /\ UNCHANGED <<blob, tgt>>
  BY DEF Fetch
<1>f. d \in ModelDigests /\ part[d].n \in Nat /\ part[d].ok \in BOOLEAN /\ lock[d] = i
  BY <1>0, FilesKept DEF LockDiscipline
<1>1. ASSUME NEW ok \in BOOLEAN, more(ok), UNCHANGED <<ins, lock>>
      PROVE  ModelInv'
  <2>1. part' \in [ModelDigests -> [n : Nat, ok : BOOLEAN]]
    BY <1>1, <1>f
  <2>2. \A e \in ModelDigests : e # d => part'[e] = part[e]
    BY <1>1
  <2>3. LockDiscipline'
    BY <1>0, <1>1, <1>f, <2>2 DEF LockDiscipline
  <2> QED BY <1>0, <1>1, <2>1, <2>3 DEF InstalledIsWhole
<1>2. CASE Leaves(i) /\ UNCHANGED part
  BY <1>0, <1>2, LeavesKeeps DEF InstalledIsWhole
<1>3. CASE Moves(i, "verify") /\ UNCHANGED <<part, lock>>
  BY SMTT(30), <1>0, <1>3, MovesKeeps DEF InstalledIsWhole, ModelPlaces
<1> QED BY Zenon, <1>1, <1>2, <1>3 DEF Fetch

\* The digest of the whole file (_install_locked).
LEMMA VerifyKeeps ==
    ASSUME ModelInv, NEW i \in Installers, Verify(i)
    PROVE  ModelInv'
<1> USE DEF ModelInv, ModelTyped
<1> DEFINE d == ins[i].digest
           p == ins[i].path
<1>0. ins[i].pc = "verify" /\ ins[i].pc \notin {"idle", "lock"} /\ tgt' = tgt
  BY DEF Verify
<1>f. d \in ModelDigests /\ p \in Paths /\ Empty \in [n : Nat, ok : BOOLEAN]
  BY <1>0, FilesKept
<1>e. ASSUME part' = [part EXCEPT ![d] = Empty]
      PROVE  /\ part' \in [ModelDigests -> [n : Nat, ok : BOOLEAN]]
             /\ \A e \in ModelDigests : e # d => part'[e] = part[e]
  BY <1>e, <1>f
<1>1. CASE part' = [part EXCEPT ![d] = Empty] /\ Leaves(i) /\ UNCHANGED blob
  BY SMTT(30), <1>0, <1>1, <1>e, LeavesKeeps DEF InstalledIsWhole
<1>2. CASE /\ UseTarget(i, d, p)
           /\ part' = IF tgt[p].digest = d THEN [part EXCEPT ![d] = Empty] ELSE part
  <2>1. /\ part' \in [ModelDigests -> [n : Nat, ok : BOOLEAN]]
        /\ \A e \in ModelDigests : e # d => part'[e] = part[e]
    BY <1>2, <1>e
  <2> QED BY <1>0, <1>2, <2>1, UseTargetKeeps, LeavesKeeps
<1>3. CASE part[d].ok /\ Moves(i, "publish") /\ UNCHANGED <<part, blob, lock>>
  BY <1>0, <1>3, MovesKeeps DEF InstalledIsWhole, ModelPlaces
<1> QED BY <1>1, <1>2, <1>3 DEF Verify, Verifies

\* The verified file enters the store (_publish_blob).
LEMMA PublishKeeps ==
    ASSUME ModelInv, NEW i \in Installers, Publish(i)
    PROVE  ModelInv'
<1> USE DEF ModelInv, ModelTyped
<1> DEFINE d == ins[i].digest
           file == [digest |-> d, ok |-> part[d].ok]
<1>0. /\ ins[i].pc = "publish" /\ ins[i].pc \notin {"idle", "lock"} /\ UNCHANGED <<part, tgt, lock>>
      /\ PublishBlob(d, file) /\ Moves(i, "unlink")
  BY DEF Publish
<1>f. d \in ModelDigests /\ part[d].ok /\ part[d].ok \in BOOLEAN
  BY <1>0, FilesKept DEF LockDiscipline
<1>1. file \in Placed /\ file.ok
  BY <1>f DEF Placed
<1>2. blob' \in [ModelDigests -> Placed] /\ InstalledIsWhole'
  BY <1>0, <1>1, <1>f, PublishBlobKeeps
<1> QED BY SMTT(30), <1>0, <1>2, MovesKeeps DEF ModelPlaces

\* The partial file goes (_install_locked).
LEMMA UnlinkPartialKeeps ==
    ASSUME ModelInv, NEW i \in Installers, UnlinkPartial(i)
    PROVE  ModelInv'
<1> USE DEF ModelInv, ModelTyped
<1> DEFINE d == ins[i].digest
<1>0. /\ ins[i].pc = "unlink" /\ ins[i].pc \notin {"idle", "lock"} /\ UNCHANGED <<blob, tgt, lock>>
      /\ Moves(i, "link")
  BY DEF UnlinkPartial
<1>f. d \in ModelDigests /\ Empty \in [n : Nat, ok : BOOLEAN]
  BY <1>0, FilesKept
<1>1. part' = [part EXCEPT ![d] = Empty] \/ part' = part
  BY DEF UnlinkPartial
<1>2. /\ part' \in [ModelDigests -> [n : Nat, ok : BOOLEAN]]
      /\ \A e \in ModelDigests : e # d => part'[e] = part[e]
  BY <1>1, <1>f
<1> QED BY <1>0, <1>2, MovesKeeps DEF InstalledIsWhole, ModelPlaces

\* The store's file is linked to the path (_link_target).
LEMMA LinkTargetKeeps ==
    ASSUME ModelInv, NEW i \in Installers, LinkTarget(i)
    PROVE  ModelInv'
<1> USE DEF ModelInv, ModelTyped
<1> DEFINE p == ins[i].path
<1>0. /\ ins[i].pc = "link" /\ ins[i].pc \notin {"idle", "lock"} /\ UNCHANGED <<part, blob>>
      /\ Link(p, blob[ins[i].digest])
  BY DEF LinkTarget
<1>f. p \in Paths /\ blob[ins[i].digest] \in Placed /\ blob[ins[i].digest].ok
  BY <1>0, FilesKept
<1>1. tgt' \in [Paths -> Placed] /\ \A q \in Paths : tgt'[q].ok
  BY <1>0, <1>f DEF Link, InstalledIsWhole
<1>2. CASE Moves(i, "protect") /\ UNCHANGED lock
  BY <1>0, <1>1, <1>2, MovesKeeps DEF InstalledIsWhole, ModelPlaces
<1>3. CASE Leaves(i)
  BY <1>0, <1>1, <1>3, LeavesKeeps DEF InstalledIsWhole
<1> QED BY <1>2, <1>3 DEF LinkTarget

\* A file that cannot be protected goes again (_link_target).
LEMMA ProtectTargetKeeps ==
    ASSUME ModelInv, NEW i \in Installers, ProtectTarget(i)
    PROVE  ModelInv'
<1> USE DEF ModelInv, ModelTyped
<1>0. /\ ins[i].pc = "protect" /\ ins[i].pc \notin {"idle", "lock"} /\ UNCHANGED <<part, blob>>
      /\ Leaves(i) /\ (tgt' = tgt \/ tgt' = [tgt EXCEPT ![ins[i].path] = NoFile])
  BY DEF ProtectTarget
<1>1. tgt' \in [Paths -> Placed] /\ \A q \in Paths : tgt'[q].ok
  BY <1>0, FilesKept DEF InstalledIsWhole
<1> QED BY <1>0, <1>1, LeavesKeeps DEF InstalledIsWhole

\* An installer that dies gives up its lock (_digest_lock).
LEMMA InstallerDiesKeeps ==
    ASSUME ModelInv, NEW i \in Installers, InstallerDies(i)
    PROVE  ModelInv'
  BY LeavesKeeps DEF InstallerDies, ModelInv, ModelTyped, InstalledIsWhole

\* Somebody else places a file (_existing_target).
LEMMA FileAppearsKeeps ==
    ASSUME ModelInv, NEW pin \in Pins, FileAppears(pin)
    PROVE  ModelInv'
<1> USE DEF ModelInv, ModelTyped
<1>1. PICK file \in {Foreign, [digest |-> pin.digest, ok |-> TRUE]} :
          tgt' = [tgt EXCEPT ![pin.path] = file]
  BY Zenon DEF FileAppears
<1>2. pin.path \in Paths /\ pin.digest \in ModelDigests
  BY DEF Paths, ModelDigests
<1>3. file \in Placed /\ file.ok
  <2>1. CASE file = Foreign
    BY <2>1 DEF Placed, Foreign
  <2>2. CASE file = [digest |-> pin.digest, ok |-> TRUE]
    BY <1>2, <2>2 DEF Placed
  <2> QED BY <2>1, <2>2
<1>4. tgt' \in [Paths -> Placed] /\ \A q \in Paths : tgt'[q].ok
  BY <1>1, <1>2, <1>3 DEF InstalledIsWhole
<1> QED BY <1>4 DEF FileAppears, LockDiscipline, InstalledIsWhole

\* Every step keeps the invariant (ModelInstaller.install).
LEMMA ModelNextKeeps == ModelInv /\ [ModelNext]_modelVars => ModelInv'
<1> SUFFICES ASSUME ModelInv, [ModelNext]_modelVars PROVE ModelInv'
  OBVIOUS
<1>1. CASE UNCHANGED modelVars
  BY <1>1 DEF modelVars, ModelInv, ModelTyped, LockDiscipline, InstalledIsWhole
<1>2. ASSUME NEW i \in Installers, ModelStep(i) PROVE ModelInv'
  BY <1>2, LockDigestKeeps, CheckKeeps, OpenKeeps, FetchKeeps, VerifyKeeps, PublishKeeps,
     UnlinkPartialKeeps, LinkTargetKeeps, ProtectTargetKeeps, ZenonT(30) DEF ModelStep
<1>3. CASE ModelNext
  BY <1>2, <1>3, InstallerDiesKeeps, AskKeeps, FileAppearsKeeps, ZenonT(30) DEF ModelNext
<1> QED BY <1>1, <1>3

\* The lock discipline of the installers, and that what they place is whole,
\* always hold (ModelInstaller.install).
THEOREM ModelInvariant == ModelSpec => []ModelInv
  BY ModelStarts, ModelNextKeeps, PTL DEF ModelSpec

\* A file in the store, or at a path, that an installer put there has the digest
\* it was pinned with, whatever broke (_install_locked).
THEOREM ModelsAreWhole == ModelSpec => []InstalledIsWhole
<1>1. ModelInv => InstalledIsWhole
  BY DEF ModelInv
<1> QED BY <1>1, ModelInvariant, PTL

-----------------------------------------------------------------------------
(* Workflow capabilities *)

CapSpec == CapInit /\ [][CapNext]_capVars

Activating == {"activate", "aside", "place", "index", "complete", "fail"}

\* The digest the index may have for the release that is being activated.
NoConflict == index[Wanted.ref] \in {NoEntry, Wanted.digest}

CapTyped ==
    /\ granted \subseteq CapJobs
    /\ DOMAIN index = Refs
    /\ index = [r \in Refs |-> index[r]]
    /\ rel \in [Releases -> {"none", "good", "corrupt"}]
    /\ cap = [pc |-> cap.pc, job |-> cap.job, snapshot |-> cap.snapshot, aside |-> cap.aside]

\* The index has the release that is about to be reported, nothing else enters it
\* during an activation, and the snapshot at hand is no older than a grant.
CapSettled ==
    /\ cap.pc \in Activating => cap.job \in CapJobs
    /\ cap.pc \in {"aside", "place", "index"} => NoConflict
    /\ cap.pc = "complete" => index[Wanted.ref] = Wanted.digest
    /\ cap.pc = "reconcile" => Authorized \subseteq cap.snapshot

CapInv == CapTyped /\ CapSettled /\ GrantedIsActive

\* The release of a job has an entry in the index (CapabilityStore).
LEMMA CapOfJob ==
    ASSUME NEW j \in CapJobs
    PROVE  /\ CapOf[j].ref \in Refs /\ CapOf[j].digest \in Releases
           /\ CapOf[j].digest # NoEntry
           /\ CapOf[j] = [ref |-> CapOf[j].ref, digest |-> CapOf[j].digest]
  BY CapAssumption DEF Refs, Releases, Caps

\* Nothing is authorized at first (CapabilityStore).
LEMMA CapStarts == CapInit => CapInv
  BY DEF CapInit, CapInv, CapTyped, CapSettled, GrantedIsActive, Authorized, Started, Activating

\* The Gateway's steps leave the Worker alone, and only take grants away
\* (uninstall_workflow, _rollback_workflow_install).
LEMMA GatewayKeeps ==
    ASSUME CapInv, UNCHANGED <<index, cap>>, granted' \subseteq granted,
           rel' \in [Releases -> {"none", "good", "corrupt"}]
    PROVE  CapInv'
<1>1. Authorized' \subseteq Authorized
  BY DEF Authorized
<1>2. CapTyped'
  BY DEF CapInv, CapTyped
<1>3. CapSettled'
  BY <1>1 DEF CapInv, CapSettled, Wanted, NoConflict
<1>4. GrantedIsActive'
  BY <1>1 DEF CapInv, GrantedIsActive
<1> QED BY <1>2, <1>3, <1>4 DEF CapInv

\* A step of the Worker that leaves the index and the grants (CapabilityStore).
LEMMA WorkerKeeps ==
    ASSUME CapInv, UNCHANGED <<index, granted>>,
           rel' \in [Releases -> {"none", "good", "corrupt"}],
           NEW pc, NEW job_, NEW snapshot, NEW aside,
           cap' = [pc |-> pc, job |-> job_, snapshot |-> snapshot, aside |-> aside],
           pc \in Activating => job_ \in CapJobs,
           pc \in {"aside", "place", "index"} =>
               index[CapOf[job_].ref] \in {NoEntry, CapOf[job_].digest},
           pc # "complete",
           pc = "reconcile" => Authorized \subseteq snapshot
    PROVE  CapInv'
<1>0. /\ cap'.pc = pc /\ cap'.job = job_ /\ cap'.snapshot = snapshot /\ cap'.aside = aside
  OBVIOUS
<1>1. Authorized' = Authorized
  BY DEF Authorized
<1>2. CapTyped'
  BY <1>0 DEF CapInv, CapTyped
<1>3. CapSettled'
  BY <1>0, <1>1 DEF CapSettled, Wanted, NoConflict
<1>4. GrantedIsActive'
  BY <1>1 DEF CapInv, GrantedIsActive
<1> QED BY <1>2, <1>3, <1>4 DEF CapInv

\* A heartbeat brings the snapshot, or fails (announce).
LEMMA AnnounceKeeps == ASSUME CapInv, Announce PROVE CapInv'
<1>1. UNCHANGED <<index, granted>> /\ cap.pc = "announce"
      /\ rel' \in [Releases -> {"none", "good", "corrupt"}]
  BY DEF Announce, CapInv, CapTyped
<1>2. CASE cap' = [cap EXCEPT !.pc = "reconcile", !.snapshot = Authorized]
  <2>1. cap' = [pc |-> "reconcile", job |-> cap.job, snapshot |-> Authorized, aside |-> cap.aside]
    BY Zenon, <1>2 DEF CapInv, CapTyped
  <2> QED BY <1>1, <2>1, WorkerKeeps DEF Activating
<1>3. CASE cap' = [cap EXCEPT !.pc = "serve"]
  <2>1. cap' = [pc |-> "serve", job |-> cap.job, snapshot |-> cap.snapshot, aside |-> cap.aside]
    BY <1>3 DEF CapInv, CapTyped
  <2> QED BY <1>1, <2>1, WorkerKeeps DEF Activating
<1> QED BY <1>2, <1>3 DEF Announce, CapGoes

\* The index is reduced to the snapshot, which has every grant
\* (reconcile_authorizations).
LEMMA ReconcileKeeps == ASSUME CapInv, Reconcile PROVE CapInv'
<1>1. /\ cap.pc = "reconcile" /\ granted' = granted
      /\ rel' \in [Releases -> {"none", "good", "corrupt"}]
      /\ cap' = [pc |-> "serve", job |-> cap.job, snapshot |-> {}, aside |-> cap.aside]
  BY Zenon DEF Reconcile, CapInv, CapTyped
<1>2. CASE index' = index
  BY <1>1, <1>2, WorkerKeeps DEF Activating
<1>3. CASE index' = Reconciled
  <2>1. CapTyped'
    BY <1>1, <1>3 DEF CapInv, CapTyped, Reconciled
  <2>2. CapSettled'
    BY <1>1 DEF CapSettled, Activating
  <2>3. ASSUME NEW c \in Authorized PROVE index'[c.ref] = c.digest
    <3>1. PICK j \in granted : c = CapOf[j]
      BY <2>3 DEF Authorized
    <3>2. j \in CapJobs
      BY DEF CapInv, CapTyped
    <3>3. c.ref \in Refs /\ c = [ref |-> c.ref, digest |-> c.digest]
      BY <3>1, <3>2, CapOfJob
    <3>4. index[c.ref] = c.digest /\ c \in cap.snapshot
      BY <1>1, <2>3 DEF CapInv, GrantedIsActive, CapSettled
    <3> QED BY <1>3, <3>3, <3>4 DEF Reconciled
  <2>4. GrantedIsActive'
    BY <1>1, <2>3 DEF GrantedIsActive, Authorized
  <2> QED BY <2>1, <2>2, <2>4 DEF CapInv
<1> QED BY <1>2, <1>3 DEF Reconcile

\* The next turn, and a job that is claimed (run, _claim_maintenance).
LEMMA TurnKeeps ==
    ASSUME CapInv, NextAnnounce \/ \E j \in CapJobs : ClaimInstall(j) PROVE CapInv'
<1>r. rel' \in [Releases -> {"none", "good", "corrupt"}]
  BY Zenon DEF NextAnnounce, ClaimInstall, CapInv, CapTyped
<1>1. CASE NextAnnounce
  <2>1. cap' = [pc |-> "announce", job |-> cap.job, snapshot |-> cap.snapshot, aside |-> cap.aside]
    BY SMTT(30), <1>1 DEF NextAnnounce, CapGoes, CapInv, CapTyped
  <2> QED BY <1>1, <1>r, <2>1, WorkerKeeps DEF NextAnnounce, Activating
<1>2. ASSUME NEW j \in CapJobs, ClaimInstall(j) PROVE CapInv'
  <2>1. cap' = [pc |-> "activate", job |-> j, snapshot |-> cap.snapshot, aside |-> FALSE]
    BY Zenon, <1>2 DEF ClaimInstall, CapInv, CapTyped
  <2> QED BY ZenonT(30), <1>2, <1>r, <2>1, WorkerKeeps DEF ClaimInstall
<1> QED BY SMTT(30), <1>1, <1>2

\* The activation up to the index (activate).
LEMMA ActivateKeeps == ASSUME CapInv, Activate \/ MoveAside \/ PlaceRelease PROVE CapInv'
<1>0. UNCHANGED <<index, granted>> /\ rel' \in [Releases -> {"none", "good", "corrupt"}]
  BY DEF Activate, MoveAside, PlaceRelease, CapInv, CapTyped
<1>1. CASE Activate
  <2>0. cap.pc = "activate" /\ cap.job \in CapJobs
    BY <1>1 DEF Activate, CapInv, CapSettled, Activating
  <2>r. rel[Wanted.digest] \in {"good", "none", "corrupt"}
    BY Zenon, <2>0, CapOfJob DEF Wanted, CapInv, CapTyped
  <2>c. ~Conflicts => index[CapOf[cap.job].ref] \in {NoEntry, CapOf[cap.job].digest}
    BY DEF Conflicts, Wanted
  <2>2. CASE cap' = [cap EXCEPT !.pc = "fail"]
    <3>1. cap' = [pc |-> "fail", job |-> cap.job, snapshot |-> cap.snapshot, aside |-> cap.aside]
      BY <2>2 DEF CapInv, CapTyped
    <3> QED BY <1>0, <2>0, <3>1, WorkerKeeps
  <2>3. ASSUME ~Conflicts, NEW pc \in {"index", "place", "aside"}, cap' = [cap EXCEPT !.pc = pc]
        PROVE  CapInv'
    <3>1. cap' = [pc |-> pc, job |-> cap.job, snapshot |-> cap.snapshot, aside |-> cap.aside]
      BY <2>3 DEF CapInv, CapTyped
    <3> QED BY ZenonT(30), <1>0, <2>0, <2>3, <2>c, <3>1, WorkerKeeps
  <2>4. CASE Conflicts
    BY <1>1, <2>2, <2>4 DEF Activate, CapGoes
  <2>5. CASE ~Conflicts /\ rel[Wanted.digest] \in {"good", "none", "corrupt"}
    <3>1. \E pc \in {"index", "place", "aside"} : cap' = [cap EXCEPT !.pc = pc]
      BY <1>1, <2>5 DEF Activate, CapGoes
    <3> QED BY <2>3, <2>5, <3>1
  <2> QED BY <2>4, <2>5, <2>r
<1>2. CASE MoveAside
  <2>0. cap.pc = "aside" /\ cap.job \in CapJobs /\ NoConflict
    BY <1>2 DEF MoveAside, CapInv, CapSettled, Activating
  <2>1. cap' = [pc |-> "place", job |-> cap.job, snapshot |-> cap.snapshot, aside |-> TRUE]
    BY Zenon, <1>2 DEF MoveAside, CapInv, CapTyped
  <2> QED BY <1>0, <2>0, <2>1, WorkerKeeps DEF NoConflict, Wanted
<1>3. CASE PlaceRelease
  <2>0. cap.pc = "place" /\ cap.job \in CapJobs /\ NoConflict
    BY <1>3 DEF PlaceRelease, CapInv, CapSettled, Activating
  <2>1. PICK pc \in {"index", "fail"} : cap' = [cap EXCEPT !.pc = pc]
    BY <1>3 DEF PlaceRelease, CapGoes
  <2>2. cap' = [pc |-> pc, job |-> cap.job, snapshot |-> cap.snapshot, aside |-> cap.aside]
    BY <2>1 DEF CapInv, CapTyped
  <2> QED BY <1>0, <2>0, <2>2, WorkerKeeps DEF NoConflict, Wanted
<1> QED BY <1>1, <1>2, <1>3

\* The index gets the release; an entry of another release is not replaced
\* (activate).
LEMMA WriteIndexKeeps == ASSUME CapInv, WriteIndex PROVE CapInv'
<1>0. /\ cap.pc = "index" /\ cap.job \in CapJobs /\ granted' = granted
      /\ index[Wanted.ref] \in {NoEntry, Wanted.digest}
      /\ rel' \in [Releases -> {"none", "good", "corrupt"}]
  BY DEF WriteIndex, CapInv, CapTyped, CapSettled, Activating, NoConflict
<1>1. CASE index' = index /\ cap' = [cap EXCEPT !.pc = "fail"]
  <2>1. cap' = [pc |-> "fail", job |-> cap.job, snapshot |-> cap.snapshot, aside |-> cap.aside]
    BY <1>1 DEF CapInv, CapTyped
  <2> QED BY Zenon, <1>0, <1>1, <2>1, WorkerKeeps
<1>2. CASE /\ index' = [index EXCEPT ![Wanted.ref] = Wanted.digest]
           /\ cap' = [cap EXCEPT !.pc = "complete"]
  <2>0. cap' = [pc |-> "complete", job |-> cap.job, snapshot |-> cap.snapshot, aside |-> cap.aside]
    BY <1>2 DEF CapInv, CapTyped
  <2>w. Wanted.ref \in Refs
    BY Zenon, <1>0, CapOfJob DEF Wanted
  <2>1. CapTyped'
    BY <1>0, <1>2, <2>0 DEF CapInv, CapTyped
  <2>2. CapSettled'
    BY <1>0, <1>2, <2>0, <2>w DEF CapSettled, Wanted, CapInv, CapTyped
  <2>3. ASSUME NEW c \in Authorized PROVE index'[c.ref] = c.digest
    <3>1. PICK j \in granted : c = CapOf[j]
      BY <2>3 DEF Authorized
    <3>2. j \in CapJobs
      BY DEF CapInv, CapTyped
    <3>3. c.ref \in Refs /\ c.digest # NoEntry
      BY Zenon, <3>1, <3>2, CapOfJob
    <3>4. index[c.ref] = c.digest
      BY <2>3 DEF CapInv, GrantedIsActive
    <3> QED BY <1>0, <1>2, <3>3, <3>4 DEF CapInv, CapTyped
  <2>4. GrantedIsActive'
    BY <1>0, <2>3 DEF GrantedIsActive, Authorized
  <2> QED BY <2>1, <2>2, <2>4 DEF CapInv
<1> QED BY <1>1, <1>2 DEF WriteIndex, CapGoes

\* The end of a job, with a grant for what is active by then
\* (complete_worker_maintenance_job).
LEMMA CompleteKeeps == ASSUME CapInv, Complete \/ ReportFailure \/ CapCrash PROVE CapInv'
<1>a. index' = index /\ cap' = Started /\ rel' = rel
  BY DEF Complete, ReportFailure, CapCrash
<1>0. index' = index /\ cap' = Started /\ rel' \in [Releases -> {"none", "good", "corrupt"}]
  BY <1>a DEF CapInv, CapTyped
<1>1. CASE granted' = granted
  <2>1. cap' = [pc |-> "announce", job |-> "none", snapshot |-> {}, aside |-> FALSE]
    BY <1>0 DEF Started
  <2>2. /\ "announce" \notin Activating /\ "announce" \notin {"aside", "place", "index"}
        /\ "announce" # "complete" /\ "announce" # "reconcile"
    BY DEF Activating
  <2>3. UNCHANGED <<index, granted>> /\ rel' \in [Releases -> {"none", "good", "corrupt"}]
    BY <1>0, <1>1
  <2> QED BY <2>1, <2>2, <2>3, WorkerKeeps
<1>2. CASE cap.pc = "complete" /\ granted' = granted \cup {cap.job}
  <2>1. cap.job \in CapJobs /\ index[Wanted.ref] = Wanted.digest
    BY <1>2 DEF CapInv, CapSettled, Activating
  <2>2. CapTyped'
    BY <1>0, <1>2, <2>1 DEF CapInv, CapTyped, Started
  <2>3. CapSettled'
    BY <1>0 DEF CapSettled, Started, Activating
  <2>4. GrantedIsActive'
    BY <1>0, <1>2, <2>1 DEF CapInv, GrantedIsActive, Authorized, Wanted
  <2> QED BY <2>2, <2>3, <2>4 DEF CapInv
<1> QED BY <1>1, <1>2 DEF Complete, ReportFailure, CapCrash, Earns

\* Every step keeps the invariant (CapabilityStore, uninstall_workflow).
LEMMA CapNextKeeps == CapInv /\ [CapNext]_capVars => CapInv'
<1> SUFFICES ASSUME CapInv, [CapNext]_capVars PROVE CapInv'
  OBVIOUS
<1>1. CASE UNCHANGED capVars
  BY <1>1, GatewayKeeps DEF capVars, CapInv, CapTyped
<1>2. CASE CapLoop
  BY <1>2, AnnounceKeeps, ReconcileKeeps, TurnKeeps, ActivateKeeps, WriteIndexKeeps, CompleteKeeps
     DEF CapLoop
<1>3. CASE CapCrash
  BY <1>3, CompleteKeeps
<1>4. ASSUME NEW j \in CapJobs,
             CreateJob(j) \/ DeactivateSource(j) \/ InstallLapses(j) \/ ClaimInstall(j)
      PROVE  CapInv'
  BY <1>4, GatewayKeeps, TurnKeeps DEF CreateJob, DeactivateSource, InstallLapses, Deactivate, CapInv, CapTyped
<1>5. ASSUME NEW c \in Caps, DeactivateWorkflow(c) PROVE CapInv'
  BY <1>5, GatewayKeeps DEF DeactivateWorkflow, Deactivate, CapInv, CapTyped
<1>6. ASSUME NEW d \in Releases, ReleaseRots(d) PROVE CapInv'
  BY <1>6, GatewayKeeps DEF ReleaseRots, CapInv, CapTyped
<1> QED BY <1>1, <1>2, <1>3, <1>4, <1>5, <1>6 DEF CapNext

\* What the Worker and the Gateway know of each other during an activation always
\* holds (CapabilityStore, complete_worker_maintenance_job).
THEOREM CapabilityInvariant == CapSpec => []CapInv
  BY CapStarts, CapNextKeeps, PTL DEF CapSpec

\* A workflow the Gateway has authorized is active on the Worker
\* (_install_capability, reconcile_authorizations).
THEOREM GrantsAreActive == CapSpec => []GrantedIsActive
<1>1. CapInv => GrantedIsActive
  BY DEF CapInv
<1> QED BY <1>1, CapabilityInvariant, PTL

-----------------------------------------------------------------------------
(* Node packs *)

NodePackSpec == HostInit /\ [][HostNext]_hostVars

Errors == {"none", "host", "swap", "caches", "validation"}

InstallRow ==
    [pc : {"dead", "idle", "pause", "await", "out", "in", "caches", "restore", "resume", "wait",
           "probe"},
     phase : {"none", "install", "existing", "rollback"}, pack : Packs \cup {NoPack},
     nonce : Int, held : Int, activated : BOOLEAN, err : Errors, cause : Errors,
     before : Packs \cup {NoPack}, torn : BOOLEAN,
     result : Errors \cup {"installed", "rollback_failed", "crashed"}]

\* Where the pack of before is, as long as no rename has failed: in its place up
\* to the swap, in the backup from there to the rollback, then in its place.
Kept(w, d, b) ==
    /\ w.pc = "idle" /\ w.result \in Failures => d = w.before
    /\ w.pc = "dead" => w.result \notin Failures
    /\ w.pc \notin {"idle", "dead"} =>
        /\ w.phase # "none"
        /\ w.phase = "existing" => ~w.activated /\ d = w.before
        /\ w.phase = "install" =>
              /\ w.activated <=> w.pc \in {"caches", "resume", "wait", "probe"}
              /\ IF w.activated \/ w.pc = "in" THEN b = w.before ELSE d = w.before
        /\ w.phase = "rollback" =>
              IF w.pc \in {"resume", "wait"} THEN w.err = "none" /\ d = w.before
              ELSE b = w.before
    /\ w.pc \in {"out", "in"} => w.phase = "install"
    /\ w.pc = "caches" => w.phase # "rollback"
    /\ w.pc = "restore" <=> w.phase = "rollback" /\ w.pc \notin {"pause", "await", "resume", "wait"}

\* A worker between two installations is in no phase; one inside is in one.
Phased(w) ==
    /\ w.pc \in {"idle", "dead"} <=> w.phase = "none"
    /\ w.pc = "dead" => w.result \notin Failures

PackInv ==
    /\ dir \in Packs \cup {NoPack} /\ backup \in Packs \cup {NoPack}
    /\ installs \in Int
    /\ wrk \in InstallRow
    /\ Phased(wrk)
    /\ wrk.torn \/ Kept(wrk, dir, backup)

\* The row a finished installation leaves (install).
FinishedRow(held, before, torn, result) ==
    [pc |-> "idle", phase |-> "none", pack |-> NoPack, nonce |-> 0, held |-> held,
     activated |-> FALSE, err |-> "none", cause |-> "none", before |-> before,
     torn |-> torn, result |-> result]

IsFinished(w, before, torn, result) ==
    /\ w \in InstallRow
    /\ w.pc = "idle" /\ w.phase = "none" /\ w.result = result
    /\ w.before = before /\ w.torn = torn

\* It is a row, in no phase (install).
LEMMA FinishRow ==
    ASSUME NEW h \in Int, NEW b \in Packs \cup {NoPack}, NEW t \in BOOLEAN,
           NEW o \in Errors \cup {"installed", "rollback_failed", "crashed"}
    PROVE  IsFinished(FinishedRow(h, b, t, o), b, t, o)
  BY DEF IsFinished, FinishedRow, InstallRow, Errors

\* An installation ends with the old pack in its place, or says it is not (install).
LEMMA FinishedKeeps ==
    ASSUME PackInv, NEW result \in Errors \cup {"installed", "rollback_failed", "crashed"},
           NEW h \in Int, wrk' = FinishedRow(h, wrk.before, wrk.torn, result),
           backup' = NoPack, UNCHANGED <<dir, installs>>,
           wrk.torn \/ result \notin Failures \/ dir = wrk.before
    PROVE  PackInv'
<1>0. wrk.before \in Packs \cup {NoPack} /\ wrk.torn \in BOOLEAN
  BY DEF PackInv, InstallRow
<1>1. /\ wrk' \in InstallRow
      /\ wrk'.pc = "idle" /\ wrk'.phase = "none" /\ wrk'.result = result
      /\ wrk'.before = wrk.before /\ wrk'.torn = wrk.torn
  <2>1. IsFinished(wrk', wrk.before, wrk.torn, result)
    BY Zenon, <1>0, FinishRow
  <2> QED BY <2>1 DEF IsFinished
<1>2. backup' \in Packs \cup {NoPack}
  OBVIOUS
<1>3. Phased(wrk')
  BY <1>1 DEF Phased
<1>4. wrk'.torn \/ Kept(wrk', dir', backup')
  BY <1>1 DEF Kept
<1> QED BY <1>1, <1>2, <1>3, <1>4 DEF PackInv

\* The same of leaving install (install).
LEMMA FinishKeeps ==
    ASSUME PackInv, NEW result \in Errors \cup {"installed", "rollback_failed", "crashed"},
           Finish(result), UNCHANGED <<dir, installs>>,
           wrk.torn \/ result \notin Failures \/ dir = wrk.before
    PROVE  PackInv'
<1>1. wrk' = FinishedRow(wrk.held, wrk.before, wrk.torn, result) /\ backup' = NoPack
  BY Zenon DEF Finish, FinishedRow, Idle
<1>2. wrk.held \in Int
  BY DEF PackInv, InstallRow
<1> QED BY <1>1, <1>2, FinishedKeeps

\* An exception before the activation ends the installation, one after it starts
\* the rollback from the backup (install).
LEMMA RaiseKeeps ==
    ASSUME PackInv, wrk.pc \in {"pause", "await", "resume", "wait", "probe"},
           NEW e \in {"host", "validation"}, Raise(e), UNCHANGED <<dir, installs>>
    PROVE  PackInv'
<1>1. CASE wrk.phase = "rollback"
  <2>1. Finish("rollback_failed")
    BY <1>1 DEF Raise
  <2> QED BY <2>1, FinishKeeps DEF Failures
<1>2. CASE wrk.phase # "rollback" /\ wrk.activated
  <2>1. /\ wrk' = [wrk EXCEPT !.phase = "rollback", !.pc = "pause", !.cause = e, !.err = "none"]
        /\ backup' = backup
    BY <1>2 DEF Raise
  <2>2. /\ wrk' \in InstallRow
        /\ wrk'.pc = "pause" /\ wrk'.phase = "rollback" /\ wrk'.before = wrk.before
        /\ wrk'.torn = wrk.torn
    BY ZenonT(30), <2>1 DEF PackInv, InstallRow, Errors
  <2>3. wrk.torn \/ backup = wrk.before
    BY <1>2 DEF PackInv, Kept, InstallRow
  <2>4. Phased(wrk') /\ (wrk'.torn \/ Kept(wrk', dir', backup'))
    BY <2>1, <2>2, <2>3 DEF Phased, Kept
  <2> QED BY <2>1, <2>2, <2>4 DEF PackInv
<1>3. CASE wrk.phase # "rollback" /\ ~wrk.activated
  <2>1. Finish(e)
    BY <1>3 DEF Raise
  <2>2. wrk.torn \/ dir = wrk.before
    BY <1>3 DEF PackInv, Kept, InstallRow, Phased
  <2> QED BY <2>1, <2>2, FinishKeeps DEF Errors
<1> QED BY <1>1, <1>2, <1>3

\* The supervisor's steps leave the directories; a dead Worker starts afresh
\* (supervise-worker.ps1).
LEMMA SupervisorKeeps ==
    ASSUME PackInv, UNCHANGED <<dir, backup, installs>>,
           \/ wrk' = wrk
           \/ wrk.pc = "dead" /\ wrk' = [wrk EXCEPT !.pc = "idle"]
    PROVE  PackInv'
<1>1. CASE wrk' = wrk
  BY <1>1 DEF PackInv
<1>2. CASE wrk.pc = "dead" /\ wrk' = [wrk EXCEPT !.pc = "idle"]
  <2>1. /\ wrk' \in InstallRow /\ wrk'.pc = "idle" /\ wrk'.phase = wrk.phase
        /\ wrk'.result = wrk.result /\ wrk'.torn = wrk.torn
    BY <1>2 DEF PackInv, InstallRow
  <2>2. wrk.phase = "none" /\ wrk.result \notin Failures
    BY <1>2 DEF PackInv, Phased
  <2>3. Phased(wrk') /\ Kept(wrk', dir', backup')
    BY <2>1, <2>2 DEF Phased, Kept
  <2> QED BY <2>1, <2>3 DEF PackInv
<1> QED BY <1>1, <1>2

\* A Worker that dies installs nothing (supervise-worker.ps1).
LEMMA DeadKeeps ==
    ASSUME PackInv, wrk' = Dead, backup' = NoPack, UNCHANGED <<dir, installs>>
    PROVE  PackInv'
<1>1. /\ wrk' \in InstallRow /\ wrk'.pc = "dead" /\ wrk'.phase = "none"
      /\ wrk'.result = "crashed" /\ wrk'.torn = FALSE
  <2>1. wrk' = [pc |-> "dead", phase |-> "none", pack |-> NoPack, nonce |-> 0, held |-> 0,
                activated |-> FALSE, err |-> "none", cause |-> "none", before |-> NoPack,
                torn |-> FALSE, result |-> "crashed"]
    BY Zenon DEF Dead, Idle
  <2>2. "none" \in Errors /\ 0 \in Int /\ NoPack \in Packs \cup {NoPack}
    BY DEF Errors
  <2>3. wrk' \in InstallRow
    BY <2>1, <2>2 DEF InstallRow
  <2> QED BY <2>1, <2>3
<1>2. Phased(wrk') /\ Kept(wrk', dir', backup')
  BY <1>1 DEF Phased, Kept, Failures
<1> QED BY <1>1, <1>2 DEF PackInv

\* An installation remembers what is in place (install).
LEMMA BeginInstallKeeps == ASSUME PackInv, NEW v \in Packs, BeginInstall(v) PROVE PackInv'
<1>1. PICK ph \in {"existing", "install"} :
          wrk' = [Idle EXCEPT !.pc = "pause", !.pack = v, !.held = wrk.held, !.before = dir,
                              !.phase = ph]
  BY Zenon DEF BeginInstall
<1>2. wrk' = [pc |-> "pause", phase |-> ph, pack |-> v, nonce |-> 0, held |-> wrk.held,
              activated |-> FALSE, err |-> "none", cause |-> "none", before |-> dir,
              torn |-> FALSE, result |-> "none"]
  BY Zenon, <1>1 DEF Idle
<1>3. wrk.held \in Int /\ dir \in Packs \cup {NoPack}
  BY DEF PackInv, InstallRow
<1>e. "none" \in Errors
  BY DEF Errors
<1>4. wrk' \in InstallRow
  <2>1. 0 \in Int /\ v \in Packs \cup {NoPack}
    OBVIOUS
  <2>2. CASE ph = "existing"
    BY ZenonT(30), <1>2, <1>3, <1>e, <2>1, <2>2 DEF InstallRow
  <2>3. CASE ph = "install"
    BY ZenonT(30), <1>2, <1>3, <1>e, <2>1, <2>3 DEF InstallRow
  <2> QED BY Zenon, <2>2, <2>3
<1>5. /\ wrk'.pc = "pause" /\ wrk'.phase = ph /\ wrk'.before = dir /\ wrk'.torn = FALSE
      /\ wrk'.activated = FALSE
  BY <1>2
<1>6. UNCHANGED <<dir, backup>> /\ installs' \in Int
  BY DEF BeginInstall, PackInv
<1>7. Phased(wrk') /\ Kept(wrk', dir', backup')
  BY <1>5, <1>6 DEF Phased, Kept
<1> QED BY <1>4, <1>6, <1>7 DEF PackInv

\* A pause is asked for, or cannot be (paused).
LEMMA PauseKeeps == ASSUME PackInv, Pause PROVE PackInv'
<1>0. wrk.pc = "pause" /\ UNCHANGED <<dir, installs>>
  BY DEF Pause
<1>1. CASE Raise("host")
  BY <1>0, <1>1, RaiseKeeps
<1>2. CASE wrk' = [wrk EXCEPT !.pc = "await", !.nonce = FreshNonce] /\ backup' = backup
  <2>0. FreshNonce \in Int
    BY PacksAssumption DEF FreshNonce, PackInv
  <2>1. /\ wrk' \in InstallRow /\ wrk'.pc = "await" /\ wrk'.phase = wrk.phase
        /\ wrk'.before = wrk.before /\ wrk'.torn = wrk.torn /\ wrk'.activated = wrk.activated
    BY Zenon, <1>2, <2>0 DEF PackInv, InstallRow
  <2>2. Phased(wrk') /\ (wrk'.torn \/ Kept(wrk', dir', backup'))
    BY <1>0, <1>2, <2>1 DEF PackInv, Phased, Kept
  <2> QED BY <1>0, <1>2, <2>1, <2>2 DEF PackInv
<1> QED BY <1>1, <1>2 DEF Pause

\* The pause is granted, or nobody answers (paused).
LEMMA AwaitKeeps == ASSUME PackInv, PauseGranted \/ PauseTimesOut PROVE PackInv'
<1>0. wrk.pc = "await" /\ UNCHANGED <<dir, installs>>
  BY DEF PauseGranted, PauseTimesOut
<1>1. CASE PauseTimesOut
  BY <1>0, <1>1, RaiseKeeps DEF PauseTimesOut
<1>2. CASE PauseGranted
  <2>0. wrk.phase \in {"install", "existing", "rollback"}
    BY <1>0 DEF PackInv, Phased, InstallRow
  <2>1. PICK pc \in {"out", "caches", "restore"} :
            /\ wrk' = [wrk EXCEPT !.held = wrk.nonce, !.pc = pc]
            /\ pc = "out" <=> wrk.phase = "install"
            /\ pc = "caches" <=> wrk.phase = "existing"
            /\ pc = "restore" <=> wrk.phase = "rollback"
    BY Zenon, <1>2, <2>0 DEF PauseGranted
  <2>2. /\ wrk' \in InstallRow /\ wrk'.pc = pc /\ wrk'.phase = wrk.phase
        /\ wrk'.before = wrk.before /\ wrk'.torn = wrk.torn /\ wrk'.activated = wrk.activated
    BY Zenon, <2>1 DEF PackInv, InstallRow
  <2>3. backup' = backup
    BY <1>2 DEF PauseGranted
  <2>4. Phased(wrk') /\ (wrk'.torn \/ Kept(wrk', dir', backup'))
    BY <1>0, <2>0, <2>1, <2>2, <2>3 DEF PackInv, Phased, Kept
  <2> QED BY <1>0, <2>2, <2>3, <2>4 DEF PackInv
<1> QED BY <1>1, <1>2

\* Leaving the paused block, with its error (paused).
LEMMA LeaveRow ==
    ASSUME PackInv, NEW e \in {"none", "swap", "caches"}, Leave(e)
    PROVE  /\ wrk' \in InstallRow /\ wrk'.pc = "resume" /\ wrk'.err = e
           /\ wrk'.torn = (wrk.torn \/ e = "swap")
           /\ wrk'.phase = wrk.phase /\ wrk'.before = wrk.before
           /\ wrk'.activated = wrk.activated
<1>1. wrk' = [wrk EXCEPT !.pc = "resume", !.err = e, !.torn = wrk.torn \/ e = "swap"]
  BY DEF Leave
<1>2. (wrk.torn \/ e = "swap") \in BOOLEAN /\ e \in Errors
  BY DEF Errors
<1> QED BY ZenonT(30), <1>1, <1>2 DEF PackInv, InstallRow

\* A rename that fails is remembered (_swap).
LEMMA TornKeeps ==
    ASSUME PackInv, wrk.pc \notin {"idle", "dead"}, Leave("swap"),
           dir' \in Packs \cup {NoPack}, UNCHANGED <<backup, installs>>
    PROVE  PackInv'
<1>1. /\ wrk' \in InstallRow /\ wrk'.pc = "resume" /\ wrk'.torn = TRUE /\ wrk'.phase = wrk.phase
  BY Zenon, LeaveRow
<1>2. Phased(wrk')
  BY <1>1 DEF PackInv, Phased
<1> QED BY <1>1, <1>2 DEF PackInv

\* The two renames of the swap (install).
LEMMA SwapKeeps == ASSUME PackInv, SwapOut \/ SwapIn PROVE PackInv'
<1>0. wrk.pc \in {"out", "in"} /\ installs' = installs
  BY DEF SwapOut, SwapIn
<1>1. CASE Leave("swap") /\ UNCHANGED <<dir, backup>>
  BY <1>0, <1>1, TornKeeps DEF PackInv
<1>2. CASE /\ wrk.pc = "out" /\ dir' = NoPack /\ backup' = dir
           /\ wrk' = [wrk EXCEPT !.pc = "in"]
  <2>1. /\ wrk' \in InstallRow /\ wrk'.pc = "in" /\ wrk'.phase = wrk.phase
        /\ wrk'.before = wrk.before /\ wrk'.torn = wrk.torn /\ wrk'.activated = wrk.activated
    BY <1>2 DEF PackInv, InstallRow
  <2>2. Phased(wrk') /\ (wrk'.torn \/ Kept(wrk', dir', backup'))
    BY <1>2, <2>1 DEF PackInv, Phased, Kept
  <2> QED BY <1>0, <1>2, <2>1, <2>2 DEF PackInv
<1>3. CASE /\ wrk.pc = "in" /\ dir' = wrk.pack /\ backup' = backup
           /\ wrk' = [wrk EXCEPT !.pc = "caches", !.activated = TRUE]
  <2>1. /\ wrk' \in InstallRow /\ wrk'.pc = "caches" /\ wrk'.phase = wrk.phase
        /\ wrk'.before = wrk.before /\ wrk'.torn = wrk.torn /\ wrk'.activated = TRUE
        /\ wrk.pack \in Packs \cup {NoPack}
    BY Zenon, <1>3 DEF PackInv, InstallRow
  <2>2. Phased(wrk') /\ (wrk'.torn \/ Kept(wrk', dir', backup'))
    BY <1>3, <2>1 DEF PackInv, Phased, Kept
  <2> QED BY <1>0, <1>3, <2>1, <2>2 DEF PackInv
<1> QED BY <1>1, <1>2, <1>3 DEF SwapOut, SwapIn

\* The caches are removed, or not (_remove_caches).
LEMMA RemoveCachesKeeps == ASSUME PackInv, RemoveCaches PROVE PackInv'
<1>0. wrk.pc = "caches" /\ UNCHANGED <<dir, backup, installs>>
  BY DEF RemoveCaches
<1>1. PICK e \in {"none", "caches"} : Leave(e)
  BY DEF RemoveCaches
<1>2. /\ wrk' \in InstallRow /\ wrk'.pc = "resume" /\ wrk'.torn = wrk.torn
      /\ wrk'.phase = wrk.phase /\ wrk'.before = wrk.before /\ wrk'.activated = wrk.activated
  BY <1>1, LeaveRow DEF PackInv, InstallRow
<1>3. Phased(wrk') /\ (wrk'.torn \/ Kept(wrk', dir', backup'))
  BY <1>0, <1>2 DEF PackInv, Phased, Kept
<1> QED BY <1>0, <1>2, <1>3 DEF PackInv

\* The old directory comes back, or a rename fails (install).
LEMMA RollbackKeeps == ASSUME PackInv, Rollback PROVE PackInv'
<1>0. wrk.pc = "restore" /\ installs' = installs
  BY DEF Rollback
<1>1. CASE Leave("swap") /\ dir' \in {dir, NoPack} /\ UNCHANGED backup
  BY <1>0, <1>1, TornKeeps DEF PackInv
<1>2. CASE dir' = backup /\ backup' = NoPack /\ Leave("none")
  <2>1. /\ wrk' \in InstallRow /\ wrk'.pc = "resume" /\ wrk'.torn = wrk.torn /\ wrk'.err = "none"
        /\ wrk'.phase = wrk.phase /\ wrk'.before = wrk.before /\ wrk'.activated = wrk.activated
    BY <1>2, LeaveRow DEF PackInv, InstallRow
  <2>2. Phased(wrk') /\ (wrk'.torn \/ Kept(wrk', dir', backup'))
    BY <1>0, <1>2, <2>1 DEF PackInv, Phased, Kept
  <2> QED BY <1>0, <1>2, <2>1, <2>2 DEF PackInv
<1> QED BY <1>1, <1>2 DEF Rollback, Restore

\* The request is withdrawn, or cannot be (paused).
LEMMA ResumeKeeps == ASSUME PackInv, Resume \/ ResumeTimesOut PROVE PackInv'
<1>0. wrk.pc \in {"resume", "wait"} /\ UNCHANGED <<dir, installs>>
  BY DEF Resume, ResumeTimesOut
<1>1. CASE Raise("host")
  BY <1>0, <1>1, RaiseKeeps
<1>2. CASE wrk.pc = "resume" /\ wrk' = [wrk EXCEPT !.pc = "wait"] /\ backup' = backup
  <2>1. /\ wrk' \in InstallRow /\ wrk'.pc = "wait" /\ wrk'.phase = wrk.phase
        /\ wrk'.before = wrk.before /\ wrk'.torn = wrk.torn /\ wrk'.activated = wrk.activated
        /\ wrk'.err = wrk.err
    BY <1>2 DEF PackInv, InstallRow
  <2>2. Phased(wrk') /\ (wrk'.torn \/ Kept(wrk', dir', backup'))
    BY <1>0, <1>2, <2>1 DEF PackInv, Phased, Kept
  <2> QED BY <1>0, <1>2, <2>1, <2>2 DEF PackInv
<1> QED BY <1>1, <1>2 DEF Resume, ResumeTimesOut

\* The host has resumed: the block's error starts the rollback, or its end is the
\* installation's (paused, install).
LEMMA ResumedKeeps == ASSUME PackInv, Resumed PROVE PackInv'
<1>0. wrk.pc = "wait" /\ UNCHANGED <<dir, installs>>
  BY DEF Resumed
<1>t. wrk.err \in Errors /\ wrk.cause \in Errors /\ wrk.phase \in {"install", "existing", "rollback"}
  BY <1>0 DEF PackInv, InstallRow, Phased
<1> DEFINE w == [wrk EXCEPT !.held = 0]
<1>w. /\ w \in InstallRow /\ w.phase = wrk.phase /\ w.before = wrk.before /\ w.torn = wrk.torn
      /\ w.activated = wrk.activated
  BY DEF PackInv, InstallRow
<1> HIDE DEF w
<1>1. CASE wrk.err # "none" /\ wrk.phase # "rollback" /\ wrk.activated
  <2>1. /\ wrk' = [w EXCEPT !.phase = "rollback", !.pc = "pause", !.cause = wrk.err, !.err = "none"]
        /\ backup' = backup
    <3>1. /\ wrk' = [[wrk EXCEPT !.held = 0] EXCEPT !.phase = "rollback", !.pc = "pause",
                                                    !.cause = wrk.err, !.err = "none"]
          /\ backup' = backup
      BY <1>1 DEF Resumed
    <3> QED BY <3>1, Zenon DEF w
  <2>2. /\ wrk' \in InstallRow
        /\ wrk'.pc = "pause" /\ wrk'.phase = "rollback" /\ wrk'.before = wrk.before
        /\ wrk'.torn = wrk.torn
    <3>1. wrk' \in InstallRow
      <4>1. "none" \in Errors
        BY DEF Errors
      <4> QED BY Zenon, <1>t, <1>w, <2>1, <4>1 DEF InstallRow
    <3> QED BY <1>w, <2>1, <3>1 DEF InstallRow
  <2>3. wrk.torn \/ backup = wrk.before
    BY <1>0, <1>1 DEF PackInv, Kept, InstallRow, Phased
  <2>4. Phased(wrk') /\ (wrk'.torn \/ Kept(wrk', dir', backup'))
    BY <2>1, <2>2, <2>3 DEF Phased, Kept
  <2> QED BY <1>0, <2>1, <2>2, <2>4 DEF PackInv
<1>2. CASE wrk.err = "none" /\ wrk.phase # "rollback"
  <2>1. wrk' = [w EXCEPT !.pc = "probe"] /\ backup' = backup
    BY <1>2 DEF Resumed, w
  <2>2. /\ wrk' \in InstallRow /\ wrk'.pc = "probe" /\ wrk'.phase = wrk.phase
        /\ wrk'.before = wrk.before /\ wrk'.torn = wrk.torn /\ wrk'.activated = wrk.activated
    BY <1>w, <2>1 DEF InstallRow
  <2>3. Phased(wrk') /\ (wrk'.torn \/ Kept(wrk', dir', backup'))
    BY <1>0, <1>2, <2>1, <2>2 DEF PackInv, Phased, Kept
  <2> QED BY <1>0, <2>1, <2>2, <2>3 DEF PackInv
<1>3. CASE /\ ~(wrk.err # "none" /\ wrk.phase # "rollback" /\ wrk.activated)
           /\ ~(wrk.err = "none" /\ wrk.phase # "rollback")
  <2> DEFINE o == IF wrk.phase # "rollback" THEN wrk.err
                  ELSE IF wrk.err = "none" THEN wrk.cause ELSE "rollback_failed"
  <2>1. /\ wrk' = [Idle EXCEPT !.before = wrk.before, !.torn = wrk.torn, !.result = o]
        /\ backup' = NoPack
    BY <1>3 DEF Resumed
  <2>2. wrk' = FinishedRow(0, wrk.before, wrk.torn, o)
    BY Zenon, <2>1 DEF FinishedRow, Idle
  <2>3. o \in Errors \cup {"installed", "rollback_failed", "crashed"}
    BY <1>t
  <2>4. wrk.torn \/ o \notin Failures \/ dir = wrk.before
    <3>1. CASE wrk.phase = "rollback"
      BY <1>0, <3>1 DEF PackInv, Kept
    <3>2. CASE wrk.phase # "rollback"
      BY <1>0, <1>3, <1>t, <3>2 DEF PackInv, Kept
    <3> QED BY <3>1, <3>2
  <2> HIDE DEF o
  <2> QED BY <1>0, <2>1, <2>2, <2>3, <2>4, FinishedKeeps
<1> QED BY <1>1, <1>2, <1>3

\* The new classes load, or do not (_validate_nodes).
LEMMA ProbeKeeps == ASSUME PackInv, NodesLoaded \/ ProbeTimesOut PROVE PackInv'
<1>0. wrk.pc = "probe" /\ UNCHANGED <<dir, installs>>
  BY DEF NodesLoaded, ProbeTimesOut
<1>1. CASE Finish("installed")
  BY <1>0, <1>1, FinishKeeps DEF Failures
<1>2. CASE Raise("validation")
  BY <1>0, <1>2, RaiseKeeps
<1> QED BY <1>1, <1>2 DEF NodesLoaded, ProbeTimesOut

\* Every step keeps the invariant (NodePackInstaller.install).
LEMMA PackNextKeeps == PackInv /\ [HostNext]_hostVars => PackInv'
<1> SUFFICES ASSUME PackInv, [HostNext]_hostVars PROVE PackInv'
  OBVIOUS
<1>1. CASE UNCHANGED hostVars
  BY <1>1, SupervisorKeeps DEF hostVars
<1>2. CASE HostStep \/ RequestExpires \/ ComfyExits
  <2>1. UNCHANGED <<dir, backup, installs>>
    BY SMTT(30), <1>2 DEF HostStep, HostReads, HostPauses, HostAcks, HostResumes, HostStarts, RequestExpires,
       ComfyExits
  <2>2. wrk' = wrk \/ (wrk.pc = "dead" /\ wrk' = [wrk EXCEPT !.pc = "idle"])
    BY <1>2 DEF HostStep, HostReads, HostPauses, HostAcks, HostResumes, HostStarts, RequestExpires,
       ComfyExits
  <2> QED BY <2>1, <2>2, SupervisorKeeps
<1>3. CASE InstallerStep
  BY <1>3, PauseKeeps, AwaitKeeps, SwapKeeps, RemoveCachesKeeps, RollbackKeeps, ResumeKeeps,
     ResumedKeeps, ProbeKeeps DEF InstallerStep
<1>4. CASE WorkerCrashes \/ HostRestarts
  BY <1>4, DeadKeeps DEF WorkerCrashes, HostRestarts
<1>5. ASSUME NEW v \in Packs, BeginInstall(v) PROVE PackInv'
  BY <1>5, BeginInstallKeeps
<1> QED BY <1>1, <1>2, <1>3, <1>4, <1>5 DEF HostNext

\* An installation begins with nothing torn (NodePackInstaller).
LEMMA PackStarts == HostInit => PackInv
<1> SUFFICES ASSUME HostInit PROVE PackInv
  OBVIOUS
<1>1. wrk = [pc |-> "dead", phase |-> "none", pack |-> NoPack, nonce |-> 0, held |-> 0,
             activated |-> FALSE, err |-> "none", cause |-> "none", before |-> NoPack,
             torn |-> FALSE, result |-> "none"]
  BY Zenon DEF HostInit, Idle
<1>2. wrk \in InstallRow
  BY <1>1 DEF InstallRow, Errors
<1>3. Phased(wrk) /\ Kept(wrk, dir, backup)
  BY <1>1 DEF Phased, Kept, Failures
<1>4. dir = NoPack /\ backup = NoPack /\ installs \in Int
  BY PacksAssumption DEF HostInit
<1> QED BY <1>2, <1>3, <1>4 DEF PackInv

\* The old pack is in its place, or in the backup of the running installation, as
\* long as no rename fails (NodePackInstaller.install).
THEOREM NodePackInvariant == NodePackSpec => []PackInv
  BY PackStarts, PackNextKeeps, PTL DEF NodePackSpec

\* A failed installation leaves the pack that was there before unless a rename of
\* the swap failed (NodePackInstaller.install).
THEOREM FailuresRestore == NodePackSpec => []FailedProbeRestores
<1>1. PackInv => FailedProbeRestores
  BY DEF PackInv, Kept, FailedProbeRestores, FailedInstallRestores
<1> QED BY <1>1, NodePackInvariant, PTL


-----------------------------------------------------------------------------
(* Workflow packages on a consumer's machine *)

Trees == [content : Signatures, sig : Signatures, files : {"all", "some", "none", "gone"}]

PackageRow == [pc : {"idle", "inspected", "copying", "staged", "existing"}, digest : Signatures,
               signed : {"yes", "no"}, staging : [content : Signatures, sig : Signatures]]

RemoveRow == [pc : {"idle", "removing"}, of : Provenances, opened : Nat]

RegistryTyped ==
    /\ source \in Sources
    /\ target \in [Provenances -> Trees]
    /\ published \in [Provenances -> Nat]
    /\ installing \in [Installs -> PackageRow]
    /\ removing \in [Removes -> RemoveRow]
    /\ standing \in [Provenances -> {"yes", "no"}]
    /\ answers \in [Provenances -> SUBSET [digest : Signatures, signed : {"yes", "no"}]]

\* What is staged is what was inspected.
StagedRow(row) ==
    /\ row.pc # "idle" => row.digest \in Packages
    /\ row.pc = "staged" =>
        /\ SignatureVerifies(row.staging)
        /\ row.staging.content = row.digest /\ SignedAs(row.staging) = row.signed

\* A removal that still has its directory open has told so.
OpenedRow(row, count, stands) ==
    row.pc = "removing" =>
        /\ row.opened <= count[row.of]
        /\ row.opened = count[row.of] => stands[row.of] = "no"

\* InstalledIsAnswered of one version.
Answered(v, tree, given) ==
    /\ tree.files = "all" /\ SignatureVerifies(tree)
    /\ Provenance(tree.content) = v
    /\ given = {Answer(tree.content, SignedAs(tree))}

RegistryInv ==
    /\ RegistryTyped
    /\ \A i \in Installs : StagedRow(installing[i])
    /\ \A x \in Removes : OpenedRow(removing[x], published, standing)
    /\ \A v \in Provenances : standing[v] = "yes" => Answered(v, target[v], answers[v])

LEMMA RegistryInitHolds == RegistryInit => RegistryInv
<1> SUFFICES ASSUME RegistryInit PROVE RegistryInv
  OBVIOUS
<1>1. RegistryTyped
  BY DEF RegistryInit, RegistryTyped, Trees, PackageRow, RemoveRow, NoTree, NoCopy, IdleInstall,
         IdleRemove, Signatures, Provenances
<1>2. \A i \in Installs : StagedRow(installing[i])
  BY DEF RegistryInit, IdleInstall, StagedRow
<1>3. \A x \in Removes : OpenedRow(removing[x], published, standing)
  BY DEF RegistryInit, IdleRemove, OpenedRow
<1>4. \A v \in Provenances : standing[v] = "yes" => Answered(v, target[v], answers[v])
  BY DEF RegistryInit
<1> QED
  BY <1>1, <1>2, <1>3, <1>4 DEF RegistryInv

\* A step that only moves one install command on.
LEMMA InstallRowKeeps ==
  ASSUME RegistryInv, NEW i \in Installs, NEW row \in PackageRow, StagedRow(row),
         installing' = [installing EXCEPT ![i] = row],
         UNCHANGED <<source, target, published, removing, standing, answers>>
  PROVE  RegistryInv'
<1>1. RegistryTyped'
  BY DEF RegistryInv, RegistryTyped
<1>2. \A j \in Installs : StagedRow(installing[j])'
  <2> SUFFICES ASSUME NEW j \in Installs PROVE StagedRow(installing'[j])
    BY DEF StagedRow, SignatureVerifies, SignedAs
  <2>1. installing'[j] = IF j = i THEN row ELSE installing[j]
    BY DEF RegistryInv, RegistryTyped
  <2> QED
    BY <2>1 DEF RegistryInv
<1>3. (\A x \in Removes : OpenedRow(removing[x], published, standing))'
  BY DEF RegistryInv, OpenedRow
<1>4. (\A v \in Provenances : standing[v] = "yes" => Answered(v, target[v], answers[v]))'
  BY DEF RegistryInv, Answered, SignatureVerifies, SignedAs, Answer
<1> QED
  BY <1>1, <1>2, <1>3, <1>4 DEF RegistryInv

LEMMA InspectsKeeps == ASSUME RegistryInv, NEW i \in Installs, Inspects(i) PROVE RegistryInv'
<1> DEFINE row == [pc |-> "inspected", digest |-> source.content,
                   signed |-> SignedAs(source), staging |-> NoCopy]
<1>1. row \in PackageRow /\ StagedRow(row)
  BY DEF RegistryInv, RegistryTyped, Sources, PackageRow, SignedAs, NoCopy, Signatures, StagedRow
<1> QED
  BY Zenon, <1>1, InstallRowKeeps DEF Inspects

LEMMA ChecksTargetKeeps == ASSUME RegistryInv, NEW i \in Installs, ChecksTarget(i) PROVE RegistryInv'
<1> DEFINE pc == IF target[Provenance(installing[i].digest)].files = "gone"
                 THEN "copying" ELSE "existing"
           row == [installing[i] EXCEPT !.pc = pc]
<1>1. pc \in {"copying", "existing"}
  OBVIOUS
<1> HIDE DEF pc
<1>2. row \in PackageRow /\ StagedRow(row)
  BY <1>1 DEF RegistryInv, RegistryTyped, PackageRow, StagedRow, ChecksTarget
<1>3. installing' = [installing EXCEPT ![i] = row]
  BY DEF ChecksTarget, pc, RegistryInv, RegistryTyped
<1> QED
  BY Zenon, <1>2, <1>3, InstallRowKeeps DEF ChecksTarget

LEMMA IdlePackageRow == IdleInstall \in PackageRow /\ StagedRow(IdleInstall)
  BY DEF IdleInstall, PackageRow, StagedRow, NoCopy, Signatures

LEMMA StagesKeeps == ASSUME RegistryInv, NEW i \in Installs, Stages(i) PROVE RegistryInv'
<1>1. CASE /\ SameAsInspected(i, source)
           /\ installing' = [installing EXCEPT ![i].pc = "staged", ![i].staging = source]
  <2> DEFINE row == [installing[i] EXCEPT !.pc = "staged", !.staging = source]
  <2>1. installing[i] \in PackageRow /\ StagedRow(installing[i]) /\ installing[i].pc = "copying"
    BY DEF RegistryInv, RegistryTyped, Stages
  <2>2. row \in PackageRow
    BY Zenon, <2>1 DEF PackageRow, RegistryInv, RegistryTyped, Sources, Signatures
  <2>3. /\ row.pc = "staged" /\ row.staging = source /\ row.digest = installing[i].digest
        /\ row.signed = installing[i].signed
    BY <2>1 DEF PackageRow
  <2>4. StagedRow(row)
    BY <1>1, <2>1, <2>3 DEF StagedRow, SameAsInspected
  <2>5. installing' = [installing EXCEPT ![i] = row]
    BY Zenon, <1>1 DEF RegistryInv, RegistryTyped
  <2> QED
    BY Zenon, <2>2, <2>4, <2>5, InstallRowKeeps DEF Stages
<1>2. CASE installing' = [installing EXCEPT ![i] = IdleInstall]
  BY Zenon, <1>2, IdlePackageRow, InstallRowKeeps DEF Stages
<1> QED
  BY <1>1, <1>2 DEF Stages

LEMMA InstallStopsKeeps == ASSUME RegistryInv, NEW i \in Installs, InstallStops(i) PROVE RegistryInv'
  BY Zenon, IdlePackageRow, InstallRowKeeps DEF InstallStops

LEMMA ActivatesKeeps == ASSUME RegistryInv, NEW i \in Installs, Activates(i) PROVE RegistryInv'
<1> DEFINE v == Provenance(installing[i].digest)
           tree == WholeTree(installing[i].staging)
           given == Answer(installing[i].digest, installing[i].signed)
<1>0. /\ installing[i] \in PackageRow /\ StagedRow(installing[i]) /\ installing[i].pc = "staged"
      /\ v \in Provenances
  BY DEF RegistryInv, RegistryTyped, Activates, Provenance, Provenances
<1>1. ASSUME target' = [target EXCEPT ![v] = tree],
             published' = [published EXCEPT ![v] = published[v] + 1],
             standing' = [standing EXCEPT ![v] = "yes"],
             answers' = [answers EXCEPT ![v] = {given}],
             installing' = [installing EXCEPT ![i] = IdleInstall]
      PROVE  RegistryInv'
  <2>1. tree \in Trees /\ given \in [digest : Signatures, signed : {"yes", "no"}]
    BY <1>0 DEF PackageRow, WholeTree, Trees, Answer
  <2>2. Answered(v, tree, {given})
    BY <1>0 DEF StagedRow, Answered, WholeTree, SignatureVerifies, SignedAs, Answer
  <2>3. source' = source /\ removing' = removing
    BY DEF Activates
  <2> HIDE DEF v, tree, given
  <2>4. RegistryTyped'
    BY <1>0, <1>1, <2>1, <2>3, IdlePackageRow DEF RegistryInv, RegistryTyped
  <2>5. \A j \in Installs : StagedRow(installing[j])'
    <3> SUFFICES ASSUME NEW j \in Installs PROVE StagedRow(installing'[j])
      BY DEF StagedRow, SignatureVerifies, SignedAs
    <3>1. installing'[j] = IF j = i THEN IdleInstall ELSE installing[j]
      BY <1>1 DEF RegistryInv, RegistryTyped
    <3> QED
      BY <3>1, IdlePackageRow DEF RegistryInv
  <2>6. ASSUME NEW x \in Removes PROVE OpenedRow(removing[x], published', standing')
    <3>1. /\ OpenedRow(removing[x], published, standing) /\ removing[x] \in RemoveRow
          /\ published \in [Provenances -> Nat] /\ standing \in [Provenances -> {"yes", "no"}]
      BY DEF RegistryInv, RegistryTyped
    <3>2. removing[x].of \in Provenances /\ removing[x].opened \in Nat
      BY <3>1 DEF RemoveRow
    <3>3. CASE removing[x].of = v
      <4>1. published'[v] = published[v] + 1 /\ published[v] \in Nat
        BY <1>0, <1>1, <3>1
      <4>2. removing[x].pc = "removing" => removing[x].opened <= published[v]
        BY <3>1, <3>3 DEF OpenedRow
      <4> QED BY <3>2, <3>3, <4>1, <4>2 DEF OpenedRow
    <3>4. CASE removing[x].of # v
      <4>1. /\ published'[removing[x].of] = published[removing[x].of]
            /\ standing'[removing[x].of] = standing[removing[x].of]
        BY <1>1, <3>1, <3>2, <3>4
      <4> QED BY <3>1, <4>1 DEF OpenedRow
    <3> QED BY Zenon, <3>3, <3>4
  <2>7. ASSUME NEW w \in Provenances, standing'[w] = "yes"
        PROVE  Answered(w, target'[w], answers'[w])
    <3>1. CASE w = v
      BY <1>1, <2>2, <3>1 DEF RegistryInv, RegistryTyped
    <3>2. CASE w # v
      <4>1. target'[w] = target[w] /\ answers'[w] = answers[w] /\ standing'[w] = standing[w]
        BY <1>1, <3>2 DEF RegistryInv, RegistryTyped
      <4> QED
        BY <2>7, <4>1 DEF RegistryInv
    <3> QED
      BY <3>1, <3>2
  <2>8. (\A x \in Removes : OpenedRow(removing[x], published, standing))'
    BY <2>3, <2>6 DEF OpenedRow
  <2>9. (\A w \in Provenances : standing[w] = "yes" => Answered(w, target[w], answers[w]))'
    BY <2>7 DEF Answered, SignatureVerifies, SignedAs, Answer
  <2> QED
    BY <2>4, <2>5, <2>8, <2>9 DEF RegistryInv
<1>2. ASSUME installing' = [installing EXCEPT ![i].pc = "existing"],
             UNCHANGED <<target, published, standing, answers>>
      PROVE  RegistryInv'
  <2> DEFINE row == [installing[i] EXCEPT !.pc = "existing"]
  <2>1. row \in PackageRow /\ StagedRow(row)
    BY <1>0 DEF PackageRow, StagedRow
  <2>2. installing' = [installing EXCEPT ![i] = row]
    BY <1>2 DEF RegistryInv, RegistryTyped
  <2> QED
    BY Zenon, <1>2, <2>1, <2>2, InstallRowKeeps DEF Activates
<1> QED
  BY <1>1, <1>2 DEF Activates

LEMMA AnswersExistingKeeps ==
  ASSUME RegistryInv, NEW i \in Installs, AnswersExisting(i) PROVE RegistryInv'
<1> DEFINE v == Provenance(installing[i].digest)
           given == Answer(target[v].content, SignedAs(target[v]))
<1>0. v \in Provenances
  BY DEF Provenance, Provenances
<1>1. given \in [digest : Signatures, signed : {"yes", "no"}]
  BY <1>0 DEF RegistryInv, RegistryTyped, Trees, Answer, SignedAs
<1>2. /\ installing' = [installing EXCEPT ![i] = IdleInstall]
      /\ source' = source /\ target' = target /\ published' = published /\ removing' = removing
      /\ standing' = standing
      /\ answers' \in {answers, [answers EXCEPT ![v] = answers[v] \cup {given}]}
  BY DEF AnswersExisting
<1>3. Answered(v, target[v], answers[v]) => answers[v] \cup {given} = answers[v]
  BY DEF Answered
<1> HIDE DEF v, given
<1>4. RegistryTyped'
  <2>1. installing' \in [Installs -> PackageRow]
    BY <1>2, IdlePackageRow DEF RegistryInv, RegistryTyped
  <2>2. answers' \in [Provenances -> SUBSET [digest : Signatures, signed : {"yes", "no"}]]
    BY <1>0, <1>1, <1>2 DEF RegistryInv, RegistryTyped
  <2> QED
    BY <1>2, <2>1, <2>2 DEF RegistryInv, RegistryTyped
<1>5. \A j \in Installs : StagedRow(installing[j])'
  <2> SUFFICES ASSUME NEW j \in Installs PROVE StagedRow(installing'[j])
    BY DEF StagedRow, SignatureVerifies, SignedAs
  <2>1. installing'[j] = IF j = i THEN IdleInstall ELSE installing[j]
    BY <1>2 DEF RegistryInv, RegistryTyped
  <2> QED
    BY <2>1, IdlePackageRow DEF RegistryInv
<1>6. (\A x \in Removes : OpenedRow(removing[x], published, standing))'
  BY <1>2 DEF RegistryInv, OpenedRow
<1>7. ASSUME NEW w \in Provenances, standing[w] = "yes" PROVE Answered(w, target[w], answers'[w])
  <2>1. Answered(w, target[w], answers[w])
    BY <1>7 DEF RegistryInv
  <2>2. answers'[w] = answers[w]
    BY Zenon, <1>0, <1>2, <1>3, <2>1 DEF RegistryInv, RegistryTyped
  <2> QED
    BY <2>1, <2>2
<1>8. (\A w \in Provenances : standing[w] = "yes" => Answered(w, target[w], answers[w]))'
  BY <1>2, <1>7 DEF Answered, SignatureVerifies, SignedAs, Answer
<1> QED
  BY <1>4, <1>5, <1>6, <1>8 DEF RegistryInv

\* A step of a removal: the version it works on does not stand.
LEMMA RemoveRowKeeps ==
  ASSUME RegistryInv, NEW x \in Removes, NEW row \in RemoveRow, NEW v \in Provenances, NEW tree \in Trees,
         removing' = [removing EXCEPT ![x] = row],
         target' = [target EXCEPT ![v] = tree],
         standing' = [standing EXCEPT ![v] = "no"],
         OpenedRow(row, published, standing'),
         UNCHANGED <<source, published, installing, answers>>
  PROVE  RegistryInv'
<1>1. RegistryTyped'
  BY DEF RegistryInv, RegistryTyped
<1>2. (\A i \in Installs : StagedRow(installing[i]))'
  BY DEF RegistryInv, StagedRow, SignatureVerifies, SignedAs
<1>3. ASSUME NEW y \in Removes PROVE OpenedRow(removing'[y], published, standing')
  <2>1. removing'[y] = IF y = x THEN row ELSE removing[y]
    BY DEF RegistryInv, RegistryTyped
  <2>2. OpenedRow(removing[y], published, standing) /\ removing[y] \in RemoveRow
    BY DEF RegistryInv, RegistryTyped
  <2>3. OpenedRow(removing[y], published, standing')
    BY <2>2 DEF OpenedRow, RegistryInv, RegistryTyped, RemoveRow
  <2> QED
    BY <2>1, <2>3
<1>4. ASSUME NEW w \in Provenances, standing'[w] = "yes" PROVE Answered(w, target'[w], answers[w])
  <2>1. w # v /\ standing[w] = "yes" /\ target'[w] = target[w]
    BY <1>4 DEF RegistryInv, RegistryTyped
  <2> QED
    BY <2>1 DEF RegistryInv
<1>5. (\A y \in Removes : OpenedRow(removing[y], published, standing))'
  BY <1>3 DEF OpenedRow
<1>6. (\A w \in Provenances : standing[w] = "yes" => Answered(w, target[w], answers[w]))'
  BY <1>4 DEF Answered, SignatureVerifies, SignedAs, Answer
<1> QED
  BY Zenon, <1>1, <1>2, <1>5, <1>6 DEF RegistryInv

LEMMA RemoveBeginsKeeps ==
  ASSUME RegistryInv, NEW x \in Removes, NEW v \in Provenances, RemoveBegins(x, v) PROVE RegistryInv'
<1> DEFINE row == [pc |-> "removing", of |-> v, opened |-> published[v]]
<1>1. row \in RemoveRow
  BY DEF RegistryInv, RegistryTyped, RemoveRow
<1>2. OpenedRow(row, published, standing')
  <2>1. published[v] \in Nat /\ standing'[v] = "no"
    BY DEF RegistryInv, RegistryTyped, RemoveBegins
  <2>2. row.of = v /\ row.opened = published[v]
    OBVIOUS
  <2> HIDE DEF row
  <2> QED BY <2>1, <2>2 DEF OpenedRow
<1>3. target' = [target EXCEPT ![v] = target[v]] /\ target[v] \in Trees
  BY DEF RemoveBegins, RegistryInv, RegistryTyped
<1> QED
  BY Zenon, <1>1, <1>2, <1>3, RemoveRowKeeps DEF RemoveBegins

LEMMA RemoveDeletesKeeps ==
  ASSUME RegistryInv, NEW x \in Removes, NEW sig \in Signatures, NEW files \in {"all", "some", "none"},
         RemoveDeletes(x, sig, files)
  PROVE  RegistryInv'
<1> DEFINE v == removing[x].of
           tree == [content |-> target[v].content, sig |-> sig, files |-> files]
<1>1. /\ removing[x] \in RemoveRow /\ v \in Provenances
      /\ OpenedRow(removing[x], published, standing)
  BY DEF RegistryInv, RegistryTyped, RemoveRow
<1>2. standing[v] = "no"
  BY <1>1 DEF OpenedRow, RemoveDeletes
<1>3. tree \in Trees
  BY <1>1 DEF RegistryInv, RegistryTyped, Trees
<1>4. removing' = [removing EXCEPT ![x] = removing[x]] /\ standing' = [standing EXCEPT ![v] = "no"]
  BY <1>2 DEF RemoveDeletes, RegistryInv, RegistryTyped
<1>5. OpenedRow(removing[x], published, standing')
  BY <1>1 DEF RemoveDeletes, OpenedRow
<1> QED
  BY Zenon, <1>1, <1>3, <1>4, <1>5, RemoveRowKeeps DEF RemoveDeletes

LEMMA IdleRemoveRow ==
  ASSUME NEW stands PROVE IdleRemove \in RemoveRow /\ OpenedRow(IdleRemove, published, stands)
  BY DEF IdleRemove, RemoveRow, OpenedRow, Provenances

\* An empty directory does not stand.
LEMMA RemoveFinishesKeeps ==
  ASSUME RegistryInv, NEW x \in Removes, RemoveFinishes(x) PROVE RegistryInv'
<1> DEFINE v == removing[x].of
<1>1. v \in Provenances /\ target[v].files = "none"
  BY DEF RegistryInv, RegistryTyped, RemoveRow, RemoveFinishes
<1>2. standing[v] = "no"
  BY <1>1 DEF RegistryInv, RegistryTyped, Answered
<1>3. NoTree \in Trees
  BY DEF NoTree, Trees, Signatures
<1>4. standing' = [standing EXCEPT ![v] = "no"]
  BY <1>2 DEF RemoveFinishes, RegistryInv, RegistryTyped
<1>5. IdleRemove \in RemoveRow /\ OpenedRow(IdleRemove, published, standing')
  BY IdleRemoveRow
<1> QED
  BY Zenon, <1>1, <1>3, <1>4, <1>5, RemoveRowKeeps DEF RemoveFinishes

LEMMA RemoveStopsKeeps ==
  ASSUME RegistryInv, NEW x \in Removes, RemoveStops(x) PROVE RegistryInv'
<1>1. RegistryTyped'
  BY IdleRemoveRow DEF RemoveStops, RegistryInv, RegistryTyped
<1>2. (\A i \in Installs : StagedRow(installing[i]))'
  BY DEF RemoveStops, RegistryInv, StagedRow, SignatureVerifies, SignedAs
<1>3. (\A y \in Removes : OpenedRow(removing[y], published, standing))'
  BY IdleRemoveRow DEF RemoveStops, RegistryInv, RegistryTyped, OpenedRow
<1>4. (\A w \in Provenances : standing[w] = "yes" => Answered(w, target[w], answers[w]))'
  BY DEF RemoveStops, RegistryInv, Answered, SignatureVerifies, SignedAs, Answer
<1> QED
  BY <1>1, <1>2, <1>3, <1>4 DEF RegistryInv

LEMMA EditsSourceKeeps ==
  ASSUME RegistryInv, NEW s \in Sources, EditsSource(s) PROVE RegistryInv'
<1>1. RegistryTyped'
  BY DEF EditsSource, RegistryInv, RegistryTyped
<1>2. (\A i \in Installs : StagedRow(installing[i]))'
  BY DEF EditsSource, RegistryInv, StagedRow, SignatureVerifies, SignedAs
<1>3. (\A y \in Removes : OpenedRow(removing[y], published, standing))'
  BY DEF EditsSource, RegistryInv, OpenedRow
<1>4. (\A w \in Provenances : standing[w] = "yes" => Answered(w, target[w], answers[w]))'
  BY DEF EditsSource, RegistryInv, Answered, SignatureVerifies, SignedAs, Answer
<1> QED
  BY <1>1, <1>2, <1>3, <1>4 DEF RegistryInv

LEMMA RegistryStutters == RegistryInv /\ UNCHANGED registryVars => RegistryInv'
<1> SUFFICES ASSUME RegistryInv, UNCHANGED registryVars PROVE RegistryInv'
  OBVIOUS
<1>1. RegistryTyped'
  BY DEF registryVars, RegistryInv, RegistryTyped
<1>2. (\A i \in Installs : StagedRow(installing[i]))'
  BY DEF registryVars, RegistryInv, StagedRow, SignatureVerifies, SignedAs
<1>3. (\A y \in Removes : OpenedRow(removing[y], published, standing))'
  BY DEF registryVars, RegistryInv, OpenedRow
<1>4. (\A w \in Provenances : standing[w] = "yes" => Answered(w, target[w], answers[w]))'
  BY DEF registryVars, RegistryInv, Answered, SignatureVerifies, SignedAs, Answer
<1> QED
  BY <1>1, <1>2, <1>3, <1>4 DEF RegistryInv

LEMMA RegistryNextKeeps == RegistryInv /\ [RegistryNext]_registryVars => RegistryInv'
<1> SUFFICES ASSUME RegistryInv, RegistryNext PROVE RegistryInv'
  BY RegistryStutters
<1>1. ASSUME NEW s \in Sources, EditsSource(s) PROVE RegistryInv'
  BY <1>1, EditsSourceKeeps
<1>2. ASSUME NEW i \in Installs,
             Inspects(i) \/ ChecksTarget(i) \/ Stages(i) \/ Activates(i) \/ AnswersExisting(i)
             \/ InstallStops(i)
      PROVE  RegistryInv'
  BY <1>2, InspectsKeeps, ChecksTargetKeeps, StagesKeeps, ActivatesKeeps, AnswersExistingKeeps,
     InstallStopsKeeps
<1>3. ASSUME NEW x \in Removes, NEW v \in Provenances, RemoveBegins(x, v) PROVE RegistryInv'
  BY <1>3, RemoveBeginsKeeps
<1>4. ASSUME NEW x \in Removes, NEW sig \in Signatures, NEW files \in {"all", "some", "none"},
             RemoveDeletes(x, sig, files)
      PROVE  RegistryInv'
  BY <1>4, RemoveDeletesKeeps
<1>5. ASSUME NEW x \in Removes, RemoveFinishes(x) \/ RemoveStops(x) PROVE RegistryInv'
  BY <1>5, RemoveFinishesKeeps, RemoveStopsKeeps
<1> QED
  BY <1>1, <1>2, <1>3, <1>4, <1>5 DEF RegistryNext

\* The inductive invariant of the registry: what is staged is what was
\* inspected, a removal whose directory is still the one at the target has
\* taken back its standing, and a version that stands is what was answered.
THEOREM RegistryInvariant == RegistrySpec => []RegistryInv
  BY RegistryInitHolds, RegistryNextKeeps, PTL DEF RegistrySpec

\* InstalledIsAnswered for any number of packages, installs and removals: a
\* version that nobody removes stays the whole package that every install of
\* it answered with, whatever becomes of the source (install,
\* _existing_install and remove of WorkflowRegistry).
THEOREM InstallsAnswerWhatStands == RegistrySpec => []InstalledIsAnswered
<1>1. RegistryInv => InstalledIsAnswered
  BY DEF RegistryInv, InstalledIsAnswered, Answered
<1> QED
  BY <1>1, RegistryInvariant, PTL
=============================================================================
