------------------------------- MODULE ModelStore -------------------------------
(***************************************************************************)
(* The installation of model files on a Worker (worker/model_installer.py, *)
(* driven by worker/maintenance.py): a download is resumed in a partial    *)
(* file, verified, linked into a content-addressed store and from there to *)
(* the path of the model.  Installers of one digest exclude each other     *)
(* with a file lock, which the system releases when a process dies.        *)
(*                                                                         *)
(* A partial file is counted in chunks and remembers whether all of them   *)
(* were right; a placed file is the digest of its content and whether it   *)
(* was verified, or a file somebody else put there.                        *)
(***************************************************************************)
EXTENDS Integers

CONSTANTS
    Installers,      \* processes that install models
    Pins,            \* pairs of a digest and a path to place it at
    ModelSize,       \* chunks of a model
    MaxModelFaults,  \* bound on broken downloads, crashes and strange files
    Nobody           \* no installer

VARIABLES
    part,         \* partial file of each digest
    blob,         \* file of each digest in the store
    tgt,          \* file at each path
    lock,         \* holder of the lock of each digest
    ins,          \* the installers
    modelFaults   \* faults left

modelVars == <<part, blob, tgt, lock, ins, modelFaults>>

ASSUME PinsAssumption ==
    /\ Nobody \notin Installers
    /\ ModelSize \in Nat \ {0}

ModelDigests == {pin.digest : pin \in Pins}

Paths == {pin.path : pin \in Pins}

NoFile == [digest |-> "none", ok |-> TRUE]

Foreign == [digest |-> "foreign", ok |-> TRUE]

Empty == [n |-> 0, ok |-> TRUE]

Resting == [pc |-> "idle", digest |-> "none", path |-> "none"]

ModelInit ==
    /\ part = [d \in ModelDigests |-> Empty]
    /\ blob = [d \in ModelDigests |-> NoFile]
    /\ tgt = [p \in Paths |-> NoFile]
    /\ lock = [d \in ModelDigests |-> Nobody]
    /\ ins = [i \in Installers |-> Resting]
    /\ modelFaults = MaxModelFaults

ModelFault == modelFaults > 0 /\ modelFaults' = modelFaults - 1

Moves(i, pc) == ins' = [ins EXCEPT ![i].pc = pc]

\* Leaving install, with a result or an exception, gives up the lock.
Leaves(i) ==
    /\ ins' = [ins EXCEPT ![i] = Resting]
    /\ lock' = [d \in ModelDigests |-> IF lock[d] = i THEN Nobody ELSE lock[d]]

\* A job asks for a model, or asks again after a failure.
Ask(i, pin) ==
    /\ ins[i].pc = "idle"
    /\ tgt[pin.path] = NoFile
    /\ ins' = [ins EXCEPT ![i] = [pc |-> "lock", digest |-> pin.digest, path |-> pin.path]]
    /\ UNCHANGED <<part, blob, tgt, lock, modelFaults>>

\* Waiting for the lock ends with an error after some time (Windows).
LockDigest(i) ==
    /\ ins[i].pc = "lock"
    /\ IF lock[ins[i].digest] = Nobody
       THEN lock' = [lock EXCEPT ![ins[i].digest] = i] /\ Moves(i, "check")
       ELSE Leaves(i)
    /\ UNCHANGED <<part, blob, tgt, modelFaults>>

\* The blob is linked from a verified file, unless it is there already.
PublishBlob(d, file) == blob' = [blob EXCEPT ![d] = IF @ = NoFile THEN file ELSE @]

\* A file at the path is used if it verifies and is a conflict otherwise.
UseTarget(i, d, p) ==
    /\ IF tgt[p] = [digest |-> d, ok |-> TRUE] THEN PublishBlob(d, tgt[p]) ELSE UNCHANGED blob
    /\ Leaves(i)

\* A complete but wrong partial file is deleted: a download cannot resume at
\* its end.
Resumable(d) == IF part[d].n = ModelSize THEN Empty ELSE part[d]

Check(i) ==
    LET d == ins[i].digest
        p == ins[i].path
    IN
    /\ ins[i].pc = "check"
    /\ \/ /\ tgt[p] # NoFile
          /\ UseTarget(i, d, p)
          /\ UNCHANGED part
       \/ /\ tgt[p] = NoFile /\ blob[d] # NoFile
          /\ Moves(i, "link")
          /\ UNCHANGED <<part, blob, lock>>
       \/ /\ tgt[p] = NoFile /\ blob[d] = NoFile
          /\ IF part[d].n = ModelSize /\ part[d].ok
             THEN Moves(i, "publish") /\ UNCHANGED part
             ELSE part' = [part EXCEPT ![d] = Resumable(d)] /\ Moves(i, "open")
          /\ UNCHANGED <<blob, lock>>
    /\ UNCHANGED <<tgt, modelFaults>>

\* The origin refuses, ignores the range, or goes on where the file ends; there
\* is nothing to go on with at the end of the model.
Open(i) ==
    LET d == ins[i].digest IN
    /\ ins[i].pc = "open"
    /\ \/ part[d].n < ModelSize /\ Moves(i, "fetch") /\ UNCHANGED <<part, lock, modelFaults>>
       \/ /\ ModelFault
          /\ part' = [part EXCEPT ![d] = Empty]
          /\ Moves(i, "fetch")
          /\ UNCHANGED lock
       \/ part[d].n = ModelSize /\ Leaves(i) /\ UNCHANGED <<part, modelFaults>>
       \/ ModelFault /\ Leaves(i) /\ UNCHANGED part
    /\ UNCHANGED <<blob, tgt>>

\* One more chunk, right or wrong, a broken connection or one chunk too many.
Fetch(i) ==
    LET d == ins[i].digest
        more(ok) == part' = [part EXCEPT ![d] = [n |-> @.n + 1, ok |-> @.ok /\ ok]]
    IN
    /\ ins[i].pc = "fetch"
    /\ \/ part[d].n < ModelSize /\ more(TRUE) /\ UNCHANGED <<ins, lock, modelFaults>>
       \/ part[d].n < ModelSize /\ ModelFault /\ more(FALSE) /\ UNCHANGED <<ins, lock>>
       \/ ModelFault /\ Leaves(i) /\ UNCHANGED part
       \/ part[d].n = ModelSize /\ Moves(i, "verify") /\ UNCHANGED <<part, lock, modelFaults>>
    /\ UNCHANGED <<blob, tgt>>

VerifiesSize(d) == part[d].n = ModelSize

Verifies(d) == part[d].ok

\* The digest, and the path again: somebody may have placed a file meanwhile.
Verify(i) ==
    LET d == ins[i].digest
        p == ins[i].path
    IN
    /\ ins[i].pc = "verify"
    /\ \/ /\ ~Verifies(d)
          /\ part' = [part EXCEPT ![d] = Empty]
          /\ Leaves(i)
          /\ UNCHANGED blob
       \/ /\ Verifies(d) /\ tgt[p] # NoFile
          /\ UseTarget(i, d, p)
          /\ part' = IF tgt[p].digest = d THEN [part EXCEPT ![d] = Empty] ELSE part
       \/ Verifies(d) /\ tgt[p] = NoFile /\ Moves(i, "publish") /\ UNCHANGED <<part, blob, lock>>
    /\ UNCHANGED <<tgt, modelFaults>>

Publish(i) ==
    /\ ins[i].pc = "publish"
    /\ PublishBlob(ins[i].digest, [digest |-> ins[i].digest, ok |-> part[ins[i].digest].ok])
    /\ Moves(i, "unlink")
    /\ UNCHANGED <<part, tgt, lock, modelFaults>>

\* A partial file that cannot be deleted stays.
UnlinkPartial(i) ==
    /\ ins[i].pc = "unlink"
    /\ \/ part' = [part EXCEPT ![ins[i].digest] = Empty] /\ UNCHANGED modelFaults
       \/ ModelFault /\ UNCHANGED part
    /\ Moves(i, "link")
    /\ UNCHANGED <<blob, tgt, lock>>

\* os.link creates the file or finds one there.
Link(p, file) == tgt' = [tgt EXCEPT ![p] = IF @ = NoFile THEN file ELSE @]

LinkTarget(i) ==
    LET p == ins[i].path IN
    /\ ins[i].pc = "link"
    /\ Link(p, blob[ins[i].digest])
    /\ IF tgt[p] = NoFile THEN Moves(i, "protect") /\ UNCHANGED lock ELSE Leaves(i)
    /\ UNCHANGED <<part, blob, modelFaults>>

\* A file that cannot be made read-only is taken away again.
ProtectTarget(i) ==
    /\ ins[i].pc = "protect"
    /\ \/ UNCHANGED <<tgt, modelFaults>>
       \/ ModelFault /\ tgt' = [tgt EXCEPT ![ins[i].path] = NoFile]
    /\ Leaves(i)
    /\ UNCHANGED <<part, blob>>

InstallerDies(i) ==
    /\ ModelFault
    /\ ins[i].pc # "idle"
    /\ Leaves(i)
    /\ UNCHANGED <<part, blob, tgt>>

\* The machine's owner places a file, another one or the model itself.
FileAppears(pin) ==
    /\ ModelFault
    /\ tgt[pin.path] = NoFile
    /\ \E file \in {Foreign, [digest |-> pin.digest, ok |-> TRUE]} :
        tgt' = [tgt EXCEPT ![pin.path] = file]
    /\ UNCHANGED <<part, blob, lock, ins>>

ModelStep(i) ==
    \/ LockDigest(i) \/ Check(i) \/ Open(i) \/ Fetch(i) \/ Verify(i) \/ Publish(i) \/ UnlinkPartial(i)
    \/ LinkTarget(i) \/ ProtectTarget(i)

ModelNext ==
    \/ \E i \in Installers : ModelStep(i) \/ InstallerDies(i)
    \/ \E i \in Installers, pin \in Pins : Ask(i, pin)
    \/ \E pin \in Pins : FileAppears(pin)

-----------------------------------------------------------------------------
(* Properties *)

\* Whatever broke on the way, a file in the store or at a path that an
\* installer put there has the digest it was pinned with (_install_locked).
InstalledIsWhole ==
    /\ \A d \in ModelDigests : blob[d].ok
    /\ \A p \in Paths : tgt[p].ok

=============================================================================
