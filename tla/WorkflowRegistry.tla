--------------------------- MODULE WorkflowRegistry ---------------------------
(***************************************************************************)
(* The registry of workflow packages on a consumer's machine               *)
(* (market/registry.py, class WorkflowRegistry), as the commands           *)
(* `vgen workflow install`, `custom` and `remove` use it.  A package is    *)
(* validated where it lies, copied to a staging directory beside its       *)
(* target, validated again and renamed onto the target, which is named     *)
(* after the provenance, the id and the version.  Nothing locks the        *)
(* registry: commands run at once, a command can be killed between two     *)
(* steps, the author may be editing the source directory, and a removal    *)
(* deletes file after file.                                                *)
(*                                                                         *)
(* One id and version: other versions have other directories.  A digest    *)
(* stands for the files it covers, the manifest with the provenance among  *)
(* them; the signature file and the lock file are not covered.  A removal  *)
(* works on the directory it opened (os.unlink with a dir_fd).             *)
(***************************************************************************)
EXTENDS Integers

CONSTANTS
    MarketPackages, CustomPackages,   \* packages, by the provenance in the manifest
    NoSig,         \* a package without artifact.sig
    Installs,      \* install commands
    Removes,       \* remove commands
    MaxEdits,      \* bound on the edits of the source
    MaxPublishes   \* bound on the renames onto one target

Packages == MarketPackages \cup CustomPackages

ASSUME RegistryAssumption ==
    /\ MarketPackages \cap CustomPackages = {}
    /\ NoSig \notin Packages
    /\ MaxEdits \in Nat /\ MaxPublishes \in Nat

VARIABLES
    source,      \* the directory that is being installed from
    edits,       \* edits of it
    target,      \* the directory of the version, by provenance
    published,   \* renames onto each target
    installing,  \* install commands
    removing,    \* remove commands
    standing,    \* no removal has begun since the last rename
    answers      \* what installs have answered since then

registryVars == <<source, edits, target, published, installing, removing, standing, answers>>

Provenances == {"market", "custom"}

Provenance(c) == IF c \in MarketPackages THEN "market" ELSE "custom"

\* artifact.sig signs one digest under the key in that package's manifest.
Signatures == Packages \cup {NoSig}

Sources == [content : Packages, sig : Signatures]

NoTree == [content |-> NoSig, sig |-> NoSig, files |-> "gone"]

NoCopy == [content |-> NoSig, sig |-> NoSig]

IdleInstall == [pc |-> "idle", digest |-> NoSig, signed |-> "no", staging |-> NoCopy]

IdleRemove == [pc |-> "idle", of |-> "market", opened |-> 0]

RegistryInit ==
    /\ source \in Sources
    /\ edits = 0
    /\ target = [v \in Provenances |-> NoTree]
    /\ published = [v \in Provenances |-> 0]
    /\ installing = [i \in Installs |-> IdleInstall]
    /\ removing = [x \in Removes |-> IdleRemove]
    /\ standing = [v \in Provenances |-> "no"]
    /\ answers = [v \in Provenances |-> {}]

-----------------------------------------------------------------------------
(* Installing *)

\* The author works on the source directory.
EditsSource(s) ==
    /\ edits < MaxEdits
    /\ source' = s /\ edits' = edits + 1
    /\ UNCHANGED <<target, published, installing, removing, standing, answers>>

SignedAs(tree) == IF tree.sig = NoSig THEN "no" ELSE "yes"

\* A signature over another digest is an error, a missing one is not.
SignatureVerifies(tree) == tree.sig \in {NoSig, tree.content}

\* Reads the source; a package that is refused (its signature, its id,
\* version, digest or publisher not the expected one) changes nothing.
Inspects(i) ==
    /\ installing[i].pc = "idle"
    /\ SignatureVerifies(source)
    /\ installing' = [installing EXCEPT ![i] =
                        [pc |-> "inspected", digest |-> source.content,
                         signed |-> SignedAs(source), staging |-> NoCopy]]
    /\ UNCHANGED <<source, edits, target, published, removing, standing, answers>>

ChecksTarget(i) ==
    /\ installing[i].pc = "inspected"
    /\ installing' = [installing EXCEPT ![i].pc =
                        IF target[Provenance(installing[i].digest)].files = "gone"
                        THEN "copying" ELSE "existing"]
    /\ UNCHANGED <<source, edits, target, published, removing, standing, answers>>

ValidCopy(i, s) == SignatureVerifies(s)

\* The copy validates as what was inspected.
SameAsInspected(i, s) ==
    /\ SignatureVerifies(s)
    /\ s.content = installing[i].digest
    /\ SignedAs(s) = installing[i].signed

\* Copies the source as it is now.  A copy mixed from before and after an
\* edit fails its checksums; so does one that is not what was inspected.
Stages(i) ==
    /\ installing[i].pc = "copying"
    /\ \/ /\ SameAsInspected(i, source)
          /\ installing' = [installing EXCEPT ![i].pc = "staged", ![i].staging = source]
       \/ installing' = [installing EXCEPT ![i] = IdleInstall]
    /\ UNCHANGED <<source, edits, target, published, removing, standing, answers>>

WholeTree(copy) == [content |-> copy.content, sig |-> copy.sig, files |-> "all"]

Answer(digest, signed) == [digest |-> digest, signed |-> signed]

\* The rename: onto nothing, or, where the system allows it, onto an empty
\* directory.  Onto anything else it fails.
Activates(i) ==
    /\ installing[i].pc = "staged"
    /\ LET v == Provenance(installing[i].digest)
       IN  \/ /\ target[v].files \in {"gone", "none"}
              /\ published[v] < MaxPublishes
              /\ target' = [target EXCEPT ![v] = WholeTree(installing[i].staging)]
              /\ published' = [published EXCEPT ![v] = published[v] + 1]
              /\ standing' = [standing EXCEPT ![v] = "yes"]
              /\ answers' = [answers EXCEPT ![v] =
                               {Answer(installing[i].digest, installing[i].signed)}]
              /\ installing' = [installing EXCEPT ![i] = IdleInstall]
           \/ /\ target[v].files # "gone"
              /\ installing' = [installing EXCEPT ![i].pc = "existing"]
              /\ UNCHANGED <<target, published, standing, answers>>
    /\ UNCHANGED <<source, edits, removing>>

\* The files are the ones checksums.sha256 lists, each with its digest.
ChecksumsHold(tree) == tree.files = "all"

\* What is there validates, has the digest, and is signed if it must be.
ExistingInstall(i, tree) ==
    /\ ChecksumsHold(tree) /\ SignatureVerifies(tree)
    /\ tree.content = installing[i].digest
    /\ installing[i].signed = "yes" => SignedAs(tree) = "yes"

\* Answers with what is there, or fails.
AnswersExisting(i) ==
    /\ installing[i].pc = "existing"
    /\ LET v == Provenance(installing[i].digest)
       IN  answers' = IF ExistingInstall(i, target[v])
                      THEN [answers EXCEPT ![v] = answers[v] \cup
                              {Answer(target[v].content, SignedAs(target[v]))}]
                      ELSE answers
    /\ installing' = [installing EXCEPT ![i] = IdleInstall]
    /\ UNCHANGED <<source, edits, target, published, removing, standing>>

\* Killed, or refused: a staging directory is nobody's target.
InstallStops(i) ==
    /\ installing[i].pc # "idle"
    /\ installing' = [installing EXCEPT ![i] = IdleInstall]
    /\ UNCHANGED <<source, edits, target, published, removing, standing, answers>>

-----------------------------------------------------------------------------
(* Removing *)

\* The version of the given provenance, or the only one there is.
RemoveBegins(x, v) ==
    /\ removing[x].pc = "idle" /\ target[v].files # "gone"
    /\ removing' = [removing EXCEPT ![x] = [pc |-> "removing", of |-> v, opened |-> published[v]]]
    /\ standing' = [standing EXCEPT ![v] = "no"]
    /\ UNCHANGED <<source, edits, target, published, installing, answers>>

\* Some files more, in any order, of the directory that was opened.
RemoveDeletes(x, sig, files) ==
    /\ removing[x].pc = "removing"
    /\ LET v == removing[x].of
       IN  /\ target[v].files # "gone" /\ published[v] = removing[x].opened
           /\ sig \in {target[v].sig, NoSig}
           /\ files \in {target[v].files, "some", "none"}
           /\ target[v].files = "none" => files = "none"
           /\ target' = [target EXCEPT ![v] = [content |-> target[v].content, sig |-> sig, files |-> files]]
    /\ UNCHANGED <<source, edits, published, installing, removing, standing, answers>>

\* The directory itself, by its name, when it is empty.
RemoveFinishes(x) ==
    /\ removing[x].pc = "removing"
    /\ LET v == removing[x].of
       IN  /\ target[v].files = "none"
           /\ target' = [target EXCEPT ![v] = NoTree]
    /\ removing' = [removing EXCEPT ![x] = IdleRemove]
    /\ UNCHANGED <<source, edits, published, installing, standing, answers>>

\* Killed, or met a file or a directory that another command had changed.
RemoveStops(x) ==
    /\ removing[x].pc = "removing"
    /\ removing' = [removing EXCEPT ![x] = IdleRemove]
    /\ UNCHANGED <<source, edits, target, published, installing, standing, answers>>

RegistryNext ==
    \/ \E s \in Sources : EditsSource(s)
    \/ \E i \in Installs :
        \/ Inspects(i) \/ ChecksTarget(i) \/ Stages(i) \/ Activates(i) \/ AnswersExisting(i)
        \/ InstallStops(i)
    \/ \E x \in Removes, v \in Provenances : RemoveBegins(x, v)
    \/ \E x \in Removes, sig \in Signatures, files \in {"all", "some", "none"} :
        RemoveDeletes(x, sig, files)
    \/ \E x \in Removes : RemoveFinishes(x) \/ RemoveStops(x)

-----------------------------------------------------------------------------
(* Properties *)

\* An installed version stays what every install of it answered.  From the
\* rename on, and until somebody removes it, the directory of a version holds
\* a whole package of its provenance, and every install that has answered for
\* that version, first or second, alone or in a race, answered with the digest
\* of that package and with whether it is signed (install, _existing_install).
\* Neither an edit of the source during the copy nor a removal that is still
\* emptying the previous directory changes that.
InstalledIsAnswered ==
    \A v \in Provenances : standing[v] = "yes" =>
        /\ target[v].files = "all" /\ SignatureVerifies(target[v])
        /\ Provenance(target[v].content) = v
        /\ answers[v] = {Answer(target[v].content, SignedAs(target[v]))}

RegistrySpec == RegistryInit /\ [][RegistryNext]_registryVars
=============================================================================
