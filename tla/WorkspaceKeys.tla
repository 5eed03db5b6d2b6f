--------------------------- MODULE WorkspaceKeys ---------------------------
(***************************************************************************)
(* The versioned Workspace key: the Gateway's envelopes and version        *)
(* (gateway/repository.py), and the command-line clients of the Owner and  *)
(* of the members that create, grant, rotate and fetch it                  *)
(* (cli/workspace_envelopes.py, cli/setup.py, cli/main.py).                *)
(*                                                                         *)
(* The Gateway never sees a key; only clients make them.  A key is a       *)
(* number, an envelope is the key sealed in it, and a recipient is a User  *)
(* (its recovery key) or a Device.  An Owner's command is several requests,*)
(* each one or two transactions, so commands of two Devices interleave     *)
(* with each other and with every enrollment.                              *)
(***************************************************************************)
EXTENDS WorkspaceAdmission

CONSTANTS MaxVersion,   \* bound on the key version
          MaxSetups     \* bound on the times setup creates the first key

VARIABLES version,      \* workspaces.key_version
          envelope,     \* the live key_envelopes row of a recipient and version
          keyring,      \* the WorkspaceKeyStore of a Device
          op,           \* the command a Device of the Owner is running
          left,         \* bound on the commands yet to begin, by the start
          setups,       \* first keys created by setup so far
          cut           \* the version when a Device last lost its standing

keyVars == <<version, envelope, keyring, op, left, setups>>

vars == <<admissionVars, keyVars, cut>>

Versions == 1..MaxVersion

NoKey == 0

Recipients == Users \cup Devices

Clients == {c \in Devices : UserOf[c] = Owner}

Idle == [cmd |-> "idle"]

KeyBounds ==
    /\ MaxVersion \in Nat \ {0} /\ MaxSetups \in Nat
    /\ \A s \in Starts : s.commands \in Nat
    /\ Users \cap Devices = {}

ASSUME KeyBoundsAssumption == KeyBounds

Init ==
    /\ \E s \in Starts : AdmissionInit(s) /\ left = s.commands
    /\ version = 1
    /\ envelope = [r \in Recipients |-> [v \in Versions |-> NoKey]]
    /\ keyring = [d \in Devices |-> [v \in Versions |-> NoKey]]
    /\ op = [c \in Clients |-> Idle]
    /\ setups = 0
    /\ cut = [d \in Devices |-> 0]

-----------------------------------------------------------------------------
(* The recipients of the key *)

Holder(r) == IF r \in Devices THEN UserOf[r] ELSE r

\* One active member whose admission does not verify leaves no set at all.
RecipientsKnown == \A u \in Users : IsMember(u) => Verified(u)

IsRecipient(r) == IsMember(Holder(r)) /\ (r \in Devices => device[r] = "active")

RecipientSet == {r \in Recipients : IsRecipient(r)}

\* The recipients with what each envelope is bound to; its digest is signed.
Snapshot == [r \in RecipientSet |-> admission[Holder(r)]]

Binding(r) == admission[Holder(r)]

-----------------------------------------------------------------------------
(* Commands *)

\* A request is accepted from a Device in good standing only.
Sends(c) == device[c] = "active" /\ IsOwner(UserOf[c])

Running(c, cmd, at) == op[c].cmd = cmd /\ op[c].at = at

Goes(c, o) == op' = [op EXCEPT ![c] = o]

CanBegin(c) == op[c] = Idle /\ Sends(c) /\ left > 0

Begin(c, o) == Goes(c, o) /\ left' = left - 1

Granting(todo, ver, key) ==
    IF todo = << >> THEN Idle
    ELSE [cmd |-> "grant", at |-> "get", todo |-> todo, ver |-> ver, key |-> key,
          seen |-> NoAdmission]

EnsureSelfAdmission(c) ==
    /\ op[c] = Idle /\ Sends(c)
    /\ admission[UserOf[c]] = NoAdmission
    /\ PutAdmission(UserOf[c], SelfAdmission(c))
    /\ UNCHANGED keyVars

\* sync_workspace_key: the Device's newest envelope, or else its User's.
Newest(r) ==
    LET held == {v \in Versions : envelope[r][v] # NoKey}
    IN  IF held = {} THEN 0 ELSE CHOOSE v \in held : \A x \in held : x <= v

Source(d) == IF Newest(d) # 0 THEN d ELSE UserOf[d]

Sync(d) ==
    /\ device[d] = "active" /\ IsMember(UserOf[d])
    /\ Newest(Source(d)) # 0
    /\ LET v == Newest(Source(d))
       IN  keyring' = [keyring EXCEPT ![d][v] = envelope[Source(d)][v]]
    /\ UNCHANGED <<admissionVars, version, envelope, op, left, setups>>

\* setup: what cannot be fetched is created, then granted to User and Device.
Initialize(c) ==
    /\ CanBegin(c)
    /\ Newest(Source(c)) = 0
    /\ Verified(UserOf[c])
    /\ setups < MaxSetups
    /\ setups' = setups + 1
    /\ keyring' = [keyring EXCEPT ![c][version] = left]
    /\ Begin(c, Granting(<<UserOf[c], c>>, version, left))
    /\ UNCHANGED <<admissionVars, version, envelope>>

\* workspace decide --approve: the admission is one transaction of the request,
\* the decision the next.
DecideAdmit(c, i) ==
    /\ CanBegin(c)
    /\ enr[i].kind \in UserKinds /\ enr[i].user # NoOne
    /\ PutAdmission(enr[i].user, AdmissionOf(c, i))
    /\ Begin(c, [cmd |-> "decide", at |-> "commit", enr |-> i])
    /\ UNCHANGED <<version, envelope, keyring, setups>>

DecideCommit(c) ==
    /\ Running(c, "decide", "commit") /\ IsOwner(UserOf[c])
    /\ Approve(op[c].enr)
    /\ Goes(c, [cmd |-> "decide", at |-> "load", enr |-> op[c].enr])
    /\ UNCHANGED <<version, envelope, keyring, left, setups>>

\* key-grant-enrollment, or invite --wait: a directly activated enrollment.
AdmitActive(c, i) ==
    /\ CanBegin(c)
    /\ enr[i].state = "active" /\ enr[i].kind \in UserKinds
    /\ PutAdmission(enr[i].user, AdmissionOf(c, i))
    /\ Begin(c, [cmd |-> "decide", at |-> "load", enr |-> i])
    /\ UNCHANGED <<version, envelope, keyring, setups>>

\* The key is granted if this Device has it, and left for later if not.
LoadKey(c) ==
    /\ Running(c, "decide", "load") /\ Sends(c)
    /\ LET row == enr[op[c].enr]
       IN  Goes(c, IF keyring[c][version] = NoKey THEN Idle
                    ELSE Granting(<<row.user, row.subject>>, version, keyring[c][version]))
    /\ UNCHANGED <<admissionVars, version, envelope, keyring, left, setups>>

\* workspace key-grant; for another version than the current one it is refused.
KeyGrant(c, r) ==
    /\ CanBegin(c)
    /\ keyring[c][version] # NoKey
    /\ Begin(c, Granting(<<r>>, version, keyring[c][version]))
    /\ UNCHANGED <<admissionVars, version, envelope, keyring, setups>>

-----------------------------------------------------------------------------
(* A grant: the client reads the recipient, the Gateway checks, then stores *)

GrantTarget(c) == Head(op[c].todo)

CanRead(c) ==
    /\ RecipientsKnown /\ IsRecipient(GrantTarget(c))
    /\ version = op[c].ver

\* Mutant: what was checked before the envelope is stored is not checked again.
UnchangedUnchecked(c) == op[c].seen # NoAdmission

Unchanged(c) ==
    /\ RecipientsKnown /\ IsRecipient(GrantTarget(c))
    /\ Binding(GrantTarget(c)) = op[c].seen

GrantGet(c) ==
    /\ Running(c, "grant", "get") /\ Sends(c)
    /\ CanRead(c)
    /\ Goes(c, [op[c] EXCEPT !.at = "check", !.seen = Binding(GrantTarget(c))])
    /\ UNCHANGED <<admissionVars, version, envelope, keyring, left, setups>>

GrantCheck(c) ==
    /\ Running(c, "grant", "check") /\ Sends(c)
    /\ CanRead(c) /\ Unchanged(c)
    /\ Goes(c, [op[c] EXCEPT !.at = "store"])
    /\ UNCHANGED <<admissionVars, version, envelope, keyring, left, setups>>

\* Neither the sender nor the version is looked at again.
GrantStore(c) ==
    /\ Running(c, "grant", "store")
    /\ Unchanged(c)
    /\ envelope' = [envelope EXCEPT ![GrantTarget(c)][op[c].ver] = op[c].key]
    /\ Goes(c, Granting(Tail(op[c].todo), op[c].ver, op[c].key))
    /\ UNCHANGED <<admissionVars, version, keyring, left, setups>>

-----------------------------------------------------------------------------
(* A rotation *)

\* Mutant: the new key is cached before the Gateway has confirmed it.
RotateSnapshotCaching(c) ==
    /\ CanBegin(c)
    /\ RecipientsKnown
    /\ version < MaxVersion
    /\ Begin(c, [cmd |-> "rotate", at |-> "post", ver |-> version, key |-> left,
                 seen |-> Snapshot])
    /\ keyring' = [keyring EXCEPT ![c][version + 1] = left]
    /\ UNCHANGED <<admissionVars, version, envelope, setups>>

RotateSnapshot(c) ==
    /\ CanBegin(c)
    /\ RecipientsKnown
    /\ version < MaxVersion
    /\ Begin(c, [cmd |-> "rotate", at |-> "post", ver |-> version, key |-> left,
                 seen |-> Snapshot])
    /\ UNCHANGED <<admissionVars, version, envelope, keyring, setups>>

RotatePost(c) ==
    /\ Running(c, "rotate", "post") /\ Sends(c)
    /\ Goes(c, [op[c] EXCEPT !.at = "commit"])
    /\ UNCHANGED <<admissionVars, version, envelope, keyring, left, setups>>

\* Mutant: the digest of the recipients is not compared.
CanRotateUncompared(c) ==
    /\ IsOwner(UserOf[c]) /\ RecipientsKnown
    /\ version = op[c].ver
    /\ \A r \in Recipients : envelope[r][version + 1] = NoKey

CanRotate(c) ==
    /\ IsOwner(UserOf[c])
    /\ RecipientsKnown /\ Snapshot = op[c].seen
    /\ version = op[c].ver
    /\ \A r \in Recipients : envelope[r][version + 1] = NoKey

RotateCommit(c) ==
    /\ Running(c, "rotate", "commit")
    /\ CanRotate(c)
    /\ version' = version + 1
    /\ envelope' = [r \in Recipients |->
                      IF r \in RecipientSet
                      THEN [envelope[r] EXCEPT ![version + 1] = op[c].key]
                      ELSE envelope[r]]
    /\ Goes(c, [op[c] EXCEPT !.at = "save"])
    /\ UNCHANGED <<admissionVars, keyring, left, setups>>

\* The key is kept only once the Gateway has confirmed it.
RotateSave(c) ==
    /\ Running(c, "rotate", "save")
    /\ keyring' = [keyring EXCEPT ![c][op[c].ver + 1] = op[c].key]
    /\ Goes(c, Idle)
    /\ UNCHANGED <<admissionVars, version, envelope, left, setups>>

-----------------------------------------------------------------------------
(* Commands that end early *)

\* The Gateway answers with an error.
Refused(c) ==
    /\ \/ Running(c, "decide", "commit")
            /\ ~(enr[op[c].enr].state = "pending" /\ IsOwner(UserOf[c]))
       \/ Running(c, "decide", "load") /\ ~Sends(c)
       \/ Running(c, "grant", "get") /\ ~(Sends(c) /\ CanRead(c))
       \/ Running(c, "grant", "check") /\ ~(Sends(c) /\ CanRead(c) /\ Unchanged(c))
       \/ Running(c, "grant", "store") /\ ~Unchanged(c)
       \/ Running(c, "rotate", "post") /\ ~Sends(c)
       \/ Running(c, "rotate", "commit") /\ ~CanRotate(c)
    /\ Goes(c, Idle)
    /\ UNCHANGED <<admissionVars, version, envelope, keyring, left, setups>>

\* The command is killed, or the answer to its request is lost.
Crash(c) ==
    /\ op[c] # Idle
    /\ Goes(c, Idle)
    /\ UNCHANGED <<admissionVars, version, envelope, keyring, left, setups>>

-----------------------------------------------------------------------------

\* Standing to hold the current key.
Entitled(d) == device[d] = "active" /\ IsMember(UserOf[d])

KeyStep ==
    \/ \E c \in Clients :
          \/ Initialize(c)
          \/ EnsureSelfAdmission(c)
          \/ \E i \in Enrollments : DecideAdmit(c, i) \/ AdmitActive(c, i)
          \/ DecideCommit(c) \/ LoadKey(c)
          \/ \E r \in Recipients : KeyGrant(c, r)
          \/ GrantGet(c) \/ GrantCheck(c) \/ GrantStore(c)
          \/ RotateSnapshot(c) \/ RotatePost(c) \/ RotateCommit(c) \/ RotateSave(c)
          \/ Refused(c) \/ Crash(c)
    \/ \E d \in Devices : Sync(d)

Next ==
    /\ \/ AdmissionStep /\ UNCHANGED keyVars
       \/ KeyStep
    /\ cut' = [d \in Devices |-> IF Entitled(d)' THEN 0
                                 ELSE IF Entitled(d) THEN version ELSE cut[d]]

Spec == Init /\ [][Next]_vars

-----------------------------------------------------------------------------
(* Properties *)

\* No version that a rotation has made is ever two keys: every envelope stored
\* for it, and every keychain that has cached it, holds the same key.  The first
\* version is as many keys at most as setups have created one: two Devices that
\* find nothing to fetch each do.  The Gateway cannot tell keys apart, so this
\* rests on when the clients create one: setup only when nothing can be fetched,
\* so never once there was a rotation; a rotation only for a version that has no
\* envelope, cached only once it is confirmed.
OneKeyPerVersion ==
    \A v \in Versions :
        Cardinality(({envelope[r][v] : r \in Recipients}
                        \cup {keyring[d][v] : d \in Devices}) \ {NoKey})
            <= IF v = 1 THEN setups ELSE 1

\* A Device that is revoked, or whose User is removed, never gets a key made
\* after that: neither an envelope nor, through a command of its own that was
\* in flight, the key itself.
LockedOut ==
    \A d \in Devices : ~Entitled(d) =>
        \A v \in Versions : v > cut[d] =>
            keyring[d][v] = NoKey /\ envelope[d][v] = NoKey

\* An envelope is stored only for a User that is a member and that the Owner
\* has admitted, or for an active Device of such a User, at that moment: not
\* when the client or the Gateway looked.
SealedOnlyToAdmitted ==
    [][\A r \in Recipients :
         envelope'[r] # envelope[r] => IsRecipient(r) /\ Verified(Holder(r))]_vars

=============================================================================
