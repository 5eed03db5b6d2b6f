------------------------ MODULE WorkspaceKeysProofs ------------------------
(***************************************************************************)
(* Proofs about WorkspaceKeys, for every set of Users, Devices and         *)
(* enrollments and every population to start from: a version that a        *)
(* rotation has made is one key, a Device that lost its standing never     *)
(* gets a newer one, and envelopes are stored only for admitted            *)
(* recipients.                                                             *)
(*                                                                         *)
(* A key circulates for a version when it is in an envelope, in a          *)
(* keychain, or in a command that will put it there.  Only setup and the   *)
(* commit of a rotation bring a key into circulation.                      *)
(***************************************************************************)
EXTENDS WorkspaceKeys, FiniteSetTheorems, WellFoundedInduction, TLAPS

-----------------------------------------------------------------------------
(* The state of commands *)

DecideOp(o) == o = [cmd |-> "decide", at |-> o.at, enr |-> o.enr]

GrantOp(o) ==
    /\ o = [cmd |-> "grant", at |-> o.at, todo |-> o.todo, ver |-> o.ver, key |-> o.key,
            seen |-> o.seen]
    /\ o.ver \in Versions /\ o.key \in Nat \ {NoKey}

RotateOp(o) ==
    /\ o = [cmd |-> "rotate", at |-> o.at, ver |-> o.ver, key |-> o.key, seen |-> o.seen]
    /\ o.ver \in Versions /\ o.ver < MaxVersion /\ o.key \in Nat \ {NoKey}

OpShape(o) == o = Idle \/ DecideOp(o) \/ GrantOp(o) \/ RotateOp(o)

\* The command will store, or has made the Gateway store, key k for version v.
Carries(o, v, k) ==
    /\ o.cmd = "grant" \/ (o.cmd = "rotate" /\ o.at = "save")
    /\ v = IF o.cmd = "grant" THEN o.ver ELSE o.ver + 1
    /\ k = o.key

InUse(v, k) ==
    \/ \E r \in Recipients : envelope[r][v] = k
    \/ \E d \in Devices : keyring[d][v] = k
    \/ \E c \in Clients : Carries(op[c], v, k)

Keys == Nat \ {NoKey}

KeysTyped ==
    /\ version \in Versions
    /\ envelope \in [Recipients -> [Versions -> Nat]]
    /\ keyring \in [Devices -> [Versions -> Nat]]
    /\ left \in Nat
    /\ setups \in Nat
    /\ op = [c \in Clients |-> op[c]]
    /\ \A c \in Clients : OpShape(op[c])

\* The constants are those of the code: Users and Devices are different, the
\* Owner's Devices have the Owner for a User.
LEMMA Constants ==
    /\ \A d \in Devices : UserOf[d] \in Users /\ UserOf[d] \notin Devices
    /\ \A c \in Clients : c \in Devices /\ UserOf[c] = Owner /\ Owner \in Users
    /\ \A c \in Clients : Holder(Owner) = Owner /\ Holder(c) = Owner
    /\ Users \subseteq Recipients /\ Devices \subseteq Recipients
    /\ \A r \in Recipients : Holder(r) \in Users
    /\ MaxVersion \in Nat /\ 1 \in Versions
  BY DevicesAssumption, KeyBoundsAssumption
     DEF KeyBounds, Clients, Holder, Recipients, Versions

\* A command's name tells the other fields it has.
LEMMA OpKinds ==
    ASSUME NEW o, OpShape(o)
    PROVE  /\ o.cmd = "grant" => GrantOp(o)
           /\ o.cmd = "rotate" => RotateOp(o)
           /\ RotateOp(o) => o.cmd = "rotate"
<1>1. DecideOp(o) => o.cmd = "decide"
  BY DEF DecideOp
<1>2. GrantOp(o) => o.cmd = "grant"
  BY DEF GrantOp
<1>3. RotateOp(o) => o.cmd = "rotate"
  BY DEF RotateOp
<1>4. Idle.cmd = "idle"
  BY DEF Idle
<1> QED BY <1>1, <1>2, <1>3, <1>4 DEF OpShape

\* A step that changes at most the command of one Device.
LEMMA OpStep ==
    ASSUME KeysTyped, NEW c \in Clients, NEW o, OpShape(o), Goes(c, o)
    PROVE  /\ op' = [x \in Clients |-> op'[x]]
           /\ \A x \in Clients : OpShape(op'[x])
           /\ op'[c] = o
           /\ \A x \in Clients : x # c => op'[x] = op[x]
  BY DEF KeysTyped, Goes

\* Idle commands and decisions carry no key, nor does a rotation that is not
\* committed.
LEMMA CarryNothing ==
    ASSUME NEW v, NEW k
    PROVE  /\ ~Carries(Idle, v, k)
           /\ \A o : DecideOp(o) => ~Carries(o, v, k)
           /\ \A o : RotateOp(o) /\ o.at # "save" => ~Carries(o, v, k)
<1>1. Idle.cmd = "idle"
  BY DEF Idle
<1>2. \A o : DecideOp(o) => o.cmd = "decide"
  BY DEF DecideOp
<1>3. \A o : RotateOp(o) => o.cmd = "rotate"
  BY DEF RotateOp
<1> QED BY <1>1, <1>2, <1>3 DEF Carries

\* A grant carries its key.
LEMMA GrantingOp ==
    ASSUME NEW todo, NEW v \in Versions, NEW k \in Keys
    PROVE  /\ OpShape(Granting(todo, v, k))
           /\ \A x, y : Carries(Granting(todo, v, k), x, y) => x = v /\ y = k
<1> DEFINE g == [cmd |-> "grant", at |-> "get", todo |-> todo, ver |-> v, key |-> k,
                 seen |-> NoAdmission]
<1>1. GrantOp(g) /\ g.cmd = "grant" /\ g.ver = v /\ g.key = k
  BY DEF GrantOp, Keys
<1>2. Granting(todo, v, k) = Idle \/ Granting(todo, v, k) = g
  BY DEF Granting
<1> HIDE DEF g
<1> QED BY <1>1, <1>2, CarryNothing DEF OpShape, Carries

-----------------------------------------------------------------------------
(* The steps that bring no key into circulation *)

Spreads ==
    /\ KeysTyped'
    /\ version' = version /\ setups' = setups
    /\ \A r \in Recipients, v \in Versions : envelope[r][v] # NoKey => envelope'[r][v] # NoKey
    /\ \A v \in Versions, k \in Keys : InUse(v, k)' => InUse(v, k)

\* A step on commands only, that carries only keys in circulation.
LEMMA CommandSpreads ==
    ASSUME KeysTyped, NEW c \in Clients, NEW o, OpShape(o), Goes(c, o),
           UNCHANGED <<version, envelope, keyring, setups>>, left' \in Nat,
           \A v \in Versions, k \in Keys : Carries(o, v, k) => InUse(v, k)
    PROVE  Spreads
<1>1. /\ op' = [x \in Clients |-> op'[x]]
      /\ \A x \in Clients : OpShape(op'[x])
      /\ op'[c] = o
      /\ \A x \in Clients : x # c => op'[x] = op[x]
  BY OpStep
<1>2. KeysTyped'
  BY <1>1 DEF KeysTyped
<1>3. ASSUME NEW v \in Versions, NEW k \in Keys, InUse(v, k)'
      PROVE  InUse(v, k)
  <2>1. CASE \E x \in Clients : Carries(op'[x], v, k)
    BY <1>1, <2>1 DEF InUse
  <2>2. CASE \/ \E r \in Recipients : envelope'[r][v] = k
             \/ \E d \in Devices : keyring'[d][v] = k
    BY <2>2 DEF InUse
  <2> QED BY <1>3, <2>1, <2>2 DEF InUse
<1> QED BY <1>2, <1>3 DEF Spreads

\* A command that ends, or goes on without a key of its own.
LEMMA KeylessSpreads ==
    ASSUME KeysTyped, NEW c \in Clients, NEW o, Goes(c, o),
           o = Idle \/ DecideOp(o) \/ (RotateOp(o) /\ o.at # "save"),
           UNCHANGED <<version, envelope, keyring, setups>>, left' \in Nat
    PROVE  Spreads
<1>1. OpShape(o) /\ \A v \in Versions, k \in Keys : ~Carries(o, v, k)
  BY Zenon, CarryNothing DEF OpShape
<1> QED BY <1>1, CommandSpreads

\* The commands that admit and decide.
LEMMA DecideSpreads ==
    ASSUME KeysTyped, NEW c \in Clients, NEW i,
           DecideAdmit(c, i) \/ AdmitActive(c, i) \/ DecideCommit(c)
    PROVE  Spreads /\ UNCHANGED <<version, envelope, keyring>>
<1>1. \/ Goes(c, [cmd |-> "decide", at |-> "commit", enr |-> i])
      \/ Goes(c, [cmd |-> "decide", at |-> "load", enr |-> i])
      \/ Goes(c, [cmd |-> "decide", at |-> "load", enr |-> op[c].enr])
  BY Zenon DEF DecideAdmit, AdmitActive, DecideCommit, Begin
<1>2. UNCHANGED <<version, envelope, keyring, setups>>
  BY Zenon DEF DecideAdmit, AdmitActive, DecideCommit
<1>3. left' = left \/ (left > 0 /\ left' = left - 1)
  BY Zenon DEF DecideAdmit, AdmitActive, DecideCommit, Begin, CanBegin
<1>4. left' \in Nat
  BY <1>3 DEF KeysTyped
<1>5. \A x, y : DecideOp([cmd |-> "decide", at |-> x, enr |-> y])
  BY DEF DecideOp
<1>6. \E o : Goes(c, o) /\ DecideOp(o)
  BY Zenon, <1>1, <1>5
<1> QED BY <1>2, <1>4, <1>6, KeylessSpreads

\* The commands that begin a grant: of the current key, from the keychain.
LEMMA GrantBeginSpreads ==
    ASSUME KeysTyped, NEW c \in Clients, NEW r, LoadKey(c) \/ KeyGrant(c, r)
    PROVE  Spreads /\ UNCHANGED <<admissionVars, version, envelope, keyring>>
<1> DEFINE k == keyring[c][version]
<1>1. UNCHANGED <<admissionVars, version, envelope, keyring, setups>>
  BY Zenon DEF LoadKey, KeyGrant
<1>2. left' = left \/ (left > 0 /\ left' = left - 1)
  BY Zenon DEF LoadKey, KeyGrant, Begin, CanBegin
<1>3. left' \in Nat
  BY <1>2 DEF KeysTyped
<1>4. k \in Nat /\ version \in Versions /\ c \in Devices
  BY Constants DEF KeysTyped
<1>5. \/ Goes(c, Idle)
      \/ k # NoKey /\ \E todo : Goes(c, Granting(todo, version, k))
  BY Zenon DEF LoadKey, KeyGrant, Begin
<1>6. InUse(version, k)
  BY <1>4 DEF InUse
<1> HIDE DEF k
<1>7. CASE Goes(c, Idle)
  BY <1>1, <1>3, <1>7, KeylessSpreads
<1>8. ASSUME NEW todo, k # NoKey, Goes(c, Granting(todo, version, k)) PROVE Spreads
  <2>1. k \in Keys
    BY <1>4, <1>8 DEF Keys
  <2>2. /\ OpShape(Granting(todo, version, k))
        /\ \A v, j : Carries(Granting(todo, version, k), v, j) => v = version /\ j = k
    BY <1>4, <2>1, GrantingOp
  <2> QED BY <1>1, <1>3, <1>6, <1>8, <2>2, CommandSpreads
<1> QED BY <1>1, <1>5, <1>7, <1>8

\* The reads of a grant keep its key and version.
LEMMA GrantReadSpreads ==
    ASSUME KeysTyped, NEW c \in Clients, GrantGet(c) \/ GrantCheck(c)
    PROVE  Spreads /\ UNCHANGED <<admissionVars, version, envelope, keyring>>
<1>1. UNCHANGED <<admissionVars, version, envelope, keyring, left, setups>>
  BY Zenon DEF GrantGet, GrantCheck
<1>2. op[c].cmd = "grant" /\ OpShape(op[c])
  BY DEF GrantGet, GrantCheck, Running, KeysTyped
<1>3. GrantOp(op[c])
  BY SMTT(30), <1>2, OpKinds
<1>4. PICK x, y : Goes(c, [op[c] EXCEPT !.at = x, !.seen = y])
  <2>1. [op[c] EXCEPT !.at = "store"] = [op[c] EXCEPT !.at = "store", !.seen = op[c].seen]
    BY Zenon, <1>3 DEF GrantOp
  <2> QED BY Zenon, <2>1 DEF GrantGet, GrantCheck
<1> DEFINE m == [op[c] EXCEPT !.at = x]
           o == [op[c] EXCEPT !.at = x, !.seen = y]
<1>5. /\ GrantOp(o) /\ o.cmd = "grant" /\ o.ver = op[c].ver /\ o.key = op[c].key
  <2>1. GrantOp(m) /\ m.ver = op[c].ver /\ m.key = op[c].key
    BY <1>3 DEF GrantOp
  <2>2. o = [m EXCEPT !.seen = y]
    BY <1>3 DEF GrantOp
  <2> HIDE DEF m, o
  <2> QED BY <2>1, <2>2 DEF GrantOp
<1>6. Goes(c, o)
  BY <1>4
<1> HIDE DEF o
<1>7. \A v \in Versions, k \in Keys : Carries(o, v, k) => InUse(v, k)
  BY <1>2, <1>5 DEF Carries, InUse
<1>8. left' \in Nat /\ OpShape(o)
  BY <1>1, <1>5 DEF KeysTyped, OpShape
<1> QED BY <1>1, <1>6, <1>7, <1>8, CommandSpreads

\* A grant stores the key it carries.
LEMMA GrantStoreSpreads ==
    ASSUME KeysTyped, NEW c \in Clients, GrantStore(c)
    PROVE  /\ Spreads /\ UNCHANGED <<admissionVars, version, keyring>>
           /\ RecipientsKnown /\ IsRecipient(GrantTarget(c))
           /\ \A r \in Recipients : r # GrantTarget(c) => envelope'[r] = envelope[r]
<1> DEFINE ver == op[c].ver
           key == op[c].key
           o == Granting(Tail(op[c].todo), ver, key)
<1>1. /\ UNCHANGED <<admissionVars, version, keyring, left, setups>>
      /\ envelope' = [envelope EXCEPT ![GrantTarget(c)][ver] = key]
      /\ Goes(c, o)
      /\ RecipientsKnown /\ IsRecipient(GrantTarget(c))
  BY Zenon DEF GrantStore, Unchanged
<1>2. op[c].cmd = "grant" /\ OpShape(op[c])
  BY DEF GrantStore, Running, KeysTyped
<1>3. GrantOp(op[c])
  BY <1>2, OpKinds
<1>4. ver \in Versions /\ key \in Keys /\ key # NoKey /\ key \in Nat
  BY <1>3 DEF GrantOp, Keys
<1>5. /\ OpShape(o) /\ \A v, k : Carries(o, v, k) => v = ver /\ k = key
  BY <1>4, GrantingOp
<1>6. Carries(op[c], ver, key)
  BY <1>2 DEF Carries
<1> HIDE DEF o, ver, key
<1>7. /\ envelope' \in [Recipients -> [Versions -> Nat]]
      /\ \A r \in Recipients, v \in Versions :
           \/ envelope'[r][v] = envelope[r][v]
           \/ v = ver /\ envelope'[r][v] = key
      /\ \A r \in Recipients : r # GrantTarget(c) => envelope'[r] = envelope[r]
  BY Zenon, <1>1, <1>4 DEF KeysTyped
<1>8. /\ op' = [x \in Clients |-> op'[x]]
      /\ \A x \in Clients : OpShape(op'[x])
      /\ op'[c] = o
      /\ \A x \in Clients : x # c => op'[x] = op[x]
  BY <1>1, <1>5, OpStep
<1>9. KeysTyped'
  BY <1>1, <1>7, <1>8 DEF KeysTyped
<1>10. ASSUME NEW v \in Versions, NEW k \in Keys, InUse(v, k)'
       PROVE  InUse(v, k)
  <2>1. InUse(ver, key)
    BY <1>6 DEF InUse
  <2>2. CASE \E x \in Clients : Carries(op'[x], v, k)
    BY <1>5, <1>8, <2>1, <2>2 DEF InUse
  <2>3. CASE \E r \in Recipients : envelope'[r][v] = k
    BY <1>7, <2>1, <2>3 DEF InUse
  <2>4. CASE \E d \in Devices : keyring'[d][v] = k
    BY <1>1, <2>4 DEF InUse
  <2> QED BY <1>10, <2>2, <2>3, <2>4 DEF InUse
<1>11. Spreads
  BY <1>1, <1>4, <1>7, <1>9, <1>10 DEF Spreads
<1> QED BY <1>1, <1>7, <1>11

\* sync_workspace_key caches a key that is in an envelope.
LEMMA SyncSpreads ==
    ASSUME KeysTyped, NEW d \in Devices, Sync(d)
    PROVE  /\ Spreads /\ UNCHANGED <<admissionVars, version, envelope, op>>
           /\ Entitled(d)
           /\ \A x \in Devices : x # d => keyring'[x] = keyring[x]
<1> DEFINE r == Source(d)
           n == Newest(r)
<1>1. /\ UNCHANGED <<admissionVars, version, envelope, op, left, setups>>
      /\ keyring' = [keyring EXCEPT ![d][n] = envelope[r][n]]
      /\ Entitled(d)
  BY Zenon DEF Sync, Entitled
<1>2. r \in Recipients
  BY Constants DEF Source
<1> HIDE DEF n, r
<1>3. /\ keyring' \in [Devices -> [Versions -> Nat]]
      /\ \A x \in Devices, v \in Versions :
           keyring'[x][v] = keyring[x][v] \/ keyring'[x][v] = envelope[r][v]
      /\ \A x \in Devices : x # d => keyring'[x] = keyring[x]
  <2>1. CASE n \in Versions
    <3>1. envelope[r][n] \in Nat
      BY <1>2, <2>1 DEF KeysTyped
    <3> QED BY <1>1, <2>1, <3>1 DEF KeysTyped
  <2>2. CASE n \notin Versions
    <3>1. keyring' = keyring
      BY <1>1, <2>2 DEF KeysTyped
    <3> QED BY <3>1 DEF KeysTyped
  <2> QED BY <2>1, <2>2
<1>4. KeysTyped'
  BY <1>1, <1>3 DEF KeysTyped
<1>5. ASSUME NEW v \in Versions, NEW k \in Keys, InUse(v, k)'
      PROVE  InUse(v, k)
  <2>1. CASE \E x \in Devices : keyring'[x][v] = k
    BY <1>2, <1>3, <2>1 DEF InUse
  <2>2. CASE \/ \E x \in Recipients : envelope'[x][v] = k
             \/ \E c \in Clients : Carries(op'[c], v, k)
    BY <1>1, <2>2 DEF InUse
  <2> QED BY <1>5, <2>1, <2>2 DEF InUse
<1>6. Spreads
  BY <1>1, <1>4, <1>5 DEF Spreads
<1> QED BY <1>1, <1>3, <1>6

\* The steps of a rotation before its commit.
LEMMA RotateBeginSpreads ==
    ASSUME KeysTyped, NEW c \in Clients, RotateSnapshot(c) \/ RotatePost(c)
    PROVE  Spreads /\ UNCHANGED <<admissionVars, version, envelope, keyring>>
<1>1. UNCHANGED <<admissionVars, version, envelope, keyring, setups>>
  BY Zenon DEF RotateSnapshot, RotatePost
<1>2. CASE RotateSnapshot(c)
  <2> DEFINE o == [cmd |-> "rotate", at |-> "post", ver |-> version, key |-> left,
                   seen |-> Snapshot]
  <2>1. Goes(c, o) /\ left > 0 /\ left' = left - 1 /\ version < MaxVersion
    BY Zenon, <1>2 DEF RotateSnapshot, Begin, CanBegin
  <2>2. left' \in Nat /\ left \in Nat \ {NoKey} /\ version \in Versions
    BY <2>1 DEF KeysTyped, NoKey
  <2>3. RotateOp(o) /\ o.at # "save"
    BY <2>1, <2>2 DEF RotateOp
  <2> HIDE DEF o
  <2> QED BY <1>1, <2>1, <2>2, <2>3, KeylessSpreads
<1>3. CASE RotatePost(c)
  <2> DEFINE o == [op[c] EXCEPT !.at = "commit"]
  <2>1. Goes(c, o) /\ op[c].cmd = "rotate" /\ left' = left /\ OpShape(op[c])
    BY <1>3 DEF RotatePost, Running, KeysTyped
  <2>2. RotateOp(op[c])
    BY <2>1, OpKinds
  <2>3. RotateOp(o) /\ o.at # "save"
    BY <2>2 DEF RotateOp
  <2>4. left' \in Nat
    BY <2>1 DEF KeysTyped
  <2> HIDE DEF o
  <2> QED BY <1>1, <2>1, <2>3, <2>4, KeylessSpreads
<1> QED BY <1>1, <1>2, <1>3

\* The Device that rotated keeps the key once it is confirmed.
LEMMA RotateSaveSpreads ==
    ASSUME KeysTyped, NEW c \in Clients, RotateSave(c)
    PROVE  /\ Spreads /\ UNCHANGED <<admissionVars, version, envelope>>
           /\ \A d \in Devices, v \in Versions :
                keyring'[d][v] # keyring[d][v] => d = c /\ v = op[c].ver + 1
           /\ RotateOp(op[c]) /\ op[c].at = "save"
<1> DEFINE n == op[c].ver + 1
           key == op[c].key
<1>1. /\ UNCHANGED <<admissionVars, version, envelope, left, setups>>
      /\ keyring' = [keyring EXCEPT ![c][n] = key]
      /\ Goes(c, Idle)
  BY Zenon DEF RotateSave
<1>2. op[c].cmd = "rotate" /\ op[c].at = "save" /\ OpShape(op[c])
  BY DEF RotateSave, Running, KeysTyped
<1>3. RotateOp(op[c])
  BY <1>2, OpKinds
<1>4. n \in Versions /\ key \in Nat /\ c \in Devices
  BY <1>3, Constants DEF RotateOp, Versions
<1>5. InUse(n, key)
  BY <1>2 DEF InUse, Carries
<1> HIDE DEF n, key
<1>6. /\ keyring' \in [Devices -> [Versions -> Nat]]
      /\ \A x \in Devices, v \in Versions :
           keyring'[x][v] = IF x = c /\ v = n THEN key ELSE keyring[x][v]
  BY <1>1, <1>4 DEF KeysTyped
<1>7. /\ op' = [x \in Clients |-> op'[x]]
      /\ \A x \in Clients : OpShape(op'[x])
      /\ op'[c] = Idle
      /\ \A x \in Clients : x # c => op'[x] = op[x]
  BY <1>1, OpStep DEF OpShape
<1>8. KeysTyped'
  BY <1>1, <1>6, <1>7 DEF KeysTyped
<1>9. ASSUME NEW v \in Versions, NEW k \in Keys, InUse(v, k)'
      PROVE  InUse(v, k)
  <2>1. CASE \E x \in Devices : keyring'[x][v] = k
    BY <1>5, <1>6, <2>1 DEF InUse
  <2>2. CASE \E x \in Recipients : envelope'[x][v] = k
    BY <1>1, <2>2 DEF InUse
  <2>3. CASE \E x \in Clients : Carries(op'[x], v, k)
    BY <1>7, <2>3, CarryNothing DEF InUse
  <2> QED BY <1>9, <2>1, <2>2, <2>3 DEF InUse
<1>10. Spreads
  BY <1>1, <1>8, <1>9 DEF Spreads
<1>11. \A d \in Devices, v \in Versions : keyring'[d][v] # keyring[d][v] => d = c /\ v = n
  BY <1>6
<1> QED BY <1>1, <1>2, <1>3, <1>10, <1>11 DEF n

\* A command that is refused or killed, and a step of no command.
LEMMA OtherSpreads ==
    ASSUME KeysTyped,
           \/ \E c \in Clients : Refused(c) \/ Crash(c)
           \/ UNCHANGED keyVars
    PROVE  Spreads /\ UNCHANGED <<version, envelope, keyring>>
<1>1. ASSUME NEW c \in Clients, Refused(c) \/ Crash(c)
      PROVE  Spreads /\ UNCHANGED <<version, envelope, keyring>>
  <2>1. Goes(c, Idle) /\ UNCHANGED <<version, envelope, keyring, left, setups>>
    BY Zenon, <1>1 DEF Refused, Crash
  <2>2. left' \in Nat
    BY <2>1 DEF KeysTyped
  <2> QED BY <2>1, <2>2, KeylessSpreads
<1>2. CASE UNCHANGED keyVars
  BY <1>2 DEF keyVars, KeysTyped, InUse, Spreads
<1> QED BY <1>1, <1>2

-----------------------------------------------------------------------------
(* The steps that make a key *)

\* A recipient that has an envelope has a newest one.
LEMMA NewestExists ==
    ASSUME KeysTyped, NEW r \in Recipients, NEW v \in Versions, envelope[r][v] # NoKey
    PROVE  Newest(r) \in Versions
<1> DEFINE held == {x \in Versions : envelope[r][x] # NoKey}
           gaps == {MaxVersion - x : x \in held}
<1>1. MaxVersion \in Nat /\ \A x \in held : x \in 1..MaxVersion
  BY Constants DEF Versions
<1>2. gaps \subseteq Nat /\ gaps # {}
  BY <1>1
<1>3. PICK g \in gaps : \A y \in gaps : ~(<<y, g>> \in {ss \in Nat \X Nat : ss[1] < ss[2]})
  BY Zenon, <1>2, NatLessThanWellFounded, WFMin DEF OpToRel
<1>4. \A y \in gaps : ~(y < g)
  BY Zenon, <1>2, <1>3
<1>5. PICK n \in held : g = MaxVersion - n
  BY <1>3
<1>6. \A x \in held : x <= n
  <2> SUFFICES ASSUME NEW x \in held PROVE x <= n
    OBVIOUS
  <2>1. MaxVersion - x \in gaps
    OBVIOUS
  <2>2. ~(MaxVersion - x < MaxVersion - n)
    BY Zenon, <1>4, <1>5, <2>1
  <2>3. MaxVersion \in Nat /\ x \in 1..MaxVersion /\ n \in 1..MaxVersion
    BY Zenon, <1>1, <1>5
  <2> HIDE DEF gaps, held
  <2> QED BY <2>2, <2>3
<1>7. held # {} /\ \E x \in held : \A y \in held : y <= x
  BY <1>6
<1> HIDE DEF gaps
<1> QED BY <1>7 DEF Newest

\* setup makes a key for the current version, on a Device with standing that
\* could fetch none; its User has no envelope at all then.
LEMMA InitializeMakes ==
    ASSUME KeysTyped, NEW c \in Clients, Initialize(c)
    PROVE  /\ KeysTyped' /\ UNCHANGED <<admissionVars, version, envelope>>
           /\ setups < MaxSetups /\ setups' = setups + 1
           /\ \A v \in Versions : envelope[Owner][v] = NoKey
           /\ Entitled(c)
           /\ \A d \in Devices : d # c => keyring'[d] = keyring[d]
           /\ \A v \in Versions, k \in Keys :
                InUse(v, k)' => InUse(v, k) \/ (v = version /\ k = left)
<1> DEFINE o == Granting(<<UserOf[c], c>>, version, left)
<1>1. /\ UNCHANGED <<admissionVars, version, envelope>>
      /\ setups < MaxSetups /\ setups' = setups + 1
      /\ keyring' = [keyring EXCEPT ![c][version] = left]
      /\ Goes(c, o) /\ left > 0 /\ left' = left - 1
      /\ Newest(Source(c)) = 0
  BY Zenon DEF Initialize, Begin, CanBegin
<1>2. Entitled(c)
  BY DEF Initialize, CanBegin, Sends, IsOwner, Entitled
<1>3. /\ c \in Devices /\ UserOf[c] = Owner /\ Owner \in Recipients
      /\ version \in Versions /\ left \in Keys /\ left' \in Nat /\ setups' \in Nat
  BY <1>1, Constants DEF KeysTyped, Keys, NoKey
<1>4. /\ OpShape(o) /\ \A v, k : Carries(o, v, k) => v = version /\ k = left
  BY <1>3, GrantingOp
<1> HIDE DEF o
<1>5. Newest(Owner) = 0
  BY <1>1, <1>3 DEF Source
<1>6. \A v \in Versions : envelope[Owner][v] = NoKey
  BY <1>3, <1>5, NewestExists DEF Versions
<1>7. /\ keyring' \in [Devices -> [Versions -> Nat]]
      /\ \A x \in Devices, v \in Versions :
           keyring'[x][v] = IF x = c /\ v = version THEN left ELSE keyring[x][v]
      /\ \A x \in Devices : x # c => keyring'[x] = keyring[x]
  BY <1>1, <1>3 DEF KeysTyped
<1>8. /\ op' = [x \in Clients |-> op'[x]]
      /\ \A x \in Clients : OpShape(op'[x])
      /\ op'[c] = o
      /\ \A x \in Clients : x # c => op'[x] = op[x]
  BY <1>1, <1>4, OpStep
<1>9. KeysTyped'
  BY <1>1, <1>3, <1>7, <1>8 DEF KeysTyped
<1>10. ASSUME NEW v \in Versions, NEW k \in Keys, InUse(v, k)'
       PROVE  InUse(v, k) \/ (v = version /\ k = left)
  <2>1. CASE \E x \in Devices : keyring'[x][v] = k
    BY <1>7, <2>1 DEF InUse
  <2>2. CASE \E x \in Recipients : envelope'[x][v] = k
    BY <1>1, <2>2 DEF InUse
  <2>3. CASE \E x \in Clients : Carries(op'[x], v, k)
    BY <1>4, <1>8, <2>3 DEF InUse
  <2> QED BY <1>10, <2>1, <2>2, <2>3 DEF InUse
<1> QED BY <1>1, <1>2, <1>6, <1>7, <1>9, <1>10

\* The commit of a rotation makes a key for the next version, and stores it for
\* every recipient, the Owner among them.
LEMMA CommitMakes ==
    ASSUME KeysTyped, NEW c \in Clients, RotateCommit(c)
    PROVE  /\ KeysTyped' /\ UNCHANGED <<admissionVars, keyring, setups>>
           /\ version' = version + 1 /\ version' \in Versions
           /\ RecipientsKnown /\ RotateOp(op[c]) /\ op[c].ver = version
           /\ \A r \in Recipients :
                IF IsRecipient(r) THEN /\ envelope'[r][version'] = op[c].key
                                       /\ \A v \in Versions : v # version' =>
                                            envelope'[r][v] = envelope[r][v]
                                  ELSE envelope'[r] = envelope[r]
           /\ \A r \in Recipients : envelope[r][version'] = NoKey
           /\ IsRecipient(Owner) /\ DOMAIN op[c].seen = RecipientSet
           /\ \A v \in Versions, k \in Keys :
                InUse(v, k)' => InUse(v, k) \/ (v = version' /\ k = op[c].key)
<1> DEFINE n == version + 1
           key == op[c].key
           o == [op[c] EXCEPT !.at = "save"]
<1>1. /\ UNCHANGED <<admissionVars, keyring, left, setups>>
      /\ version' = n
      /\ envelope' = [r \in Recipients |->
                        IF r \in RecipientSet THEN [envelope[r] EXCEPT ![n] = key]
                                              ELSE envelope[r]]
      /\ Goes(c, o)
      /\ IsOwner(UserOf[c]) /\ RecipientsKnown /\ Snapshot = op[c].seen
      /\ version = op[c].ver
      /\ \A r \in Recipients : envelope[r][n] = NoKey
  BY Zenon DEF RotateCommit, CanRotate
<1>2. op[c].cmd = "rotate" /\ OpShape(op[c])
  BY DEF RotateCommit, Running, KeysTyped
<1>3. RotateOp(op[c])
  BY <1>2, OpKinds
<1>4. /\ n \in Versions /\ key \in Keys /\ key \in Nat
      /\ UserOf[c] = Owner /\ Holder(Owner) = Owner /\ Owner \in Users /\ Owner \notin Devices
  BY <1>1, <1>3, Constants, KeyBoundsAssumption DEF RotateOp, Versions, Keys, KeyBounds
<1>5. RotateOp(o) /\ o.cmd = "rotate" /\ o.ver = op[c].ver /\ o.key = key
  BY <1>3 DEF RotateOp
<1>6. OpShape(o) /\ \A v, k : Carries(o, v, k) => v = n /\ k = key
  BY <1>1, <1>5 DEF OpShape, Carries
<1>7. IsRecipient(Owner) /\ DOMAIN op[c].seen = RecipientSet
  BY <1>1, <1>4 DEF IsRecipient, IsOwner, Snapshot
<1> HIDE DEF n, key, o
<1>8. /\ envelope' \in [Recipients -> [Versions -> Nat]]
      /\ \A r \in Recipients, v \in Versions :
           envelope'[r][v] = IF IsRecipient(r) /\ v = n THEN key ELSE envelope[r][v]
      /\ \A r \in Recipients : ~IsRecipient(r) => envelope'[r] = envelope[r]
  BY <1>1, <1>4 DEF KeysTyped, RecipientSet
<1>9. /\ op' = [x \in Clients |-> op'[x]]
      /\ \A x \in Clients : OpShape(op'[x])
      /\ op'[c] = o
      /\ \A x \in Clients : x # c => op'[x] = op[x]
  BY <1>1, <1>6, OpStep
<1>10. KeysTyped'
  BY <1>1, <1>4, <1>8, <1>9 DEF KeysTyped
<1>11. ASSUME NEW v \in Versions, NEW k \in Keys, InUse(v, k)'
       PROVE  InUse(v, k) \/ (v = version' /\ k = key)
  <2>1. CASE \E x \in Devices : keyring'[x][v] = k
    BY <1>1, <2>1 DEF InUse
  <2>2. CASE \E x \in Recipients : envelope'[x][v] = k
    BY <1>1, <1>8, <2>2 DEF InUse
  <2>3. CASE \E x \in Clients : Carries(op'[x], v, k)
    BY <1>1, <1>6, <1>9, <2>3 DEF InUse
  <2> QED BY <1>11, <2>1, <2>2, <2>3 DEF InUse
<1>12. \A r \in Recipients :
         IF IsRecipient(r) THEN /\ envelope'[r][version'] = key
                                /\ \A v \in Versions : v # version' =>
                                     envelope'[r][v] = envelope[r][v]
                           ELSE envelope'[r] = envelope[r]
  BY <1>1, <1>4, <1>8
<1>13. version' = version + 1 /\ version' \in Versions
       /\ \A r \in Recipients : envelope[r][version'] = NoKey
  BY <1>1, <1>4 DEF n
<1> QED BY <1>1, <1>3, <1>7, <1>10, <1>11, <1>12, <1>13 DEF key

-----------------------------------------------------------------------------
(* A version is one key *)

\* What every step of the system does with keys.
LEMMA KeySteps ==
    ASSUME KeysTyped, [Next]_vars
    PROVE  \/ Spreads
           \/ \E c \in Clients : Initialize(c) \/ RotateCommit(c)
<1>1. CASE UNCHANGED vars \/ (AdmissionStep /\ UNCHANGED keyVars)
  BY <1>1, OtherSpreads DEF vars
<1>2. ASSUME NEW c \in Clients, EnsureSelfAdmission(c) PROVE Spreads
  BY <1>2, OtherSpreads DEF EnsureSelfAdmission
<1>3. ASSUME NEW c \in Clients, NEW i \in Enrollments, DecideAdmit(c, i) \/ AdmitActive(c, i)
      PROVE  Spreads
  BY <1>3, DecideSpreads
<1>4. ASSUME NEW c \in Clients, DecideCommit(c) PROVE Spreads
  BY <1>4, DecideSpreads
<1>5. ASSUME NEW c \in Clients, LoadKey(c) \/ \E r \in Recipients : KeyGrant(c, r)
      PROVE  Spreads
  BY <1>5, GrantBeginSpreads
<1>6. ASSUME NEW c \in Clients, GrantGet(c) \/ GrantCheck(c) PROVE Spreads
  BY <1>6, GrantReadSpreads
<1>7. ASSUME NEW c \in Clients, GrantStore(c) PROVE Spreads
  BY <1>7, GrantStoreSpreads
<1>8. ASSUME NEW c \in Clients, RotateSnapshot(c) \/ RotatePost(c) PROVE Spreads
  BY <1>8, RotateBeginSpreads
<1>9. ASSUME NEW c \in Clients, RotateSave(c) PROVE Spreads
  BY <1>9, RotateSaveSpreads
<1>10. ASSUME NEW c \in Clients, Refused(c) \/ Crash(c) PROVE Spreads
  BY <1>10, OtherSpreads
<1>11. ASSUME NEW d \in Devices, Sync(d) PROVE Spreads
  BY <1>11, SyncSpreads
<1> QED
  BY Zenon, <1>1, <1>2, <1>3, <1>4, <1>5, <1>6, <1>7, <1>8, <1>9, <1>10, <1>11
     DEF Next, KeyStep

\* Nothing circulates for a version that is not yet current.
CurrentOnly == \A v \in Versions, k \in Keys : InUse(v, k) => v <= version

\* The types of the key tables, and no key ahead of the version.
Ages == KeysTyped /\ CurrentOnly

\* The initial state holds no key at all.
LEMMA InitKeys ==
    ASSUME Init
    PROVE  KeysTyped /\ \A v \in Versions, k \in Keys : ~InUse(v, k)
<1>1. KeysTyped
  BY Constants, KeyBoundsAssumption DEF Init, KeysTyped, OpShape, NoKey, KeyBounds
<1>2. \A v \in Versions, k \in Keys : ~InUse(v, k)
  BY CarryNothing DEF Init, InUse, Keys, NoKey
<1> QED BY <1>1, <1>2

\* A key is in circulation only for the current version and older ones.
LEMMA StepAges ==
    ASSUME Ages, [Next]_vars
    PROVE  Ages'
<1>1. KeysTyped /\ CurrentOnly
  BY DEF Ages
<1>2. ASSUME Spreads PROVE Ages'
  BY <1>1, <1>2 DEF Spreads, Ages, CurrentOnly
<1>3. ASSUME NEW c \in Clients, Initialize(c) PROVE Ages'
  <2>1. /\ KeysTyped' /\ version' = version
        /\ \A v \in Versions, k \in Keys :
             InUse(v, k)' => InUse(v, k) \/ (v = version /\ k = left)
    BY <1>1, <1>3, InitializeMakes
  <2> QED BY <1>1, <2>1 DEF Ages, CurrentOnly, KeysTyped, Versions
<1>4. ASSUME NEW c \in Clients, RotateCommit(c) PROVE Ages'
  <2>1. /\ KeysTyped' /\ version' = version + 1
        /\ \A v \in Versions, k \in Keys :
             InUse(v, k)' => InUse(v, k) \/ (v = version' /\ k = op[c].key)
    BY <1>1, <1>4, CommitMakes
  <2>2. version \in Nat /\ \A v \in Versions : v \in Nat
    BY <1>1 DEF KeysTyped, Versions
  <2>3. CurrentOnly'
    BY <1>1, <2>1, <2>2 DEF CurrentOnly
  <2> QED BY <2>1, <2>3 DEF Ages
<1> QED BY <1>1, <1>2, <1>3, <1>4, KeySteps

\* At most one key circulates for a version that a rotation has made, in
\* envelopes, keyrings and commands.
OneKey ==
    \A v \in Versions, j \in Keys, k \in Keys : InUse(v, j) /\ InUse(v, k) => j = k \/ v = 1

\* The keys that circulate for the first version.
FirstKeys == {k \in Keys : InUse(1, k)}

\* No more of them than setups have created.
FewFirstKeys == IsFiniteSet(FirstKeys) /\ Cardinality(FirstKeys) <= setups

\* What makes a setup impossible once there was a rotation: the Owner has an
\* envelope to fetch.
OwnerFetches == version # 1 => Owner \in Recipients /\ envelope[Owner][version] # NoKey

\* The inductive invariant behind OneKeyPerVersion.
KInv == Ages /\ OneKey /\ FewFirstKeys /\ OwnerFetches

\* A step that brings no key into circulation for the first version.
LEMMA FirstKeysShrink ==
    ASSUME KInv, setups' = setups, \A k \in Keys : InUse(1, k)' => InUse(1, k)
    PROVE  FewFirstKeys'
<1>1. FirstKeys' \subseteq FirstKeys
  BY DEF FirstKeys
<1>2. IsFiniteSet(FirstKeys) /\ Cardinality(FirstKeys) <= setups /\ setups \in Nat
  BY DEF KInv, FewFirstKeys, Ages, KeysTyped
<1> HIDE DEF FirstKeys
<1>3. IsFiniteSet(FirstKeys') /\ Cardinality(FirstKeys') <= Cardinality(FirstKeys)
  BY <1>1, <1>2, FS_Subset
<1>4. Cardinality(FirstKeys) \in Nat /\ Cardinality(FirstKeys') \in Nat
  BY <1>2, <1>3, FS_CardinalityType
<1>5. Cardinality(FirstKeys') <= setups'
  BY <1>2, <1>3, <1>4
<1> QED BY <1>3, <1>5 DEF FewFirstKeys

\* A setup brings one key into circulation for the first version, and counts.
LEMMA FirstKeysGrow ==
    ASSUME KInv, setups' = setups + 1, NEW x,
           \A k \in Keys : InUse(1, k)' => InUse(1, k) \/ k = x
    PROVE  FewFirstKeys'
<1> DEFINE S == FirstKeys \cup {x}
<1>1. FirstKeys' \subseteq S
  BY DEF FirstKeys
<1>2. IsFiniteSet(FirstKeys) /\ Cardinality(FirstKeys) <= setups /\ setups \in Nat
  BY DEF KInv, FewFirstKeys, Ages, KeysTyped
<1> HIDE DEF FirstKeys
<1>3. /\ IsFiniteSet(S)
      /\ Cardinality(S) = IF x \in FirstKeys THEN Cardinality(FirstKeys)
                          ELSE Cardinality(FirstKeys) + 1
  BY <1>2, FS_AddElement
<1> HIDE DEF S
<1>4. IsFiniteSet(FirstKeys') /\ Cardinality(FirstKeys') <= Cardinality(S)
  BY <1>1, <1>3, FS_Subset
<1>5. /\ Cardinality(FirstKeys) \in Nat /\ Cardinality(S) \in Nat
      /\ Cardinality(FirstKeys') \in Nat
  BY <1>2, <1>3, <1>4, FS_CardinalityType
<1>6. Cardinality(S) <= setups + 1
  BY <1>2, <1>3, <1>5
<1>7. Cardinality(FirstKeys') <= setups'
  BY <1>2, <1>4, <1>5, <1>6
<1> QED BY <1>4, <1>7 DEF FewFirstKeys

\* Every step keeps one key per version that a rotation has made, and counts
\* the first keys.
LEMMA StepKeys ==
    ASSUME KInv, [Next]_vars
    PROVE  KInv'
<1>1. Ages'
  BY StepAges DEF KInv
<1>2. KeysTyped /\ KeysTyped' /\ OneKey /\ OwnerFetches /\ Ages
  BY <1>1 DEF KInv, Ages
<1>0. 1 \in Versions
  BY Constants
<1>3. CASE Spreads
  <2>1. OneKey'
    BY <1>2, <1>3 DEF Spreads, OneKey
  <2>2. version' = version /\ setups' = setups
    BY <1>3 DEF Spreads
  <2>3. OwnerFetches'
    BY <1>2, <1>3, <2>2 DEF Spreads, OwnerFetches, KeysTyped
  <2>4. FewFirstKeys'
    <3>1. \A k \in Keys : InUse(1, k)' => InUse(1, k)
      BY <1>0, <1>3 DEF Spreads
    <3> QED BY <2>2, <3>1, FirstKeysShrink
  <2> QED BY <1>1, <2>1, <2>3, <2>4 DEF KInv
<1>4. ASSUME NEW c \in Clients, Initialize(c) PROVE KInv'
  <2>1. /\ UNCHANGED <<version, envelope>>
        /\ setups' = setups + 1
        /\ \A v \in Versions : envelope[Owner][v] = NoKey
        /\ \A v \in Versions, k \in Keys :
             InUse(v, k)' => InUse(v, k) \/ (v = version /\ k = left)
    BY <1>2, <1>4, InitializeMakes
  <2>2. version = 1
    BY <1>2, <2>1 DEF OwnerFetches, KeysTyped
  <2>3. OneKey'
    BY <1>2, <2>1, <2>2 DEF OneKey
  <2>4. OwnerFetches'
    BY <2>1, <2>2 DEF OwnerFetches
  <2>5. FewFirstKeys'
    <3>1. \A k \in Keys : InUse(1, k)' => InUse(1, k) \/ k = left
      BY <1>0, <2>1
    <3> QED BY <2>1, <3>1, FirstKeysGrow
  <2> QED BY <1>1, <2>3, <2>4, <2>5 DEF KInv
<1>5. ASSUME NEW c \in Clients, RotateCommit(c) PROVE KInv'
  <2>1. /\ version' = version + 1 /\ RotateOp(op[c]) /\ IsRecipient(Owner)
        /\ setups' = setups
        /\ \A r \in Recipients : IsRecipient(r) => envelope'[r][version'] = op[c].key
        /\ \A v \in Versions, k \in Keys :
             InUse(v, k)' => InUse(v, k) \/ (v = version' /\ k = op[c].key)
    BY <1>2, <1>5, CommitMakes
  <2>2. Owner \in Recipients /\ op[c].key # NoKey
    BY <2>1, Constants DEF RotateOp
  <2>3. \A k \in Keys, v \in Versions : v = version' => ~InUse(v, k)
    BY <1>2, <2>1 DEF Ages, CurrentOnly, KeysTyped, Versions
  <2>4. OneKey'
    BY <1>2, <2>1, <2>3 DEF OneKey
  <2>5. OwnerFetches'
    BY <1>2, <2>1, <2>2 DEF OwnerFetches, KeysTyped, Versions
  <2>6. FewFirstKeys'
    <3>1. version' # 1
      BY <1>2, <2>1 DEF KeysTyped, Versions
    <3>2. \A k \in Keys : InUse(1, k)' => InUse(1, k)
      BY <1>0, <2>1, <3>1
    <3> QED BY <2>1, <3>2, FirstKeysShrink
  <2> QED BY <1>1, <2>4, <2>5, <2>6 DEF KInv
<1> QED BY <1>2, <1>3, <1>4, <1>5, KeySteps

\* Keys that are the same are one key.
LEMMA OneKeySuffices ==
    ASSUME KInv
    PROVE  OneKeyPerVersion
<1> SUFFICES ASSUME NEW v \in Versions
             PROVE  Cardinality(({envelope[r][v] : r \in Recipients}
                       \cup {keyring[d][v] : d \in Devices}) \ {NoKey})
                         <= IF v = 1 THEN setups ELSE 1
  BY DEF OneKeyPerVersion
<1> DEFINE S == ({envelope[r][v] : r \in Recipients}
                    \cup {keyring[d][v] : d \in Devices}) \ {NoKey}
<1>1. \A k \in S : k \in Keys /\ InUse(v, k)
  BY DEF KInv, Ages, KeysTyped, Keys, InUse
<1> HIDE DEF S
<1>2. CASE v = 1
  <2>1. S \subseteq FirstKeys
    BY <1>1, <1>2 DEF FirstKeys
  <2>2. IsFiniteSet(FirstKeys) /\ Cardinality(FirstKeys) <= setups /\ setups \in Nat
    BY DEF KInv, FewFirstKeys, Ages, KeysTyped
  <2>3. IsFiniteSet(S) /\ Cardinality(S) <= Cardinality(FirstKeys)
    BY <2>1, <2>2, FS_Subset
  <2>4. Cardinality(S) \in Nat /\ Cardinality(FirstKeys) \in Nat
    BY <2>2, <2>3, FS_CardinalityType
  <2>5. Cardinality(S) <= setups
    BY <2>2, <2>3, <2>4
  <2> QED BY <1>2, <2>5 DEF S
<1>3. CASE v # 1
  <2>1. \A j, k \in S : j = k
    BY Zenon, <1>1, <1>3 DEF KInv, OneKey
  <2>2. ASSUME S = {} PROVE Cardinality(S) <= 1
    BY <2>2, FS_EmptySet
  <2>3. ASSUME NEW k \in S PROVE Cardinality(S) <= 1
    <3>1. S = {k}
      BY <2>1
    <3> QED BY <3>1, FS_Singleton
  <2>4. Cardinality(S) <= 1
    BY <2>2, <2>3
  <2> QED BY <1>3, <2>4 DEF S
<1> QED BY <1>2, <1>3

\* No version that a rotation has made is ever two keys, and the first one is
\* no more keys than setups have created: whatever Users, Devices and
\* enrollments there are, and however the commands of the Owner's Devices
\* interleave.
THEOREM VersionsAreOneKey == Spec => []OneKeyPerVersion
<1>1. Init => KInv
  <2> SUFFICES ASSUME Init PROVE KInv
    OBVIOUS
  <2>1. KeysTyped /\ \A v \in Versions, k \in Keys : ~InUse(v, k)
    BY InitKeys
  <2>2. version = 1 /\ setups = 0
    BY DEF Init
  <2>3. FirstKeys = {}
    BY <2>1, Constants DEF FirstKeys
  <2>4. FewFirstKeys
    BY <2>2, <2>3, FS_EmptySet DEF FewFirstKeys
  <2> QED BY <2>1, <2>2, <2>4 DEF KInv, Ages, CurrentOnly, OneKey, OwnerFetches
<1>2. KInv /\ [Next]_vars => KInv'
  BY StepKeys
<1>3. KInv => OneKeyPerVersion
  BY OneKeySuffices
<1> QED BY <1>1, <1>2, <1>3, PTL DEF Spec

-----------------------------------------------------------------------------
(* A Device without standing gets no newer key *)

\* The newest version whose key a Device may come to hold.
Reach(d) == IF Entitled(d) THEN version ELSE cut[d]

\* A rotation was begun by a Device among its recipients, and once committed
\* its key is one the Device may have.
RotationsOk ==
    \A c \in Clients : op[c].cmd = "rotate" =>
        /\ c \in DOMAIN op[c].seen
        /\ op[c].at = "save" => op[c].ver + 1 <= Reach(c)

\* A Device holds no key beyond its reach.
Within ==
    \A d \in Devices, v \in Versions :
        keyring[d][v] # NoKey \/ envelope[d][v] # NoKey => v <= Reach(d)

\* The inductive invariant behind LockedOut.
LInv ==
    /\ Ages
    /\ cut \in [Devices -> Nat] /\ \A d \in Devices : cut[d] <= version
    /\ RotationsOk
    /\ Within

\* What a step may write, and which rotations it may leave.
Allows ==
    /\ \A d \in Devices, v \in Versions :
          keyring'[d][v] # keyring[d][v] \/ envelope'[d][v] # envelope[d][v]
            => v <= Reach(d)'
    /\ \A c \in Clients : op'[c] # op[c] /\ op'[c].cmd = "rotate" =>
          /\ c \in DOMAIN op'[c].seen
          /\ op'[c].at = "save" => op'[c].ver + 1 <= Reach(c)'

\* What a Device may come to hold only grows: losing its standing leaves it
\* what there was, gaining it again gives it what there is.
LEMMA ReachGrows ==
    ASSUME LInv, Next, NEW d \in Devices
    PROVE  /\ Reach(d) \in Nat /\ Reach(d)' \in Nat
           /\ Reach(d) <= Reach(d)' /\ Reach(d)' <= version'
           /\ cut'[d] \in Nat /\ cut'[d] <= version'
<1>1. KeysTyped /\ KeysTyped'
  BY StepAges DEF LInv, Ages
<1>2. version \in Nat /\ version' \in Nat /\ version <= version'
  <2>1. version' = version \/ version' = version + 1
    BY <1>1, KeySteps, InitializeMakes, CommitMakes DEF Spreads
  <2> QED BY <1>1, <2>1 DEF KeysTyped, Versions
<1>3. cut'[d] = IF Entitled(d)' THEN 0 ELSE IF Entitled(d) THEN version ELSE cut[d]
  BY DEF Next
<1>4. cut[d] \in Nat /\ cut[d] <= version
  BY DEF LInv
<1>5. Reach(d) \in Nat /\ Reach(d) <= version
  BY <1>2, <1>4 DEF Reach
<1>6. Reach(d)' = IF Entitled(d)' THEN version' ELSE Reach(d)
  BY <1>3 DEF Reach
<1>7. Reach(d)' \in Nat /\ Reach(d) <= Reach(d)' /\ Reach(d)' <= version'
  BY <1>2, <1>5, <1>6
<1>8. cut'[d] \in Nat /\ cut'[d] <= version'
  BY <1>2, <1>3, <1>4
<1> QED BY <1>5, <1>7, <1>8

\* So a step that writes only what it may keeps every Device within its reach.
LEMMA AllowedSteps ==
    ASSUME LInv, Next, Allows
    PROVE  LInv'
<1>1. Ages'
  BY StepAges DEF LInv
<1>2. KeysTyped /\ KeysTyped'
  BY <1>1 DEF LInv, Ages
<1>3. \A d \in Devices : /\ Reach(d) \in Nat /\ Reach(d)' \in Nat
                         /\ Reach(d) <= Reach(d)'
                         /\ cut'[d] \in Nat /\ cut'[d] <= version'
  BY ReachGrows
<1>4. cut' \in [Devices -> Nat] /\ \A d \in Devices : cut'[d] <= version'
  BY <1>3 DEF Next
<1>5. RotationsOk'
  <2> SUFFICES ASSUME NEW c \in Clients, op'[c].cmd = "rotate"
               PROVE  /\ c \in DOMAIN op'[c].seen
                      /\ op'[c].at = "save" => op'[c].ver + 1 <= Reach(c)'
    BY DEF RotationsOk
  <2>1. CASE op'[c] # op[c]
    BY <2>1 DEF Allows
  <2>2. CASE op'[c] = op[c]
    <3>1. op[c].ver \in Nat
      <4>1. OpShape(op[c]) /\ op[c].cmd = "rotate"
        BY <1>2, <2>2 DEF KeysTyped
      <4>2. RotateOp(op[c])
        BY <4>1, OpKinds
      <4> QED BY <4>2 DEF RotateOp, Versions
    <3>2. /\ c \in DOMAIN op[c].seen
          /\ op[c].at = "save" => op[c].ver + 1 <= Reach(c)
      BY <2>2 DEF LInv, RotationsOk
    <3>3. Reach(c) \in Nat /\ Reach(c)' \in Nat /\ Reach(c) <= Reach(c)'
      BY <1>3, Constants
    <3> QED BY <2>2, <3>1, <3>2, <3>3
  <2> QED BY <2>1, <2>2
<1>6. Within'
  <2> SUFFICES ASSUME NEW d \in Devices, NEW v \in Versions,
                      keyring'[d][v] # NoKey \/ envelope'[d][v] # NoKey
               PROVE  v <= Reach(d)'
    BY DEF Within
  <2>1. CASE keyring'[d][v] # keyring[d][v] \/ envelope'[d][v] # envelope[d][v]
    BY <2>1 DEF Allows
  <2>2. CASE keyring'[d][v] = keyring[d][v] /\ envelope'[d][v] = envelope[d][v]
    <3>1. v <= Reach(d)
      BY <2>2 DEF LInv, Within
    <3> QED BY <1>3, <3>1 DEF Versions
  <2> QED BY <2>1, <2>2
<1> QED BY <1>1, <1>4, <1>5, <1>6 DEF LInv

\* A step of a command that is no rotation, and that writes no key.
LEMMA QuietAllows ==
    ASSUME KeysTyped, UNCHANGED <<envelope, keyring>>,
           op' = op \/ \E c \in Clients : \E o : Goes(c, o) /\ o.cmd # "rotate"
    PROVE  Allows
  BY DEF Allows, KeysTyped, Goes

\* The steps of commands that write nothing and are no rotations.
LEMMA OtherAllows ==
    ASSUME KeysTyped, NEW c \in Clients,
           \/ \E i \in Enrollments : DecideAdmit(c, i) \/ AdmitActive(c, i)
           \/ DecideCommit(c) \/ LoadKey(c) \/ \E r \in Recipients : KeyGrant(c, r)
           \/ GrantGet(c) \/ GrantCheck(c) \/ Refused(c) \/ Crash(c)
    PROVE  Allows
<1>1. UNCHANGED <<envelope, keyring>>
  BY Zenon DEF DecideAdmit, AdmitActive, DecideCommit, LoadKey, KeyGrant, GrantGet,
               GrantCheck, Refused, Crash
<1>2. Idle.cmd # "rotate" /\ \A t, v, k : Granting(t, v, k).cmd # "rotate"
  BY DEF Idle, Granting
<1>3. \A x, y : [cmd |-> "decide", at |-> x, enr |-> y].cmd # "rotate"
  OBVIOUS
<1>4. ASSUME GrantGet(c) \/ GrantCheck(c)
      PROVE  \E o : Goes(c, o) /\ o.cmd # "rotate"
  <2>1. op[c].cmd = "grant" /\ OpShape(op[c])
    BY <1>4 DEF GrantGet, GrantCheck, Running, KeysTyped
  <2>2. GrantOp(op[c])
    BY <2>1, OpKinds
  <2>3. \A x, y : /\ [op[c] EXCEPT !.at = x, !.seen = y].cmd = "grant"
                  /\ [op[c] EXCEPT !.at = x].cmd = "grant"
    BY <2>2 DEF GrantOp
  <2>4. \A x : x = "grant" => x # "rotate"
    OBVIOUS
  <2> QED BY Zenon, <1>4, <2>3, <2>4 DEF GrantGet, GrantCheck
<1>5. \E o : Goes(c, o) /\ o.cmd # "rotate"
  BY Zenon, <1>2, <1>3, <1>4
     DEF DecideAdmit, AdmitActive, DecideCommit, LoadKey, KeyGrant, Refused, Crash, Begin
<1> QED BY <1>1, <1>5, QuietAllows

\* A command of a Device with standing, which keeps it.
LEMMA StandingKept ==
    ASSUME UNCHANGED <<admissionVars, version>>, NEW d \in Devices, Entitled(d)
    PROVE  Reach(d)' = version
  BY DEF Reach, Entitled, IsMember, admissionVars

\* setup and sync write to the keychain of a Device with standing, a version
\* that is not newer than the current one.
LEMMA FetchAllows ==
    ASSUME LInv, Next, NEW d \in Devices, Sync(d) \/ (d \in Clients /\ Initialize(d))
    PROVE  Allows
<1>1. KeysTyped /\ Ages /\ Ages'
  BY StepAges DEF LInv, Ages
<1>2. /\ UNCHANGED <<admissionVars, version, envelope>>
      /\ Entitled(d)
      /\ \A x \in Devices : x # d => keyring'[x] = keyring[x]
  BY <1>1, SyncSpreads, InitializeMakes
<1>3. Reach(d)' = version
  BY <1>2, StandingKept
<1>4. ASSUME NEW v \in Versions, keyring'[d][v] # keyring[d][v]
      PROVE  v <= version
  <2>1. CASE keyring'[d][v] \in Keys
    BY <1>1, <1>2, <2>1 DEF Ages, CurrentOnly, InUse
  <2>2. CASE keyring'[d][v] \notin Keys
    <3>1. keyring'[d][v] = NoKey /\ keyring[d][v] \in Keys
      BY <1>1, <1>4, <2>2 DEF Ages, KeysTyped, Keys
    <3> QED BY <1>1, <3>1 DEF Ages, CurrentOnly, InUse
  <2> QED BY <2>1, <2>2
<1>5. \A c \in Clients : op'[c] # op[c] => op'[c].cmd # "rotate"
  <2>1. CASE Sync(d)
    BY <1>1, <2>1, SyncSpreads
  <2>2. CASE d \in Clients /\ Initialize(d)
    <3>1. \A t, v, k : Granting(t, v, k).cmd # "rotate"
      BY DEF Idle, Granting
    <3>2. PICK t, v, k : Goes(d, Granting(t, v, k))
      BY <2>2 DEF Initialize, Begin
    <3> QED BY <1>1, <2>2, <3>1, <3>2 DEF Goes, KeysTyped
  <2> QED BY <2>1, <2>2
<1>6. ASSUME NEW x \in Devices, NEW v \in Versions,
             keyring'[x][v] # keyring[x][v] \/ envelope'[x][v] # envelope[x][v]
      PROVE  v <= Reach(x)'
  <2>1. x = d
    BY <1>2, <1>6
  <2> QED BY <1>2, <1>3, <1>4, <1>6, <2>1
<1> QED BY <1>5, <1>6 DEF Allows

\* A grant writes an envelope of a recipient, which is a Device with standing
\* if it is a Device.
LEMMA GrantAllows ==
    ASSUME LInv, Next, NEW c \in Clients, GrantStore(c)
    PROVE  Allows
<1>1. KeysTyped /\ Ages /\ Ages'
  BY StepAges DEF LInv, Ages
<1>2. /\ UNCHANGED <<admissionVars, version, keyring>>
      /\ IsRecipient(GrantTarget(c))
      /\ \A r \in Recipients : r # GrantTarget(c) => envelope'[r] = envelope[r]
  BY <1>1, GrantStoreSpreads
<1>3. ASSUME NEW d \in Devices, NEW v \in Versions, envelope'[d][v] # envelope[d][v]
      PROVE  v <= Reach(d)'
  <2>1. d \in Recipients /\ d = GrantTarget(c)
    BY <1>2, <1>3, Constants
  <2>2. Entitled(d)
    BY <1>2, <2>1 DEF IsRecipient, Entitled, Holder
  <2>3. Reach(d)' = version
    BY <1>2, <2>2, StandingKept
  <2>4. v <= version
    <3>1. envelope'[d][v] \in Keys \/ envelope[d][v] \in Keys
      BY <1>1, <1>3, <2>1 DEF Ages, KeysTyped, Keys
    <3> QED BY <1>1, <1>2, <2>1, <3>1 DEF Ages, CurrentOnly, InUse
  <2> QED BY <2>3, <2>4
<1>4. \A x \in Clients : op'[x] # op[x] => op'[x].cmd # "rotate"
  <2>1. \A t, v, k : Granting(t, v, k).cmd # "rotate"
    BY DEF Idle, Granting
  <2>2. PICK t, v, k : Goes(c, Granting(t, v, k))
    BY DEF GrantStore
  <2> QED BY <1>1, <2>1, <2>2 DEF Goes, KeysTyped
<1> QED BY <1>2, <1>3, <1>4 DEF Allows

\* A rotation is begun by a Device with standing, which is a recipient then, and
\* is committed only if the recipients are still those.
LEMMA RotationAllows ==
    ASSUME LInv, Next, NEW c \in Clients,
           RotateSnapshot(c) \/ RotatePost(c) \/ RotateCommit(c) \/ RotateSave(c)
    PROVE  Allows
<1>1. KeysTyped /\ c \in Devices /\ c \in Recipients /\ c \in DOMAIN op
  BY Constants DEF LInv, Ages, KeysTyped
<1>2. CASE RotateSnapshot(c)
  <2>1. UNCHANGED <<envelope, keyring>>
    BY <1>2 DEF RotateSnapshot
  <2>2. PICK k, n : Goes(c, [cmd |-> "rotate", at |-> "post", ver |-> n, key |-> k,
                             seen |-> Snapshot])
    BY Zenon, <1>2 DEF RotateSnapshot, Begin
  <2>3. IsRecipient(c)
    BY <1>1, <1>2 DEF RotateSnapshot, CanBegin, Sends, IsOwner, IsRecipient, Holder
  <2>4. c \in DOMAIN Snapshot
    BY <1>1, <2>3 DEF Snapshot, RecipientSet
  <2>5. \A x \in Clients : x # c => op'[x] = op[x]
    BY <1>1, <2>2 DEF Goes, KeysTyped
  <2>6. op'[c].seen = Snapshot /\ op'[c].at = "post"
    BY <1>1, <2>2 DEF Goes, KeysTyped
  <2> QED BY <2>1, <2>4, <2>5, <2>6 DEF Allows
<1>3. CASE RotatePost(c)
  <2>1. UNCHANGED <<envelope, keyring>> /\ Goes(c, [op[c] EXCEPT !.at = "commit"])
    BY <1>3 DEF RotatePost
  <2>2. op[c].cmd = "rotate" /\ OpShape(op[c])
    BY <1>1, <1>3 DEF RotatePost, Running, KeysTyped
  <2>3. RotateOp(op[c])
    BY <2>2, OpKinds
  <2>4. \A x \in Clients : x # c => op'[x] = op[x]
    BY <1>1, <2>1 DEF Goes, KeysTyped
  <2>5. op'[c].seen = op[c].seen /\ op'[c].at = "commit"
    BY <1>1, <2>1, <2>3 DEF Goes, KeysTyped, RotateOp
  <2>6. c \in DOMAIN op[c].seen
    BY <2>2 DEF LInv, RotationsOk
  <2> QED BY <2>1, <2>4, <2>5, <2>6 DEF Allows
<1>4. CASE RotateCommit(c)
  <2>1. /\ UNCHANGED <<admissionVars, keyring>>
        /\ version' = version + 1 /\ op[c].ver = version /\ RotateOp(op[c])
        /\ version' \in Versions
        /\ \A r \in Recipients, v \in Versions :
             envelope'[r][v] # envelope[r][v] => IsRecipient(r) /\ v = version'
        /\ DOMAIN op[c].seen = RecipientSet
    BY <1>1, <1>4, CommitMakes
  <2>2. \A d \in Devices : IsRecipient(d) => Reach(d)' = version'
    BY <2>1 DEF IsRecipient, Holder, Reach, Entitled, IsMember, admissionVars
  <2>3. Goes(c, [op[c] EXCEPT !.at = "save"])
    BY <1>4 DEF RotateCommit
  <2>4. op[c].cmd = "rotate"
    <3>1. RotateOp(op[c]) /\ OpShape(op[c])
      BY <2>1 DEF OpShape
    <3> QED BY <3>1, OpKinds
  <2>5. c \in DOMAIN op[c].seen
    BY <2>4 DEF LInv, RotationsOk
  <2>6. IsRecipient(c)
    BY <2>1, <2>5 DEF RecipientSet
  <2>7. \A x \in Clients : x # c => op'[x] = op[x]
    BY <1>1, <2>3 DEF Goes, KeysTyped
  <2>8. op'[c].seen = op[c].seen /\ op'[c].ver = version
    BY <1>1, <2>1, <2>3 DEF Goes, KeysTyped, RotateOp
  <2>9. \A d \in Devices, v \in Versions :
          keyring'[d][v] # keyring[d][v] \/ envelope'[d][v] # envelope[d][v]
            => v <= Reach(d)'
    BY <2>1, <2>2, Constants DEF Versions
  <2>10. op'[c].ver + 1 <= Reach(c)'
    BY <1>1, <2>1, <2>2, <2>6, <2>8 DEF Versions
  <2> QED BY <2>5, <2>7, <2>8, <2>9, <2>10 DEF Allows
<1>5. CASE RotateSave(c)
  <2>1. /\ UNCHANGED envelope
        /\ \A d \in Devices, v \in Versions :
             keyring'[d][v] # keyring[d][v] => d = c /\ v = op[c].ver + 1
        /\ RotateOp(op[c]) /\ op[c].at = "save"
    BY <1>1, <1>5, RotateSaveSpreads
  <2>2. Goes(c, Idle)
    BY <1>5 DEF RotateSave
  <2>3. \A x \in Clients : op'[x] # op[x] => op'[x].cmd # "rotate"
    BY <1>1, <2>2 DEF Goes, KeysTyped, Idle
  <2>4. op[c].cmd = "rotate" /\ op[c].ver \in Nat
    BY <2>1 DEF RotateOp, Versions
  <2>5. op[c].ver + 1 <= Reach(c)
    BY <2>1, <2>4 DEF LInv, RotationsOk
  <2>6. op[c].ver + 1 <= Reach(c)'
    BY <1>1, <2>4, <2>5, ReachGrows
  <2> QED BY <2>1, <2>3, <2>6 DEF Allows
<1> QED BY <1>2, <1>3, <1>4, <1>5

\* Every step keeps every Device within its reach.
LEMMA StepLocked ==
    ASSUME LInv, [Next]_vars
    PROVE  LInv'
<1>1. KeysTyped
  BY DEF LInv, Ages
<1>2. CASE UNCHANGED vars
  <2>1. Ages'
    BY StepAges DEF LInv
  <2>2. UNCHANGED <<version, envelope, keyring, op, cut, device, member>>
    BY <1>2 DEF vars, admissionVars, keyVars
  <2>3. \A d \in Devices : Reach(d)' = Reach(d)
    BY <2>2 DEF Reach, Entitled, IsMember
  <2>4. RotationsOk' /\ Within'
    BY <2>2, <2>3, Constants DEF LInv, RotationsOk, Within
  <2>5. cut' \in [Devices -> Nat] /\ \A d \in Devices : cut'[d] <= version'
    BY <2>2 DEF LInv
  <2> QED BY <2>1, <2>4, <2>5 DEF LInv
<1>3. CASE Next
  <2>1. ASSUME AdmissionStep /\ UNCHANGED keyVars PROVE Allows
    BY <1>1, <2>1, QuietAllows DEF keyVars
  <2>2. ASSUME NEW c \in Clients, EnsureSelfAdmission(c) PROVE Allows
    BY <1>1, <2>2, QuietAllows DEF EnsureSelfAdmission, keyVars
  <2>3. ASSUME NEW c \in Clients, Initialize(c) PROVE Allows
    BY <1>3, <2>3, Constants, FetchAllows
  <2>4. ASSUME NEW d \in Devices, Sync(d) PROVE Allows
    BY <1>3, <2>4, FetchAllows
  <2>5. ASSUME NEW c \in Clients, GrantStore(c) PROVE Allows
    BY <1>3, <2>5, GrantAllows
  <2>6. ASSUME NEW c \in Clients,
               RotateSnapshot(c) \/ RotatePost(c) \/ RotateCommit(c) \/ RotateSave(c)
        PROVE  Allows
    BY <1>3, <2>6, RotationAllows
  <2>7. ASSUME NEW c \in Clients,
               \/ \E i \in Enrollments : DecideAdmit(c, i) \/ AdmitActive(c, i)
               \/ DecideCommit(c) \/ LoadKey(c) \/ \E r \in Recipients : KeyGrant(c, r)
               \/ GrantGet(c) \/ GrantCheck(c) \/ Refused(c) \/ Crash(c)
        PROVE  Allows
    BY <1>1, <2>7, OtherAllows
  <2>8. Allows
    BY Zenon, <1>3, <2>1, <2>2, <2>3, <2>4, <2>5, <2>6, <2>7 DEF Next, KeyStep
  <2> QED BY <1>3, <2>8, AllowedSteps
<1> QED BY <1>2, <1>3

\* A Device that is revoked, or whose User is removed, never gets a key made
\* after that, for every population and every number of setups and rotations.
THEOREM RevokedAreLockedOut == Spec => []LockedOut
<1>1. Init => LInv
  <2> SUFFICES ASSUME Init PROVE LInv
    OBVIOUS
  <2>1. KeysTyped /\ \A v \in Versions, k \in Keys : ~InUse(v, k)
    BY InitKeys
  <2>2. /\ cut = [d \in Devices |-> 0] /\ version = 1
        /\ op = [c \in Clients |-> Idle]
        /\ envelope = [r \in Recipients |-> [v \in Versions |-> NoKey]]
        /\ keyring = [d \in Devices |-> [v \in Versions |-> NoKey]]
    BY DEF Init
  <2>3. RotationsOk
    BY <2>2 DEF RotationsOk, Idle
  <2>4. Within
    BY <2>2, Constants DEF Within
  <2> QED BY <2>1, <2>2, <2>3, <2>4 DEF LInv, Ages, CurrentOnly
<1>2. LInv /\ [Next]_vars => LInv'
  BY StepLocked
<1>3. LInv => LockedOut
  <2> SUFFICES ASSUME LInv, NEW d \in Devices, ~Entitled(d), NEW v \in Versions, v > cut[d]
               PROVE  keyring[d][v] = NoKey /\ envelope[d][v] = NoKey
    BY DEF LockedOut
  <2>1. cut[d] \in Nat /\ v \in Nat /\ Reach(d) = cut[d]
    BY DEF LInv, Versions, Reach
  <2> QED BY <2>1 DEF LInv, Within
<1> QED BY <1>1, <1>2, <1>3, PTL DEF Spec

-----------------------------------------------------------------------------
(* What a step may never do *)

\* What every step does to envelopes.
Seals ==
    \A r \in Recipients : envelope'[r] # envelope[r] => IsRecipient(r) /\ Verified(Holder(r))

\* Only a grant and the commit of a rotation store envelopes, after a look at
\* the recipients in the same transaction.
LEMMA StepSeals ==
    ASSUME KeysTyped, [Next]_vars
    PROVE  Seals
<1>1. CASE UNCHANGED <<version, envelope>>
  BY <1>1 DEF Seals
<1>2. ASSUME NEW c \in Clients, GrantStore(c) PROVE Seals
  <2>1. /\ version' = version /\ RecipientsKnown /\ IsRecipient(GrantTarget(c))
        /\ \A r \in Recipients : r # GrantTarget(c) => envelope'[r] = envelope[r]
    BY <1>2, GrantStoreSpreads
  <2>2. ASSUME NEW r \in Recipients, IsRecipient(r) PROVE Verified(Holder(r))
    BY <2>1, <2>2, Constants DEF RecipientsKnown, IsRecipient
  <2> QED BY <2>1, <2>2 DEF Seals
<1>3. ASSUME NEW c \in Clients, RotateCommit(c) PROVE Seals
  <2>1. /\ RecipientsKnown
        /\ \A r \in Recipients : ~IsRecipient(r) => envelope'[r] = envelope[r]
    BY Zenon, <1>3, CommitMakes
  <2>2. ASSUME NEW r \in Recipients, IsRecipient(r) PROVE Verified(Holder(r))
    BY <2>1, <2>2, Constants DEF RecipientsKnown, IsRecipient
  <2> QED BY <2>1, <2>2 DEF Seals
<1>4. CASE UNCHANGED vars \/ (AdmissionStep /\ UNCHANGED keyVars)
  BY <1>1, <1>4 DEF vars, keyVars
<1>5. CASE KeyStep
  <2>1. ASSUME NEW d \in Devices, Sync(d) PROVE UNCHANGED <<version, envelope>>
    BY <2>1 DEF Sync
  <2>2. ASSUME NEW c \in Clients,
               \/ Initialize(c) \/ EnsureSelfAdmission(c)
               \/ \E i \in Enrollments : DecideAdmit(c, i) \/ AdmitActive(c, i)
               \/ DecideCommit(c) \/ LoadKey(c) \/ \E r \in Recipients : KeyGrant(c, r)
               \/ GrantGet(c) \/ GrantCheck(c)
               \/ RotateSnapshot(c) \/ RotatePost(c) \/ RotateSave(c)
               \/ Refused(c) \/ Crash(c)
        PROVE  UNCHANGED <<version, envelope>>
    BY Zenon, <2>2
       DEF Initialize, EnsureSelfAdmission, DecideAdmit, AdmitActive, DecideCommit, LoadKey,
           KeyGrant, GrantGet, GrantCheck, RotateSnapshot, RotatePost, RotateSave, Refused,
           Crash, keyVars
  <2> QED BY Zenon, <1>1, <1>2, <1>3, <1>5, <2>1, <2>2 DEF KeyStep
<1> QED BY <1>4, <1>5 DEF Next

\* The state of keys and commands has its shape always.
THEOREM KeysWellTyped == Spec => []KeysTyped
<1>1. Init => Ages
  BY InitKeys DEF Ages, CurrentOnly
<1>2. Ages /\ [Next]_vars => Ages'
  BY StepAges
<1>3. Ages => KeysTyped
  BY DEF Ages
<1> QED BY <1>1, <1>2, <1>3, PTL DEF Spec

\* Envelopes are stored only for recipients that are admitted at that moment.
THEOREM SealsFollowAdmission == Spec => SealedOnlyToAdmitted
<1>1. KeysTyped /\ [Next]_vars =>
        [\A r \in Recipients :
           envelope'[r] # envelope[r] => IsRecipient(r) /\ Verified(Holder(r))]_vars
  BY StepSeals DEF Seals
<1> QED BY <1>1, KeysWellTyped, PTL DEF Spec, SealedOnlyToAdmitted
=============================================================================
