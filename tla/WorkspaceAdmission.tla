------------------------ MODULE WorkspaceAdmission ------------------------
(***************************************************************************)
(* Who belongs to a Workspace: Users, Devices and Services, the            *)
(* enrollments that admit them, and the admissions by which the Owner      *)
(* makes a User a recipient of Workspace keys (gateway/repository.py).     *)
(*                                                                         *)
(* One Workspace.  A Device is named by its key, so UserOf says whose it   *)
(* is before it is registered; an enrollment is named by its id.  Every    *)
(* action is one BEGIN IMMEDIATE transaction, and the end of an invite's   *)
(* or challenge's time is a step of the environment.  A request that the   *)
(* code refuses, or answers as the replay of one it has served, changes    *)
(* nothing and is no step.                                                 *)
(***************************************************************************)
EXTENDS Integers, Sequences, FiniteSets

CONSTANTS Users, Devices, Services, Enrollments, NoOne,
          Owner,       \* the User that created the Workspace
          UserOf,      \* the User whose root key certified a Device
          Starts,      \* the populations considered, see AdmissionInit
          Roles,       \* the roles that are offered
          MaxRevoked   \* bound on the Devices their Users revoke

VARIABLES offers,      \* the <<kind, method>> an enrollment may be made with
          user, device, service,
          member,      \* memberships: role and status
          enr,         \* enrollments
          admission,   \* key_manifests of type workspace_recipient_admission
          recovery     \* device_recovery_challenges

admissionVars == <<offers, user, device, service, member, enr, admission, recovery>>

ASSUME DevicesAssumption ==
    /\ UserOf \in [Devices -> Users]
    /\ \A s \in Starts : s.present \subseteq Devices
    /\ \A s \in Starts : \E d \in s.present : UserOf[d] = Owner
    /\ Roles \subseteq {"admin", "member"} /\ MaxRevoked \in Nat
    /\ NoOne \notin Users \cup Devices \cup Services \cup Enrollments

UserKinds == {"user", "workspace_member"}

OwnerKinds == UserKinds \cup {"service"}

\* An enrollment: subject is the Device or Service, lapsed says expires_at passed.
NoRow == [state |-> "absent", kind |-> "user", method |-> "direct_invite",
          role |-> "member", lapsed |-> FALSE, user |-> NoOne, subject |-> NoOne]

\* An admission is pinned to an enrollment, or is the Owner's own ("self").
NoAdmission == [enr |-> NoOne, device |-> NoOne, by |-> NoOne]

\* A start names the Devices registered before the Workspace is created, and
\* the enrollments that its people will use.
AdmissionInit(s) ==
    /\ offers = s.offers
    /\ user = [u \in Users |->
                 IF \E d \in s.present : UserOf[d] = u THEN "active" ELSE "none"]
    /\ device = [d \in Devices |-> IF d \in s.present THEN "active" ELSE "none"]
    /\ service = [x \in Services |-> "none"]
    /\ member = [u \in Users |-> IF u = Owner
                                 THEN [role |-> "owner", status |-> "active"]
                                 ELSE [role |-> "member", status |-> "none"]]
    /\ enr = [i \in Enrollments |-> NoRow]
    /\ admission = [u \in Users |-> NoAdmission]
    /\ recovery = [d \in Devices |-> "none"]

-----------------------------------------------------------------------------
(* Roles *)

IsMember(u) == member[u].status = "active"

IsOwner(u) == IsMember(u) /\ member[u].role = "owner"

IsAdmin(u) == IsMember(u) /\ member[u].role \in {"owner", "admin"}

\* The request comes from an active Device of the Owner, or of an administrator.
OwnerSends == \E d \in Devices : device[d] = "active" /\ IsOwner(UserOf[d])

AdminSends == \E d \in Devices : device[d] = "active" /\ IsAdmin(UserOf[d])

UserSends == \E d \in Devices : device[d] = "active"

\* An enrollment of a User or a Service names this Workspace; one of a Device
\* need not, and any User may then issue and decide it.
Decides(kind) == IF kind \in OwnerKinds THEN OwnerSends ELSE UserSends

Revokes(kind) == IF kind \in OwnerKinds THEN AdminSends ELSE UserSends

-----------------------------------------------------------------------------
(* Invites and what is claimed with them *)

CreateInvite(i, kind, method, role) ==
    /\ enr[i].state = "absent"
    /\ Decides(kind)
    /\ role \in IF kind \in UserKinds THEN Roles ELSE {"member"}
    /\ enr' = [enr EXCEPT ![i] = [NoRow EXCEPT !.state = "issued", !.kind = kind,
                                               !.method = method, !.role = role]]
    /\ UNCHANGED <<offers, user, device, service, member, admission, recovery>>

InviteLapses(i) ==
    /\ enr[i].state = "issued" /\ ~enr[i].lapsed
    /\ enr' = [enr EXCEPT ![i].lapsed = TRUE]
    /\ UNCHANGED <<offers, user, device, service, member, admission, recovery>>

Claimable(i, kind) == enr[i].state = "issued" /\ ~enr[i].lapsed /\ enr[i].kind = kind

Direct(i) == enr[i].method = "direct_invite"

Claimed(i, u, x) == [enr EXCEPT ![i].state = IF Direct(i) THEN "active" ELSE "pending",
                                ![i].user = u, ![i].subject = x]

\* Membership is an upsert: it takes the enrollment's role whatever it was.
Joined(i, u) == [member EXCEPT ![u] = [role |-> enr[i].role, status |-> "active"]]

\* _activate_enrollment: INSERT fails, and all with it, for a Device that exists.
Activate(i, u, x) ==
    /\ enr[i].kind = "broker_device" => device[x] = "none"
    /\ member' = IF enr[i].kind \in UserKinds THEN Joined(i, u) ELSE member
    /\ device' = IF enr[i].kind = "broker_device"
                 THEN [device EXCEPT ![x] = "active"] ELSE device
    /\ service' = IF enr[i].kind = "service" /\ service[x] = "pending"
                  THEN [service EXCEPT ![x] = "active"] ELSE service

EnrollUser(i, d) ==
    /\ Claimable(i, "user")
    /\ user[UserOf[d]] = "none" /\ device[d] = "none"
    /\ user' = [user EXCEPT ![UserOf[d]] = "active"]
    /\ device' = [device EXCEPT ![d] = "active"]
    /\ enr' = Claimed(i, UserOf[d], d)
    /\ member' = IF Direct(i) THEN Joined(i, UserOf[d]) ELSE member
    /\ UNCHANGED <<offers, service, admission, recovery>>

EnrollDevice(i, d) ==
    /\ Claimable(i, "broker_device")
    /\ user[UserOf[d]] = "active"
    /\ Direct(i) => device[d] = "none"
    /\ device' = IF Direct(i) THEN [device EXCEPT ![d] = "active"] ELSE device
    /\ enr' = Claimed(i, UserOf[d], d)
    /\ UNCHANGED <<offers, user, service, member, admission, recovery>>

EnrollService(i, s) ==
    /\ Claimable(i, "service")
    /\ service[s] = "none"
    /\ service' = [service EXCEPT ![s] = IF Direct(i) THEN "active" ELSE "pending"]
    /\ enr' = Claimed(i, NoOne, s)
    /\ UNCHANGED <<offers, user, device, member, admission, recovery>>

\* The same row for an existing User that applies instead of being invited.
Apply(i, d, role) ==
    /\ <<"workspace_member", "apply_approval">> \in offers[i]
    /\ enr[i].state = "absent"
    /\ device[d] = "active"
    /\ enr' = [enr EXCEPT ![i] =
                 [NoRow EXCEPT !.state = "pending", !.kind = "workspace_member",
                               !.method = "apply_approval", !.role = role,
                               !.user = UserOf[d], !.subject = d]]
    /\ UNCHANGED <<offers, user, device, service, member, admission, recovery>>

ClaimInvite(i, d) ==
    /\ Claimable(i, "workspace_member")
    /\ device[d] = "active"
    /\ enr' = Claimed(i, UserOf[d], d)
    /\ IF Direct(i) THEN Activate(i, UserOf[d], d)
                    ELSE UNCHANGED <<member, device, service>>
    /\ UNCHANGED <<offers, user, admission, recovery>>

-----------------------------------------------------------------------------
(* Decisions and revocations *)

\* Approving a User also takes an admission, see PutAdmission.
Approve(i) ==
    /\ enr[i].state = "pending"
    /\ enr' = [enr EXCEPT ![i].state = "active"]
    /\ Activate(i, enr[i].user, enr[i].subject)
    /\ UNCHANGED <<offers, user, admission, recovery>>

Reject(i) ==
    /\ enr[i].state = "pending"
    /\ Decides(enr[i].kind)
    /\ enr' = [enr EXCEPT ![i].state = "rejected"]
    /\ UNCHANGED <<offers, user, device, service, member, admission, recovery>>

\* The relationship goes with the enrollment that made it, except an Owner's.
RevokeEnrollment(i) ==
    /\ Revokes(enr[i].kind)
    /\ enr[i].state \in {"issued", "pending", "active"}
    /\ LET row == enr[i]
           ends(kinds) == row.state = "active" /\ row.kind \in kinds
       IN  /\ member' = IF ends(UserKinds) /\ member[row.user].role # "owner"
                        THEN [member EXCEPT ![row.user].status = "revoked"] ELSE member
           /\ device' = IF ends({"broker_device"})
                        THEN [device EXCEPT ![row.subject] = "revoked"] ELSE device
           /\ service' = IF ends({"service"})
                         THEN [service EXCEPT ![row.subject] = "revoked"] ELSE service
    /\ enr' = [enr EXCEPT ![i].state = "revoked"]
    /\ UNCHANGED <<offers, user, admission, recovery>>

RevokeDevice(d) ==
    /\ device[d] = "active"
    /\ Cardinality({x \in Devices : device[x] = "revoked"}) < MaxRevoked
    /\ device' = [device EXCEPT ![d] = "revoked"]
    /\ UNCHANGED <<offers, user, service, member, enr, admission, recovery>>

-----------------------------------------------------------------------------
(* A new Device from the recovery phrase *)

RecoveryChallenge(d) ==
    /\ recovery[d] = "none"
    /\ user[UserOf[d]] = "active" /\ device[d] = "none"
    /\ recovery' = [recovery EXCEPT ![d] = "open"]
    /\ UNCHANGED <<offers, user, device, service, member, enr, admission>>

RecoveryLapses(d) ==
    /\ recovery[d] = "open"
    /\ recovery' = [recovery EXCEPT ![d] = "none"]
    /\ UNCHANGED <<offers, user, device, service, member, enr, admission>>

RegisterRecovered(d) ==
    /\ recovery[d] = "open"
    /\ device[d] = "none"
    /\ device' = [device EXCEPT ![d] = "active"]
    /\ recovery' = [recovery EXCEPT ![d] = "none"]
    /\ UNCHANGED <<offers, user, service, member, enr, admission>>

-----------------------------------------------------------------------------
(* Admissions: immutable, signed by the Owner *)

\* The row an admission refers to still stands and names the same subject.
Stands(u, a) ==
    /\ user[u] = "active" /\ device[a.device] # "none"
    /\ IF a.enr = "self"
       THEN u = a.by
       ELSE /\ enr[a.enr].state \in {"pending", "active"}
            /\ enr[a.enr].kind \in UserKinds
            /\ enr[a.enr].user = u /\ enr[a.enr].subject = a.device

\* _verified_workspace_admission.
Verified(u) ==
    /\ admission[u] # NoAdmission
    /\ IsOwner(admission[u].by)
    /\ Stands(u, admission[u])

\* put_workspace_recipient_admission: one admission per User, never replaced.
CanAdmit(u, a) ==
    /\ IsOwner(a.by)
    /\ Stands(u, a)
    /\ admission[u] \in {NoAdmission, a}

PutAdmission(u, a) ==
    /\ CanAdmit(u, a)
    /\ admission' = [admission EXCEPT ![u] = a]
    /\ UNCHANGED <<offers, user, device, service, member, enr, recovery>>

AdmissionOf(c, i) == [enr |-> i, device |-> enr[i].subject, by |-> UserOf[c]]

SelfAdmission(c) == [enr |-> "self", device |-> c, by |-> UserOf[c]]

-----------------------------------------------------------------------------
(* What the Gateway does by itself or for anyone *)

AdmissionStep ==
    \/ \E i \in Enrollments : \E o \in offers[i], r \in Roles \cup {"member"} :
          o[2] # "apply_approval" /\ CreateInvite(i, o[1], o[2], r)
    \/ \E i \in Enrollments : \/ InviteLapses(i)
                              \/ /\ enr[i].kind \notin UserKinds /\ Decides(enr[i].kind)
                                 /\ Approve(i)
                              \/ Reject(i)
                              \/ RevokeEnrollment(i)
    \/ \E i \in Enrollments, d \in Devices :
          \/ EnrollUser(i, d)
          \/ EnrollDevice(i, d)
          \/ ClaimInvite(i, d)
          \/ \E r \in Roles : Apply(i, d, r)
    \/ \E i \in Enrollments, s \in Services : EnrollService(i, s)
    \/ \E d \in Devices : \/ RevokeDevice(d)
                          \/ RecoveryChallenge(d)
                          \/ RecoveryLapses(d)
                          \/ RegisterRecovered(d)
=============================================================================
