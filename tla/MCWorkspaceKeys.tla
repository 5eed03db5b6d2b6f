-------------------------- MODULE MCWorkspaceKeys --------------------------
(* Who may call and who may read: the keys of a Workspace, for the Owner     *)
(* with two Devices, another User with one, a Service and two enrollments;   *)
(* and the sessions and signed requests of the Gateway.  Each is explored by *)
(* itself.                                                                   *)
EXTENDS WorkspaceKeys, Sessions, TLC

CONSTANTS owner, other, o1, o2, d1, e1, e2, svc

VARIABLE kind

MCUserOf == (o1 :> owner) @@ (o2 :> owner) @@ (d1 :> other)

Member(method) == {<<"workspace_member", method>>}

\* Two Devices of the Owner, alone.
Pair == [present |-> {o1, o2}, commands |-> 3, offers |-> (e1 :> {}) @@ (e2 :> {})]

\* Two Devices of the Owner, and a User of the Gateway that is invited.
Colleagues ==
    [present |-> {o1, o2, d1}, commands |-> 2,
     offers |-> (e1 :> Member("direct_invite")) @@ (e2 :> {})]

\* A User that is invited, applies, and may be removed in between.
Returning(o) ==
    [present |-> {o, d1}, commands |-> 1,
     offers |-> (e1 :> Member("direct_invite"))
             @@ (e2 :> Member("invite_approval") \cup Member("apply_approval"))]

\* One Device of the Owner, and newcomers of the other kinds.
Newcomers(o) ==
    [present |-> {o}, commands |-> 2,
     offers |-> (e1 :> {<<"user", "direct_invite">>, <<"service", "invite_approval">>,
                        <<"broker_device", "invite_approval">>}) @@ (e2 :> {})]

MCStarts == {Pair, Colleagues} \cup {Returning(o) : o \in {o1, o2}}
                               \cup {Newcomers(o) : o \in {o1, o2}}

\* The Workspace starts in one state where its sessions are explored.
AccessInit ==
    /\ kind \in {"keys", "sessions"}
    /\ Init /\ SessionsInit
    /\ kind = "sessions" => offers = Pair.offers

KeysNext == kind = "keys" /\ Next /\ UNCHANGED <<kind, authVars>>

CallsNext == kind = "sessions" /\ SessionsNext /\ UNCHANGED <<kind, vars>>

AccessSpec == AccessInit /\ [][KeysNext \/ CallsNext]_<<kind, vars, authVars>>

\* A request is explored with one principal, one session and no login under
\* way, and the clock goes past every login: bounds.
Sent == \E r \in Signed : request[r].state = "sent"

SentAlone ==
    /\ Sent =>
         /\ \A p, q \in Principals : subject[p] # "none" /\ subject[q] # "none" => p = q
         /\ \A l \in LoginCalls : login[l].pc = "idle"
         /\ \E s \in SessionIds : session[s].state = "none"
    /\ authClock > 2 => Sent

\* The Owner's two Devices are alike in every start taken together.
MCSymmetry == Permutations({o1, o2})
=============================================================================
