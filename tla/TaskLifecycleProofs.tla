------------------------ MODULE TaskLifecycleProofs ------------------------
(***************************************************************************)
(* Proofs about TaskLifecycle, for every set of Workers and tasks, every   *)
(* capacity and every bound on attempts: the inductive invariant, one      *)
(* lemma per transaction, and the theorems.                                *)
(***************************************************************************)
EXTENDS TaskLifecycle, FiniteSetTheorems, TLAPS

-----------------------------------------------------------------------------
(* Rows *)

\* A row that may stand beside a task that shows no execution.
Quiet(a) ==
    /\ a.state \notin LiveStates
    /\ a.lease \notin HeldLease
    /\ a.state = "reserved" => ~a.started

\* What every transaction but Reserve and Grant does to an attempt row.
RowFrame(a, b) ==
    /\ b.worker = a.worker
    /\ b.fence = a.fence
    /\ b.state = "none" <=> a.state = "none"
    /\ b.state \in LiveStates => a.state \in LiveStates
    /\ a.state \in FinalStates => b = a

Frame(d, e) ==
    /\ \A w \in Workers : e.wrk[w].counter = d.wrk[w].counter
    /\ \A t \in Tasks, n \in Numbers : RowFrame(d.att[t][n], e.att[t][n])

\* The rows of a database have their types (the tables of database.py).
LEMMA RowsTyped ==
    ASSUME NEW d \in Database, NEW t \in Tasks
    PROVE  d.task[t] \in TaskRow /\ \A n \in Numbers : d.att[t][n] \in AttemptRow
  BY DEF Database

\* UPDATE tasks SET state keeps the type of the row.
LEMMA TaskType ==
    ASSUME NEW k \in TaskRow, NEW to \in TaskStates
    PROVE  [k EXCEPT !.state = to] \in TaskRow
  BY DEF TaskRow

\* UPDATE tasks SET state changes no other column.
LEMMA StateField ==
    ASSUME NEW k \in TaskRow, NEW s
    PROVE  /\ [k EXCEPT !.state = s].state = s
           /\ [k EXCEPT !.state = s].worker = k.worker
  BY DEF TaskRow

\* Releasing a lease and closing an attempt keep the type of the row.
LEMMA RowType ==
    ASSUME NEW a \in AttemptRow, NEW S, NEW to \in FinalStates
    PROVE  Release(a) \in AttemptRow /\ Close(a, S, to) \in AttemptRow
  BY DEF AttemptRow, Release, Close, HeldLease

\* Closing an attempt changes its state only, and only from the given states.
LEMMA CloseFields ==
    ASSUME NEW a \in AttemptRow, NEW S, NEW to
    PROVE  LET b == Close(a, S, to) IN
           /\ b.state = IF a.state \in S THEN to ELSE a.state
           /\ b.lease = a.lease /\ b.started = a.started
           /\ b.worker = a.worker /\ b.fence = a.fence
  BY DEF Close, AttemptRow

\* Releasing a lease changes the lease only.
LEMMA ReleaseFields ==
    ASSUME NEW a \in AttemptRow
    PROVE  LET b == Release(a) IN
           /\ b.lease = IF a.lease \in HeldLease THEN "released" ELSE a.lease
           /\ b.state = a.state /\ b.started = a.started
           /\ b.worker = a.worker /\ b.fence = a.fence
  BY DEF Release, AttemptRow

\* Quiet rows agree with any task that shows no execution.
LEMMA QuietAgrees ==
    ASSUME NEW k, NEW A, k.state \notin {"reserved", "running", "absent"},
           \A n \in Numbers : Quiet(A[n])
    PROVE  RowsAgree(k, A)
  BY DEF RowsAgree, Quiet, LiveStates

\* The rows of a task that shows no execution are quiet.
LEMMA AgreeQuiet ==
    ASSUME NEW k, NEW A, RowsAgree(k, A),
           k.state \notin {"reserved", "running", "cancelled"}
    PROVE  \A n \in Numbers : Quiet(A[n])
  BY DEF RowsAgree, Quiet, LiveStates

\* Beside an executing attempt the other rows of the task are quiet.
LEMMA OthersQuiet ==
    ASSUME NEW k, NEW A, RowsAgree(k, A), NEW n \in Numbers, A[n].state \in LiveStates
    PROVE  \A m \in Numbers : m # n => Quiet(A[m])
<1> SUFFICES ASSUME NEW m \in Numbers, m # n
             PROVE  Quiet(A[m])
  OBVIOUS
<1>1. A[m].state \notin LiveStates
  BY Zenon DEF RowsAgree
<1>2. A[m].lease \notin HeldLease
  BY Zenon, <1>1 DEF RowsAgree
<1>3. A[m].state = "reserved" => ~A[m].started
  BY Zenon DEF RowsAgree
<1> QED BY <1>1, <1>2, <1>3 DEF Quiet

\* Closing and releasing keep a row quiet.
LEMMA QuietClosed ==
    ASSUME NEW a \in AttemptRow, Quiet(a), NEW S, NEW to \in FinalStates
    PROVE  Quiet(Release(a)) /\ Quiet(Close(a, S, to)) /\ Quiet(Release(Close(a, S, to)))
  BY CloseFields, ReleaseFields, RowType DEF Quiet, FinalStates, LiveStates, HeldLease

\* A row stays as it is, or is closed and perhaps released: a frame.
LEMMA CloseFrame ==
    ASSUME NEW a \in AttemptRow, a.lease \in HeldLease => a.state \in LiveStates,
           NEW S \in SUBSET OpenStates, NEW to \in FinalStates
    PROVE  RowFrame(a, a) /\ RowFrame(a, Close(a, S, to))
           /\ RowFrame(a, Release(Close(a, S, to)))
<1>1. RowFrame(a, a)
  BY DEF RowFrame
<1>2. CASE a.state \in FinalStates
  <2>1. Close(a, S, to) = a /\ Release(a) = a
    BY <1>2 DEF Close, Release, OpenStates, LiveStates, FinalStates
  <2> QED BY <1>1, <2>1
<1>3. CASE a.state \notin FinalStates
  BY <1>1, <1>3, CloseFields, ReleaseFields, RowType
     DEF RowFrame, FinalStates, LiveStates, OpenStates
<1> QED BY <1>2, <1>3

-----------------------------------------------------------------------------
(* Expiry *)

\* _expire_reservations keeps the types of the tables.
LEMMA ExpireReservationsType ==
    ASSUME NEW d \in Database
    PROVE  ExpireReservations(d) \in Database
<1>1. \A t \in Tasks : d.task[t] \in TaskRow /\ [d.task[t] EXCEPT !.state = "expired"] \in TaskRow
  BY Zenon, RowsTyped, TaskType DEF TaskStates
<1>2. \A t \in Tasks, n \in Numbers :
        /\ d.att[t][n] \in AttemptRow
        /\ Release(Close(d.att[t][n], {"reserved", "leased"}, "expired")) \in AttemptRow
  BY SMTT(30), RowsTyped, RowType DEF FinalStates
<1> QED BY Zenon, <1>1, <1>2 DEF ExpireReservations, Database

\* _expire_reservations keeps the rows in agreement, and is a frame.
LEMMA ExpireReservationsKeeps ==
    ASSUME NEW d \in Database, Consistent(d)
    PROVE  Consistent(ExpireReservations(d)) /\ Frame(d, ExpireReservations(d))
<1> DEFINE e == ExpireReservations(d)
<1>1. Consistent(e)
  <2> SUFFICES ASSUME NEW t \in Tasks PROVE RowsAgree(e.task[t], e.att[t])
    BY DEF Consistent
  <2>1. CASE ~ReservationGone(d, t)
    <3>1. e.task[t] = d.task[t] /\ e.att[t] = d.att[t]
      BY <2>1 DEF ExpireReservations, Database
    <3> QED BY <3>1 DEF Consistent
  <2>2. CASE ReservationGone(d, t)
    <3>1. e.task[t] = [d.task[t] EXCEPT !.state = "expired"]
      BY <2>2 DEF ExpireReservations, Database
    <3>2. e.task[t].state = "expired"
      BY <3>1, RowsTyped, StateField
    <3>3. \A n \in Numbers : Quiet(d.att[t][n]) /\ d.att[t][n] \in AttemptRow
      BY <2>2, AgreeQuiet, RowsTyped DEF Consistent, ReservationGone
    <3>4. \A n \in Numbers : Quiet(Release(Close(d.att[t][n], {"reserved", "leased"}, "expired")))
      BY <3>3, QuietClosed DEF FinalStates
    <3>5. \A n \in Numbers : Quiet(e.att[t][n])
      BY <2>2, <3>4 DEF ExpireReservations, Database
    <3> QED BY <3>2, <3>5, QuietAgrees
  <2> QED BY <2>1, <2>2
<1>2. ASSUME NEW t \in Tasks, NEW n \in Numbers
      PROVE  RowFrame(d.att[t][n], e.att[t][n])
  <2>1. /\ RowFrame(d.att[t][n], d.att[t][n])
        /\ RowFrame(d.att[t][n], Release(Close(d.att[t][n], {"reserved", "leased"}, "expired")))
    BY SMTT(30), RowsTyped, CloseFrame DEF Consistent, RowsAgree, FinalStates, OpenStates, LiveStates
  <2> QED BY <2>1 DEF ExpireReservations, Database
<1>3. e.wrk = d.wrk
  BY DEF ExpireReservations, Database
<1> QED BY <1>1, <1>2, <1>3 DEF Frame

\* _finalize_drained_workers only changes the status of Workers.
LEMMA FinalizeKeeps ==
    ASSUME NEW d \in Database
    PROVE  /\ FinalizeDrained(d) \in Database
           /\ FinalizeDrained(d).att = d.att
           /\ FinalizeDrained(d).task = d.task
           /\ FinalizeDrained(d).env = d.env
           /\ \A w \in Workers : FinalizeDrained(d).wrk[w].counter = d.wrk[w].counter
<1>1. \A w \in Workers : d.wrk[w] \in WorkerRow
  BY DEF Database
<1>2. \A w \in Workers : /\ [d.wrk[w] EXCEPT !.status = "revoked"] \in WorkerRow
                         /\ [d.wrk[w] EXCEPT !.status = "revoked"].counter = d.wrk[w].counter
  BY <1>1 DEF WorkerRow
<1> QED BY SMTT(30), <1>1, <1>2 DEF FinalizeDrained, Database

\* The rows _expire_leases leaves for one task: the execution that lost its
\* lease was the only one, so nothing executes any more.
LEMMA LostExecutionQuiet ==
    ASSUME NEW k, NEW A, \A n \in Numbers : A[n] \in AttemptRow,
           RowsAgree(k, A), \E n \in Numbers : A[n].lease = "lapsed"
    PROVE  /\ k.state \in {"reserved", "running", "cancelled"}
           /\ \A n \in Numbers :
                Quiet(IF A[n].lease = "lapsed"
                      THEN Release(Close(A[n], LiveStates, "expired")) ELSE A[n])
<1>1. PICK m \in Numbers : A[m].lease = "lapsed"
  OBVIOUS
<1>2. A[m].state \in LiveStates /\ k.state \in {"reserved", "running", "cancelled"}
  BY <1>1 DEF RowsAgree, HeldLease, LiveStates
<1>3. ASSUME NEW n \in Numbers, A[n].lease = "lapsed"
      PROVE  Quiet(Release(Close(A[n], LiveStates, "expired")))
  <2>1. A[n].state \in LiveStates
    BY <1>3 DEF RowsAgree, HeldLease
  <2>2. Close(A[n], LiveStates, "expired") \in AttemptRow
    BY RowType DEF FinalStates
  <2> QED BY <1>3, <2>1, <2>2, CloseFields, ReleaseFields DEF Quiet, LiveStates, HeldLease
<1>4. ASSUME NEW n \in Numbers, A[n].lease # "lapsed"
      PROVE  Quiet(A[n])
  <2>1. A[n].state \notin LiveStates
    BY <1>1, <1>2, <1>4 DEF RowsAgree
  <2> QED BY <2>1 DEF Quiet, RowsAgree
<1> QED BY <1>2, <1>3, <1>4

\* _expire_leases keeps types and agreement, and is a frame.
LEMMA ExpireLeasesKeeps ==
    ASSUME NEW d \in Database, Consistent(d)
    PROVE  /\ ExpireLeases(d) \in Database
           /\ Consistent(ExpireLeases(d))
           /\ Frame(d, ExpireLeases(d))
<1> DEFINE A == [t \in Tasks |-> [n \in Numbers |->
                    IF d.att[t][n].lease = "lapsed"
                    THEN Release(Close(d.att[t][n], LiveStates, "expired"))
                    ELSE d.att[t][n]]]
           K == [t \in Tasks |->
                    IF ExecutionLost(d, t)
                    THEN [d.task[t] EXCEPT !.state = "rekey_required"] ELSE d.task[t]]
           e == [d EXCEPT !.att = A, !.task = K]
<1>1. e \in Database
  <2>1. \A t \in Tasks : d.task[t] \in TaskRow
                         /\ [d.task[t] EXCEPT !.state = "rekey_required"] \in TaskRow
    BY Zenon, RowsTyped, TaskType DEF TaskStates
  <2>2. \A t \in Tasks, n \in Numbers :
        /\ d.att[t][n] \in AttemptRow
        /\ Release(Close(d.att[t][n], LiveStates, "expired")) \in AttemptRow
    BY Zenon, RowsTyped, RowType DEF FinalStates
  <2>3. A \in [Tasks -> [Numbers -> AttemptRow]] /\ K \in [Tasks -> TaskRow]
    BY <2>1, <2>2
  <2> HIDE DEF A, K
  <2> QED BY Zenon, <2>3 DEF Database
<1>2. e.att = A /\ e.task = K /\ e.wrk = d.wrk
  BY DEF Database
<1>3. ASSUME NEW t \in Tasks PROVE RowsAgree(K[t], A[t])
  <2>1. CASE \A n \in Numbers : d.att[t][n].lease # "lapsed"
    <3>1. K[t] = d.task[t] /\ A[t] = d.att[t]
      BY <2>1 DEF ExecutionLost, Database
    <3> QED BY <3>1 DEF Consistent
  <2>2. CASE \E n \in Numbers : d.att[t][n].lease = "lapsed"
    <3>1. /\ d.task[t].state \in {"reserved", "running", "cancelled"}
          /\ \A n \in Numbers : Quiet(A[t][n])
      BY <2>2, RowsTyped, LostExecutionQuiet DEF Consistent
    <3>2. K[t].state \in {"rekey_required", "cancelled"}
      <4>1. [d.task[t] EXCEPT !.state = "rekey_required"].state = "rekey_required"
        BY RowsTyped, StateField
      <4> QED BY <2>2, <3>1, <4>1 DEF ExecutionLost
    <3> QED BY Zenon, <3>1, <3>2, QuietAgrees
  <2> QED BY <2>1, <2>2
<1>4. ASSUME NEW t \in Tasks, NEW n \in Numbers
      PROVE  RowFrame(d.att[t][n], A[t][n])
  BY Zenon, RowsTyped, CloseFrame DEF Consistent, RowsAgree, FinalStates, OpenStates
<1>5. ExpireLeases(d) = FinalizeDrained(e)
  BY DEF ExpireLeases
<1> HIDE DEF e, A, K
<1> QED BY <1>1, <1>2, <1>3, <1>4, <1>5, FinalizeKeeps DEF Consistent, Frame

\* Frames compose.
LEMMA FrameTransitive ==
    ASSUME NEW d, NEW e, NEW f, Frame(d, e), Frame(e, f)
    PROVE  Frame(d, f)
<1>1. ASSUME NEW t \in Tasks, NEW n \in Numbers
      PROVE  RowFrame(d.att[t][n], f.att[t][n])
  <2>1. RowFrame(d.att[t][n], e.att[t][n]) /\ RowFrame(e.att[t][n], f.att[t][n])
    BY DEF Frame
  <2> QED BY ZenonT(30), <2>1 DEF RowFrame
<1> QED BY <1>1 DEF Frame

\* The expiry run before most scheduling transactions.
LEMMA ExpiredKeeps ==
    ASSUME NEW d \in Database, Consistent(d)
    PROVE  Expired(d) \in Database /\ Consistent(Expired(d)) /\ Frame(d, Expired(d))
  BY ExpireReservationsType, ExpireReservationsKeeps, ExpireLeasesKeeps, FrameTransitive
     DEF Expired

-----------------------------------------------------------------------------
(* leave_worker *)

\* Expiring the tasks prepared for a departing Worker.
LEMMA ExpirePreparedKeeps ==
    ASSUME NEW d \in Database, Consistent(d), NEW w \in Workers
    PROVE  /\ ExpirePrepared(d, w) \in Database
           /\ Consistent(ExpirePrepared(d, w))
           /\ Frame(d, ExpirePrepared(d, w))
<1> DEFINE e == ExpirePrepared(d, w)
           gone == {t \in Tasks : d.task[t].worker = w /\ d.task[t].state = "prepared"}
<1>1. \A t \in Tasks : d.task[t] \in TaskRow /\ [d.task[t] EXCEPT !.state = "expired"] \in TaskRow
  BY Zenon, RowsTyped, TaskType DEF TaskStates
<1>2. \A t \in Tasks, n \in Numbers :
        /\ d.att[t][n] \in AttemptRow
        /\ Close(d.att[t][n], {"reserved"}, "expired") \in AttemptRow
  BY RowsTyped, RowType DEF FinalStates
<1>3. e \in Database
  BY Zenon, <1>1, <1>2 DEF ExpirePrepared, Database
<1>4. ASSUME NEW t \in Tasks PROVE RowsAgree(e.task[t], e.att[t])
  <2>1. CASE t \notin gone
    <3>1. e.task[t] = d.task[t] /\ e.att[t] = d.att[t]
      BY <2>1 DEF ExpirePrepared, Database
    <3> QED BY <3>1 DEF Consistent
  <2>2. CASE t \in gone
    <3>1. e.task[t] = [d.task[t] EXCEPT !.state = "expired"]
      BY <2>2 DEF ExpirePrepared, Database
    <3>2. e.task[t].state = "expired"
      BY <3>1, RowsTyped, StateField
    <3>3. \A n \in Numbers : Quiet(d.att[t][n])
      BY <2>2, AgreeQuiet DEF Consistent
    <3>4. \A n \in Numbers : Quiet(Close(d.att[t][n], {"reserved"}, "expired"))
      BY <1>2, <3>3, QuietClosed DEF FinalStates
    <3>5. \A n \in Numbers : Quiet(e.att[t][n])
      BY <2>2, <3>4 DEF ExpirePrepared, Database
    <3> QED BY <3>2, <3>5, QuietAgrees
  <2> QED BY <2>1, <2>2
<1>5. ASSUME NEW t \in Tasks, NEW n \in Numbers
      PROVE  RowFrame(d.att[t][n], e.att[t][n])
  <2>1. /\ RowFrame(d.att[t][n], d.att[t][n])
        /\ RowFrame(d.att[t][n], Close(d.att[t][n], {"reserved"}, "expired"))
    BY SMTT(30), RowsTyped, CloseFrame DEF Consistent, RowsAgree, FinalStates, OpenStates
  <2> QED BY <2>1 DEF ExpirePrepared, Database
<1>6. e.wrk = d.wrk
  BY DEF ExpirePrepared, Database
<1> QED BY <1>3, <1>4, <1>5, <1>6 DEF Consistent, Frame

\* A graceful leave takes unleased tasks out of the Worker's queue.
LEMMA RequeueKeeps ==
    ASSUME NEW d \in Database, Consistent(d), NEW w \in Workers
    PROVE  /\ Requeue(d, w) \in Database
           /\ Consistent(Requeue(d, w))
           /\ Frame(d, Requeue(d, w))
<1> DEFINE e == Requeue(d, w)
           gone == Unleased(d, w)
           row(t) == [d.task[t] EXCEPT !.state = "rekey_required", !.resv = "none"]
<1>1. \A t \in Tasks : /\ d.task[t] \in TaskRow
                       /\ row(t) \in TaskRow /\ row(t).state = "rekey_required"
  BY Zenon, RowsTyped DEF TaskRow, TaskStates
<1>2. \A t \in Tasks, n \in Numbers :
        /\ d.att[t][n] \in AttemptRow
        /\ Close(d.att[t][n], {"reserved"}, "cancelled") \in AttemptRow
  BY Zenon, RowsTyped, RowType DEF FinalStates
<1>3. e \in Database
  BY Zenon, <1>1, <1>2 DEF Requeue, Database
<1>4. ASSUME NEW t \in Tasks PROVE RowsAgree(e.task[t], e.att[t])
  <2>1. CASE t \notin gone
    <3>1. e.task[t] = d.task[t] /\ e.att[t] = d.att[t]
      BY <2>1 DEF Requeue, Database
    <3> QED BY <3>1 DEF Consistent
  <2>2. CASE t \in gone
    <3>1. e.task[t].state = "rekey_required"
      BY Zenon, <1>1, <2>2 DEF Requeue, Database
    <3>2. \A n \in Numbers : Quiet(d.att[t][n])
      BY <2>2, AgreeQuiet DEF Consistent, Unleased
    <3>3. \A n \in Numbers : Quiet(Close(d.att[t][n], {"reserved"}, "cancelled"))
      BY <1>2, <3>2, QuietClosed DEF FinalStates
    <3>4. \A n \in Numbers : Quiet(e.att[t][n])
      BY <2>2, <3>3 DEF Requeue, Database
    <3> QED BY <3>1, <3>4, QuietAgrees
  <2> QED BY <2>1, <2>2
<1>5. ASSUME NEW t \in Tasks, NEW n \in Numbers
      PROVE  RowFrame(d.att[t][n], e.att[t][n])
  <2>1. /\ RowFrame(d.att[t][n], d.att[t][n])
        /\ RowFrame(d.att[t][n], Close(d.att[t][n], {"reserved"}, "cancelled"))
    BY SMTT(30), RowsTyped, CloseFrame DEF Consistent, RowsAgree, FinalStates, OpenStates
  <2> QED BY <2>1 DEF Requeue, Database
<1>6. e.wrk = d.wrk
  BY DEF Requeue, Database
<1> QED BY <1>3, <1>4, <1>5, <1>6 DEF Consistent, Frame

\* Rows that execute nothing may be replaced by quiet ones.
LEMMA QuietReplacement ==
    ASSUME NEW k, NEW A, NEW B, RowsAgree(k, A),
           \A n \in Numbers : \/ B[n] = A[n]
                              \/ /\ A[n].state \notin LiveStates /\ Quiet(B[n])
                                 /\ A[n].state = "none" => B[n].state = "none"
    PROVE  RowsAgree(k, B)
  BY DEF RowsAgree, Quiet, LiveStates

\* A forced leave takes every open attempt from the Worker.
LEMMA EvictKeeps ==
    ASSUME NEW d \in Database, Consistent(d), NEW w \in Workers
    PROVE  /\ Evict(d, w) \in Database
           /\ Consistent(Evict(d, w))
           /\ Frame(d, Evict(d, w))
<1> DEFINE e == Evict(d, w)
           taken(t, n) == Release(Close(d.att[t][n], OpenStates, "cancelled"))
<1>1. \A t \in Tasks : /\ d.task[t] \in TaskRow
                       /\ [d.task[t] EXCEPT !.state = "rekey_required"] \in TaskRow
                       /\ [d.task[t] EXCEPT !.state = "rekey_required"].state = "rekey_required"
  BY Zenon, RowsTyped, TaskType, StateField DEF TaskStates
<1>2. \A t \in Tasks, n \in Numbers :
        d.att[t][n] \in AttemptRow /\ taken(t, n) \in AttemptRow
  BY Zenon, RowsTyped, RowType DEF FinalStates
<1>3. e \in Database
  BY Zenon, <1>1, <1>2 DEF Evict, Database
<1>4. ASSUME NEW t \in Tasks PROVE RowsAgree(e.task[t], e.att[t])
  <2> DEFINE A == d.att[t]
             B == e.att[t]
  <2>1. RowsAgree(d.task[t], A)
    BY DEF Consistent
  <2>2. \A n \in Numbers : B[n] = IF A[n].worker = w THEN taken(t, n) ELSE A[n]
    BY DEF Evict, Database
  <2>3. \A n \in Numbers : /\ Quiet(taken(t, n))
                           /\ A[n].state = "none" => taken(t, n).state = "none"
    <3> SUFFICES ASSUME NEW n \in Numbers
                 PROVE  /\ Quiet(taken(t, n))
                        /\ A[n].state = "none" => taken(t, n).state = "none"
      OBVIOUS
    <3>1. Close(A[n], OpenStates, "cancelled") \in AttemptRow
      BY Zenon, <1>2, RowType DEF FinalStates
    <3> DEFINE c == Close(A[n], OpenStates, "cancelled")
    <3>2. A[n].lease \in HeldLease => A[n].state \in LiveStates
      BY Zenon, <2>1 DEF RowsAgree
    <3>3. /\ c.state = IF A[n].state \in OpenStates THEN "cancelled" ELSE A[n].state
          /\ c.lease = A[n].lease
      BY <1>2, CloseFields
    <3>4. /\ taken(t, n).state = c.state
          /\ taken(t, n).lease = IF c.lease \in HeldLease THEN "released" ELSE c.lease
      BY <3>1, ReleaseFields
    <3> HIDE DEF taken, c
    <3> QED BY <3>2, <3>3, <3>4 DEF Quiet, OpenStates, LiveStates, HeldLease
  <2>4. e.task[t] = IF /\ d.task[t].worker = w
                       /\ d.task[t].state \in {"queued", "reserved", "running"}
                    THEN [d.task[t] EXCEPT !.state = "rekey_required"]
                    ELSE d.task[t]
    BY DEF Evict, Database
  <2> HIDE DEF B, e, taken
  <2>5. CASE \E m \in Numbers : A[m].state \in LiveStates /\ A[m].worker = w
    <3>1. /\ d.task[t].worker = w
          /\ d.task[t].state \in {"reserved", "running", "cancelled"}
          /\ \A n \in Numbers : A[n].worker # w => Quiet(A[n])
      BY SMTT(30), <2>1, <2>5 DEF RowsAgree, Quiet, LiveStates
    <3>2. \A n \in Numbers : Quiet(B[n])
      BY <2>2, <2>3, <3>1
    <3>3. e.task[t].state \in {"rekey_required", "cancelled"}
      BY <1>1, <2>4, <3>1
    <3> QED BY <3>2, <3>3, QuietAgrees DEF B
  <2>6. CASE \A m \in Numbers : A[m].worker = w => A[m].state \notin LiveStates
    <3>1. CASE d.task[t].worker = w /\ d.task[t].state \in {"queued", "reserved", "running"}
      <4>1. d.task[t].state = "queued"
        BY SMTT(30), <2>1, <2>6, <3>1 DEF RowsAgree, LiveStates
      <4>2. \A n \in Numbers : Quiet(A[n])
        BY <2>1, <4>1, AgreeQuiet
      <4>3. \A n \in Numbers : Quiet(B[n])
        BY <2>2, <2>3, <4>2
      <4>4. e.task[t].state = "rekey_required"
        BY <1>1, <2>4, <3>1
      <4> QED BY <4>3, <4>4, QuietAgrees DEF B
    <3>2. CASE ~(d.task[t].worker = w /\ d.task[t].state \in {"queued", "reserved", "running"})
      <4>1. e.task[t] = d.task[t]
        BY <2>4, <3>2
      <4>2. \A n \in Numbers : \/ B[n] = A[n]
                               \/ /\ A[n].state \notin LiveStates /\ Quiet(B[n])
                                  /\ A[n].state = "none" => B[n].state = "none"
        BY <2>2, <2>3, <2>6
      <4> QED BY <2>1, <4>1, <4>2, QuietReplacement DEF B
    <3> QED BY <3>1, <3>2
  <2> QED BY <2>5, <2>6
<1>5. ASSUME NEW t \in Tasks, NEW n \in Numbers
      PROVE  RowFrame(d.att[t][n], e.att[t][n])
  <2>1. /\ RowFrame(d.att[t][n], d.att[t][n])
        /\ RowFrame(d.att[t][n], taken(t, n))
    BY RowsTyped, CloseFrame DEF Consistent, RowsAgree, FinalStates
  <2> QED BY <2>1 DEF Evict, Database
<1>6. e.wrk = d.wrk
  BY DEF Evict, Database
<1> QED BY <1>3, <1>4, <1>5, <1>6 DEF Consistent, Frame

-----------------------------------------------------------------------------
(* Reserve and Grant, the two operations that are not frames *)

\* A reservation keeps types and touches one attempt row and one counter.
LEMMA ReserveRows ==
    ASSUME NEW d \in Database, NEW t \in Tasks, NEW n \in Numbers, NEW w \in Workers
    PROVE  LET e == Reserve(d, t, n, w) IN
           /\ e \in Database
           /\ e.task = d.task /\ e.env = d.env
           /\ e.wrk[w].counter = d.wrk[w].counter + 1
           /\ \A v \in Workers : v # w => e.wrk[v] = d.wrk[v]
           /\ Quiet(e.att[t][n]) /\ e.att[t][n].state = "reserved"
           /\ e.att[t][n].worker = w /\ e.att[t][n].fence = d.wrk[w].counter + 1
           /\ \A u \in Tasks, m \in Numbers :
                <<u, m>> # <<t, n>> => e.att[u][m] = d.att[u][m]
           /\ \A u \in Tasks : u # t => e.att[u] = d.att[u]
<1> DEFINE e == Reserve(d, t, n, w)
           row == NewAttempt(w, d.wrk[w].counter + 1)
           wrow == [d.wrk[w] EXCEPT !.counter = @ + 1]
<1>1. d.wrk[w] \in WorkerRow /\ d.wrk[w].counter \in Nat
  BY DEF Database, WorkerRow
<1>2. /\ row \in AttemptRow /\ row.state = "reserved" /\ row.worker = w
      /\ row.fence = d.wrk[w].counter + 1 /\ ~row.started /\ row.lease = "none"
  BY <1>1 DEF NewAttempt, AttemptRow, OpenStates
<1>3. wrow \in WorkerRow /\ wrow.counter = d.wrk[w].counter + 1
  BY <1>1 DEF WorkerRow
<1>4. e = [d EXCEPT !.wrk = [d.wrk EXCEPT ![w] = wrow],
                    !.att = [d.att EXCEPT ![t] = [d.att[t] EXCEPT ![n] = row]]]
  BY DEF Reserve, Database
<1> HIDE DEF e, row, wrow
<1>5. /\ e.wrk = [d.wrk EXCEPT ![w] = wrow]
      /\ e.att = [d.att EXCEPT ![t] = [d.att[t] EXCEPT ![n] = row]]
      /\ e.task = d.task /\ e.env = d.env
  BY <1>4 DEF Database
<1>6. e \in Database
  BY Zenon, <1>2, <1>3, <1>4 DEF Database
<1>7. e.att[t][n] = row /\ e.wrk[w] = wrow
  BY <1>5 DEF Database
<1>8. /\ \A v \in Workers : v # w => e.wrk[v] = d.wrk[v]
      /\ \A u \in Tasks : u # t => e.att[u] = d.att[u]
      /\ \A u \in Tasks, m \in Numbers : <<u, m>> # <<t, n>> => e.att[u][m] = d.att[u][m]
  BY <1>5 DEF Database
<1>9. Quiet(row)
  BY <1>2 DEF Quiet, LiveStates, HeldLease
<1> QED BY SMTT(30), <1>2, <1>3, <1>5, <1>6, <1>7, <1>8, <1>9 DEF e

\* The attempt row lease writes.
LEMMA LeasedRow ==
    ASSUME NEW a \in AttemptRow, NEW f \in Nat
    PROVE  LET b == [a EXCEPT !.state = "leased", !.lease = "live", !.fence = f] IN
           /\ b \in AttemptRow /\ b.state = "leased" /\ b.lease = "live"
           /\ b.fence = f /\ b.worker = a.worker /\ b.started = a.started
<1> DEFINE b == [a EXCEPT !.state = "leased", !.lease = "live", !.fence = f]
<1>1. /\ b.state = "leased" /\ b.lease = "live" /\ b.fence = f
      /\ b.worker = a.worker /\ b.started = a.started
  BY DEF AttemptRow
<1>2. b \in AttemptRow
  BY Zenon DEF AttemptRow, OpenStates, LiveStates, HeldLease
<1> QED BY <1>1, <1>2

\* A grant keeps types, takes the next token and opens one lease.
LEMMA GrantRows ==
    ASSUME NEW d \in Database, NEW t \in Tasks, NEW n \in Numbers, NEW w \in Workers
    PROVE  LET e == Grant(d, t, n, w) IN
           /\ e \in Database
           /\ e.env = d.env
           /\ \A u \in Tasks : u # t => e.task[u] = d.task[u] /\ e.att[u] = d.att[u]
           /\ e.task[t].state = "reserved" /\ e.task[t].worker = d.task[t].worker
           /\ e.wrk[w].counter = d.wrk[w].counter + 1
           /\ \A v \in Workers : v # w => e.wrk[v] = d.wrk[v]
           /\ e.att[t][n].state = "leased" /\ e.att[t][n].lease = "live"
           /\ e.att[t][n].fence = d.wrk[w].counter + 1
           /\ e.att[t][n].worker = d.att[t][n].worker
           /\ e.att[t][n].started = d.att[t][n].started
           /\ \A u \in Tasks, m \in Numbers :
                <<u, m>> # <<t, n>> => e.att[u][m] = d.att[u][m]
<1> DEFINE e == Grant(d, t, n, w)
           a == d.att[t][n]
           f == d.wrk[w].counter + 1
           row == [a EXCEPT !.state = "leased", !.lease = "live", !.fence = f]
           wrow == [d.wrk[w] EXCEPT !.counter = @ + 1]
           trow == [d.task[t] EXCEPT !.state = "reserved"]
<1>1. /\ d.wrk[w] \in WorkerRow /\ d.wrk[w].counter \in Nat
      /\ a \in AttemptRow /\ d.task[t] \in TaskRow
      /\ f \in Nat
  BY DEF Database, WorkerRow
<1>2. /\ row \in AttemptRow /\ row.state = "leased" /\ row.lease = "live"
      /\ row.fence = f /\ row.worker = a.worker /\ row.started = a.started
  <2> HIDE DEF a, f
  <2> QED BY <1>1, LeasedRow, Zenon
<1>3. wrow \in WorkerRow /\ wrow.counter = d.wrk[w].counter + 1
  BY <1>1 DEF WorkerRow
<1>4. trow \in TaskRow /\ trow.state = "reserved" /\ trow.worker = d.task[t].worker
  BY Zenon, <1>1, TaskType, StateField DEF TaskStates
<1>5. e = [d EXCEPT !.wrk = [d.wrk EXCEPT ![w] = wrow],
                    !.att = [d.att EXCEPT ![t] = [d.att[t] EXCEPT ![n] = row]],
                    !.task = [d.task EXCEPT ![t] = trow]]
  BY DEF Grant, Database
<1> HIDE DEF e, row, wrow, trow
<1>6. /\ e.wrk = [d.wrk EXCEPT ![w] = wrow]
      /\ e.att = [d.att EXCEPT ![t] = [d.att[t] EXCEPT ![n] = row]]
      /\ e.task = [d.task EXCEPT ![t] = trow] /\ e.env = d.env
  BY <1>5 DEF Database
<1>7. e \in Database
  BY Zenon, <1>2, <1>3, <1>4, <1>5 DEF Database
<1>8. e.att[t][n] = row /\ e.wrk[w] = wrow /\ e.task[t] = trow
  BY <1>6 DEF Database
<1>9. /\ \A v \in Workers : v # w => e.wrk[v] = d.wrk[v]
      /\ \A u \in Tasks : u # t => e.task[u] = d.task[u] /\ e.att[u] = d.att[u]
      /\ \A u \in Tasks, m \in Numbers : <<u, m>> # <<t, n>> => e.att[u][m] = d.att[u][m]
  BY <1>6 DEF Database
<1>10. /\ e.env = d.env
       /\ e.task[t].state = "reserved" /\ e.task[t].worker = d.task[t].worker
       /\ e.wrk[w].counter = d.wrk[w].counter + 1
       /\ e.att[t][n].state = "leased" /\ e.att[t][n].lease = "live"
       /\ e.att[t][n].fence = d.wrk[w].counter + 1
       /\ e.att[t][n].worker = d.att[t][n].worker
       /\ e.att[t][n].started = d.att[t][n].started
  BY SMTT(30), <1>2, <1>3, <1>4, <1>6, <1>8
<1> QED BY Zenon, <1>7, <1>9, <1>10 DEF e

\* The same of a database e that is known to be the granted one.
LEMMA GrantFields ==
    ASSUME NEW d \in Database, NEW t \in Tasks, NEW n \in Numbers, NEW w \in Workers,
           NEW e, e = Grant(d, t, n, w)
    PROVE  /\ e \in Database
           /\ e.wrk[w].counter = d.wrk[w].counter + 1
           /\ \A v \in Workers : v # w => e.wrk[v] = d.wrk[v]
           /\ e.att[t][n].state = "leased"
           /\ e.att[t][n].fence = d.wrk[w].counter + 1
           /\ e.att[t][n].worker = d.att[t][n].worker
           /\ \A u \in Tasks, m \in Numbers :
                <<u, m>> # <<t, n>> => e.att[u][m] = d.att[u][m]
  BY GrantRows, SMTT(40)

\* A leased attempt of the assigned Worker beside quiet ones agrees with a
\* reserved task.
LEMMA LeasedAgrees ==
    ASSUME NEW k, NEW A, NEW n \in Numbers, k.state = "reserved",
           A[n].state = "leased", A[n].lease = "live", ~A[n].started,
           A[n].worker = k.worker, \A m \in Numbers : m # n => Quiet(A[m])
    PROVE  RowsAgree(k, A)
<1>1. ASSUME NEW m \in Numbers
      PROVE  /\ A[m].lease \in HeldLease <=> A[m].state \in LiveStates
             /\ A[m].state # "running"
             /\ A[m].state \in {"reserved", "leased"} => ~A[m].started
             /\ A[m].state \in LiveStates => A[m].worker = k.worker
             /\ A[m].state \in LiveStates => m = n
  <2>1. CASE m = n
    BY <2>1 DEF LiveStates, HeldLease
  <2>2. CASE m # n
    BY <2>2 DEF Quiet, LiveStates
  <2> QED BY <2>1, <2>2
<1> QED BY <1>1 DEF RowsAgree

\* A grant on a queued task keeps the rows in agreement.
LEMMA GrantConsistent ==
    ASSUME NEW d \in Database, Consistent(d), NEW t \in Tasks, NEW n \in Numbers,
           NEW w \in Workers, d.task[t].state = "queued", d.task[t].worker = w,
           d.att[t][n].worker = w, d.att[t][n].state = "reserved"
    PROVE  Consistent(Grant(d, t, n, w))
<1> DEFINE e == Grant(d, t, n, w)
<1>1. \A m \in Numbers : Quiet(d.att[t][m])
  BY AgreeQuiet DEF Consistent
<1>2. RowsAgree(e.task[t], e.att[t])
  <2>1. /\ e.task[t].state = "reserved" /\ e.task[t].worker = w
        /\ e.att[t][n].state = "leased" /\ e.att[t][n].lease = "live"
        /\ e.att[t][n].worker = w /\ ~e.att[t][n].started
    <3>1. ~d.att[t][n].started
      BY <1>1 DEF Quiet
    <3>2. /\ e.task[t].state = "reserved" /\ e.task[t].worker = d.task[t].worker
          /\ e.att[t][n].state = "leased" /\ e.att[t][n].lease = "live"
          /\ e.att[t][n].worker = d.att[t][n].worker
          /\ e.att[t][n].started = d.att[t][n].started
      BY GrantRows
    <3> QED BY <3>1, <3>2
  <2>2. \A m \in Numbers : m # n => Quiet(e.att[t][m])
    BY <1>1, GrantRows
  <2> HIDE DEF e
  <2> QED BY <2>1, <2>2, LeasedAgrees
<1>3. \A u \in Tasks : u # t => e.task[u] = d.task[u] /\ e.att[u] = d.att[u]
  BY GrantRows
<1> QED BY <1>2, <1>3 DEF Consistent

-----------------------------------------------------------------------------
(* What a transaction from d to e keeps *)

\* The parts of the inductive invariant and of the action properties that
\* concern the tables alone.
Safe(d, e) ==
    /\ e \in Database
    /\ Consistent(e)
    /\ FencesOK(e)
    /\ ClosedRowsKept(d, e)
    /\ NewTokensLarger(d, e)

\* No attempt starts to execute.
NoneStarts(d, e) ==
    \A w \in Workers : AttemptsOn(e, w, LiveStates) \subseteq AttemptsOn(d, w, LiveStates)

\* A token names one attempt of its Worker.
LEMMA TokenHolder ==
    ASSUME NEW d, FencesOK(d), NEW t \in Tasks, NEW m \in Numbers,
           NEW u \in Tasks, NEW n \in Numbers,
           d.att[t][m].state # "none", d.att[u][n].state # "none",
           d.att[u][n].worker = d.att[t][m].worker,
           d.att[u][n].fence = d.att[t][m].fence
    PROVE  t = u /\ m = n
<1>1. \A s \in Tasks, k \in Numbers :
          /\ d.att[s][k].state # "none"
          /\ d.att[s][k].worker = d.att[t][m].worker
          /\ d.att[s][k].fence = d.att[t][m].fence
          => t = s /\ m = k
  BY Zenon DEF FencesOK
<1> QED BY Zenon, <1>1

\* A token is one its Worker's counter has reached.
LEMMA TokenReached ==
    ASSUME NEW d, FencesOK(d), NEW t \in Tasks, NEW m \in Numbers, d.att[t][m].state # "none"
    PROVE  /\ d.att[t][m].worker \in Workers
           /\ d.att[t][m].fence \in 1..d.wrk[d.att[t][m].worker].counter
  BY Zenon DEF FencesOK

\* A frame keeps tokens, closed rows and executing attempts.
LEMMA FrameSafe ==
    ASSUME NEW d \in Database, NEW e \in Database, Consistent(e), FencesOK(d), Frame(d, e)
    PROVE  Safe(d, e) /\ NoneStarts(d, e)
<1>0. \A t \in Tasks, m \in Numbers :
        /\ e.att[t][m].worker = d.att[t][m].worker
        /\ e.att[t][m].fence = d.att[t][m].fence
        /\ e.att[t][m].state = "none" <=> d.att[t][m].state = "none"
        /\ e.att[t][m].state \in LiveStates => d.att[t][m].state \in LiveStates
        /\ d.att[t][m].state \in FinalStates => e.att[t][m] = d.att[t][m]
  BY Zenon DEF Frame, RowFrame
<1>1. FencesOK(e)
  <2> SUFFICES ASSUME NEW t \in Tasks, NEW m \in Numbers, e.att[t][m].state # "none"
               PROVE  /\ e.att[t][m].worker \in Workers
                      /\ e.att[t][m].fence \in 1..e.wrk[e.att[t][m].worker].counter
                      /\ \A u \in Tasks, n \in Numbers :
                          /\ e.att[u][n].state # "none"
                          /\ e.att[u][n].worker = e.att[t][m].worker
                          /\ e.att[u][n].fence = e.att[t][m].fence
                          => t = u /\ m = n
    BY Zenon DEF FencesOK
  <2>1. /\ d.att[t][m].worker \in Workers
        /\ d.att[t][m].fence \in 1..d.wrk[d.att[t][m].worker].counter
    BY Zenon, <1>0, TokenReached
  <2>2. e.wrk[d.att[t][m].worker].counter = d.wrk[d.att[t][m].worker].counter
    BY Zenon, <2>1 DEF Frame
  <2>3. ASSUME NEW u \in Tasks, NEW n \in Numbers, e.att[u][n].state # "none",
               e.att[u][n].worker = e.att[t][m].worker,
               e.att[u][n].fence = e.att[t][m].fence
        PROVE  t = u /\ m = n
    <3>1. d.att[t][m].state # "none" /\ d.att[u][n].state # "none"
      BY Zenon, <1>0, <2>3
    <3>2. /\ d.att[u][n].worker = d.att[t][m].worker
          /\ d.att[u][n].fence = d.att[t][m].fence
      BY SMT, <1>0, <2>3
    <3>3. \A x \in Tasks, y \in Numbers :
            /\ d.att[x][y].state # "none"
            /\ d.att[x][y].worker = d.att[t][m].worker
            /\ d.att[x][y].fence = d.att[t][m].fence
            => t = x /\ m = y
      BY ZenonT(60), <3>1 DEF FencesOK
    <3> QED BY Zenon, <3>1, <3>2, <3>3
  <2>4. e.att[t][m].worker = d.att[t][m].worker /\ e.att[t][m].fence = d.att[t][m].fence
    BY Zenon, <1>0
  <2> QED BY Zenon, <2>1, <2>2, <2>3, <2>4
<1>2. ClosedRowsKept(d, e) /\ NewTokensLarger(d, e)
  BY Zenon, <1>0 DEF ClosedRowsKept, NewTokensLarger
<1>3. NoneStarts(d, e)
  <2>1. \A t \in Tasks, m \in Numbers :
          /\ e.att[t][m].worker = d.att[t][m].worker
          /\ e.att[t][m].state \in LiveStates => d.att[t][m].state \in LiveStates
    BY Zenon, <1>0
  <2> QED BY SMTT(30), <2>1 DEF NoneStarts, AttemptsOn
<1> QED BY <1>1, <1>2, <1>3 DEF Safe

\* A frame followed by a safe operation is safe.
LEMMA SafeAfterFrame ==
    ASSUME NEW d \in Database, NEW e \in Database, NEW f, Frame(d, e), Safe(e, f)
    PROVE  Safe(d, f) /\ (NoneStarts(e, f) => NoneStarts(d, f))
<1>1. ClosedRowsKept(d, f)
  BY DEF ClosedRowsKept, Frame, RowFrame, Safe
<1>2. NewTokensLarger(d, f)
  <2> SUFFICES ASSUME NEW t \in Tasks, NEW u \in Tasks, NEW m \in Numbers, NEW n \in Numbers,
                      f.att[t][n].fence # d.att[t][n].fence,
                      d.att[u][m].state # "none",
                      d.att[u][m].worker = f.att[t][n].worker
               PROVE  f.att[t][n].fence > d.att[u][m].fence
    BY DEF NewTokensLarger
  <2>1. /\ e.att[t][n].fence = d.att[t][n].fence
        /\ e.att[u][m].fence = d.att[u][m].fence
        /\ e.att[u][m].worker = d.att[u][m].worker
        /\ e.att[u][m].state = "none" <=> d.att[u][m].state = "none"
    BY Zenon DEF Frame, RowFrame
  <2>2. /\ f.att[t][n].fence # e.att[t][n].fence
        /\ e.att[u][m].state # "none"
        /\ e.att[u][m].worker = f.att[t][n].worker
        /\ e.att[u][m].fence = d.att[u][m].fence
    BY Zenon, <2>1
  <2>3. NewTokensLarger(e, f)
    BY DEF Safe
  <2>4. f.att[t][n].fence > e.att[u][m].fence
    BY Zenon, <2>2, <2>3 DEF NewTokensLarger
  <2> QED BY Zenon, <2>2, <2>4
<1>3. ASSUME NoneStarts(e, f)
      PROVE  NoneStarts(d, f)
  <2>1. \A w \in Workers : AttemptsOn(e, w, LiveStates) \subseteq AttemptsOn(d, w, LiveStates)
    <3>1. \A t \in Tasks, m \in Numbers :
            /\ e.att[t][m].worker = d.att[t][m].worker
            /\ e.att[t][m].state \in LiveStates => d.att[t][m].state \in LiveStates
      BY Zenon DEF Frame, RowFrame
    <3> QED BY SMTT(30), <3>1 DEF AttemptsOn
  <2> QED BY Zenon, <1>3, <2>1 DEF NoneStarts
<1> QED BY <1>1, <1>2, <1>3 DEF Safe

\* An operation that only rewrites the attempt row n of t, with the next
\* token of its Worker, keeps tokens unique and increasing.
LEMMA NextTokenFences ==
    ASSUME NEW d \in Database, NEW e \in Database, FencesOK(d),
           NEW t \in Tasks, NEW n \in Numbers, NEW w \in Workers,
           d.att[t][n].state \notin FinalStates,
           e.att[t][n].worker = w, e.att[t][n].fence = d.wrk[w].counter + 1,
           e.wrk[w].counter = d.wrk[w].counter + 1,
           \A v \in Workers : v # w => e.wrk[v] = d.wrk[v],
           \A u \in Tasks, m \in Numbers : <<u, m>> # <<t, n>> => e.att[u][m] = d.att[u][m]
    PROVE  FencesOK(e) /\ ClosedRowsKept(d, e) /\ NewTokensLarger(d, e)
<1>0. ASSUME NEW u \in Tasks, NEW m \in Numbers, d.att[u][m].state # "none",
             NEW s \in Tasks, NEW k \in Numbers, d.att[s][k].state # "none",
             d.att[s][k].worker = d.att[u][m].worker,
             d.att[s][k].fence = d.att[u][m].fence
      PROVE  u = s /\ m = k
  BY SMTT(60), <1>0, TokenHolder
<1>1. \A v \in Workers : d.wrk[v].counter \in Nat
  BY DEF Database, WorkerRow
<1>2. \A u \in Tasks, m \in Numbers : d.att[u][m].fence \in Nat
  BY RowsTyped DEF AttemptRow
<1>3. FencesOK(e)
  <2> SUFFICES ASSUME NEW u \in Tasks, NEW m \in Numbers, e.att[u][m].state # "none"
               PROVE  /\ e.att[u][m].worker \in Workers
                      /\ e.att[u][m].fence \in 1..e.wrk[e.att[u][m].worker].counter
                      /\ \A s \in Tasks, k \in Numbers :
                          /\ e.att[s][k].state # "none"
                          /\ e.att[s][k].worker = e.att[u][m].worker
                          /\ e.att[s][k].fence = e.att[u][m].fence
                          => u = s /\ m = k
    BY Zenon DEF FencesOK
  <2>1. CASE u = t /\ m = n
    <3>1. e.att[u][m].fence \in 1..e.wrk[e.att[u][m].worker].counter
      <4>1. /\ e.att[u][m].worker = w
            /\ e.att[u][m].fence = d.wrk[w].counter + 1
            /\ e.wrk[w].counter = d.wrk[w].counter + 1
        BY Zenon, <2>1
      <4>2. d.wrk[w].counter + 1 \in 1..(d.wrk[w].counter + 1)
        BY <1>1
      <4> QED BY Zenon, <4>1, <4>2
    <3>2. ASSUME NEW s \in Tasks, NEW k \in Numbers, e.att[s][k].state # "none",
                 e.att[s][k].worker = w, <<s, k>> # <<t, n>>
          PROVE  e.att[s][k].fence <= d.wrk[w].counter
      <4>1. e.att[s][k] = d.att[s][k]
        BY Zenon, <3>2
      <4>2. d.att[s][k].fence \in 1..d.wrk[w].counter
        <5>1. d.att[s][k].state # "none" /\ d.att[s][k].worker = w
          BY Zenon, <3>2, <4>1
        <5>2. d.att[s][k].fence \in 1..d.wrk[d.att[s][k].worker].counter
          BY <5>1, TokenReached
        <5> QED BY Zenon, <5>1, <5>2
      <4> QED BY <1>1, <4>1, <4>2
    <3>3. ASSUME NEW s \in Tasks, NEW k \in Numbers, e.att[s][k].state # "none",
                 e.att[s][k].worker = w, e.att[s][k].fence = e.att[u][m].fence
          PROVE  <<s, k>> = <<t, n>>
      <4>1. e.att[s][k].fence = d.wrk[w].counter + 1
        BY <2>1, <3>3
      <4>2. ~(e.att[s][k].fence <= d.wrk[w].counter)
        BY <1>1, <4>1
      <4> QED BY Zenon, <3>2, <3>3, <4>2
    <3> QED BY Zenon, <2>1, <3>1, <3>3
  <2>2. CASE <<u, m>> # <<t, n>>
    <3>1. e.att[u][m] = d.att[u][m]
      BY SMTT(30), <2>2
    <3>2. /\ e.att[u][m].worker \in Workers
          /\ e.att[u][m].fence \in 1..d.wrk[e.att[u][m].worker].counter
      <4>1. d.att[u][m].state # "none"
        BY Zenon, <3>1
      <4> QED BY <3>1, <4>1, TokenReached
    <3>3. e.wrk[e.att[u][m].worker].counter \in
             {d.wrk[e.att[u][m].worker].counter, d.wrk[e.att[u][m].worker].counter + 1}
      BY Zenon, <3>2
    <3>4. e.att[u][m].fence \in 1..e.wrk[e.att[u][m].worker].counter
      <4> DEFINE c == d.wrk[e.att[u][m].worker].counter
      <4>1. c \in Nat
        BY Zenon, <1>1, <3>2
      <4> HIDE DEF c
      <4>2. \A f \in 1..c : f \in 1..c /\ f \in 1..(c + 1)
        BY <4>1
      <4> QED BY <3>2, <3>3, <4>2, Zenon DEF c
    <3>5. ASSUME NEW s \in Tasks, NEW k \in Numbers, e.att[s][k].state # "none",
                 e.att[s][k].worker = e.att[u][m].worker,
                 e.att[s][k].fence = e.att[u][m].fence
          PROVE  u = s /\ m = k
      <4>1. ASSUME s = t, k = n
            PROVE  FALSE
        <5>1. /\ e.att[u][m].worker = w /\ e.att[u][m].fence = d.wrk[w].counter + 1
          BY Zenon, <3>5, <4>1
        <5>2. d.wrk[w].counter + 1 \in 1..d.wrk[w].counter
          BY Zenon, <3>2, <5>1
        <5> QED BY <1>1, <5>2
      <4>2. e.att[s][k] = d.att[s][k]
        BY Zenon, <4>1
      <4>3. d.att[u][m].state # "none" /\ d.att[s][k].state # "none"
            /\ d.att[s][k].worker = d.att[u][m].worker
            /\ d.att[s][k].fence = d.att[u][m].fence
        <5>1. d.att[u][m].state # "none" /\ d.att[s][k].state # "none"
          BY Zenon, <3>1, <3>5, <4>2
        <5>2. d.att[s][k].worker = d.att[u][m].worker
          BY Zenon, <3>1, <3>5, <4>2
        <5>3. d.att[s][k].fence = d.att[u][m].fence
          BY Zenon, <3>1, <3>5, <4>2
        <5> QED BY Zenon, <5>1, <5>2, <5>3
      <4> QED BY <1>0, <4>3
    <3> QED BY Zenon, <3>2, <3>4, <3>5
  <2> QED BY Zenon, <2>1, <2>2
<1>4. ClosedRowsKept(d, e)
  BY DEF ClosedRowsKept
<1>5. NewTokensLarger(d, e)
  <2> SUFFICES ASSUME NEW s \in Tasks, NEW u \in Tasks, NEW m \in Numbers, NEW k \in Numbers,
                      e.att[s][k].fence # d.att[s][k].fence,
                      d.att[u][m].state # "none",
                      d.att[u][m].worker = e.att[s][k].worker
               PROVE  e.att[s][k].fence > d.att[u][m].fence
    BY Zenon DEF NewTokensLarger
  <2>1. s = t /\ k = n
    BY Zenon
  <2>2. d.att[u][m].fence \in 1..d.wrk[w].counter
    <3>1. d.att[u][m].worker = w
      BY Zenon, <2>1
    <3>2. d.att[u][m].fence \in 1..d.wrk[d.att[u][m].worker].counter
      BY TokenReached
    <3> QED BY Zenon, <3>1, <3>2
  <2>3. e.att[s][k].fence = d.wrk[w].counter + 1
    BY Zenon, <2>1
  <2> QED BY <1>1, <2>2, <2>3
<1> QED BY <1>3, <1>4, <1>5

-----------------------------------------------------------------------------
(* The inductive invariant *)

IInv ==
    /\ TypeOK
    /\ Consistent(db)
    /\ FencingUnique
    /\ MaintenanceExcludesExecution
    /\ CapacityRespected

\* The attempts a Worker executes are finitely many.
LEMMA AttemptsFinite ==
    ASSUME NEW d, NEW w, NEW S
    PROVE  /\ IsFiniteSet(AttemptsOn(d, w, S))
           /\ Cardinality(AttemptsOn(d, w, S)) \in Nat
<1>1. IsFiniteSet(Numbers)
  BY ConstantsAssumption, FS_Interval DEF Numbers
<1>2. IsFiniteSet(Tasks \X Numbers)
  BY <1>1, ConstantsAssumption, FS_Product
<1>3. AttemptsOn(d, w, S) \subseteq Tasks \X Numbers
  BY DEF AttemptsOn
<1> QED BY <1>2, <1>3, FS_Subset, FS_CardinalityType

\* A transaction that starts no execution and takes no maintenance job.
LEMMA QuietStep ==
    ASSUME IInv, Safe(db, db'), NoneStarts(db, db'),
           maint' \in [Workers -> MaintenanceStates],
           \A w \in Workers : maint'[w] = "held" => maint[w] = "held"
    PROVE  IInv'
<1>1. TypeOK' /\ Consistent(db)' /\ FencingUnique'
  BY Zenon DEF Safe, TypeOK, FencingUnique, FencesOK, Consistent, RowsAgree
<1>2. MaintenanceExcludesExecution'
  BY SMTT(90) DEF IInv, MaintenanceExcludesExecution, NoneStarts, AttemptsOn
<1>3. CapacityRespected'
  <2> SUFFICES ASSUME NEW w \in Workers
               PROVE  Cardinality(AttemptsOn(db', w, LiveStates)) <= Capacity[w]
    BY SMTT(30) DEF CapacityRespected, AttemptsOn
  <2>1. Cardinality(AttemptsOn(db', w, LiveStates)) <= Cardinality(AttemptsOn(db, w, LiveStates))
    BY AttemptsFinite, FS_Subset DEF NoneStarts
  <2>2. Cardinality(AttemptsOn(db, w, LiveStates)) <= Capacity[w]
    BY DEF IInv, CapacityRespected
  <2>3. Capacity[w] \in Nat
    BY ConstantsAssumption
  <2> HIDE DEF AttemptsOn
  <2> QED BY <2>1, <2>2, <2>3, AttemptsFinite
<1> QED BY <1>1, <1>2, <1>3 DEF IInv

-----------------------------------------------------------------------------
(* One lemma per transaction, or per group that touches the same rows *)

\* The sweeper and an empty poll.
LEMMA ExpiredSafe ==
    ASSUME IInv
    PROVE  /\ Expired(db) \in Database /\ Consistent(Expired(db)) /\ FencesOK(Expired(db))
           /\ Frame(db, Expired(db))
           /\ Safe(db, Expired(db)) /\ NoneStarts(db, Expired(db))
<1>1. db \in Database /\ Consistent(db) /\ FencesOK(db)
  BY DEF IInv, TypeOK, FencingUnique
<1>2. Expired(db) \in Database /\ Consistent(Expired(db)) /\ Frame(db, Expired(db))
  BY <1>1, ExpiredKeeps
<1>3. Safe(db, Expired(db)) /\ NoneStarts(db, Expired(db))
  BY <1>1, <1>2, FrameSafe
<1> QED BY <1>2, <1>3 DEF Safe

\* A transaction that leaves attempts and Workers alone.
LEMMA TaskOnlySafe ==
    ASSUME NEW d \in Database, NEW e \in Database, Consistent(d), FencesOK(d),
           e.att = d.att, e.wrk = d.wrk,
           \A u \in Tasks : RowsAgree(e.task[u], d.att[u])
    PROVE  Safe(d, e) /\ NoneStarts(d, e)
<1>1. Frame(d, e)
  BY DEF Frame, RowFrame
<1>2. Consistent(e)
  BY DEF Consistent
<1> QED BY <1>1, <1>2, FrameSafe

\* A transaction that leaves tasks, attempts and counters alone.
LEMMA WorkerOnlySafe ==
    ASSUME NEW d \in Database, NEW e \in Database, Consistent(d), FencesOK(d),
           e.att = d.att, e.task = d.task,
           \A w \in Workers : e.wrk[w].counter = d.wrk[w].counter
    PROVE  Safe(d, e) /\ NoneStarts(d, e)
<1>1. Frame(d, e)
  BY DEF Frame, RowFrame
<1>2. Consistent(e)
  BY DEF Consistent
<1> QED BY <1>1, <1>2, FrameSafe

\* A reservation on a task that shows no execution, with the task row k.
LEMMA ReserveSafe ==
    ASSUME NEW d \in Database, Consistent(d), FencesOK(d),
           NEW t \in Tasks, NEW n \in Numbers, NEW w \in Workers,
           d.att[t][n].state = "none",
           d.task[t].state \notin {"reserved", "running", "cancelled"},
           NEW k \in TaskRow, k.state \notin {"reserved", "running", "absent"}
    PROVE  LET e == [Reserve(d, t, n, w) EXCEPT !.task[t] = k]
           IN  Safe(d, e) /\ NoneStarts(d, e)
<1> DEFINE r == Reserve(d, t, n, w)
           e == [r EXCEPT !.task[t] = k]
<1>1. /\ r \in Database
      /\ r.task = d.task /\ r.env = d.env
      /\ r.wrk[w].counter = d.wrk[w].counter + 1
      /\ \A v \in Workers : v # w => r.wrk[v] = d.wrk[v]
      /\ Quiet(r.att[t][n]) /\ r.att[t][n].state = "reserved"
      /\ r.att[t][n].worker = w /\ r.att[t][n].fence = d.wrk[w].counter + 1
      /\ \A u \in Tasks, m \in Numbers : <<u, m>> # <<t, n>> => r.att[u][m] = d.att[u][m]
      /\ \A u \in Tasks : u # t => r.att[u] = d.att[u]
  BY SMTT(90), ReserveRows
<1> HIDE DEF r
<1>2. /\ e \in Database /\ e.att = r.att /\ e.wrk = r.wrk
      /\ e.task[t] = k /\ \A u \in Tasks : u # t => e.task[u] = d.task[u]
  BY Zenon, <1>1 DEF Database
<1> HIDE DEF e
<1>3. Consistent(e)
  <2>1. \A m \in Numbers : Quiet(e.att[t][m])
    <3>1. \A m \in Numbers : Quiet(d.att[t][m])
      BY AgreeQuiet DEF Consistent
    <3> QED BY <1>1, <1>2, <3>1
  <2>2. RowsAgree(e.task[t], e.att[t])
    BY <1>2, <2>1, QuietAgrees
  <2>3. \A u \in Tasks : u # t => e.task[u] = d.task[u] /\ e.att[u] = d.att[u]
    BY SMTT(30), <1>1, <1>2
  <2> QED BY <2>2, <2>3 DEF Consistent
<1>4. FencesOK(e) /\ ClosedRowsKept(d, e) /\ NewTokensLarger(d, e)
  <2>1. d.att[t][n].state \notin FinalStates
    BY DEF FinalStates
  <2>2. /\ e.att[t][n].worker = w /\ e.att[t][n].fence = d.wrk[w].counter + 1
        /\ e.wrk[w].counter = d.wrk[w].counter + 1
        /\ \A v \in Workers : v # w => e.wrk[v] = d.wrk[v]
    BY Zenon, <1>1, <1>2
  <2>3. \A u \in Tasks, m \in Numbers : <<u, m>> # <<t, n>> => e.att[u][m] = d.att[u][m]
    BY Zenon, <1>1, <1>2
  <2> QED BY Zenon, <1>2, <2>1, <2>2, <2>3, NextTokenFences
<1>5. NoneStarts(d, e)
  <2>1. \A u \in Tasks, m \in Numbers :
            e.att[u][m].state \in LiveStates => e.att[u][m] = d.att[u][m]
    BY <1>1, <1>2, Zenon DEF LiveStates
  <2> QED BY SMTT(30), <2>1 DEF NoneStarts, AttemptsOn
<1> QED BY <1>2, <1>3, <1>4, <1>5 DEF Safe, e, r

\* prepare_task.
LEMMA PrepareTaskSafe ==
    ASSUME IInv, NEW t \in Tasks, NEW w \in Workers, PrepareTask(t, w)
    PROVE  Safe(db, db') /\ NoneStarts(db, db')
<1> DEFINE d == Expired(db)
           k == [state |-> "prepared", worker |-> w, resv |-> "live", content |-> FALSE]
<1>1. db \in Database
  BY DEF IInv, TypeOK
<1>2. d \in Database /\ Consistent(d) /\ FencesOK(d) /\ Frame(db, d)
  BY ExpiredSafe
<1>3. /\ d.task[t].state = "absent" /\ 1 \in Numbers
      /\ db' = [Reserve(d, t, 1, w) EXCEPT !.task[t] = k]
  BY DEF PrepareTask
<1> HIDE DEF d
<1>4. d.att[t][1].state = "none"
  BY SMTT(30), <1>2, <1>3 DEF Consistent, RowsAgree
<1>5. k \in TaskRow
  BY DEF TaskRow, TaskStates
<1>6. k.state = "prepared"
  OBVIOUS
<1> HIDE DEF k
<1>7. Safe(d, db') /\ NoneStarts(d, db')
  BY <1>2, <1>3, <1>4, <1>5, <1>6, ReserveSafe
<1> QED BY <1>1, <1>2, <1>7, SafeAfterFrame

\* prepare_retry.
LEMMA PrepareRetrySafe ==
    ASSUME IInv, NEW t \in Tasks, NEW w \in Workers, PrepareRetry(t, w)
    PROVE  Safe(db, db') /\ NoneStarts(db, db')
<1> DEFINE d == ExpireReservations(db)
           k == [d.task[t] EXCEPT !.state = "rekey_required", !.worker = w, !.resv = "live"]
<1>1. db \in Database /\ Consistent(db) /\ FencesOK(db)
  BY DEF IInv, TypeOK, FencingUnique
<1>2. d \in Database /\ Consistent(d) /\ Frame(db, d)
  BY <1>1, ExpireReservationsType, ExpireReservationsKeeps
<1>3. FencesOK(d)
  BY <1>1, <1>2, FrameSafe DEF Safe
<1>4. PICK n \in Numbers :
        /\ IsNextNumber(d, t, n)
        /\ db' = [Reserve(d, t, n, w) EXCEPT !.task[t] =
                    [@ EXCEPT !.state = "rekey_required", !.worker = w, !.resv = "live"]]
  BY Zenon DEF PrepareRetry
<1>5. d.task[t].state \in {"failed", "rekey_required", "expired"}
  BY DEF PrepareRetry
<1> HIDE DEF d
<1>6. d.task[t] \in TaskRow
  BY <1>2, RowsTyped
<1>7. k \in TaskRow /\ k.state = "rekey_required"
  BY Zenon, <1>6 DEF TaskRow, TaskStates
<1>8. d.att[t][n].state = "none"
  BY <1>4, ConstantsAssumption DEF IsNextNumber, Numbers
<1>9. db' = [Reserve(d, t, n, w) EXCEPT !.task[t] = k]
  <2> DEFINE r == Reserve(d, t, n, w)
  <2>1. r.task = d.task
    BY SMTT(30), <1>2, ReserveRows
  <2> HIDE DEF r
  <2> QED BY <1>4, <2>1 DEF r
<1> HIDE DEF k
<1>10. Safe(d, db') /\ NoneStarts(d, db')
  BY <1>2, <1>3, <1>5, <1>7, <1>8, <1>9, ReserveSafe
<1> QED BY <1>1, <1>2, <1>10, SafeAfterFrame

\* commit_task, commit_rekey and the end of a reservation's time.
LEMMA TaskRowStepsSafe ==
    ASSUME IInv, NEW t \in Tasks,
           CommitTask(t) \/ ReservationLapses(t) \/ \E w \in Workers : CommitRekey(t, w)
    PROVE  Safe(db, db') /\ NoneStarts(db, db')
<1>1. db \in Database /\ Consistent(db) /\ FencesOK(db)
  BY DEF IInv, TypeOK, FencingUnique
<1>2. db.task[t] \in TaskRow
  BY <1>1, RowsTyped
<1>3. ASSUME NEW k \in TaskRow, db' \in Database, db'.att = db.att, db'.wrk = db.wrk,
             db'.task = [db.task EXCEPT ![t] = k], RowsAgree(k, db.att[t])
      PROVE  Safe(db, db') /\ NoneStarts(db, db')
  <2>1. \A u \in Tasks : RowsAgree(db'.task[u], db.att[u])
    BY <1>1, <1>3 DEF Consistent, Database
  <2> QED BY Zenon, <1>1, <1>3, <2>1, TaskOnlySafe
<1>4. ASSUME db.task[t].state \in {"prepared", "queued", "rekey_required"},
             NEW k \in TaskRow, k.state = "queued"
      PROVE  RowsAgree(k, db.att[t])
  <2>1. \A n \in Numbers : Quiet(db.att[t][n])
    BY <1>1, <1>4, AgreeQuiet DEF Consistent
  <2> QED BY <1>4, <2>1, QuietAgrees
<1>5. CASE CommitTask(t)
  <2> DEFINE k == [db.task[t] EXCEPT !.state = "queued", !.resv = "none", !.content = TRUE]
             v == db.env[t] \cup {db.task[t].worker}
  <2>1. k \in TaskRow /\ k.state = "queued"
    BY Zenon, <1>2 DEF TaskRow, TaskStates
  <2>2. v \in SUBSET (Workers \cup {NoWorker})
    BY <1>1, <1>2 DEF Database, TaskRow
  <2>3. /\ db.task[t].state = "prepared"
        /\ db' = [db EXCEPT !.task = [db.task EXCEPT ![t] = k],
                            !.env = [db.env EXCEPT ![t] = v]]
    BY <1>1, <1>5 DEF CommitTask, Database
  <2> HIDE DEF k, v
  <2>4. /\ db' \in Database /\ db'.att = db.att /\ db'.wrk = db.wrk
        /\ db'.task = [db.task EXCEPT ![t] = k]
    BY Zenon, <1>1, <2>1, <2>2, <2>3 DEF Database
  <2> QED BY <1>3, <1>4, <2>1, <2>3, <2>4
<1>6. ASSUME NEW w \in Workers, CommitRekey(t, w)
      PROVE  Safe(db, db') /\ NoneStarts(db, db')
  <2> DEFINE k == [db.task[t] EXCEPT !.state = "queued", !.resv = "none"]
  <2>1. k \in TaskRow /\ k.state = "queued"
    BY Zenon, <1>2 DEF TaskRow, TaskStates
  <2>2. /\ db.task[t].state = "rekey_required"
        /\ db' = [db EXCEPT !.task = [db.task EXCEPT ![t] = k],
                            !.env = [db.env EXCEPT ![t] = {w}]]
    BY Zenon, <1>1, <1>6 DEF CommitRekey, Database
  <2> HIDE DEF k
  <2>3. /\ db' \in Database /\ db'.att = db.att /\ db'.wrk = db.wrk
        /\ db'.task = [db.task EXCEPT ![t] = k]
    BY Zenon, <1>1, <2>1, <2>2 DEF Database
  <2> QED BY <1>3, <1>4, <2>1, <2>2, <2>3
<1>7. CASE ReservationLapses(t)
  <2> DEFINE k == [db.task[t] EXCEPT !.resv = "lapsed"]
  <2>1. k \in TaskRow /\ k.state = db.task[t].state /\ k.worker = db.task[t].worker
    BY <1>2 DEF TaskRow, TaskStates
  <2>2. db' = [db EXCEPT !.task = [db.task EXCEPT ![t] = k]]
    BY <1>1, <1>7 DEF ReservationLapses, Database
  <2> HIDE DEF k
  <2>3. /\ db' \in Database /\ db'.att = db.att /\ db'.wrk = db.wrk
        /\ db'.task = [db.task EXCEPT ![t] = k]
    BY Zenon, <1>1, <2>1, <2>2 DEF Database
  <2>4. RowsAgree(k, db.att[t])
    <3>1. RowsAgree(db.task[t], db.att[t])
      BY <1>1 DEF Consistent
    <3> QED BY <2>1, <3>1 DEF RowsAgree
  <2> QED BY <1>3, <2>1, <2>3, <2>4, Zenon
<1> QED BY <1>5, <1>6, <1>7

\* worker_heartbeat, offer_worker and approve_allocation.
LEMMA WorkerRowStepsSafe ==
    ASSUME IInv, NEW w \in Workers,
           WorkerHeartbeat(w) \/ OfferWorker(w) \/ ApproveAllocation(w)
    PROVE  Safe(db, db') /\ NoneStarts(db, db')
<1>1. db \in Database /\ Consistent(db) /\ FencesOK(db)
  BY DEF IInv, TypeOK, FencingUnique
<1>2. db.wrk[w] \in WorkerRow
  BY <1>1 DEF Database
<1>3. PICK r \in WorkerRow : /\ r.counter = db.wrk[w].counter
                             /\ db' = [db EXCEPT !.wrk = [db.wrk EXCEPT ![w] = r]]
  <2> DEFINE h == [db.wrk[w] EXCEPT !.status = "active"]
             o == [db.wrk[w] EXCEPT !.alloc = FALSE]
             p == [db.wrk[w] EXCEPT !.alloc = TRUE]
  <2>1. /\ h \in WorkerRow /\ h.counter = db.wrk[w].counter
        /\ o \in WorkerRow /\ o.counter = db.wrk[w].counter
        /\ p \in WorkerRow /\ p.counter = db.wrk[w].counter
    BY Zenon, <1>2 DEF WorkerRow
  <2>2. \/ db' = [db EXCEPT !.wrk = [db.wrk EXCEPT ![w] = h]]
        \/ db' = [db EXCEPT !.wrk = [db.wrk EXCEPT ![w] = o]]
        \/ db' = [db EXCEPT !.wrk = [db.wrk EXCEPT ![w] = p]]
    BY <1>1 DEF WorkerHeartbeat, OfferWorker, ApproveAllocation, Database
  <2> HIDE DEF h, o, p
  <2> QED BY <2>1, <2>2
<1>4. /\ db' \in Database /\ db'.att = db.att /\ db'.task = db.task
      /\ \A v \in Workers : db'.wrk[v].counter = db.wrk[v].counter
  BY SMTT(30), <1>1, <1>3 DEF Database
<1> QED BY <1>1, <1>4, WorkerOnlySafe

\* One task's rows k and A replace those of t; the rest stays.
LEMMA TaskRowsSafe ==
    ASSUME NEW d \in Database, NEW e \in Database, Consistent(d), FencesOK(d),
           NEW t \in Tasks, e.wrk = d.wrk,
           \A u \in Tasks : u # t => e.task[u] = d.task[u] /\ e.att[u] = d.att[u],
           RowsAgree(e.task[t], e.att[t]),
           \A n \in Numbers : RowFrame(d.att[t][n], e.att[t][n])
    PROVE  Safe(d, e) /\ NoneStarts(d, e)
<1>1. Consistent(e)
  BY DEF Consistent
<1>2. Frame(d, e)
  BY SMTT(90) DEF Frame, RowFrame
<1> QED BY SMTT(30), <1>1, <1>2, FrameSafe

\* cancel_task.
LEMMA CancelTaskSafe ==
    ASSUME IInv, NEW t \in Tasks, CancelTask(t)
    PROVE  Safe(db, db') /\ NoneStarts(db, db')
<1> DEFINE A == db.att[t]
           B == [n \in Numbers |-> CancelAttempt(A[n])]
           k == [db.task[t] EXCEPT !.state = "cancelled"]
<1>1. db \in Database /\ Consistent(db) /\ FencesOK(db)
  BY DEF IInv, TypeOK, FencingUnique
<1>2. k \in TaskRow /\ k.state = "cancelled" /\ k.worker = db.task[t].worker
  BY Zenon, <1>1, RowsTyped, TaskType, StateField DEF TaskStates
<1>3. ASSUME NEW n \in Numbers
      PROVE  /\ B[n] \in AttemptRow /\ RowFrame(A[n], B[n])
             /\ A[n].state = "running" => B[n] = A[n]
             /\ A[n].state # "running" => Quiet(B[n])
  <2> DEFINE c == Close(A[n], {"reserved", "leased"}, "cancelled")
  <2>1. A[n] \in AttemptRow
    BY <1>1, RowsTyped
  <2>2. c \in AttemptRow /\ Release(c) \in AttemptRow
    BY SMTT(30), <2>1, RowType DEF FinalStates
  <2>3. RowFrame(A[n], c) /\ RowFrame(A[n], Release(c))
    <3>1. RowsAgree(db.task[t], A)
      BY <1>1 DEF Consistent
    <3>2. A[n].lease \in HeldLease => A[n].state \in LiveStates
      BY Zenon, <3>1 DEF RowsAgree
    <3>3. {"reserved", "leased"} \in SUBSET OpenStates /\ "cancelled" \in FinalStates
      BY DEF OpenStates, LiveStates, FinalStates
    <3> QED BY <2>1, <3>2, <3>3, CloseFrame
  <2>4. B[n] = IF c.state = "cancelled" /\ ~c.started THEN Release(c) ELSE c
    BY DEF CancelAttempt
  <2>5. /\ c.state = IF A[n].state \in {"reserved", "leased"} THEN "cancelled" ELSE A[n].state
        /\ c.lease = A[n].lease /\ c.started = A[n].started
    BY SMTT(30), <2>1, CloseFields
  <2>6. A[n].state = "running" => B[n] = A[n]
    BY <2>4 DEF Close
  <2>7. A[n].state # "running" => Quiet(B[n])
    <3>1. /\ A[n].lease \in HeldLease <=> A[n].state \in LiveStates
          /\ A[n].state \in {"reserved", "leased"} => ~A[n].started
      BY SMTT(90), <1>1 DEF Consistent, RowsAgree
    <3>2. /\ Release(c).state = c.state /\ Release(c).started = c.started
          /\ Release(c).lease = IF c.lease \in HeldLease THEN "released" ELSE c.lease
      BY SMTT(30), <2>2, ReleaseFields
    <3> HIDE DEF B, c
    <3> QED BY SMTT(90), <2>4, <2>5, <3>1, <3>2 DEF Quiet, LiveStates, HeldLease
  <2> QED BY SMTT(90), <2>2, <2>3, <2>4, <2>6, <2>7
<1>4. db' = [db EXCEPT !.att = [db.att EXCEPT ![t] = B],
                       !.task = [db.task EXCEPT ![t] = k]]
  BY <1>1 DEF CancelTask, Database
<1>5. B \in [Numbers -> AttemptRow]
  BY <1>3
<1>6. RowsAgree(db.task[t], A) /\ db.task[t].state \notin {"cancelled", "absent"}
  BY <1>1 DEF Consistent, CancelTask, FinalStates
<1> HIDE DEF A, B, k
<1>7. /\ db' \in Database /\ db'.wrk = db.wrk /\ db'.task[t] = k /\ db'.att[t] = B
      /\ \A u \in Tasks : u # t => db'.task[u] = db.task[u] /\ db'.att[u] = db.att[u]
  BY Zenon, <1>1, <1>2, <1>4, <1>5 DEF Database
<1>8. RowsAgree(k, B)
  BY SMTT(90), <1>2, <1>3, <1>6 DEF RowsAgree, Quiet, LiveStates
<1> QED BY SMTT(30), <1>1, <1>3, <1>7, <1>8, TaskRowsSafe DEF A

\* One attempt row b and the task row k of t are rewritten.
LEMMA OneRowSafe ==
    ASSUME NEW d \in Database, Consistent(d), FencesOK(d),
           NEW t \in Tasks, NEW n \in Numbers, NEW b \in AttemptRow, NEW k \in TaskRow,
           RowFrame(d.att[t][n], b), RowsAgree(k, [d.att[t] EXCEPT ![n] = b]),
           NEW e, e = [d EXCEPT !.att = [d.att EXCEPT ![t] = [d.att[t] EXCEPT ![n] = b]],
                                !.task = [d.task EXCEPT ![t] = k]]
    PROVE  e \in Database /\ Safe(d, e) /\ NoneStarts(d, e)
<1>1. e \in Database /\ e.wrk = d.wrk
  BY Zenon DEF Database
<1>2. /\ e.task[t] = k /\ e.att[t] = [d.att[t] EXCEPT ![n] = b]
      /\ \A u \in Tasks : u # t => e.task[u] = d.task[u] /\ e.att[u] = d.att[u]
  BY DEF Database
<1>3. \A m \in Numbers : RowFrame(d.att[t][m], e.att[t][m])
  BY <1>2, RowsTyped DEF RowFrame, Database
<1>4. RowsAgree(e.task[t], e.att[t])
  BY <1>2
<1> QED BY <1>1, <1>2, <1>3, <1>4, TaskRowsSafe, ZenonT(60)

\* heartbeat_attempt; the first "started" report makes the attempt running.
LEMMA HeartbeatAttemptSafe ==
    ASSUME IInv, NEW t \in Tasks, NEW n \in Numbers, NEW f, NEW started,
           HeartbeatAttempt(t, n, f, started)
    PROVE  Safe(db, db') /\ NoneStarts(db, db')
<1> DEFINE A == db.att[t]
           b == [A[n] EXCEPT !.state = "running", !.started = TRUE]
           k == [db.task[t] EXCEPT !.state = "running"]
<1>1. db \in Database /\ Consistent(db) /\ FencesOK(db)
  BY DEF IInv, TypeOK, FencingUnique
<1>2. CASE db' = db
  BY <1>1, <1>2, WorkerOnlySafe
<1>3. CASE db' # db
  <2>1. /\ A[n].state = "leased" /\ A[n].lease = "live"
        /\ db' = [db EXCEPT !.att = [db.att EXCEPT ![t] = [db.att[t] EXCEPT ![n] = b]],
                            !.task = [db.task EXCEPT ![t] = k]]
    BY <1>1, <1>3 DEF HeartbeatAttempt, LeaseValid, Database
  <2>2. A[n] \in AttemptRow /\ db.task[t] \in TaskRow /\ RowsAgree(db.task[t], A)
    BY <1>1, RowsTyped DEF Consistent
  <2>3. /\ b \in AttemptRow /\ b.state = "running" /\ b.started /\ b.lease = A[n].lease
        /\ b.worker = A[n].worker /\ b.fence = A[n].fence
    BY Zenon, <2>2 DEF AttemptRow, OpenStates, LiveStates
  <2>4. k \in TaskRow /\ k.state = "running" /\ k.worker = db.task[t].worker
    BY Zenon, <2>2, TaskType, StateField DEF TaskStates
  <2> HIDE DEF b, k
  <2>5. RowFrame(A[n], b)
    <3>1. A[n].state \in LiveStates /\ A[n].state \notin FinalStates
      BY <2>1 DEF FinalStates, LiveStates
    <3>2. A[n].state # "none" /\ b.state # "none"
      BY <2>3, <3>1 DEF LiveStates
    <3> QED BY Zenon, <2>3, <3>1, <3>2 DEF RowFrame
  <2>6. \A m \in Numbers : m # n => Quiet(A[m])
    BY <2>1, <2>2, OthersQuiet DEF LiveStates
  <2>7. RowsAgree(k, [A EXCEPT ![n] = b])
    <3>1. /\ [A EXCEPT ![n] = b][n] = b
          /\ \A m \in Numbers : m # n => [A EXCEPT ![n] = b][m] = A[m]
      BY <1>1 DEF Database
    <3>2. A[n].worker = db.task[t].worker
      BY SMTT(30), <2>1, <2>2 DEF RowsAgree, LiveStates
    <3> HIDE DEF A
    <3> QED BY <2>1, <2>3, <2>4, <2>6, <3>1, <3>2 DEF RowsAgree, Quiet, LiveStates, HeldLease
  <2> QED BY Zenon, <1>1, <2>1, <2>3, <2>4, <2>5, <2>7, OneRowSafe
<1> QED BY <1>2, <1>3

\* A lease that lapses is still the attempt's lease.
LEMMA LeaseLapsesSafe ==
    ASSUME IInv, NEW t \in Tasks, NEW n \in Numbers, LeaseLapses(t, n)
    PROVE  Safe(db, db') /\ NoneStarts(db, db')
<1> DEFINE A == db.att[t]
           b == [A[n] EXCEPT !.lease = "lapsed"]
           k == db.task[t]
<1>1. db \in Database /\ Consistent(db) /\ FencesOK(db)
  BY DEF IInv, TypeOK, FencingUnique
<1>2. A[n] \in AttemptRow /\ k \in TaskRow /\ RowsAgree(k, A) /\ A[n].lease = "live"
  BY <1>1, RowsTyped DEF Consistent, LeaseLapses
<1>3. /\ b \in AttemptRow /\ b.lease = "lapsed" /\ b.state = A[n].state
      /\ b.started = A[n].started /\ b.worker = A[n].worker /\ b.fence = A[n].fence
  BY <1>2 DEF AttemptRow, HeldLease
<1>4. db' = [db EXCEPT !.att = [db.att EXCEPT ![t] = [db.att[t] EXCEPT ![n] = b]],
                       !.task = [db.task EXCEPT ![t] = k]]
  BY Zenon, <1>1 DEF LeaseLapses, Database
<1> HIDE DEF b
<1>5. A[n].state \in LiveStates
  <2>1. A[n].lease \in HeldLease
    BY <1>2 DEF HeldLease
  <2> QED BY Zenon, <1>2, <2>1 DEF RowsAgree
<1>6. RowFrame(A[n], b)
  <2>1. A[n].state \notin FinalStates
    BY <1>5 DEF FinalStates, LiveStates
  <2> QED BY Zenon, <1>3, <2>1 DEF RowFrame
<1>7. RowsAgree(k, [A EXCEPT ![n] = b])
  <2>1. /\ [A EXCEPT ![n] = b][n] = b
        /\ \A m \in Numbers : m # n => [A EXCEPT ![n] = b][m] = A[m]
    BY <1>1 DEF Database
  <2>2. [A EXCEPT ![n] = b][n].lease \in HeldLease
        /\ A[n].lease \in HeldLease
    BY <1>2, <1>3, <2>1 DEF HeldLease
  <2>3. \A m \in Numbers : LET x == [A EXCEPT ![n] = b][m] IN
          /\ x.lease \in HeldLease <=> A[m].lease \in HeldLease
          /\ x.state = A[m].state /\ x.started = A[m].started /\ x.worker = A[m].worker
    BY Zenon, <1>3, <2>1, <2>2
  <2> DEFINE B == [A EXCEPT ![n] = b]
  <2> HIDE DEF A, k, B
  <2>4. \A m \in Numbers :
          /\ B[m].lease \in HeldLease <=> A[m].lease \in HeldLease
          /\ B[m].state = A[m].state /\ B[m].started = A[m].started
          /\ B[m].worker = A[m].worker
    BY Zenon, <2>3 DEF B
  <2>5. RowsAgree(k, B)
    BY SMTT(30), <1>2, <2>4 DEF RowsAgree
  <2> QED BY <2>5 DEF B
<1> QED BY Zenon, <1>1, <1>2, <1>3, <1>4, <1>6, <1>7, OneRowSafe

\* A change of Worker rows that keeps the counters adds nothing.
LEMMA WorkersChange ==
    ASSUME NEW c, NEW d \in Database, NEW e \in Database, Safe(c, d), NoneStarts(c, d),
           e.att = d.att, e.task = d.task,
           \A w \in Workers : e.wrk[w].counter = d.wrk[w].counter
    PROVE  Safe(c, e) /\ NoneStarts(c, e)
<1>1. Consistent(e)
  BY DEF Safe, Consistent
<1>2. FencesOK(e)
  <2>1. FencesOK(d)
    BY DEF Safe
  <2> SUFFICES ASSUME NEW t \in Tasks, NEW m \in Numbers, e.att[t][m].state # "none"
               PROVE  /\ e.att[t][m].worker \in Workers
                      /\ e.att[t][m].fence \in 1..e.wrk[e.att[t][m].worker].counter
                      /\ \A u \in Tasks, n \in Numbers :
                          /\ e.att[u][n].state # "none"
                          /\ e.att[u][n].worker = e.att[t][m].worker
                          /\ e.att[u][n].fence = e.att[t][m].fence
                          => t = u /\ m = n
    BY Zenon DEF FencesOK
  <2>2. /\ d.att[t][m].worker \in Workers
        /\ d.att[t][m].fence \in 1..d.wrk[d.att[t][m].worker].counter
    BY Zenon, <2>1 DEF FencesOK
  <2>3. e.wrk[d.att[t][m].worker].counter = d.wrk[d.att[t][m].worker].counter
    BY Zenon, <2>2
  <2>4. ASSUME NEW u \in Tasks, NEW n \in Numbers, e.att[u][n].state # "none",
               e.att[u][n].worker = e.att[t][m].worker,
               e.att[u][n].fence = e.att[t][m].fence
        PROVE  t = u /\ m = n
    <3>1. /\ d.att[t][m].state # "none" /\ d.att[u][n].state # "none"
          /\ d.att[u][n].worker = d.att[t][m].worker
          /\ d.att[u][n].fence = d.att[t][m].fence
      BY Zenon, <2>4
    <3>2. \A x \in Tasks, y \in Numbers :
            /\ d.att[x][y].state # "none"
            /\ d.att[x][y].worker = d.att[t][m].worker
            /\ d.att[x][y].fence = d.att[t][m].fence
            => t = x /\ m = y
      BY ZenonT(60), <2>1, <3>1 DEF FencesOK
    <3> QED BY Zenon, <3>1, <3>2
  <2> QED BY Zenon, <2>2, <2>3, <2>4
<1>3. ClosedRowsKept(c, e)
  BY Zenon DEF Safe, ClosedRowsKept
<1>4. NewTokensLarger(c, e)
  BY Zenon DEF Safe, NewTokensLarger
<1>5. NoneStarts(c, e)
  <2>1. \A w \in Workers : AttemptsOn(e, w, LiveStates) = AttemptsOn(d, w, LiveStates)
    BY Zenon DEF AttemptsOn
  <2> QED BY Zenon, <2>1 DEF NoneStarts
<1> QED BY <1>1, <1>2, <1>3, <1>4, <1>5 DEF Safe

Finished(a, s, r, u) ==
    [a EXCEPT !.state = s, !.lease = "released", !.receipt = r, !.usage = u]

\* The attempt row finish_attempt writes.
LEMMA FinishedRow ==
    ASSUME NEW a \in AttemptRow, NEW s \in Reports, NEW r \in Reports, NEW u \in Nat
    PROVE  LET b == Finished(a, s, r, u) IN
           /\ b \in AttemptRow /\ b.state = s /\ b.lease = "released"
           /\ b.worker = a.worker /\ b.fence = a.fence
<1> DEFINE b == Finished(a, s, r, u)
<1>1. /\ b.state = s /\ b.lease = "released"
      /\ b.worker = a.worker /\ b.fence = a.fence
  BY DEF Finished, AttemptRow
<1>2. b \in AttemptRow
  BY Zenon DEF Finished, AttemptRow, FinalStates, Reports
<1> QED BY <1>1, <1>2

\* finish_attempt closes the task's only execution, and may finalize a
\* draining Worker.
LEMMA FinishAttemptSafe ==
    ASSUME IInv, NEW t \in Tasks, NEW n \in Numbers, NEW f,
           NEW report \in Reports,
           FinishAttempt(t, n, f, report)
    PROVE  Safe(db, db') /\ NoneStarts(db, db')
<1> DEFINE A == db.att[t]
           a == db.att[t][n]
           c == db.task[t].state = "cancelled"
           s == IF c THEN "cancelled" ELSE report
           u == Charge(a, c)
           b == Finished(a, s, report, u)
           k == [db.task[t] EXCEPT !.state = s]
           d == [db EXCEPT !.att = [db.att EXCEPT ![t] = [db.att[t] EXCEPT ![n] = b]],
                           !.task = [db.task EXCEPT ![t] = k]]
<1>1. db \in Database /\ Consistent(db) /\ FencesOK(db)
  BY DEF IInv, TypeOK, FencingUnique
<1>2. a \in AttemptRow /\ db.task[t] \in TaskRow /\ RowsAgree(db.task[t], A)
  BY <1>1, RowsTyped DEF Consistent
<1>3. a.state \in LiveStates /\ db' \in {d, FinalizeDrained(d)}
  BY SMTT(30), <1>1 DEF FinishAttempt, Finished, Database
<1>4. s \in Reports /\ u \in Nat
  BY SMTT(30), <1>2 DEF Charge, AttemptRow, Reports
<1> HIDE DEF s, u, c, a
<1>5. /\ b \in AttemptRow /\ b.state = s /\ b.lease = "released"
      /\ b.worker = a.worker /\ b.fence = a.fence
  BY SMTT(30), <1>2, <1>4, FinishedRow
<1>6. k \in TaskRow /\ k.state = s
  BY Zenon, <1>2, <1>4, TaskType, StateField DEF TaskStates, Reports
<1> HIDE DEF b, k
<1>7. RowFrame(a, b)
  <2>1. a.state \notin FinalStates /\ a.state # "none"
    BY <1>3 DEF FinalStates, LiveStates
  <2>2. b.state \notin LiveStates /\ b.state # "none"
    BY <1>4, <1>5 DEF LiveStates, Reports
  <2> QED BY Zenon, <1>5, <2>1, <2>2 DEF RowFrame
<1>8. RowsAgree(k, [A EXCEPT ![n] = b])
  <2>1. \A m \in Numbers : m # n => Quiet(A[m])
    BY <1>2, <1>3, OthersQuiet DEF a
  <2>2. Quiet(b)
    BY <1>4, <1>5 DEF Quiet, LiveStates, HeldLease, Reports
  <2>3. \A m \in Numbers : Quiet([A EXCEPT ![n] = b][m])
    BY <1>1, <2>1, <2>2 DEF Database
  <2> QED BY Zenon, <1>4, <1>6, <2>3, QuietAgrees DEF Reports
<1>9. d \in Database /\ Safe(db, d) /\ NoneStarts(db, d)
  BY Zenon, <1>1, <1>5, <1>6, <1>7, <1>8, OneRowSafe DEF a
<1> HIDE DEF d
<1>10. Safe(db, FinalizeDrained(d)) /\ NoneStarts(db, FinalizeDrained(d))
  BY <1>9, FinalizeKeeps, WorkersChange
<1> QED BY <1>3, <1>9, <1>10

\* leave_worker, graceful or forced.
LEMMA LeaveWorkerSafe ==
    ASSUME IInv, NEW w \in Workers, NEW force, LeaveWorker(w, force)
    PROVE  Safe(db, db') /\ NoneStarts(db, db')
<1> DEFINE p == ExpirePrepared(db, w)
           d == IF force THEN Evict(p, w) ELSE Requeue(p, w)
           idle == AttemptsOn(db, w, LiveStates) = {}
           s == IF force \/ idle THEN "revoked" ELSE "draining"
           r == [d.wrk[w] EXCEPT !.status = s, !.alloc = FALSE]
<1>1. db \in Database /\ Consistent(db) /\ FencesOK(db)
  BY DEF IInv, TypeOK, FencingUnique
<1>2. p \in Database /\ Consistent(p) /\ Frame(db, p)
  BY <1>1, ExpirePreparedKeeps
<1>3. d \in Database /\ Consistent(d) /\ Frame(p, d)
  BY <1>2, EvictKeeps, RequeueKeeps
<1>4. Frame(db, d)
  BY <1>2, <1>3, FrameTransitive
<1>5. db' = [d EXCEPT !.wrk[w].status = s, !.wrk[w].alloc = FALSE]
  BY DEF LeaveWorker, Left
<1> HIDE DEF d, p, idle
<1>6. r \in WorkerRow /\ r.counter = d.wrk[w].counter
  BY Zenon, <1>3 DEF WorkerRow, Database
<1>7. db' = [d EXCEPT !.wrk = [d.wrk EXCEPT ![w] = r]]
  BY Zenon, <1>3, <1>5 DEF Database
<1> HIDE DEF r, s
<1>8. /\ db' \in Database /\ db'.att = d.att /\ db'.task = d.task
      /\ \A v \in Workers : db'.wrk[v].counter = d.wrk[v].counter
  BY Zenon, <1>3, <1>6, <1>7 DEF Database
<1>9. Frame(db, db') /\ Consistent(db')
  BY SMTT(30), <1>3, <1>4, <1>8 DEF Frame, Consistent
<1> QED BY SMTT(30), <1>1, <1>8, <1>9, FrameSafe

\* lease: the expiries, then at most one grant to a Worker with a free slot
\* and no maintenance job.
LEMMA LeaseSafe ==
    ASSUME IInv, NEW w \in Workers, Lease(w)
    PROVE  IInv' /\ Safe(db, db')
<1> DEFINE d == Expired(db)
<1>1. /\ d \in Database /\ Consistent(d) /\ FencesOK(d)
      /\ Frame(db, d) /\ Safe(db, d) /\ NoneStarts(db, d)
  BY ExpiredSafe
<1>2. maint' = maint /\ maint \in [Workers -> MaintenanceStates] /\ db \in Database
  BY SMTT(30) DEF Lease, IInv, TypeOK
<1>3. CASE db' = d
  <2>1. Safe(db, db') /\ NoneStarts(db, db')
    BY <1>1, <1>3
  <2> QED BY <1>2, <2>1, QuietStep
<1>4. CASE db' # d
  <2>1. PICK t \in ReadyTasks(d, w), n \in Numbers :
            NewestReserved(d, t, n, w) /\ db' = Grant(d, t, n, w)
    BY SMTT(30), <1>4 DEF Lease
  <2>2. HasFreeSlot(d, w) /\ maint[w] = "none"
    BY SMTT(30), <1>4 DEF Lease, MaintenanceClear
  <2>3. /\ t \in Tasks /\ d.task[t].state = "queued" /\ d.task[t].worker = w
        /\ d.att[t][n].worker = w /\ d.att[t][n].state = "reserved"
    BY SMTT(90), <2>1 DEF ReadyTasks, NewestReserved
  <2> HIDE DEF d
  <2>4. db' \in Database /\ Consistent(db')
    BY <1>1, <2>1, <2>3, GrantFields, GrantConsistent, Zenon
  <2>5. /\ db'.wrk[w].counter = d.wrk[w].counter + 1
        /\ \A v \in Workers : v # w => db'.wrk[v] = d.wrk[v]
        /\ db'.att[t][n].worker = w /\ db'.att[t][n].fence = d.wrk[w].counter + 1
        /\ db'.att[t][n].state = "leased"
        /\ \A u \in Tasks, m \in Numbers : <<u, m>> # <<t, n>> => db'.att[u][m] = d.att[u][m]
    <3>1. db' = Grant(d, t, n, w)
      BY <2>1
    <3>2. d \in Database
      BY <1>1
    <3> QED BY SMTT(90), <2>3, <3>1, <3>2, GrantFields
  <2>6. FencesOK(db') /\ ClosedRowsKept(d, db') /\ NewTokensLarger(d, db')
    BY Zenon, <1>1, <2>3, <2>4, <2>5, NextTokenFences DEF FinalStates
  <2>7. Safe(db, db')
    BY SMTT(30), <1>1, <1>2, <2>4, <2>6, SafeAfterFrame DEF Safe
  <2>8. ASSUME NEW v \in Workers, v # w
        PROVE  AttemptsOn(db', v, LiveStates) \subseteq AttemptsOn(d, v, LiveStates)
    <3>1. ASSUME NEW u \in Tasks, NEW m \in Numbers, db'.att[u][m].worker = v
          PROVE  db'.att[u][m] = d.att[u][m]
      <4>1. <<u, m>> # <<t, n>>
        BY Zenon, <2>5, <2>8, <3>1
      <4> QED BY Zenon, <2>5, <4>1
    <3> QED BY SMTT(30), <3>1 DEF AttemptsOn
  <2>9. AttemptsOn(db', w, LiveStates) \subseteq AttemptsOn(d, w, LiveStates) \cup {<<t, n>>}
    <3>1. \A u \in Tasks, m \in Numbers : <<u, m>> # <<t, n>> => db'.att[u][m] = d.att[u][m]
      BY <2>5
    <3> QED BY SMTT(30), <3>1 DEF AttemptsOn
  <2>10. TypeOK' /\ Consistent(db)' /\ FencingUnique'
    BY Zenon, <1>2, <2>4, <2>6 DEF TypeOK, FencingUnique, FencesOK, Consistent, RowsAgree
  <2>11. MaintenanceExcludesExecution'
    <3> SUFFICES ASSUME NEW v \in Workers, maint[v] = "held"
                 PROVE  AttemptsOn(db', v, LiveStates) = {}
      BY SMTT(30), <1>2 DEF MaintenanceExcludesExecution, AttemptsOn
    <3>1. AttemptsOn(db, v, LiveStates) = {} /\ v # w
      BY <2>2 DEF IInv, MaintenanceExcludesExecution
    <3> QED BY <1>1, <2>8, <3>1 DEF NoneStarts
  <2>12. CapacityRespected'
    <3> SUFFICES ASSUME NEW v \in Workers
                 PROVE  Cardinality(AttemptsOn(db', v, LiveStates)) <= Capacity[v]
      BY Zenon DEF CapacityRespected, AttemptsOn
    <3>1. Capacity[v] \in Nat
      BY ConstantsAssumption
    <3>2. CASE v # w
      <4>1. AttemptsOn(db', v, LiveStates) \subseteq AttemptsOn(db, v, LiveStates)
        BY <1>1, <2>8, <3>2 DEF NoneStarts
      <4>2. Cardinality(AttemptsOn(db', v, LiveStates)) <= Cardinality(AttemptsOn(db, v, LiveStates))
        BY <4>1, AttemptsFinite, FS_Subset
      <4>3. Cardinality(AttemptsOn(db, v, LiveStates)) <= Capacity[v]
        BY DEF IInv, CapacityRespected
      <4> QED BY <3>1, <4>2, <4>3, AttemptsFinite
    <3>3. CASE v = w
      <4> DEFINE S == AttemptsOn(d, w, LiveStates)
                 T == AttemptsOn(db', w, LiveStates)
      <4>1. IsFiniteSet(S) /\ Cardinality(S) \in Nat /\ Cardinality(T) \in Nat
        BY AttemptsFinite
      <4>2. Cardinality(S) < Capacity[w]
        BY <2>2 DEF HasFreeSlot
      <4>3. T \subseteq S \cup {<<t, n>>}
        BY <2>9
      <4> HIDE DEF S, T
      <4>4. /\ IsFiniteSet(S \cup {<<t, n>>})
            /\ Cardinality(S \cup {<<t, n>>}) \in {Cardinality(S), Cardinality(S) + 1}
        BY Zenon, <4>1, FS_AddElement
      <4>5. Cardinality(T) <= Cardinality(S \cup {<<t, n>>})
        BY <4>3, <4>4, FS_Subset
      <4> QED BY SMTT(30), <3>1, <3>3, <4>1, <4>2, <4>4, <4>5 DEF T
    <3> QED BY <3>2, <3>3
  <2> QED BY <2>7, <2>10, <2>11, <2>12 DEF IInv
<1> QED BY <1>3, <1>4

\* The end of a lease or of an intent gives no Worker a job.
LEMMA LapsesRelease ==
    ASSUME NEW f \in MaintenanceLapses(maint)
    PROVE  /\ f \in [Workers -> MaintenanceStates]
           /\ \A w \in Workers : f[w] = "held" => maint[w] = "held"
  BY DEF MaintenanceLapses, MayBecome

\* claim_worker_maintenance takes a job only of a Worker that executes
\* nothing.
LEMMA MaintenanceClaimedSafe ==
    ASSUME IInv, NEW w \in Workers, MaintenanceClaimed(w)
    PROVE  IInv' /\ Safe(db, db')
<1> DEFINE d == Expired(db)
<1>1. d \in Database /\ Safe(db, d) /\ NoneStarts(db, d)
  BY ExpiredSafe
<1>2. /\ db' = d /\ maint' \in [Workers -> MaintenanceStates]
      /\ AttemptsOn(d, w, LiveStates) = {}
      /\ \A v \in Workers : v # w /\ maint'[v] = "held" => maint[v] = "held"
  <2>1. PICK m \in MaintenanceLapses(maint) : maint' = [m EXCEPT ![w] = "held"]
    BY Zenon DEF MaintenanceClaimed
  <2>2. m \in [Workers -> MaintenanceStates] /\ \A v \in Workers : m[v] = "held" => maint[v] = "held"
    BY LapsesRelease
  <2>3. db' = d /\ AttemptsOn(d, w, LiveStates) = {}
    BY DEF MaintenanceClaimed, NotExecuting
  <2>4. "held" \in MaintenanceStates
    BY DEF MaintenanceStates
  <2> HIDE DEF d
  <2> QED BY <2>1, <2>2, <2>3, <2>4
<1> HIDE DEF d
<1>3. TypeOK' /\ Consistent(db)' /\ FencingUnique'
  <2>1. TypeOK'
    BY <1>1, <1>2 DEF TypeOK
  <2>2. Consistent(db') /\ FencesOK(db')
    BY <1>1, <1>2 DEF Safe
  <2> QED BY Zenon, <2>1, <2>2 DEF FencingUnique, FencesOK, Consistent, RowsAgree
<1>4. MaintenanceExcludesExecution'
  <2> SUFFICES ASSUME NEW v \in Workers, maint'[v] = "held"
               PROVE  AttemptsOn(db', v, LiveStates) = {}
    BY SMTT(30) DEF MaintenanceExcludesExecution, AttemptsOn
  <2>1. CASE v = w
    BY <1>2, <2>1
  <2>2. CASE v # w
    <3>1. AttemptsOn(db, v, LiveStates) = {}
      BY <1>2, <2>2 DEF IInv, MaintenanceExcludesExecution
    <3> QED BY <1>1, <1>2, <3>1 DEF NoneStarts
  <2> QED BY <2>1, <2>2
<1>5. CapacityRespected'
  <2> SUFFICES ASSUME NEW v \in Workers
               PROVE  Cardinality(AttemptsOn(db', v, LiveStates)) <= Capacity[v]
    BY Zenon DEF CapacityRespected, AttemptsOn
  <2>1. Cardinality(AttemptsOn(db', v, LiveStates)) <= Cardinality(AttemptsOn(db, v, LiveStates))
    BY <1>1, <1>2, AttemptsFinite, FS_Subset DEF NoneStarts
  <2>2. Cardinality(AttemptsOn(db, v, LiveStates)) <= Capacity[v]
    BY DEF IInv, CapacityRespected
  <2>3. Capacity[v] \in Nat
    BY ConstantsAssumption
  <2> QED BY <2>1, <2>2, <2>3, AttemptsFinite
<1> QED BY <1>1, <1>2, <1>3, <1>4, <1>5 DEF IInv

-----------------------------------------------------------------------------
(* The theorems *)

\* The empty database satisfies the invariant.
LEMMA InitEstablishes == Init => IInv
<1> SUFFICES ASSUME Init PROVE IInv
  OBVIOUS
<1>1. NoTask \in TaskRow /\ NoAttempt \in AttemptRow
  BY SMTT(30) DEF NoTask, NoAttempt, TaskRow, AttemptRow, TaskStates, HeldLease
<1>2. \A t \in Tasks : db.task[t] = NoTask /\ \A n \in Numbers : db.att[t][n] = NoAttempt
  BY SMTT(30) DEF Init
<1>3. TypeOK
  BY SMTT(30), <1>1 DEF Init, TypeOK, Database, WorkerRow, MaintenanceStates
<1>4. Consistent(db)
  <2>1. \A t \in Tasks : db.task[t].state = "absent"
    BY <1>2 DEF NoTask
  <2>2. \A t \in Tasks, n \in Numbers :
          db.att[t][n].state = "none" /\ db.att[t][n].lease = "none"
    BY <1>2 DEF NoAttempt
  <2>3. \A t \in Tasks, n \in Numbers :
          /\ db.att[t][n].state \notin {"reserved", "leased", "running"}
          /\ db.att[t][n].state \notin LiveStates /\ db.att[t][n].lease \notin HeldLease
    BY <2>2 DEF LiveStates, HeldLease
  <2> SUFFICES ASSUME NEW t \in Tasks
               PROVE  RowsAgree(db.task[t], db.att[t])
    BY DEF Consistent
  <2> QED BY <2>1, <2>2, <2>3 DEF RowsAgree
<1>5. FencingUnique
  <2>1. \A t \in Tasks, n \in Numbers : db.att[t][n].state = "none"
    BY <1>2 DEF NoAttempt
  <2> QED BY Zenon, <2>1 DEF FencingUnique, FencesOK
<1>6. \A w \in Workers : AttemptsOn(db, w, LiveStates) = {}
  BY SMTT(30), <1>2 DEF AttemptsOn, NoAttempt, LiveStates
<1>7. CapacityRespected
  BY <1>6, ConstantsAssumption, FS_EmptySet DEF CapacityRespected
<1>8. MaintenanceExcludesExecution
  BY <1>6 DEF MaintenanceExcludesExecution
<1> QED BY <1>3, <1>4, <1>5, <1>7, <1>8 DEF IInv

\* Every transaction keeps the invariant, the closed rows and the order of
\* tokens.
LEMMA NextKeeps ==
    ASSUME IInv, Next
    PROVE  IInv' /\ Safe(db, db')
<1>1. db \in Database /\ Consistent(db) /\ FencesOK(db)
  BY DEF IInv, TypeOK, FencingUnique
<1>2. ASSUME Safe(db, db'), NoneStarts(db, db'),
             \/ UNCHANGED maint
             \/ maint' \in MaintenanceLapses(maint)
             \/ \E m \in MaintenanceLapses(maint), w \in Workers, to \in {"none", "queued"} :
                    maint' = [m EXCEPT ![w] = to]
      PROVE  IInv' /\ Safe(db, db')
  <2>1. /\ maint' \in [Workers -> MaintenanceStates]
        /\ \A w \in Workers : maint'[w] = "held" => maint[w] = "held"
    BY <1>2, LapsesRelease DEF IInv, TypeOK, MaintenanceStates
  <2> QED BY <1>2, <2>1, QuietStep
<1>3. ASSUME NEW t \in Tasks, NEW w \in Workers,
             PrepareTask(t, w) \/ PrepareRetry(t, w) \/ CommitRekey(t, w)
      PROVE  IInv' /\ Safe(db, db')
  <2>1. Safe(db, db') /\ NoneStarts(db, db')
    BY <1>3, PrepareTaskSafe, PrepareRetrySafe, TaskRowStepsSafe
  <2>2. UNCHANGED maint
    BY Zenon, <1>3 DEF PrepareTask, PrepareRetry, CommitRekey
  <2> QED BY <1>2, <2>1, <2>2
<1>4. ASSUME NEW t \in Tasks, CommitTask(t) \/ CancelTask(t) \/ ReservationLapses(t)
      PROVE  IInv' /\ Safe(db, db')
  <2>1. Safe(db, db') /\ NoneStarts(db, db')
    BY <1>4, CancelTaskSafe, TaskRowStepsSafe
  <2>2. UNCHANGED maint
    BY <1>4 DEF CommitTask, CancelTask, ReservationLapses
  <2> QED BY <1>2, <2>1, <2>2
<1>5. ASSUME NEW t \in Tasks, NEW n \in Numbers, NEW f,
             \/ LeaseLapses(t, n)
             \/ \E started \in BOOLEAN : HeartbeatAttempt(t, n, f, started)
             \/ \E report \in Reports : FinishAttempt(t, n, f, report)
      PROVE  IInv' /\ Safe(db, db')
  <2>1. Safe(db, db') /\ NoneStarts(db, db')
    BY <1>5, LeaseLapsesSafe, HeartbeatAttemptSafe, FinishAttemptSafe
  <2>2. UNCHANGED maint
    BY Zenon, <1>5 DEF LeaseLapses, HeartbeatAttempt, FinishAttempt
  <2> QED BY <1>2, <2>1, <2>2
<1>6. ASSUME NEW w \in Workers, WorkerHeartbeat(w) \/ OfferWorker(w) \/ ApproveAllocation(w)
      PROVE  IInv' /\ Safe(db, db')
  <2>1. Safe(db, db') /\ NoneStarts(db, db')
    BY <1>6, WorkerRowStepsSafe
  <2>2. UNCHANGED maint
    BY <1>6 DEF WorkerHeartbeat, OfferWorker, ApproveAllocation
  <2> QED BY <1>2, <2>1, <2>2
<1>7. ASSUME MaintenanceEnded \/ \E w \in Workers : MaintenanceQueued(w)
      PROVE  IInv' /\ Safe(db, db')
  <2>1. db' = db
    BY <1>7 DEF MaintenanceQueued, MaintenanceEnded
  <2>2. Safe(db, db') /\ NoneStarts(db, db')
    BY <1>1, <2>1, WorkerOnlySafe
  <2>3. \/ maint' \in MaintenanceLapses(maint)
        \/ \E m \in MaintenanceLapses(maint), w \in Workers, to \in {"none", "queued"} :
               maint' = [m EXCEPT ![w] = to]
    BY <1>7 DEF MaintenanceQueued, MaintenanceEnded
  <2> QED BY Zenon, <1>2, <2>2, <2>3
<1>8. ASSUME NEW w \in Workers, NEW force \in BOOLEAN, LeaveWorker(w, force)
      PROVE  IInv' /\ Safe(db, db')
  <2>1. Safe(db, db') /\ NoneStarts(db, db')
    BY <1>8, LeaveWorkerSafe
  <2>2. maint' = [maint EXCEPT ![w] = "none"] /\ maint \in MaintenanceLapses(maint)
    BY <1>8 DEF LeaveWorker, IInv, TypeOK, MaintenanceLapses, MayBecome, MaintenanceStates
  <2> QED BY Zenon, <1>2, <2>1, <2>2
<1>9. CASE SweepExpired
  <2>1. Safe(db, db') /\ NoneStarts(db, db')
    BY <1>9, ExpiredSafe DEF SweepExpired
  <2> QED BY <1>2, <1>9, <2>1 DEF SweepExpired
<1>11. CASE BrokerDeviceHeartbeat
  <2>1. Safe(db, db') /\ NoneStarts(db, db')
    BY <1>1, <1>11, ExpireLeasesKeeps, FrameSafe DEF BrokerDeviceHeartbeat
  <2> QED BY <1>2, <1>11, <2>1 DEF BrokerDeviceHeartbeat
<1>10. ASSUME NEW w \in Workers, Lease(w) \/ MaintenanceClaimed(w)
       PROVE  IInv' /\ Safe(db, db')
  BY <1>10, LeaseSafe, MaintenanceClaimedSafe
<1> QED BY SMTT(30), <1>3, <1>4, <1>5, <1>6, <1>7, <1>8, <1>9, <1>10, <1>11 DEF Next

\* A stuttering step keeps the invariant.
LEMMA StutterKeeps ==
    ASSUME IInv, UNCHANGED vars
    PROVE  IInv' /\ ClosedRowsKept(db, db') /\ NewTokensLarger(db, db')
<1>1. /\ db' = db /\ maint' = maint
      /\ db \in Database /\ Consistent(db) /\ FencesOK(db)
      /\ maint \in [Workers -> MaintenanceStates]
  BY DEF vars, IInv, TypeOK, FencingUnique
<1>2. Safe(db, db') /\ NoneStarts(db, db')
  BY <1>1, WorkerOnlySafe
<1>3. IInv'
  BY <1>1, <1>2, QuietStep
<1> QED BY <1>2, <1>3 DEF Safe

\* The inductive invariant holds in every behaviour of the Gateway.
THEOREM InductiveInvariant == Spec => []IInv
<1>1. ASSUME IInv, [Next]_vars PROVE IInv'
  BY <1>1, NextKeeps, StutterKeeps
<1> QED BY <1>1, InitEstablishes, PTL DEF Spec

\* Every table keeps its type, through all transactions of the scheduler.
THEOREM TypeCorrect == Spec => []TypeOK
<1>1. IInv => TypeOK
  BY DEF IInv
<1> QED BY <1>1, InductiveInvariant, PTL

\* At most one attempt of a task executes, whatever lease, retry, rekey,
\* cancel and leave do.
THEOREM SingleExecution == Spec => []OneExecution
<1>1. IInv => OneExecution
  <2>1. ASSUME IInv, NEW t \in Tasks
        PROVE  \A m, n \in Numbers :
                 db.att[t][m].state \in LiveStates /\ db.att[t][n].state \in LiveStates
                     => m = n
    <3>1. RowsAgree(db.task[t], db.att[t])
      BY <2>1 DEF IInv, Consistent
    <3> QED BY Zenon, <3>1 DEF RowsAgree
  <2> QED BY Zenon, <2>1 DEF OneExecution
<1> QED BY <1>1, InductiveInvariant, PTL

\* A lease is unreleased exactly while its attempt is leased or running.
THEOREM LeasesMatch == Spec => []LeaseMatchesAttempt
<1>1. IInv => LeaseMatchesAttempt
  <2>1. ASSUME IInv, NEW t \in Tasks
        PROVE  \A n \in Numbers :
                 db.att[t][n].lease \in HeldLease <=> db.att[t][n].state \in LiveStates
    <3>1. RowsAgree(db.task[t], db.att[t])
      BY <2>1 DEF IInv, Consistent
    <3> QED BY Zenon, <3>1 DEF RowsAgree
  <2> QED BY Zenon, <2>1 DEF LeaseMatchesAttempt
<1> QED BY <1>1, InductiveInvariant, PTL

\* The tasks row and the attempt rows show the same execution.
THEOREM TaskAndAttemptsAgree == Spec => []TaskMirrorsAttempt
<1>1. IInv => TaskMirrorsAttempt
  <2> SUFFICES ASSUME IInv, NEW t \in Tasks
               PROVE  /\ \A n \in Numbers : db.att[t][n].state \in LiveStates =>
                            /\ db.att[t][n].worker = db.task[t].worker
                            /\ IF db.att[t][n].state = "leased"
                               THEN db.task[t].state = "reserved"
                               ELSE db.task[t].state \in {"running", "cancelled"}
                      /\ db.task[t].state = "reserved" =>
                            \E n \in Numbers : db.att[t][n].state = "leased"
                      /\ db.task[t].state = "running" =>
                            \E n \in Numbers : db.att[t][n].state = "running"
    BY Zenon DEF TaskMirrorsAttempt
  <2>1. RowsAgree(db.task[t], db.att[t])
    BY DEF IInv, Consistent
  <2>2. ASSUME NEW n \in Numbers, db.att[t][n].state \in LiveStates
        PROVE  /\ db.att[t][n].worker = db.task[t].worker
               /\ IF db.att[t][n].state = "leased"
                  THEN db.task[t].state = "reserved"
                  ELSE db.task[t].state \in {"running", "cancelled"}
    <3>1. db.att[t][n].state = "leased" \/ db.att[t][n].state = "running"
      BY <2>2 DEF LiveStates
    <3> QED BY Zenon, <2>1, <2>2, <3>1 DEF RowsAgree
  <2>3. db.task[t].state = "reserved" => \E n \in Numbers : db.att[t][n].state = "leased"
    BY Zenon, <2>1 DEF RowsAgree
  <2>4. db.task[t].state = "running" => \E n \in Numbers : db.att[t][n].state = "running"
    BY Zenon, <2>1 DEF RowsAgree
  <2> QED BY Zenon, <2>2, <2>3, <2>4
<1> QED BY <1>1, InductiveInvariant, PTL

\* No two attempts of a Worker ever hold the same fencing token.
THEOREM FencingTokensUnique == Spec => []FencingUnique
<1>1. IInv => FencingUnique
  BY DEF IInv
<1> QED BY <1>1, InductiveInvariant, PTL

\* Grants never exceed a Worker's capacity, for any capacity.
THEOREM CapacityNeverExceeded == Spec => []CapacityRespected
<1>1. IInv => CapacityRespected
  BY DEF IInv
<1> QED BY <1>1, InductiveInvariant, PTL

\* A Worker that holds a maintenance job executes no task.
THEOREM MaintenanceIsExclusive == Spec => []MaintenanceExcludesExecution
<1>1. IInv => MaintenanceExcludesExecution
  BY DEF IInv
<1> QED BY <1>1, InductiveInvariant, PTL

\* No transaction rewrites a closed attempt, so a late report of an old
\* attempt changes nothing.
THEOREM ClosedAttemptsAreHistory == Spec => ClosedAttemptsStay
<1>1. ASSUME IInv, [Next]_vars PROVE [ClosedRowsKept(db, db')]_vars
  BY <1>1, NextKeeps, StutterKeeps DEF Safe
<1> QED BY <1>1, InductiveInvariant, PTL DEF Spec, ClosedAttemptsStay

\* A token a Worker is handed is larger than all it was handed before.
THEOREM TokensAreMonotonic == Spec => TokensIncrease
<1>1. ASSUME IInv, [Next]_vars PROVE [NewTokensLarger(db, db')]_vars
  BY <1>1, NextKeeps, StutterKeeps DEF Safe
<1> QED BY <1>1, InductiveInvariant, PTL DEF Spec, TokensIncrease

=============================================================================
