-------------------------- MODULE TaskQueueProofs --------------------------
(***************************************************************************)
(* Proof that a queued task can be leased (TaskLifecycle), on top of the   *)
(* inductive invariant IInv of TaskLifecycleProofs.  QueuedIsLeasable is   *)
(* not inductive: a task reaches the queue through prepare_task and        *)
(* commit_task, or through prepare_retry and commit_rekey, so the seat     *)
(* that waits for it on its Worker has to be followed from the             *)
(* reservation on, and against the departure of the Worker.                *)
(***************************************************************************)
EXTENDS TaskLifecycleProofs

-----------------------------------------------------------------------------
(* The strengthened invariant *)

\* n is the attempt the task's Worker will lease: the newest row of the task.
Seat(k, A, n) ==
    /\ A[n].worker = k.worker
    /\ A[n].state = "reserved"
    /\ \A m \in Numbers : m > n => A[m].state = "none"

HasSeat(k, A) == \E n \in Numbers : Seat(k, A, n)

\* The task is queued or its reservation can still be committed.
Awaits(k) ==
    \/ k.state \in {"prepared", "queued"}
    \/ k.state = "rekey_required" /\ k.resv = "live"

\* Unless its Worker was revoked, a task that awaits it has a seat there, and
\* a queued one its key.
Placed(d, t) ==
    LET k == d.task[t] IN
    Awaits(k) =>
        /\ k.worker \in Workers
        /\ d.wrk[k.worker].status # "revoked" =>
              /\ d.wrk[k.worker].status = "active"
              /\ HasSeat(k, d.att[t])
              /\ k.state = "queued" => k.worker \in d.env[t]

\* A committed task has no reservation.
Unreserved(k) == k.state \in {"queued", "reserved", "running"} => k.resv = "none"

\* A revoked Worker executes nothing.
RevokedIdle(d) ==
    \A w \in Workers : d.wrk[w].status = "revoked" => AttemptsOn(d, w, LiveStates) = {}

\* What keeps a queued task leasable from one transaction to the next.
QueueKept(d) ==
    /\ \A t \in Tasks : Placed(d, t) /\ Unreserved(d.task[t])
    /\ RevokedIdle(d)

-----------------------------------------------------------------------------
(* What keeps it *)

\* A frame starts no execution.
LEMMA FrameStartsNone ==
    ASSUME NEW d, NEW e, Frame(d, e)
    PROVE  NoneStarts(d, e)
<1>1. \A t \in Tasks, m \in Numbers :
        /\ e.att[t][m].worker = d.att[t][m].worker
        /\ e.att[t][m].state \in LiveStates => d.att[t][m].state \in LiveStates
  BY Zenon DEF Frame, RowFrame
<1> QED BY SMTT(30), <1>1 DEF NoneStarts, AttemptsOn

\* A revoked Worker stays idle while no execution starts.
LEMMA RevokedStayIdle ==
    ASSUME NEW d, NEW e, RevokedIdle(d), NoneStarts(d, e),
           \A w \in Workers : e.wrk[w].status = "revoked" =>
               d.wrk[w].status = "revoked" \/ AttemptsOn(e, w, LiveStates) = {}
    PROVE  RevokedIdle(e)
<1> SUFFICES ASSUME NEW w \in Workers, e.wrk[w].status = "revoked"
             PROVE  AttemptsOn(e, w, LiveStates) = {}
  BY DEF RevokedIdle
<1>1. CASE d.wrk[w].status = "revoked"
  <2>1. AttemptsOn(d, w, LiveStates) = {}
    BY <1>1 DEF RevokedIdle
  <2>2. AttemptsOn(e, w, LiveStates) \subseteq AttemptsOn(d, w, LiveStates)
    BY SMTT(30) DEF NoneStarts
  <2> QED BY <2>1, <2>2
<1> QED BY <1>1

\* A change of the Workers that only activates or revokes.
WorkersMayServe(d, e) ==
    \A w \in Workers : \/ e.wrk[w].status = "revoked"
                       \/ e.wrk[w].status = d.wrk[w].status
                       \/ e.wrk[w].status = "active" /\ d.wrk[w].status # "revoked"

\* A task that keeps its seat, its key and its Worker stays placed.
LEMMA PlacedKept ==
    ASSUME NEW d, NEW e, NEW t \in Tasks, Placed(d, t), Awaits(d.task[t]),
           e.task[t].worker = d.task[t].worker,
           e.task[t].state = "queued" => d.task[t].state = "queued",
           HasSeat(d.task[t], d.att[t]) => HasSeat(e.task[t], e.att[t]),
           d.env[t] \subseteq e.env[t],
           WorkersMayServe(d, e)
    PROVE  Placed(e, t)
  BY DEF Placed, WorkersMayServe

\* A task whose rows a transaction leaves alone stays placed.
LEMMA SameRowsPlaced ==
    ASSUME NEW d, NEW e, NEW t \in Tasks, Placed(d, t),
           e.task[t] = d.task[t], e.att[t] = d.att[t], e.env[t] = d.env[t],
           WorkersMayServe(d, e)
    PROVE  Placed(e, t)
<1>1. CASE Awaits(d.task[t])
  BY SMTT(30), <1>1, PlacedKept
<1>2. CASE ~Awaits(d.task[t])
  BY <1>2 DEF Placed
<1> QED BY <1>1, <1>2

\* A task that awaits nothing is placed.
LEMMA NotAwaitingPlaced ==
    ASSUME NEW e, NEW t \in Tasks, ~Awaits(e.task[t])
    PROVE  Placed(e, t)
  BY DEF Placed

\* A transaction that leaves the tasks and their attempts alone.
LEMMA WorkersQueue ==
    ASSUME NEW d, NEW e, QueueKept(d),
           e.task = d.task, e.att = d.att, e.env = d.env,
           WorkersMayServe(d, e), RevokedIdle(e)
    PROVE  QueueKept(e)
<1>1. \A t \in Tasks : Placed(e, t)
  BY SameRowsPlaced DEF QueueKept
<1> QED BY <1>1 DEF QueueKept

\* A transaction that leaves the Workers and all tasks but t alone.
LEMMA OneTaskQueue ==
    ASSUME NEW d, NEW e, QueueKept(d), NEW t \in Tasks, NoneStarts(d, e),
           \A w \in Workers : e.wrk[w].status = d.wrk[w].status,
           \A u \in Tasks : u # t =>
               /\ e.task[u] = d.task[u] /\ e.att[u] = d.att[u] /\ e.env[u] = d.env[u],
           Placed(e, t), Unreserved(e.task[t])
    PROVE  QueueKept(e)
<1>1. WorkersMayServe(d, e)
  BY DEF WorkersMayServe
<1>2. ASSUME NEW u \in Tasks
      PROVE  Placed(e, u) /\ Unreserved(e.task[u])
  <2>1. CASE u = t
    BY <2>1
  <2>2. CASE u # t
    <3>1. Placed(d, u) /\ Unreserved(d.task[u])
      BY DEF QueueKept
    <3> QED BY <1>1, <2>2, <3>1, SameRowsPlaced
  <2> QED BY <2>1, <2>2
<1>3. RevokedIdle(e)
  BY RevokedStayIdle DEF QueueKept
<1> QED BY <1>2, <1>3 DEF QueueKept

-----------------------------------------------------------------------------
(* Expiry *)

\* _finalize_drained_workers revokes only Workers that hold no attempt.
LEMMA FinalizeQueue ==
    ASSUME NEW d \in Database, QueueKept(d)
    PROVE  QueueKept(FinalizeDrained(d))
<1> DEFINE e == FinalizeDrained(d)
<1>1. e.att = d.att /\ e.task = d.task /\ e.env = d.env
  BY FinalizeKeeps
<1>2. ASSUME NEW w \in Workers
      PROVE  \/ e.wrk[w] = d.wrk[w]
             \/ /\ e.wrk[w].status = "revoked"
                /\ AttemptsOn(d, w, OpenStates) = {}
  <2>1. d.wrk[w] \in WorkerRow
    BY DEF Database
  <2>2. [d.wrk[w] EXCEPT !.status = "revoked"].status = "revoked"
    BY <2>1 DEF WorkerRow
  <2>3. e.wrk[w] = IF /\ d.wrk[w].status = "draining"
                      /\ AttemptsOn(d, w, OpenStates) = {}
                   THEN [d.wrk[w] EXCEPT !.status = "revoked"]
                   ELSE d.wrk[w]
    BY DEF FinalizeDrained, Database
  <2> QED BY Zenon, <2>2, <2>3
<1> HIDE DEF e
<1>3. \A w \in Workers : /\ AttemptsOn(e, w, LiveStates) = AttemptsOn(d, w, LiveStates)
                         /\ AttemptsOn(d, w, LiveStates) \subseteq AttemptsOn(d, w, OpenStates)
  BY <1>1 DEF AttemptsOn, OpenStates
<1>4. WorkersMayServe(d, e)
  BY <1>2 DEF WorkersMayServe
<1>5. RevokedIdle(e)
  <2> SUFFICES ASSUME NEW w \in Workers, e.wrk[w].status = "revoked"
               PROVE  AttemptsOn(e, w, LiveStates) = {}
    BY DEF RevokedIdle
  <2>1. CASE e.wrk[w] = d.wrk[w]
    BY <1>3, <2>1 DEF QueueKept, RevokedIdle
  <2>2. CASE AttemptsOn(d, w, OpenStates) = {}
    BY <1>3, <2>2
  <2> QED BY <1>2, <2>1, <2>2
<1>6. QueueKept(e)
  BY <1>1, <1>4, <1>5, WorkersQueue
<1> QED BY <1>6 DEF e

\* _expire_reservations takes a task out of the queue with its seat.
LEMMA ExpireReservationsQueue ==
    ASSUME NEW d \in Database, Consistent(d), QueueKept(d)
    PROVE  QueueKept(ExpireReservations(d))
<1> DEFINE e == ExpireReservations(d)
<1>1. e.wrk = d.wrk /\ e.env = d.env
  BY DEF ExpireReservations, Database
<1>2. ASSUME NEW t \in Tasks
      PROVE  \/ e.task[t] = d.task[t] /\ e.att[t] = d.att[t]
             \/ e.task[t].state = "expired"
  <2>1. CASE ReservationGone(d, t)
    <3>1. e.task[t] = [d.task[t] EXCEPT !.state = "expired"]
      BY <2>1 DEF ExpireReservations, Database
    <3> QED BY <3>1, RowsTyped, StateField
  <2>2. CASE ~ReservationGone(d, t)
    BY <2>2 DEF ExpireReservations, Database
  <2> QED BY <2>1, <2>2
<1>3. NoneStarts(d, e)
  BY ExpireReservationsKeeps, FrameStartsNone
<1> HIDE DEF e
<1>4. WorkersMayServe(d, e)
  BY <1>1 DEF WorkersMayServe
<1>5. ASSUME NEW t \in Tasks
      PROVE  Placed(e, t) /\ Unreserved(e.task[t])
  <2>1. CASE e.task[t] = d.task[t] /\ e.att[t] = d.att[t]
    BY <1>1, <1>4, <2>1, SameRowsPlaced DEF QueueKept
  <2>2. CASE e.task[t].state = "expired"
    BY <2>2 DEF Placed, Awaits, Unreserved
  <2> QED BY <1>2, <2>1, <2>2
<1>6. RevokedIdle(e)
  BY <1>1, <1>3, RevokedStayIdle DEF QueueKept
<1>7. QueueKept(e)
  BY <1>5, <1>6 DEF QueueKept
<1> QED BY <1>7 DEF e

\* _expire_leases leaves tasks that had no lapsed lease alone; the others
\* wait for a retry, without a reservation.
LEMMA ExpireLeasesQueue ==
    ASSUME NEW d \in Database, Consistent(d), QueueKept(d)
    PROVE  QueueKept(ExpireLeases(d))
<1> DEFINE A == [t \in Tasks |-> [n \in Numbers |->
                    IF d.att[t][n].lease = "lapsed"
                    THEN Release(Close(d.att[t][n], LiveStates, "expired"))
                    ELSE d.att[t][n]]]
           K == [t \in Tasks |->
                    IF ExecutionLost(d, t)
                    THEN [d.task[t] EXCEPT !.state = "rekey_required"] ELSE d.task[t]]
           e == [d EXCEPT !.att = A, !.task = K]
<1>1. e \in Database
  <2>1. \A t \in Tasks : d.task[t] \in TaskRow
                         /\ [d.task[t] EXCEPT !.state = "rekey_required"] \in TaskRow
    BY Zenon, RowsTyped, TaskType DEF TaskStates
  <2>2. \A t \in Tasks, n \in Numbers :
        /\ d.att[t][n] \in AttemptRow
        /\ Release(Close(d.att[t][n], LiveStates, "expired")) \in AttemptRow
    BY Zenon, RowsTyped, RowType DEF FinalStates
  <2>3. A \in [Tasks -> [Numbers -> AttemptRow]] /\ K \in [Tasks -> TaskRow]
    BY <2>1, <2>2
  <2> HIDE DEF A, K
  <2> QED BY Zenon, <2>3 DEF Database
<1>2. e.att = A /\ e.task = K /\ e.wrk = d.wrk /\ e.env = d.env
  BY DEF Database
<1>3. ASSUME NEW t \in Tasks
      PROVE  \/ K[t] = d.task[t] /\ A[t] = d.att[t]
             \/ ~Awaits(K[t]) /\ Unreserved(K[t])
  <2>1. CASE \A n \in Numbers : d.att[t][n].lease # "lapsed"
    BY <2>1 DEF ExecutionLost, Database
  <2>2. CASE \E n \in Numbers : d.att[t][n].lease = "lapsed"
    <3>1. d.task[t].state \in {"reserved", "running", "cancelled"}
      BY <2>2, RowsTyped, LostExecutionQuiet DEF Consistent
    <3>2. CASE d.task[t].state = "cancelled"
      BY <3>2 DEF ExecutionLost, Awaits, Unreserved
    <3>3. CASE d.task[t].state # "cancelled"
      <4>1. d.task[t].resv = "none"
        BY <3>1, <3>3 DEF QueueKept, Unreserved
      <4>2. /\ K[t] = [d.task[t] EXCEPT !.state = "rekey_required"]
            /\ d.task[t] \in TaskRow
        BY <2>2, <3>1, <3>3, RowsTyped DEF ExecutionLost
      <4>3. K[t].state = "rekey_required" /\ K[t].resv = "none"
        BY <4>1, <4>2 DEF TaskRow
      <4> QED BY <4>3 DEF Awaits, Unreserved
    <3> QED BY <3>2, <3>3
  <2> QED BY <2>1, <2>2
<1>4. ASSUME NEW w \in Workers
      PROVE  AttemptsOn(e, w, LiveStates) \subseteq AttemptsOn(d, w, LiveStates)
  <2>1. \A t \in Tasks, n \in Numbers : RowFrame(d.att[t][n], A[t][n])
    BY Zenon, RowsTyped, CloseFrame DEF Consistent, RowsAgree, FinalStates, OpenStates
  <2>2. \A t \in Tasks, n \in Numbers :
          /\ e.att[t][n].worker = d.att[t][n].worker
          /\ e.att[t][n].state \in LiveStates => d.att[t][n].state \in LiveStates
    <3> HIDE DEF A, e
    <3> QED BY <1>2, <2>1 DEF RowFrame
  <2> HIDE DEF e
  <2> QED BY SMTT(30), <2>2 DEF AttemptsOn
<1>5. ExpireLeases(d) = FinalizeDrained(e)
  BY DEF ExpireLeases
<1> HIDE DEF e, A, K
<1>6. WorkersMayServe(d, e) /\ RevokedIdle(e)
  BY <1>2, <1>4, RevokedStayIdle DEF WorkersMayServe, NoneStarts, QueueKept
<1>7. ASSUME NEW t \in Tasks
      PROVE  Placed(e, t) /\ Unreserved(e.task[t])
  <2>1. CASE K[t] = d.task[t] /\ A[t] = d.att[t]
    BY <1>2, <1>6, <2>1, SameRowsPlaced DEF QueueKept
  <2>2. CASE ~Awaits(K[t]) /\ Unreserved(K[t])
    BY <1>2, <2>2, NotAwaitingPlaced
  <2> QED BY <1>3, <2>1, <2>2
<1>8. QueueKept(e)
  BY <1>6, <1>7 DEF QueueKept
<1> QED BY <1>1, <1>5, <1>8, FinalizeQueue

\* The expiry run before most scheduling transactions.
LEMMA ExpiredQueue ==
    ASSUME NEW d \in Database, Consistent(d), QueueKept(d)
    PROVE  QueueKept(Expired(d))
  BY ExpireReservationsType, ExpireReservationsKeeps, ExpireReservationsQueue,
     ExpireLeasesQueue DEF Expired

-----------------------------------------------------------------------------
(* The transactions that reserve, commit and lease *)

\* e is d with a new last attempt of t, on Worker w, and with task row k.
Seated(d, e, t, n, w, k) ==
    /\ \A v \in Workers : e.wrk[v].status = d.wrk[v].status
    /\ \A u \in Tasks : u # t =>
          /\ e.task[u] = d.task[u] /\ e.att[u] = d.att[u] /\ e.env[u] = d.env[u]
    /\ e.task[t] = k
    /\ Seat(k, e.att[t], n)

\* The row a reservation writes is the seat of its task.
LEMMA ReserveSeats ==
    ASSUME NEW d \in Database, NEW t \in Tasks, NEW n \in Numbers,
           NEW w \in Workers, d.wrk[w].status = "active",
           \A m \in Numbers : m > n => d.att[t][m].state = "none",
           NEW k \in TaskRow, k.worker = w,
           NEW e, e = [Reserve(d, t, n, w) EXCEPT !.task[t] = k]
    PROVE  Seated(d, e, t, n, w, k)
<1> DEFINE row == NewAttempt(w, d.wrk[w].counter + 1)
           wrow == [d.wrk[w] EXCEPT !.counter = @ + 1]
<1>1. /\ e.att = [d.att EXCEPT ![t] = [d.att[t] EXCEPT ![n] = row]]
      /\ e.task = [d.task EXCEPT ![t] = k]
      /\ e.wrk = [d.wrk EXCEPT ![w] = wrow]
      /\ e.env = d.env
  BY DEF Reserve, Database
<1>2. row.state = "reserved" /\ row.worker = w
  BY DEF NewAttempt
<1>3. wrow.status = d.wrk[w].status
  BY DEF Database, WorkerRow
<1> HIDE DEF row, wrow
<1>4. \A v \in Workers : e.wrk[v].status = d.wrk[v].status
  BY <1>1, <1>3 DEF Database
<1>5. \A u \in Tasks : u # t =>
          /\ e.task[u] = d.task[u] /\ e.att[u] = d.att[u] /\ e.env[u] = d.env[u]
  BY <1>1 DEF Database
<1>6. /\ e.task[t] = k
      /\ e.att[t][n] = row
      /\ \A m \in Numbers : m # n => e.att[t][m] = d.att[t][m]
  BY <1>1 DEF Database
<1>7. Seat(k, e.att[t], n)
  <2>1. \A m \in Numbers : m > n => m # n
    BY ConstantsAssumption DEF Numbers
  <2>2. \A m \in Numbers : m > n => e.att[t][m].state = "none"
    BY <1>6, <2>1
  <2> QED BY <1>2, <1>6, <2>2 DEF Seat
<1> QED BY Zenon, <1>4, <1>5, <1>6, <1>7 DEF Seated

\* So a reservation keeps every queue leasable.
LEMMA ReserveQueue ==
    ASSUME NEW d, QueueKept(d), NEW t \in Tasks, NEW n \in Numbers,
           NEW w \in Workers, d.wrk[w].status = "active",
           NEW k, k.worker = w, k.state \in {"prepared", "rekey_required"},
           NEW e, Seated(d, e, t, n, w, k), NoneStarts(d, e)
    PROVE  QueueKept(e)
<1>1. HasSeat(k, e.att[t])
  BY DEF Seated, HasSeat
<1>2. Placed(e, t) /\ Unreserved(e.task[t])
  BY <1>1 DEF Seated, Placed, Unreserved
<1> QED BY <1>2, OneTaskQueue DEF Seated

\* prepare_task.
LEMMA PrepareTaskQueue ==
    ASSUME IInv, QueueKept(db), NEW t \in Tasks, NEW w \in Workers, PrepareTask(t, w)
    PROVE  QueueKept(db')
<1> DEFINE d == Expired(db)
           k == [state |-> "prepared", worker |-> w, resv |-> "live", content |-> FALSE]
<1>1. d \in Database /\ Consistent(d) /\ FencesOK(d) /\ QueueKept(d)
  BY ExpiredSafe, ExpiredQueue DEF IInv, TypeOK
<1>2. /\ d.task[t].state = "absent" /\ 1 \in Numbers /\ d.wrk[w].status = "active"
      /\ db' = [Reserve(d, t, 1, w) EXCEPT !.task[t] = k]
  BY DEF PrepareTask, Candidate
<1> HIDE DEF d
<1>3. \A m \in Numbers : d.att[t][m].state = "none"
  BY SMTT(30), <1>1, <1>2 DEF Consistent, RowsAgree
<1>4. k \in TaskRow /\ k.worker = w /\ k.state = "prepared"
  BY DEF TaskRow, TaskStates
<1> HIDE DEF k
<1>5. NoneStarts(d, db')
  BY <1>1, <1>2, <1>3, <1>4, ReserveSafe
<1>6. Seated(d, db', t, 1, w, k)
  BY <1>1, <1>2, <1>3, <1>4, ReserveSeats
<1> QED BY <1>1, <1>2, <1>4, <1>5, <1>6, ReserveQueue

\* prepare_retry: the new attempt is the newest, so it becomes the seat even
\* when an earlier reservation was never committed.
LEMMA PrepareRetryQueue ==
    ASSUME IInv, QueueKept(db), NEW t \in Tasks, NEW w \in Workers, PrepareRetry(t, w)
    PROVE  QueueKept(db')
<1> DEFINE d == ExpireReservations(db)
           k == [d.task[t] EXCEPT !.state = "rekey_required", !.worker = w, !.resv = "live"]
<1>1. db \in Database /\ Consistent(db) /\ FencesOK(db)
  BY DEF IInv, TypeOK, FencingUnique
<1>2. d \in Database /\ Consistent(d) /\ Frame(db, d) /\ QueueKept(d)
  BY <1>1, ExpireReservationsType, ExpireReservationsKeeps, ExpireReservationsQueue
<1>3. FencesOK(d)
  BY <1>1, <1>2, FrameSafe DEF Safe
<1>4. PICK n \in Numbers :
        /\ IsNextNumber(d, t, n)
        /\ db' = [Reserve(d, t, n, w) EXCEPT !.task[t] =
                    [@ EXCEPT !.state = "rekey_required", !.worker = w, !.resv = "live"]]
  BY Zenon DEF PrepareRetry
<1>5. /\ d.task[t].state \in {"failed", "rekey_required", "expired"}
      /\ d.wrk[w].status = "active"
  BY DEF PrepareRetry, Candidate
<1> HIDE DEF d
<1>6. \A m \in Numbers : m >= n => d.att[t][m].state = "none"
  BY <1>4, ConstantsAssumption DEF IsNextNumber, Numbers
<1>7. db' = [Reserve(d, t, n, w) EXCEPT !.task[t] = k]
  <2> DEFINE r == Reserve(d, t, n, w)
  <2>1. r.task = d.task
    BY SMTT(30), <1>2, ReserveRows
  <2> HIDE DEF r
  <2> QED BY <1>4, <2>1 DEF r
<1>8. d.task[t] \in TaskRow
  BY <1>2, RowsTyped
<1>9. k \in TaskRow /\ k.state = "rekey_required" /\ k.worker = w
  BY Zenon, <1>8 DEF TaskRow, TaskStates
<1> HIDE DEF k
<1>10. /\ d.att[t][n].state = "none"
       /\ \A m \in Numbers : m > n => d.att[t][m].state = "none"
  BY <1>6, ConstantsAssumption DEF Numbers
<1>11. NoneStarts(d, db')
  BY <1>2, <1>3, <1>5, <1>7, <1>9, <1>10, ReserveSafe
<1>12. Seated(d, db', t, n, w, k)
  BY <1>2, <1>5, <1>7, <1>9, <1>10, ReserveSeats
<1> QED BY <1>2, <1>5, <1>9, <1>11, <1>12, ReserveQueue

\* commit_task, commit_rekey and the end of a reservation's time.
LEMMA TaskRowStepsQueue ==
    ASSUME IInv, QueueKept(db), NEW t \in Tasks,
           CommitTask(t) \/ ReservationLapses(t) \/ \E w \in Workers : CommitRekey(t, w)
    PROVE  QueueKept(db')
<1>1. db \in Database /\ db.task[t] \in TaskRow
  BY RowsTyped DEF IInv, TypeOK
<1>2. NoneStarts(db, db')
  BY TaskRowStepsSafe
<1>3. Placed(db, t) /\ Unreserved(db.task[t])
  BY DEF QueueKept
<1>4. ASSUME NEW k, NEW v, db'.att = db.att, db'.wrk = db.wrk,
             db'.task = [db.task EXCEPT ![t] = k], db'.env = [db.env EXCEPT ![t] = v],
             k.worker = db.task[t].worker, Unreserved(k),
             Awaits(k) => Awaits(db.task[t]),
             k.state = "queued" => k.worker \in v
      PROVE  QueueKept(db')
  <2>1. /\ db'.task[t] = k /\ db'.env[t] = v
        /\ \A u \in Tasks : u # t =>
             /\ db'.task[u] = db.task[u] /\ db'.att[u] = db.att[u] /\ db'.env[u] = db.env[u]
    BY <1>1, <1>4 DEF Database
  <2>2. HasSeat(db.task[t], db.att[t]) => HasSeat(k, db'.att[t])
    BY SMTT(30), <1>4 DEF HasSeat, Seat
  <2>3. Placed(db', t)
    BY <1>3, <1>4, <2>1, <2>2 DEF Placed
  <2> QED BY Zenon, <1>2, <1>4, <2>1, <2>3, OneTaskQueue
<1>5. CASE CommitTask(t)
  <2> DEFINE k == [db.task[t] EXCEPT !.state = "queued", !.resv = "none", !.content = TRUE]
             v == db.env[t] \cup {db.task[t].worker}
  <2>1. /\ db'.att = db.att /\ db'.wrk = db.wrk
        /\ db'.task = [db.task EXCEPT ![t] = k] /\ db'.env = [db.env EXCEPT ![t] = v]
        /\ db.task[t].state = "prepared"
    BY <1>1, <1>5 DEF CommitTask, Database
  <2>2. k.state = "queued" /\ k.resv = "none" /\ k.worker = db.task[t].worker
    BY <1>1 DEF TaskRow
  <2>3. Awaits(db.task[t])
    BY <2>1 DEF Awaits
  <2>4. k.worker \in v
    BY <2>2
  <2> HIDE DEF k, v
  <2> QED BY <1>4, <2>1, <2>2, <2>3, <2>4 DEF Unreserved
<1>6. ASSUME NEW w \in Workers, CommitRekey(t, w) PROVE QueueKept(db')
  <2> DEFINE k == [db.task[t] EXCEPT !.state = "queued", !.resv = "none"]
  <2>1. /\ db'.att = db.att /\ db'.wrk = db.wrk
        /\ db'.task = [db.task EXCEPT ![t] = k] /\ db'.env = [db.env EXCEPT ![t] = {w}]
        /\ db.task[t].state = "rekey_required" /\ db.task[t].resv = "live"
        /\ db.task[t].worker = w
    BY Zenon, <1>1, <1>6 DEF CommitRekey, Database
  <2>2. k.state = "queued" /\ k.resv = "none" /\ k.worker = db.task[t].worker
    BY <1>1 DEF TaskRow
  <2>3. Awaits(db.task[t])
    BY <2>1 DEF Awaits
  <2> HIDE DEF k
  <2>4. k.worker \in {w}
    BY <2>1, <2>2
  <2> QED BY SMTT(30), <1>4, <2>1, <2>2, <2>3, <2>4 DEF Unreserved
<1>7. CASE ReservationLapses(t)
  <2> DEFINE k == [db.task[t] EXCEPT !.resv = "lapsed"]
  <2>1. /\ db'.att = db.att /\ db'.wrk = db.wrk
        /\ db'.task = [db.task EXCEPT ![t] = k] /\ db'.env = db.env
        /\ db.task[t].resv = "live"
    BY <1>1, <1>7 DEF ReservationLapses, Database
  <2>2. db'.env = [db.env EXCEPT ![t] = db.env[t]]
    BY <1>1, <2>1 DEF Database
  <2>3. /\ k.state = db.task[t].state /\ k.resv = "lapsed"
        /\ k.worker = db.task[t].worker
    BY <1>1 DEF TaskRow
  <2> HIDE DEF k
  <2>4. k.state \notin {"queued", "reserved", "running"}
    BY <1>3, <2>1, <2>3 DEF Unreserved
  <2>5. Unreserved(k) /\ (Awaits(k) => Awaits(db.task[t]))
    BY <2>3, <2>4 DEF Unreserved, Awaits
  <2> QED BY <1>4, <2>1, <2>2, <2>3, <2>4, <2>5
<1> QED BY <1>5, <1>6, <1>7

\* lease: the task that is granted leaves the queue, without a reservation.
LEMMA LeaseQueue ==
    ASSUME IInv, QueueKept(db), NEW w \in Workers, Lease(w)
    PROVE  QueueKept(db')
<1> DEFINE d == Expired(db)
<1>1. d \in Database /\ QueueKept(d)
  BY ExpiredSafe, ExpiredQueue DEF IInv, TypeOK
<1>2. CASE db' = d
  BY <1>1, <1>2
<1>3. CASE db' # d
  <2>1. PICK t \in ReadyTasks(d, w), n \in Numbers :
            NewestReserved(d, t, n, w) /\ db' = Grant(d, t, n, w)
    BY SMTT(30), <1>3 DEF Lease
  <2>2. /\ t \in Tasks /\ d.task[t].state = "queued" /\ d.wrk[w].status = "active"
        /\ d.att[t][n].worker = w
    BY SMTT(30), <2>1 DEF ReadyTasks, Lease, NewestReserved
  <2> HIDE DEF d
  <2> DEFINE a == [d.att[t][n] EXCEPT !.state = "leased", !.lease = "live",
                                      !.fence = d.wrk[w].counter + 1]
             k == [d.task[t] EXCEPT !.state = "reserved"]
             wrow == [d.wrk[w] EXCEPT !.counter = @ + 1]
  <2>3. /\ db'.att = [d.att EXCEPT ![t] = [d.att[t] EXCEPT ![n] = a]]
        /\ db'.task = [d.task EXCEPT ![t] = k]
        /\ db'.wrk = [d.wrk EXCEPT ![w] = wrow]
        /\ db'.env = d.env
    BY <1>1, <2>1, <2>2 DEF Grant, Database
  <2>4. /\ wrow.status = d.wrk[w].status
        /\ k.state = "reserved" /\ k.resv = d.task[t].resv
        /\ a.worker = w
    <3>1. d.wrk[w] \in WorkerRow /\ d.task[t] \in TaskRow /\ d.att[t][n] \in AttemptRow
      BY <1>1, <2>2, RowsTyped DEF Database
    <3> QED BY <2>2, <3>1 DEF WorkerRow, TaskRow, AttemptRow
  <2> HIDE DEF a, k, wrow
  <2>5. \A v \in Workers : db'.wrk[v].status = d.wrk[v].status
    BY <1>1, <2>3, <2>4 DEF Database
  <2>6. \A u \in Tasks : u # t =>
          /\ db'.task[u] = d.task[u] /\ db'.att[u] = d.att[u] /\ db'.env[u] = d.env[u]
    BY <1>1, <2>2, <2>3 DEF Database
  <2>7. db'.task[t].state = "reserved" /\ db'.task[t].resv = "none"
    <3>1. d.task[t].resv = "none"
      BY <1>1, <2>2 DEF QueueKept, Unreserved
    <3>2. db'.task[t] = k
      BY <1>1, <2>2, <2>3 DEF Database
    <3> QED BY <2>4, <3>1, <3>2
  <2>8. ASSUME NEW u \in Tasks
        PROVE  Placed(db', u) /\ Unreserved(db'.task[u])
    <3>1. CASE u = t
      BY <2>7, <3>1 DEF Placed, Awaits, Unreserved
    <3>2. CASE u # t
      <4>1. WorkersMayServe(d, db')
        BY <2>5 DEF WorkersMayServe
      <4>2. Placed(d, u) /\ Unreserved(d.task[u])
        BY <1>1 DEF QueueKept
      <4> QED BY <2>6, <3>2, <4>1, <4>2, SameRowsPlaced
    <3> QED BY <3>1, <3>2
  <2>9. RevokedIdle(db')
    <3> SUFFICES ASSUME NEW v \in Workers, db'.wrk[v].status = "revoked"
                 PROVE  AttemptsOn(db', v, LiveStates) = {}
      BY DEF RevokedIdle
    <3>1. v # w /\ AttemptsOn(d, v, LiveStates) = {}
      BY <1>1, <2>2, <2>5 DEF QueueKept, RevokedIdle
    <3>2. ASSUME NEW u \in Tasks, NEW m \in Numbers, db'.att[u][m].worker = v
          PROVE  db'.att[u][m] = d.att[u][m]
      <4>1. db'.att[u][m] = IF u = t /\ m = n THEN a ELSE d.att[u][m]
        BY <1>1, <2>2, <2>3 DEF Database
      <4> QED BY <2>4, <3>1, <3>2, <4>1
    <3>3. AttemptsOn(db', v, LiveStates) \subseteq AttemptsOn(d, v, LiveStates)
      BY SMTT(30), <3>2 DEF AttemptsOn
    <3> QED BY <3>1, <3>3
  <2> QED BY <2>8, <2>9 DEF QueueKept
<1> QED BY <1>2, <1>3

-----------------------------------------------------------------------------
(* The transactions that end something *)

\* cancel_task takes the task out of the queue.
LEMMA CancelTaskQueue ==
    ASSUME IInv, QueueKept(db), NEW t \in Tasks, CancelTask(t)
    PROVE  QueueKept(db')
<1>1. db \in Database /\ db.task[t] \in TaskRow
  BY RowsTyped DEF IInv, TypeOK
<1>2. /\ db'.wrk = db.wrk /\ db'.env = db.env
      /\ db'.task[t] = [db.task[t] EXCEPT !.state = "cancelled"]
      /\ \A u \in Tasks : u # t => db'.task[u] = db.task[u] /\ db'.att[u] = db.att[u]
  BY <1>1 DEF CancelTask, Database
<1>3. db'.task[t].state = "cancelled"
  BY <1>1, <1>2, StateField
<1>4. Placed(db', t) /\ Unreserved(db'.task[t])
  BY <1>3 DEF Placed, Awaits, Unreserved
<1>5. NoneStarts(db, db')
  BY CancelTaskSafe
<1> QED BY <1>2, <1>4, <1>5, OneTaskQueue

\* heartbeat_attempt and the end of a lease's time touch no seat.
LEMMA AttemptStepsQueue ==
    ASSUME IInv, QueueKept(db), NEW t \in Tasks, NEW n \in Numbers, NEW f, NEW started,
           HeartbeatAttempt(t, n, f, started) \/ LeaseLapses(t, n)
    PROVE  QueueKept(db')
<1> DEFINE a == db.att[t][n]
<1>1. /\ db \in Database /\ a \in AttemptRow /\ db.task[t] \in TaskRow
      /\ RowsAgree(db.task[t], db.att[t])
  BY RowsTyped DEF IInv, TypeOK, Consistent
<1>2. NoneStarts(db, db')
  BY HeartbeatAttemptSafe, LeaseLapsesSafe
<1>3. CASE LeaseLapses(t, n)
  <2> DEFINE b == [a EXCEPT !.lease = "lapsed"]
  <2>1. /\ db'.att = [db.att EXCEPT ![t] = [db.att[t] EXCEPT ![n] = b]]
        /\ db'.task = db.task /\ db'.wrk = db.wrk /\ db'.env = db.env
    BY <1>1, <1>3 DEF LeaseLapses, Database
  <2>2. b.state = a.state /\ b.worker = a.worker
    BY SMTT(30), <1>1 DEF AttemptRow
  <2> HIDE DEF b
  <2>3. /\ \A u \in Tasks : u # t => db'.att[u] = db.att[u]
        /\ \A m \in Numbers : /\ db'.att[t][m].state = db.att[t][m].state
                              /\ db'.att[t][m].worker = db.att[t][m].worker
    BY SMTT(30), <1>1, <2>1, <2>2 DEF Database
  <2>4. HasSeat(db.task[t], db.att[t]) => HasSeat(db'.task[t], db'.att[t])
    BY <2>1, <2>3 DEF HasSeat, Seat
  <2>5. Placed(db, t) /\ Unreserved(db.task[t])
    BY SMTT(30) DEF QueueKept
  <2>6. Placed(db', t) /\ Unreserved(db'.task[t])
    BY <2>1, <2>4, <2>5 DEF Placed
  <2> QED BY Zenon, <1>2, <2>1, <2>3, <2>6, OneTaskQueue
<1>4. CASE HeartbeatAttempt(t, n, f, started) /\ db' # db
  <2> DEFINE b == [a EXCEPT !.state = "running", !.started = TRUE]
             k == [db.task[t] EXCEPT !.state = "running"]
  <2>1. /\ db'.att = [db.att EXCEPT ![t] = [db.att[t] EXCEPT ![n] = b]]
        /\ db'.task = [db.task EXCEPT ![t] = k]
        /\ db'.wrk = db.wrk /\ db'.env = db.env
        /\ a.state = "leased"
    BY SMTT(30), <1>1, <1>4 DEF HeartbeatAttempt, Database
  <2>2. db.task[t].state = "reserved"
    BY <1>1, <2>1 DEF RowsAgree
  <2>3. k.state = "running" /\ k.resv = "none"
    <3>1. db.task[t].resv = "none"
      BY <2>2 DEF QueueKept, Unreserved
    <3> QED BY <1>1, <3>1 DEF TaskRow
  <2> HIDE DEF b, k
  <2>4. /\ db'.task[t] = k
        /\ \A u \in Tasks : u # t => db'.att[u] = db.att[u] /\ db'.task[u] = db.task[u]
    BY <1>1, <2>1 DEF Database
  <2>5. Placed(db', t) /\ Unreserved(db'.task[t])
    BY <2>3, <2>4 DEF Placed, Awaits, Unreserved
  <2> QED BY Zenon, <1>2, <2>1, <2>4, <2>5, OneTaskQueue
<1>5. CASE db' = db
  BY <1>5
<1> QED BY <1>3, <1>4, <1>5

\* finish_attempt ends the task, and may finalize a draining Worker.
LEMMA FinishAttemptQueue ==
    ASSUME IInv, QueueKept(db), NEW t \in Tasks, NEW n \in Numbers, NEW f,
           NEW report \in Reports, FinishAttempt(t, n, f, report)
    PROVE  QueueKept(db')
<1> DEFINE a == db.att[t][n]
           c == db.task[t].state = "cancelled"
           s == IF c THEN "cancelled" ELSE report
           b == Finished(a, s, report, Charge(a, c))
           k == [db.task[t] EXCEPT !.state = s]
           d == [db EXCEPT !.att = [db.att EXCEPT ![t] = [db.att[t] EXCEPT ![n] = b]],
                           !.task = [db.task EXCEPT ![t] = k]]
<1>1. db \in Database /\ a \in AttemptRow /\ db.task[t] \in TaskRow
  BY SMTT(30), RowsTyped DEF IInv, TypeOK
<1>2. a.state \in LiveStates /\ db' \in {d, FinalizeDrained(d)}
  BY SMTT(30), <1>1 DEF FinishAttempt, Finished, Database
<1>3. s \in Reports /\ Charge(a, c) \in Nat
  BY SMTT(30), <1>1 DEF Charge, AttemptRow, Reports
<1>4. /\ b \in AttemptRow /\ b.state = s /\ b.worker = a.worker
  <2> HIDE DEF s, c
  <2> QED BY SMTT(30), <1>1, <1>3, FinishedRow
<1> HIDE DEF b, s, c
<1>5. k \in TaskRow /\ k.state = s
  <2>1. s \in TaskStates
    BY <1>3 DEF TaskStates, Reports
  <2> QED BY Zenon, <1>1, <2>1, TaskType, StateField
<1> HIDE DEF k
<1>6. d \in Database /\ d.wrk = db.wrk /\ d.env = db.env
  BY Zenon, <1>1, <1>4, <1>5 DEF Database
<1>7. /\ d.task[t] = k
      /\ \A u \in Tasks : u # t => d.task[u] = db.task[u] /\ d.att[u] = db.att[u]
      /\ \A u \in Tasks, m \in Numbers :
           d.att[u][m] = IF u = t /\ m = n THEN b ELSE db.att[u][m]
  BY <1>1 DEF Database
<1> HIDE DEF d
<1>8. NoneStarts(db, d)
  <2>1. \A u \in Tasks, m \in Numbers :
          d.att[u][m].state \in LiveStates => d.att[u][m] = db.att[u][m]
    BY <1>3, <1>4, <1>7 DEF LiveStates, Reports
  <2> QED BY SMTT(30), <2>1 DEF NoneStarts, AttemptsOn
<1>9. Placed(d, t) /\ Unreserved(d.task[t])
  BY <1>3, <1>5, <1>7 DEF Placed, Awaits, Unreserved, Reports
<1>10. QueueKept(d)
  BY <1>6, <1>7, <1>8, <1>9, OneTaskQueue
<1> QED BY <1>2, <1>6, <1>10, FinalizeQueue

-----------------------------------------------------------------------------
(* leave_worker *)

\* Closing the attempts of one Worker leaves the seat on another alone.
LEMMA SeatBesideEvicted ==
    ASSUME NEW k, NEW A, NEW B, NEW w \in Workers, k.worker # w, HasSeat(k, A),
           \A n \in Numbers : A[n] \in AttemptRow,
           \A n \in Numbers : B[n] = IF A[n].worker = w
                                     THEN Release(Close(A[n], OpenStates, "cancelled"))
                                     ELSE A[n]
    PROVE  HasSeat(k, B)
<1>1. PICK n \in Numbers : Seat(k, A, n)
  BY DEF HasSeat
<1>2. B[n] = A[n]
  BY <1>1 DEF Seat
<1>3. ASSUME NEW m \in Numbers, A[m].state = "none" PROVE B[m].state = "none"
  <2>1. Close(A[m], OpenStates, "cancelled") = A[m]
    BY <1>3 DEF Close, OpenStates, LiveStates
  <2>2. Release(A[m]).state = "none"
    BY SMTT(30), <1>3, ReleaseFields
  <2> QED BY <1>3, <2>1, <2>2
<1> QED BY <1>1, <1>2, <1>3 DEF HasSeat, Seat

\* What leave_worker does to the tasks of the Worker that leaves: they keep
\* it, and unless it is forced none awaits it any more.
LEMMA LeftTasks ==
    ASSUME NEW d \in Database, QueueKept(d), NEW w \in Workers, NEW u \in Tasks,
           d.task[u].worker = w, NEW force,
           NEW e, e = IF force THEN Evict(ExpirePrepared(d, w), w)
                      ELSE Requeue(ExpirePrepared(d, w), w)
    PROVE  /\ e.task[u].worker = w /\ Unreserved(e.task[u])
           /\ force \/ d.wrk[w].status = "revoked" \/ ~Awaits(e.task[u])
<1> DEFINE p == ExpirePrepared(d, w)
           k == d.task[u]
<1>1. k \in TaskRow /\ Unreserved(k) /\ Placed(d, u)
  BY RowsTyped DEF QueueKept
<1>2. /\ p.task[u] = IF k.state = "prepared" THEN [k EXCEPT !.state = "expired"] ELSE k
      /\ k.state # "prepared" => p.att[u] = d.att[u]
  BY DEF ExpirePrepared, Database
<1>3. p.task = [t \in Tasks |-> p.task[t]] /\ p.att = [t \in Tasks |-> p.att[t]]
  BY SMTT(30) DEF ExpirePrepared, Database
<1>4. e.task[u] = IF force
                  THEN IF /\ p.task[u].worker = w
                          /\ p.task[u].state \in {"queued", "reserved", "running"}
                       THEN [p.task[u] EXCEPT !.state = "rekey_required"] ELSE p.task[u]
                  ELSE IF u \in Unleased(p, w)
                       THEN [p.task[u] EXCEPT !.state = "rekey_required", !.resv = "none"]
                       ELSE p.task[u]
  BY Zenon DEF Evict, Requeue, ExpirePrepared, Database
<1> HIDE DEF p
<1>5. CASE k.state = "prepared"
  <2>1. p.task[u].state = "expired" /\ p.task[u].worker = w
    BY <1>1, <1>2, <1>5, StateField
  <2>2. u \notin Unleased(p, w)
    BY <2>1 DEF Unleased
  <2>3. e.task[u] = p.task[u]
    BY <1>4, <2>1, <2>2
  <2> QED BY <2>1, <2>3 DEF Unreserved, Awaits
<1>6. CASE k.state # "prepared"
  <2>1. p.task[u] = k /\ p.att[u] = d.att[u]
    BY <1>2, <1>6
  <2>2. /\ [k EXCEPT !.state = "rekey_required"].state = "rekey_required"
        /\ [k EXCEPT !.state = "rekey_required"].worker = w
        /\ [k EXCEPT !.state = "rekey_required", !.resv = "none"].state = "rekey_required"
        /\ [k EXCEPT !.state = "rekey_required", !.resv = "none"].resv = "none"
        /\ [k EXCEPT !.state = "rekey_required", !.resv = "none"].worker = w
    BY SMTT(30), <1>1 DEF TaskRow
  <2>3. e.task[u].worker = w /\ Unreserved(e.task[u])
    BY Zenon, <1>1, <1>4, <2>1, <2>2 DEF Unreserved
  <2>4. ASSUME ~force, d.wrk[w].status # "revoked" PROVE ~Awaits(e.task[u])
    <3>1. CASE u \in Unleased(p, w)
      BY Zenon, <1>4, <2>1, <2>2, <2>4, <3>1 DEF Awaits
    <3>2. CASE u \notin Unleased(p, w)
      <4>1. e.task[u] = k
        BY <1>4, <2>1, <2>4, <3>2
      <4>2. k.state # "queued"
        BY <2>1, <3>2 DEF Unleased
      <4>3. ~(k.state = "rekey_required" /\ HasSeat(k, d.att[u]))
        BY <2>1, <3>2 DEF Unleased, HasSeat, Seat
      <4>4. Awaits(k) => HasSeat(k, d.att[u])
        BY <1>1, <2>4 DEF Placed
      <4> QED BY <1>6, <4>1, <4>2, <4>3, <4>4 DEF Awaits
    <3> QED BY <3>1, <3>2
  <2> QED BY <2>3, <2>4
<1> QED BY <1>5, <1>6

\* What leave_worker does to the tasks of the other Workers: at most it closes
\* an old attempt on the Worker that leaves.
LEMMA OthersStay ==
    ASSUME NEW d \in Database, NEW w \in Workers, NEW u \in Tasks,
           d.task[u].worker # w, NEW force,
           NEW e, e = IF force THEN Evict(ExpirePrepared(d, w), w)
                      ELSE Requeue(ExpirePrepared(d, w), w)
    PROVE  /\ e.task[u] = d.task[u]
           /\ HasSeat(d.task[u], d.att[u]) => HasSeat(e.task[u], e.att[u])
<1> DEFINE p == ExpirePrepared(d, w)
<1>1. p.task[u] = d.task[u] /\ p.att[u] = d.att[u]
  BY SMTT(30) DEF ExpirePrepared, Database
<1>2. /\ p.task = [t \in Tasks |-> p.task[t]]
      /\ u \notin Unleased(p, w)
  BY SMTT(30), <1>1 DEF ExpirePrepared, Unleased, Database
<1>3. /\ Evict(p, w).task[u] = d.task[u]
      /\ Evict(p, w).att[u] = [n \in Numbers |->
            IF d.att[u][n].worker = w
            THEN Release(Close(d.att[u][n], OpenStates, "cancelled")) ELSE d.att[u][n]]
  <2> HIDE DEF p
  <2>1. Evict(p, w).task[u] = d.task[u]
    BY <1>1 DEF Evict
  <2> QED BY <1>1, <2>1 DEF Evict
<1>4. Requeue(p, w).task[u] = d.task[u] /\ Requeue(p, w).att[u] = d.att[u]
  BY <1>1, <1>2 DEF Requeue, Database
<1> HIDE DEF p
<1>5. \A n \in Numbers : d.att[u][n] \in AttemptRow
  BY RowsTyped
<1>6. CASE force
  <2>1. e = Evict(p, w)
    BY <1>6 DEF p
  <2>2. \A n \in Numbers : e.att[u][n] = IF d.att[u][n].worker = w
            THEN Release(Close(d.att[u][n], OpenStates, "cancelled")) ELSE d.att[u][n]
    BY <1>3, <2>1
  <2> QED BY <1>3, <1>5, <2>1, <2>2, SeatBesideEvicted
<1>7. CASE ~force
  BY <1>4, <1>7 DEF p
<1> QED BY <1>6, <1>7

\* leave_worker: revoked, the Worker executes nothing; draining, no task
\* awaits it; and the seats on other Workers stay.
LEMMA LeaveWorkerQueue ==
    ASSUME IInv, QueueKept(db), NEW w \in Workers, NEW force, LeaveWorker(w, force)
    PROVE  QueueKept(db')
<1> DEFINE p == ExpirePrepared(db, w)
           d == IF force THEN Evict(p, w) ELSE Requeue(p, w)
           idle == AttemptsOn(db, w, LiveStates) = {}
           s == IF force \/ idle THEN "revoked" ELSE "draining"
           r == [d.wrk[w] EXCEPT !.status = s, !.alloc = FALSE]
<1>1. db \in Database /\ Consistent(db)
  BY DEF IInv, TypeOK
<1>2. p \in Database /\ Consistent(p)
  BY <1>1, ExpirePreparedKeeps
<1>3. d \in Database
  BY <1>2, EvictKeeps, RequeueKeeps
<1>4. d.wrk = db.wrk /\ d.env = db.env
  BY <1>1 DEF Evict, Requeue, ExpirePrepared, Database
<1>5. db' = [d EXCEPT !.wrk[w].status = s, !.wrk[w].alloc = FALSE]
  BY DEF LeaveWorker, Left
<1>6. force => \A u \in Tasks, n \in Numbers :
        d.att[u][n] = IF p.att[u][n].worker = w
                      THEN Release(Close(p.att[u][n], OpenStates, "cancelled"))
                      ELSE p.att[u][n]
  <2> HIDE DEF p
  <2> QED BY <1>2 DEF Evict, Database
<1>7. ASSUME NEW u \in Tasks, db.task[u].worker = w
      PROVE  /\ d.task[u].worker = w /\ Unreserved(d.task[u])
             /\ force \/ db.wrk[w].status = "revoked" \/ ~Awaits(d.task[u])
  BY <1>1, <1>7, LeftTasks
<1>8. ASSUME NEW u \in Tasks, db.task[u].worker # w
      PROVE  /\ d.task[u] = db.task[u]
             /\ HasSeat(db.task[u], db.att[u]) => HasSeat(d.task[u], d.att[u])
  BY <1>1, <1>8, OthersStay
<1> HIDE DEF d
<1>9. r.status = s
  BY Zenon, <1>3 DEF WorkerRow, Database
<1>10. db' = [d EXCEPT !.wrk = [d.wrk EXCEPT ![w] = r]]
  BY Zenon, <1>3, <1>5 DEF Database
<1> HIDE DEF r
<1>11. /\ db'.att = d.att /\ db'.task = d.task /\ db'.env = db.env
       /\ db'.wrk[w].status = s
       /\ \A v \in Workers : v # w => db'.wrk[v] = db.wrk[v]
  BY <1>3, <1>4, <1>9, <1>10 DEF Database
<1>12. NoneStarts(db, db')
  BY LeaveWorkerSafe
<1>13. db.wrk[w].status = "revoked" => s = "revoked"
  BY DEF QueueKept, RevokedIdle
<1>14. s = "revoked" => AttemptsOn(db', w, LiveStates) = {}
  <2>1. CASE idle
    BY <1>12, <2>1 DEF NoneStarts
  <2>2. CASE force
    <3>0. AttemptsOn(db', w, LiveStates) = AttemptsOn(d, w, LiveStates)
      BY Zenon, <1>11 DEF AttemptsOn
    <3> SUFFICES ASSUME NEW u \in Tasks, NEW n \in Numbers, d.att[u][n].worker = w,
                        d.att[u][n].state \in LiveStates
                 PROVE  FALSE
      BY <3>0 DEF AttemptsOn
    <3> DEFINE a == p.att[u][n]
               c == Close(a, OpenStates, "cancelled")
    <3>1. a \in AttemptRow /\ c \in AttemptRow
      BY Zenon, <1>2, RowsTyped, RowType DEF FinalStates
    <3>2. CASE a.worker = w
      <4>1. d.att[u][n].state = c.state
        BY SMTT(30), <1>6, <2>2, <3>1, <3>2, ReleaseFields
      <4>2. c.state \notin LiveStates
        BY <3>1, CloseFields DEF OpenStates, LiveStates
      <4> QED BY SMTT(30), <4>1, <4>2
    <3>3. CASE a.worker # w
      BY <1>6, <2>2, <3>3
    <3> QED BY <3>2, <3>3
  <2> QED BY <2>1, <2>2
<1> HIDE DEF s, idle
<1>15. RevokedIdle(db')
  <2>1. ASSUME NEW v \in Workers, db'.wrk[v].status = "revoked"
        PROVE  db.wrk[v].status = "revoked" \/ AttemptsOn(db', v, LiveStates) = {}
    BY <1>11, <1>14, <2>1
  <2> QED BY <1>12, <2>1, RevokedStayIdle DEF QueueKept
<1>16. ASSUME NEW u \in Tasks
       PROVE  Placed(db', u) /\ Unreserved(db'.task[u])
  <2>1. Placed(db, u) /\ Unreserved(db.task[u])
    BY DEF QueueKept
  <2>2. CASE db.task[u].worker = w
    <3>1. force => s = "revoked"
      BY DEF s
    <3>2. s = "revoked" \/ ~Awaits(db'.task[u])
      BY SMTT(30), <1>7, <1>11, <1>13, <2>2, <3>1
    <3> QED BY <1>7, <1>11, <2>2, <3>2 DEF Placed
  <2>3. CASE db.task[u].worker # w
    BY SMTT(30), <1>8, <1>11, <2>1, <2>3 DEF Placed
  <2> QED BY <2>2, <2>3
<1> QED BY <1>15, <1>16 DEF QueueKept

\* A heartbeat, an offer and an approval of an allocation.
LEMMA WorkerRowStepsQueue ==
    ASSUME IInv, QueueKept(db), NEW w \in Workers,
           WorkerHeartbeat(w) \/ OfferWorker(w) \/ ApproveAllocation(w)
    PROVE  QueueKept(db')
<1>1. db \in Database /\ db.wrk[w] \in WorkerRow
  BY DEF IInv, TypeOK, Database
<1>2. /\ db'.task = db.task /\ db'.att = db.att /\ db'.env = db.env
      /\ \A v \in Workers : v # w => db'.wrk[v] = db.wrk[v]
  BY <1>1 DEF WorkerHeartbeat, OfferWorker, ApproveAllocation, Database
<1>3. \/ db'.wrk[w].status = db.wrk[w].status
      \/ db'.wrk[w].status = "active" /\ db.wrk[w].status # "revoked"
  BY SMTT(30), <1>1 DEF WorkerHeartbeat, OfferWorker, ApproveAllocation, Database, WorkerRow
<1>4. WorkersMayServe(db, db')
  BY <1>2, <1>3 DEF WorkersMayServe
<1>5. NoneStarts(db, db')
  BY WorkerRowStepsSafe
<1>6. \A v \in Workers : db'.wrk[v].status = "revoked" => db.wrk[v].status = "revoked"
  BY <1>2, <1>3
<1>7. RevokedIdle(db')
  BY <1>5, <1>6, RevokedStayIdle DEF QueueKept
<1> QED BY <1>2, <1>4, <1>7, WorkersQueue

-----------------------------------------------------------------------------
(* The theorem *)

QInv == IInv /\ QueueKept(db)

\* No task exists at first and no Worker is revoked.
LEMMA InitQueue == Init => QInv
<1> SUFFICES ASSUME Init PROVE QueueKept(db)
  BY InitEstablishes DEF QInv
<1>1. \A t \in Tasks : db.task[t].state = "absent"
  BY DEF Init, NoTask
<1>2. \A w \in Workers : db.wrk[w].status # "revoked"
  BY DEF Init
<1> QED BY <1>1, <1>2 DEF QueueKept, Placed, Awaits, Unreserved, RevokedIdle

\* Every transaction of the scheduler keeps the queues leasable.
LEMMA NextQueue ==
    ASSUME QInv, Next
    PROVE  QInv'
<1> USE DEF QInv
<1>1. IInv'
  BY NextKeeps
<1>2. db \in Database /\ Consistent(db)
  BY DEF IInv, TypeOK
<1>3. ASSUME NEW t \in Tasks, NEW w \in Workers,
             PrepareTask(t, w) \/ PrepareRetry(t, w) \/ CommitRekey(t, w)
      PROVE  QueueKept(db')
  BY <1>3, PrepareTaskQueue, PrepareRetryQueue, TaskRowStepsQueue
<1>4. ASSUME NEW t \in Tasks, CommitTask(t) \/ CancelTask(t) \/ ReservationLapses(t)
      PROVE  QueueKept(db')
  BY <1>4, CancelTaskQueue, TaskRowStepsQueue
<1>5. ASSUME NEW t \in Tasks, NEW n \in Numbers, NEW f,
             \/ LeaseLapses(t, n)
             \/ \E started \in BOOLEAN : HeartbeatAttempt(t, n, f, started)
             \/ \E report \in Reports : FinishAttempt(t, n, f, report)
      PROVE  QueueKept(db')
  BY <1>5, AttemptStepsQueue, FinishAttemptQueue
<1>6. ASSUME NEW w \in Workers,
             \/ WorkerHeartbeat(w) \/ OfferWorker(w) \/ ApproveAllocation(w)
             \/ Lease(w)
             \/ \E force \in BOOLEAN : LeaveWorker(w, force)
      PROVE  QueueKept(db')
  BY <1>6, WorkerRowStepsQueue, LeaseQueue, LeaveWorkerQueue
<1>7. ASSUME MaintenanceEnded \/ \E w \in Workers : MaintenanceQueued(w)
      PROVE  QueueKept(db')
  <2>1. db' = db
    BY <1>7 DEF MaintenanceQueued, MaintenanceEnded
  <2> QED BY <2>1
<1>8. ASSUME SweepExpired \/ \E w \in Workers : MaintenanceClaimed(w)
      PROVE  QueueKept(db')
  <2>1. db' = Expired(db)
    BY <1>8 DEF SweepExpired, MaintenanceClaimed
  <2> QED BY <1>2, <2>1, ExpiredQueue
<1>9. ASSUME BrokerDeviceHeartbeat PROVE QueueKept(db')
  <2>1. db' = ExpireLeases(db)
    BY <1>9 DEF BrokerDeviceHeartbeat
  <2> QED BY <1>2, <2>1, ExpireLeasesQueue
<1>10. QueueKept(db')
  BY SMTT(30), <1>3, <1>4, <1>5, <1>6, <1>7, <1>8, <1>9 DEF Next
<1> QED BY <1>1, <1>10

\* The strengthened invariant holds in every behaviour of the Gateway.
THEOREM QueueInvariant == Spec => []QInv
<1>1. QInv /\ [Next]_vars => QInv'
  <2> SUFFICES ASSUME QInv, [Next]_vars PROVE QInv'
    OBVIOUS
  <2>1. CASE Next
    BY <2>1, NextQueue
  <2>2. CASE UNCHANGED vars
    <3>1. IInv' /\ db' = db
      BY <2>2, StutterKeeps DEF QInv, vars
    <3> QED BY <3>1 DEF QInv
  <2> QED BY <2>1, <2>2
<1> QED BY InitQueue, <1>1, PTL DEF Spec

\* A queued task of a Worker that is not revoked can be leased: the Worker is
\* active, holds the task key and has a reserved attempt, whatever retries,
\* expiries and departures went before.
THEOREM QueuedTasksLeasable == Spec => []QueuedIsLeasable
<1>1. QInv => QueuedIsLeasable
  <2> SUFFICES ASSUME QInv, NEW t \in Tasks, db.task[t].state = "queued",
                      db.wrk[db.task[t].worker].status # "revoked"
               PROVE  /\ db.wrk[db.task[t].worker].status = "active"
                      /\ db.task[t].worker \in db.env[t]
                      /\ \E n \in Numbers : NewestReserved(db, t, n, db.task[t].worker)
    BY SMTT(30) DEF QueuedIsLeasable
  <2>1. /\ db.wrk[db.task[t].worker].status = "active"
        /\ db.task[t].worker \in db.env[t]
        /\ HasSeat(db.task[t], db.att[t])
    BY DEF QInv, QueueKept, Placed, Awaits
  <2>2. PICK n \in Numbers : Seat(db.task[t], db.att[t], n)
    BY <2>1 DEF HasSeat
  <2>3. NewestReserved(db, t, n, db.task[t].worker)
    BY <2>2, ConstantsAssumption DEF NewestReserved, Seat, Numbers
  <2> QED BY SMTT(30), <2>1, <2>3
<1> QED BY <1>1, QueueInvariant, PTL

-----------------------------------------------------------------------------
(* Charges of a row, and what a transaction from d to e keeps *)

Uncharged(a) == a.receipt = "none" /\ a.usage = 0

SameCharge(a, b) == b.receipt = a.receipt /\ b.usage = a.usage

\* Only a closed attempt is charged, once, and as its receipt says.
Settled(a) ==
    /\ a.state \notin FinalStates => Uncharged(a)
    /\ a.usage = IF /\ a.receipt # "none"
                    /\ a.state = "cancelled" => a.started
                 THEN 1 ELSE 0

AllSettled(d) == \A t \in Tasks, n \in Numbers : Settled(d.att[t][n])

ChargesKept(d, e) ==
    \A t \in Tasks, n \in Numbers :
        SameCharge(d.att[t][n], e.att[t][n]) \/ Uncharged(e.att[t][n])

FinalKept(d, e) ==
    \A t \in Tasks : d.task[t].state \in FinalStates => e.task[t].state = d.task[t].state

\* The step FinishedTasksStay allows.
MayLeaveFinal(d, e) ==
    \A t \in Tasks :
        /\ d.task[t].state \in {"succeeded", "cancelled"} =>
              e.task[t].state = d.task[t].state
        /\ d.task[t].state \in {"failed", "expired"} =>
              \/ e.task[t].state = d.task[t].state
              \/ /\ e.task[t].state = "rekey_required"
                 /\ \E n \in Numbers : /\ d.att[t][n].state = "none"
                                       /\ e.att[t][n].state = "reserved"

\* What every operator of a transaction does to the history.
HistoryKept(d, e) == ChargesKept(d, e) /\ FinalKept(d, e)

\* Closing, releasing and cancelling an attempt charge nothing.
LEMMA RowChargeKept ==
    ASSUME NEW a \in AttemptRow, NEW S, NEW to \in FinalStates
    PROVE  /\ SameCharge(a, Close(a, S, to))
           /\ SameCharge(a, Release(Close(a, S, to)))
           /\ SameCharge(a, CancelAttempt(a))
<1>1. ASSUME NEW b \in AttemptRow, NEW T, NEW s \in FinalStates
      PROVE  SameCharge(b, Close(b, T, s)) /\ SameCharge(b, Release(b))
  BY DEF SameCharge, Close, Release, AttemptRow
<1>2. ASSUME NEW T, NEW s \in FinalStates
      PROVE  SameCharge(a, Close(a, T, s)) /\ SameCharge(a, Release(Close(a, T, s)))
  <2>1. Close(a, T, s) \in AttemptRow
    BY Zenon, RowType
  <2> QED BY <1>1, <2>1 DEF SameCharge
<1>3. SameCharge(a, CancelAttempt(a))
  BY <1>2 DEF CancelAttempt, FinalStates
<1> QED BY <1>2, <1>3

\* Histories compose.
LEMMA HistoryTransitive ==
    ASSUME NEW d, NEW e, NEW f, HistoryKept(d, e), HistoryKept(e, f)
    PROVE  HistoryKept(d, f)
  BY DEF HistoryKept, ChargesKept, FinalKept, SameCharge, Uncharged

\* A transaction that keeps final states makes an allowed step.
LEMMA FinalKeptAllowed ==
    ASSUME NEW d, NEW e, FinalKept(d, e)
    PROVE  MayLeaveFinal(d, e)
  BY DEF FinalKept, MayLeaveFinal, FinalStates

\* The rows of e are settled if those of d are and a transaction from d to e
\* charges nothing and keeps closed rows.
LEMMA KeptChargesSettled ==
    ASSUME NEW d, NEW e, AllSettled(d), ClosedRowsKept(d, e), ChargesKept(d, e)
    PROVE  AllSettled(e)
<1> SUFFICES ASSUME NEW t \in Tasks, NEW n \in Numbers
             PROVE  Settled(e.att[t][n])
  BY DEF AllSettled
<1>1. CASE d.att[t][n].state \in FinalStates
  BY <1>1 DEF AllSettled, ClosedRowsKept
<1>2. CASE d.att[t][n].state \notin FinalStates
  <2>1. Uncharged(d.att[t][n])
    BY <1>2 DEF AllSettled, Settled
  <2>2. Uncharged(e.att[t][n])
    BY <2>1 DEF ChargesKept, SameCharge, Uncharged
  <2> QED BY <2>2 DEF Settled, Uncharged
<1> QED BY <1>1, <1>2

-----------------------------------------------------------------------------
(* The operators inside transactions *)

\* _expire_reservations.
LEMMA ExpireReservationsHistory ==
    ASSUME NEW d \in Database
    PROVE  HistoryKept(d, ExpireReservations(d))
<1> DEFINE e == ExpireReservations(d)
<1>1. ASSUME NEW t \in Tasks, NEW n \in Numbers
      PROVE  SameCharge(d.att[t][n], e.att[t][n])
  <2>1. e.att[t][n] \in {d.att[t][n], Release(Close(d.att[t][n], {"reserved", "leased"}, "expired"))}
    BY DEF ExpireReservations, Database
  <2>2. SameCharge(d.att[t][n], Release(Close(d.att[t][n], {"reserved", "leased"}, "expired")))
    BY RowsTyped, RowChargeKept DEF FinalStates
  <2> QED BY <2>1, <2>2 DEF SameCharge
<1>2. ASSUME NEW t \in Tasks, d.task[t].state \in FinalStates
      PROVE  e.task[t].state = d.task[t].state
  BY <1>2 DEF ExpireReservations, ReservationGone, Database, FinalStates
<1> QED BY SMTT(30), <1>1, <1>2 DEF HistoryKept, ChargesKept, FinalKept

\* _expire_leases.
LEMMA ExpireLeasesHistory ==
    ASSUME NEW d \in Database, Consistent(d)
    PROVE  HistoryKept(d, ExpireLeases(d))
<1> DEFINE A == [t \in Tasks |-> [n \in Numbers |->
                    IF d.att[t][n].lease = "lapsed"
                    THEN Release(Close(d.att[t][n], LiveStates, "expired"))
                    ELSE d.att[t][n]]]
           K == [t \in Tasks |->
                    IF ExecutionLost(d, t)
                    THEN [d.task[t] EXCEPT !.state = "rekey_required"] ELSE d.task[t]]
           e == [d EXCEPT !.att = A, !.task = K]
<1>1. ExpireLeases(d).att = A /\ ExpireLeases(d).task = K
  BY DEF ExpireLeases, FinalizeDrained, Database
<1>2. ASSUME NEW t \in Tasks, NEW n \in Numbers
      PROVE  SameCharge(d.att[t][n], A[t][n])
  <2>1. SameCharge(d.att[t][n], Release(Close(d.att[t][n], LiveStates, "expired")))
    BY RowsTyped, RowChargeKept DEF FinalStates
  <2> QED BY <2>1 DEF SameCharge
<1>3. ASSUME NEW t \in Tasks, d.task[t].state \in FinalStates
      PROVE  K[t].state = d.task[t].state
  BY <1>3 DEF ExecutionLost, FinalStates
<1> HIDE DEF A, K
<1> QED BY <1>1, <1>2, <1>3 DEF HistoryKept, ChargesKept, FinalKept

\* The expiry run before most scheduling transactions.
LEMMA ExpiredHistory ==
    ASSUME NEW d \in Database, Consistent(d)
    PROVE  HistoryKept(d, Expired(d))
  BY SMTT(30), ExpireReservationsType, ExpireReservationsKeeps, ExpireReservationsHistory,
     ExpireLeasesHistory, HistoryTransitive DEF Expired

\* leave_worker's three operators.
LEMMA LeaveHistory ==
    ASSUME NEW d \in Database, NEW w \in Workers
    PROVE  /\ HistoryKept(d, ExpirePrepared(d, w))
           /\ HistoryKept(d, Requeue(d, w))
           /\ HistoryKept(d, Evict(d, w))
<1>1. ASSUME NEW t \in Tasks, NEW n \in Numbers
      PROVE  /\ SameCharge(d.att[t][n], ExpirePrepared(d, w).att[t][n])
             /\ SameCharge(d.att[t][n], Requeue(d, w).att[t][n])
             /\ SameCharge(d.att[t][n], Evict(d, w).att[t][n])
  <2> DEFINE a == d.att[t][n]
  <2>1. /\ SameCharge(a, a)
        /\ SameCharge(a, Close(a, {"reserved"}, "expired"))
        /\ SameCharge(a, Close(a, {"reserved"}, "cancelled"))
        /\ SameCharge(a, Release(Close(a, OpenStates, "cancelled")))
    BY RowsTyped, RowChargeKept DEF FinalStates, SameCharge
  <2>2. /\ ExpirePrepared(d, w).att[t][n] \in {a, Close(a, {"reserved"}, "expired")}
        /\ Requeue(d, w).att[t][n] \in {a, Close(a, {"reserved"}, "cancelled")}
        /\ Evict(d, w).att[t][n] \in {a, Release(Close(a, OpenStates, "cancelled"))}
    BY DEF ExpirePrepared, Requeue, Evict, Database
  <2> HIDE DEF a
  <2>3. SameCharge(a, ExpirePrepared(d, w).att[t][n])
    BY Zenon, <2>1, <2>2
  <2>4. SameCharge(a, Requeue(d, w).att[t][n]) /\ SameCharge(a, Evict(d, w).att[t][n])
    BY Zenon, <2>1, <2>2
  <2> QED BY <2>3, <2>4 DEF a
<1>2. ASSUME NEW t \in Tasks, d.task[t].state \in FinalStates
      PROVE  /\ ExpirePrepared(d, w).task[t] = d.task[t]
             /\ Requeue(d, w).task[t] = d.task[t]
             /\ Evict(d, w).task[t] = d.task[t]
  BY <1>2 DEF ExpirePrepared, Requeue, Unleased, Evict, Database, FinalStates
<1> QED BY SMTT(30), <1>1, <1>2 DEF HistoryKept, ChargesKept, FinalKept

-----------------------------------------------------------------------------
(* The transactions *)

\* A transaction that leaves all attempts alone and rewrites the row of one
\* task that is not final.
LEMMA TaskRowHistory ==
    ASSUME NEW d \in Database, NEW e, NEW t \in Tasks, NEW k,
           e.att = d.att, e.task = [d.task EXCEPT ![t] = k],
           k.state = d.task[t].state \/ d.task[t].state \notin FinalStates
    PROVE  HistoryKept(d, e)
<1>1. ChargesKept(d, e)
  BY DEF ChargesKept, SameCharge
<1>2. FinalKept(d, e)
  BY DEF FinalKept, Database
<1> QED BY <1>1, <1>2 DEF HistoryKept

\* A transaction from d to e that reserves the attempt n of t, with the task
\* row k.
Reserved(d, e, t, n, k) ==
    /\ ChargesKept(d, e)
    /\ \A u \in Tasks : u # t => e.task[u] = d.task[u]
    /\ e.task[t] = k
    /\ e.att[t][n].state = "reserved"

\* A reservation charges nothing and touches one task.
LEMMA ReserveHistory ==
    ASSUME NEW d \in Database, NEW t \in Tasks, NEW n \in Numbers, NEW w \in Workers,
           NEW k
    PROVE  Reserved(d, [Reserve(d, t, n, w) EXCEPT !.task[t] = k], t, n, k)
<1> DEFINE e == [Reserve(d, t, n, w) EXCEPT !.task[t] = k]
           row == NewAttempt(w, d.wrk[w].counter + 1)
<1>1. /\ e.att = [d.att EXCEPT ![t] = [d.att[t] EXCEPT ![n] = row]]
      /\ e.task = [d.task EXCEPT ![t] = k]
  BY DEF Reserve, Database
<1>2. Uncharged(row) /\ row.state = "reserved"
  BY DEF Uncharged, NewAttempt
<1> HIDE DEF row, e
<1>3. ASSUME NEW u \in Tasks, NEW m \in Numbers
      PROVE  e.att[u][m] = IF u = t /\ m = n THEN row ELSE d.att[u][m]
  BY <1>1 DEF Database
<1>4. ChargesKept(d, e)
  BY <1>2, <1>3 DEF ChargesKept, SameCharge
<1>5. Reserved(d, e, t, n, k)
  BY <1>1, <1>2, <1>3, <1>4 DEF Reserved, Database
<1> QED BY <1>5 DEF e

\* prepare_task: the task had no row.
LEMMA PrepareTaskHistory ==
    ASSUME IInv, NEW t \in Tasks, NEW w \in Workers, PrepareTask(t, w)
    PROVE  HistoryKept(db, db')
<1> DEFINE d == Expired(db)
           k == [state |-> "prepared", worker |-> w, resv |-> "live", content |-> FALSE]
<1>1. db \in Database /\ Consistent(db)
  BY DEF IInv, TypeOK
<1>2. d \in Database /\ HistoryKept(db, d)
  BY <1>1, ExpiredSafe, ExpiredHistory
<1>3. /\ d.task[t].state = "absent" /\ 1 \in Numbers
      /\ db' = [Reserve(d, t, 1, w) EXCEPT !.task[t] = k]
  BY DEF PrepareTask
<1> HIDE DEF d, k
<1>4. Reserved(d, db', t, 1, k)
  BY Zenon, <1>2, <1>3, ReserveHistory
<1>5. HistoryKept(d, db')
  BY <1>3, <1>4 DEF Reserved, HistoryKept, FinalKept, FinalStates
<1> QED BY <1>2, <1>5, HistoryTransitive

\* prepare_retry: the one transaction that takes a task out of a final state,
\* and it reserves a new attempt.
LEMMA PrepareRetryHistory ==
    ASSUME IInv, NEW t \in Tasks, NEW w \in Workers, PrepareRetry(t, w)
    PROVE  ChargesKept(db, db') /\ MayLeaveFinal(db, db')
<1> DEFINE d == ExpireReservations(db)
           k == [d.task[t] EXCEPT !.state = "rekey_required", !.worker = w, !.resv = "live"]
<1>1. db \in Database /\ Consistent(db)
  BY DEF IInv, TypeOK
<1>2. d \in Database /\ HistoryKept(db, d) /\ Frame(db, d)
  BY <1>1, ExpireReservationsType, ExpireReservationsKeeps, ExpireReservationsHistory
<1>3. PICK n \in Numbers :
        /\ IsNextNumber(d, t, n)
        /\ db' = [Reserve(d, t, n, w) EXCEPT !.task[t] =
                    [@ EXCEPT !.state = "rekey_required", !.worker = w, !.resv = "live"]]
  BY Zenon DEF PrepareRetry
<1>4. d.task[t].state \in {"failed", "rekey_required", "expired"}
  BY DEF PrepareRetry
<1> HIDE DEF d
<1>5. d.att[t][n].state = "none"
  BY <1>3, ConstantsAssumption DEF IsNextNumber, Numbers
<1>6. db' = [Reserve(d, t, n, w) EXCEPT !.task[t] = k]
  <2> DEFINE r == Reserve(d, t, n, w)
  <2>1. r.task = d.task
    BY SMTT(30), <1>2, ReserveRows
  <2> HIDE DEF r
  <2> QED BY <1>3, <2>1 DEF r
<1>7. k.state = "rekey_required"
  BY <1>2, RowsTyped DEF TaskRow
<1> HIDE DEF k
<1>8. /\ ChargesKept(d, db')
      /\ \A u \in Tasks : u # t => db'.task[u] = d.task[u]
      /\ db'.task[t] = k /\ db'.att[t][n].state = "reserved"
  <2>1. Reserved(d, db', t, n, k)
    BY Zenon, <1>2, <1>6, ReserveHistory
  <2> QED BY Zenon, <2>1 DEF Reserved
<1>9. ChargesKept(db, db')
  BY <1>2, <1>8 DEF HistoryKept, ChargesKept, SameCharge, Uncharged
<1>10. db.att[t][n].state = "none"
  BY <1>2, <1>5 DEF Frame, RowFrame
<1>11. FinalKept(db, d)
  BY <1>2 DEF HistoryKept
<1>12. \A u \in Tasks : u # t /\ db.task[u].state \in FinalStates
                        => db'.task[u].state = db.task[u].state
  BY <1>8, <1>11 DEF FinalKept
<1>13. db.task[t].state \notin {"succeeded", "cancelled"}
  BY <1>4, <1>11 DEF FinalKept, FinalStates
<1>14. MayLeaveFinal(db, db')
  <2> SUFFICES ASSUME NEW u \in Tasks
               PROVE  /\ db.task[u].state \in {"succeeded", "cancelled"} =>
                            db'.task[u].state = db.task[u].state
                      /\ db.task[u].state \in {"failed", "expired"} =>
                            \/ db'.task[u].state = db.task[u].state
                            \/ /\ db'.task[u].state = "rekey_required"
                               /\ \E m \in Numbers : /\ db.att[u][m].state = "none"
                                                     /\ db'.att[u][m].state = "reserved"
    BY Zenon DEF MayLeaveFinal
  <2>1. CASE u = t
    BY <1>7, <1>8, <1>10, <1>13, <2>1
  <2>2. CASE u # t
    BY <1>12, <2>2 DEF FinalStates
  <2> QED BY <2>1, <2>2
<1> QED BY <1>9, <1>14

\* commit_task, commit_rekey and the end of a reservation's time.
LEMMA TaskRowStepsHistory ==
    ASSUME IInv, NEW t \in Tasks,
           CommitTask(t) \/ ReservationLapses(t) \/ \E w \in Workers : CommitRekey(t, w)
    PROVE  HistoryKept(db, db')
<1>1. db \in Database /\ db.task[t] \in TaskRow
  BY RowsTyped DEF IInv, TypeOK
<1>2. PICK k : /\ db'.att = db.att /\ db'.task = [db.task EXCEPT ![t] = k]
               /\ k.state = db.task[t].state \/ db.task[t].state \notin FinalStates
  <2>1. CASE CommitTask(t)
    <3> DEFINE k == [db.task[t] EXCEPT !.state = "queued", !.resv = "none", !.content = TRUE]
    <3>1. db'.att = db.att /\ db'.task = [db.task EXCEPT ![t] = k]
      BY <1>1, <2>1 DEF CommitTask, Database
    <3>2. db.task[t].state \notin FinalStates
      BY <2>1 DEF CommitTask, FinalStates
    <3> QED BY Zenon, <3>1, <3>2
  <2>2. ASSUME NEW w \in Workers, CommitRekey(t, w)
        PROVE  \E k : /\ db'.att = db.att /\ db'.task = [db.task EXCEPT ![t] = k]
                      /\ k.state = db.task[t].state \/ db.task[t].state \notin FinalStates
    <3> DEFINE k == [db.task[t] EXCEPT !.state = "queued", !.resv = "none"]
    <3>1. db'.att = db.att /\ db'.task = [db.task EXCEPT ![t] = k]
      BY Zenon, <1>1, <2>2 DEF CommitRekey, Database
    <3>2. db.task[t].state \notin FinalStates
      BY Zenon, <2>2 DEF CommitRekey, FinalStates
    <3> QED BY ZenonT(30), <3>1, <3>2
  <2>3. CASE ReservationLapses(t)
    <3> DEFINE k == [db.task[t] EXCEPT !.resv = "lapsed"]
    <3>1. db'.att = db.att /\ db'.task = [db.task EXCEPT ![t] = k]
      BY <1>1, <2>3 DEF ReservationLapses, Database
    <3>2. k.state = db.task[t].state
      BY <1>1 DEF TaskRow
    <3> QED BY Zenon, <3>1, <3>2
  <2> QED BY Zenon, <2>1, <2>2, <2>3
<1> QED BY <1>1, <1>2, TaskRowHistory

\* Transactions that touch neither tasks nor attempts.
LEMMA OtherRowsHistory ==
    ASSUME NEW d, NEW e, e.task = d.task, e.att = d.att
    PROVE  HistoryKept(d, e)
  BY DEF HistoryKept, ChargesKept, FinalKept, SameCharge

\* cancel_task.
LEMMA CancelTaskHistory ==
    ASSUME IInv, NEW t \in Tasks, CancelTask(t)
    PROVE  HistoryKept(db, db')
<1> DEFINE B == [n \in Numbers |-> CancelAttempt(db.att[t][n])]
           k == [db.task[t] EXCEPT !.state = "cancelled"]
<1>1. db \in Database
  BY DEF IInv, TypeOK
<1>2. db' = [db EXCEPT !.att = [db.att EXCEPT ![t] = B],
                       !.task = [db.task EXCEPT ![t] = k]]
  BY <1>1 DEF CancelTask, Database
<1>3. db.task[t].state \notin FinalStates
  BY DEF CancelTask
<1>4. \A n \in Numbers : SameCharge(db.att[t][n], B[n])
  BY <1>1, RowsTyped, RowChargeKept DEF FinalStates
<1> HIDE DEF B, k
<1>5. /\ db'.att[t] = B
      /\ \A u \in Tasks : u # t => db'.task[u] = db.task[u] /\ db'.att[u] = db.att[u]
  BY <1>1, <1>2 DEF Database
<1>6. ChargesKept(db, db')
  BY <1>4, <1>5 DEF ChargesKept, SameCharge
<1>7. FinalKept(db, db')
  BY <1>3, <1>5 DEF FinalKept
<1> QED BY <1>6, <1>7 DEF HistoryKept

\* From d to e, the attempt n of t becomes the row b and no final state goes.
RowReplaced(d, e, t, n, b) ==
    /\ FinalKept(d, e)
    /\ \A u \in Tasks, m \in Numbers :
          e.att[u][m] = IF u = t /\ m = n THEN b ELSE d.att[u][m]

\* A transaction that rewrites one attempt row and perhaps its task's row.
LEMMA OneRowHistory ==
    ASSUME NEW d \in Database, NEW e, NEW t \in Tasks, NEW n \in Numbers, NEW b, NEW k,
           e = [d EXCEPT !.att = [d.att EXCEPT ![t] = [d.att[t] EXCEPT ![n] = b]],
                         !.task = [d.task EXCEPT ![t] = k]],
           d.task[t].state \in FinalStates => k.state = d.task[t].state
    PROVE  RowReplaced(d, e, t, n, b)
<1>1. /\ e.task = [d.task EXCEPT ![t] = k]
      /\ e.att = [d.att EXCEPT ![t] = [d.att[t] EXCEPT ![n] = b]]
  BY DEF Database
<1>2. FinalKept(d, e)
  BY <1>1 DEF FinalKept, Database
<1>3. ASSUME NEW u \in Tasks, NEW m \in Numbers
      PROVE  e.att[u][m] = IF u = t /\ m = n THEN b ELSE d.att[u][m]
  BY <1>1 DEF Database
<1> QED BY <1>2, <1>3 DEF RowReplaced

\* heartbeat_attempt and the end of a lease's time.
LEMMA AttemptStepsHistory ==
    ASSUME IInv, NEW t \in Tasks, NEW n \in Numbers, NEW f, NEW started,
           HeartbeatAttempt(t, n, f, started) \/ LeaseLapses(t, n)
    PROVE  HistoryKept(db, db')
<1> DEFINE a == db.att[t][n]
           k == [db.task[t] EXCEPT !.state = "running"]
<1>1. db \in Database /\ a \in AttemptRow /\ RowsAgree(db.task[t], db.att[t])
  BY RowsTyped DEF IInv, TypeOK, Consistent
<1>2. ASSUME NEW b, NEW j, SameCharge(a, b),
             db' = [db EXCEPT !.att = [db.att EXCEPT ![t] = [db.att[t] EXCEPT ![n] = b]],
                              !.task = [db.task EXCEPT ![t] = j]],
             db.task[t].state \in FinalStates => j.state = db.task[t].state
      PROVE  HistoryKept(db, db')
  <2>1. RowReplaced(db, db', t, n, b)
    BY <1>1, <1>2, OneRowHistory, Zenon
  <2>2. ChargesKept(db, db')
    BY <1>2, <2>1 DEF RowReplaced, ChargesKept, SameCharge
  <2> QED BY <2>1, <2>2 DEF RowReplaced, HistoryKept
<1>3. CASE LeaseLapses(t, n)
  <2> DEFINE b == [a EXCEPT !.lease = "lapsed"]
  <2>1. db' = [db EXCEPT !.att = [db.att EXCEPT ![t] = [db.att[t] EXCEPT ![n] = b]],
                         !.task = [db.task EXCEPT ![t] = db.task[t]]]
    BY Zenon, <1>1, <1>3 DEF LeaseLapses, Database
  <2>2. SameCharge(a, b)
    BY <1>1 DEF SameCharge, AttemptRow
  <2> HIDE DEF b, a
  <2> QED BY Zenon, <1>2, <2>1, <2>2
<1>4. CASE HeartbeatAttempt(t, n, f, started) /\ db' # db
  <2> DEFINE b == [a EXCEPT !.state = "running", !.started = TRUE]
  <2>1. /\ db' = [db EXCEPT !.att = [db.att EXCEPT ![t] = [db.att[t] EXCEPT ![n] = b]],
                            !.task = [db.task EXCEPT ![t] = k]]
        /\ a.state = "leased"
    BY SMTT(30), <1>1, <1>4 DEF HeartbeatAttempt, Database
  <2>2. db.task[t].state \notin FinalStates
    BY <1>1, <2>1 DEF RowsAgree, FinalStates
  <2>3. SameCharge(a, b)
    BY <1>1 DEF SameCharge, AttemptRow
  <2> HIDE DEF b, a, k
  <2> QED BY Zenon, <1>2, <2>1, <2>2, <2>3
<1>5. CASE db' = db
  BY <1>5, OtherRowsHistory
<1> QED BY <1>3, <1>4, <1>5

\* The row finish_attempt writes for an uncharged attempt is settled: a
\* cancelled attempt is charged only if it had started.
LEMMA FinishedIsSettled ==
    ASSUME NEW a \in AttemptRow, Uncharged(a), NEW c \in BOOLEAN, NEW report \in Reports,
           report = "cancelled" => c
    PROVE  Settled(Finished(a, IF c THEN "cancelled" ELSE report, report, Charge(a, c)))
<1> DEFINE s == IF c THEN "cancelled" ELSE report
           b == Finished(a, s, report, Charge(a, c))
<1>1. /\ b.state = s /\ b.receipt = report /\ b.usage = Charge(a, c)
      /\ b.started = a.started
  BY DEF Finished, AttemptRow
<1>2. Charge(a, c) = IF ~c \/ a.started THEN 1 ELSE 0
  BY DEF Charge, Uncharged
<1>3. s \in FinalStates /\ report # "none" /\ (s = "cancelled" <=> c)
  BY DEF FinalStates, Reports
<1> HIDE DEF b, s
<1>4. Settled(b)
  BY <1>1, <1>2, <1>3 DEF Settled
<1> QED BY <1>4 DEF b, s

\* finish_attempt: the only transaction that charges.
LEMMA FinishAttemptHistory ==
    ASSUME IInv, AllSettled(db), NEW t \in Tasks, NEW n \in Numbers, NEW f,
           NEW report \in Reports, FinishAttempt(t, n, f, report)
    PROVE  AllSettled(db') /\ FinalKept(db, db')
<1> DEFINE a == db.att[t][n]
           c == db.task[t].state = "cancelled"
           s == IF c THEN "cancelled" ELSE report
           b == Finished(a, s, report, Charge(a, c))
           k == [db.task[t] EXCEPT !.state = s]
           d == [db EXCEPT !.att = [db.att EXCEPT ![t] = [db.att[t] EXCEPT ![n] = b]],
                           !.task = [db.task EXCEPT ![t] = k]]
<1>1. /\ db \in Database /\ a \in AttemptRow /\ db.task[t] \in TaskRow
      /\ RowsAgree(db.task[t], db.att[t])
  BY SMTT(30), RowsTyped DEF IInv, TypeOK, Consistent
<1>2. /\ a.state \in LiveStates /\ db' \in {d, FinalizeDrained(d)}
      /\ report = "cancelled" => c
  BY SMTT(30), <1>1 DEF FinishAttempt, Finished, Database
<1>3. Uncharged(a)
  BY <1>2 DEF AllSettled, Settled, LiveStates, FinalStates
<1>4. Settled(b)
  BY Zenon, <1>1, <1>2, <1>3, FinishedIsSettled
<1>5. db.task[t].state \in FinalStates => k.state = db.task[t].state
  <2>1. db.task[t].state \in {"reserved", "running", "cancelled"}
    BY <1>1, <1>2 DEF RowsAgree, LiveStates
  <2>2. k.state = s
    BY <1>1, StateField
  <2> QED BY SMTT(30), <2>1, <2>2 DEF FinalStates
<1> HIDE DEF b, k, s, c
<1>6. d \in [task : {d.task}, att : {d.att}, wrk : {d.wrk}, env : {d.env}]
  BY Zenon, <1>1 DEF Database
<1>7. FinalizeDrained(d).att = d.att /\ FinalizeDrained(d).task = d.task
  BY <1>6 DEF FinalizeDrained
<1>8. RowReplaced(db, d, t, n, b)
  BY <1>1, <1>5, OneRowHistory, Zenon
<1> HIDE DEF d
<1>9. AllSettled(d)
  BY <1>4, <1>8 DEF RowReplaced, AllSettled
<1> QED BY <1>2, <1>7, <1>8, <1>9 DEF RowReplaced, AllSettled, FinalKept

\* lease: the expiries, then at most one grant of a queued task.
LEMMA LeaseHistory ==
    ASSUME IInv, NEW w \in Workers, Lease(w)
    PROVE  HistoryKept(db, db')
<1> DEFINE d == Expired(db)
<1>1. d \in Database /\ HistoryKept(db, d)
  BY ExpiredSafe, ExpiredHistory DEF IInv, TypeOK
<1>2. CASE db' = d
  BY <1>1, <1>2
<1>3. CASE db' # d
  <2>1. PICK t \in ReadyTasks(d, w), n \in Numbers : db' = Grant(d, t, n, w)
    BY SMTT(30), <1>3 DEF Lease
  <2>2. t \in Tasks /\ d.task[t].state = "queued"
    BY <2>1 DEF ReadyTasks
  <2> HIDE DEF d
  <2> DEFINE a == d.att[t][n]
             b == [a EXCEPT !.state = "leased", !.lease = "live", !.fence = d.wrk[w].counter + 1]
             k == [d.task[t] EXCEPT !.state = "reserved"]
  <2>3. /\ db'.att = [d.att EXCEPT ![t] = [d.att[t] EXCEPT ![n] = b]]
        /\ db'.task = [d.task EXCEPT ![t] = k]
    BY <1>1, <2>1, <2>2 DEF Grant, Database
  <2>4. SameCharge(a, b)
    <3>1. a \in AttemptRow
      BY <1>1, <2>2, RowsTyped
    <3> HIDE DEF a
    <3> QED BY <3>1 DEF SameCharge, AttemptRow
  <2> HIDE DEF b, k
  <2>5. ASSUME NEW u \in Tasks, NEW m \in Numbers
        PROVE  SameCharge(d.att[u][m], db'.att[u][m])
    <3>1. db'.att[u][m] = IF u = t /\ m = n THEN b ELSE d.att[u][m]
      BY <1>1, <2>2, <2>3 DEF Database
    <3> QED BY <2>4, <3>1 DEF SameCharge
  <2>6. ASSUME NEW u \in Tasks, d.task[u].state \in FinalStates
        PROVE  db'.task[u].state = d.task[u].state
    <3>1. u # t
      BY <2>2, <2>6 DEF FinalStates
    <3> QED BY <1>1, <2>2, <2>3, <3>1 DEF Database
  <2>7. HistoryKept(d, db')
    BY <2>5, <2>6 DEF HistoryKept, ChargesKept, FinalKept
  <2> QED BY <1>1, <2>7, HistoryTransitive
<1> QED BY <1>2, <1>3

\* leave_worker, graceful or forced.
LEMMA LeaveWorkerHistory ==
    ASSUME IInv, NEW w \in Workers, NEW force, LeaveWorker(w, force)
    PROVE  HistoryKept(db, db')
<1> DEFINE p == ExpirePrepared(db, w)
           d == IF force THEN Evict(p, w) ELSE Requeue(p, w)
<1>1. db \in Database /\ Consistent(db)
  BY DEF IInv, TypeOK
<1>2. p \in Database /\ Consistent(p) /\ HistoryKept(db, p)
  BY <1>1, ExpirePreparedKeeps, LeaveHistory
<1>3. d \in Database /\ HistoryKept(p, d)
  BY SMTT(30), <1>2, EvictKeeps, RequeueKeeps, LeaveHistory
<1>4. PICK s : db' = [d EXCEPT !.wrk[w].status = s, !.wrk[w].alloc = FALSE]
  BY Zenon DEF LeaveWorker, Left
<1> HIDE DEF d, p
<1>5. db'.att = d.att /\ db'.task = d.task
  BY <1>3, <1>4 DEF Database
<1>6. HistoryKept(d, db')
  BY <1>5, OtherRowsHistory
<1> QED BY <1>2, <1>3, <1>6, HistoryTransitive

-----------------------------------------------------------------------------
(* The theorems *)

HInv == IInv /\ AllSettled(db)

\* Every transaction keeps the rows settled and leaves final states only by a
\* retry.
LEMMA NextHistory ==
    ASSUME HInv, Next
    PROVE  HInv' /\ MayLeaveFinal(db, db')
<1>1. IInv /\ AllSettled(db) /\ IInv' /\ ClosedRowsKept(db, db')
  BY NextKeeps DEF HInv, Safe
<1>2. db \in Database /\ Consistent(db)
  BY <1>1 DEF IInv, TypeOK
<1>3. ASSUME AllSettled(db') PROVE HInv'
  BY <1>1, <1>3, Zenon DEF HInv, AllSettled, Settled
<1>4. ASSUME HistoryKept(db, db') PROVE HInv' /\ MayLeaveFinal(db, db')
  <2>1. AllSettled(db') /\ MayLeaveFinal(db, db')
    BY <1>1, <1>4, KeptChargesSettled, FinalKeptAllowed DEF HistoryKept
  <2> QED BY <1>3, <2>1
<1>5. ASSUME NEW t \in Tasks, NEW w \in Workers, PrepareTask(t, w) \/ CommitRekey(t, w)
      PROVE  HistoryKept(db, db')
  BY <1>1, <1>5, PrepareTaskHistory, TaskRowStepsHistory
<1>6. ASSUME NEW t \in Tasks, NEW w \in Workers, PrepareRetry(t, w)
      PROVE  HInv' /\ MayLeaveFinal(db, db')
  <2>1. AllSettled(db') /\ MayLeaveFinal(db, db')
    BY <1>1, <1>6, PrepareRetryHistory, KeptChargesSettled
  <2> QED BY <1>3, <2>1
<1>7. ASSUME NEW t \in Tasks, CommitTask(t) \/ CancelTask(t) \/ ReservationLapses(t)
      PROVE  HistoryKept(db, db')
  BY <1>1, <1>7, CancelTaskHistory, TaskRowStepsHistory
<1>8. ASSUME NEW t \in Tasks, NEW n \in Numbers, NEW f,
             \/ LeaseLapses(t, n)
             \/ \E started \in BOOLEAN : HeartbeatAttempt(t, n, f, started)
      PROVE  HistoryKept(db, db')
  BY <1>1, <1>8, AttemptStepsHistory
<1>9. ASSUME NEW t \in Tasks, NEW n \in Numbers, NEW f, NEW report \in Reports,
             FinishAttempt(t, n, f, report)
      PROVE  HInv' /\ MayLeaveFinal(db, db')
  <2>1. AllSettled(db') /\ MayLeaveFinal(db, db')
    BY <1>1, <1>9, FinishAttemptHistory, FinalKeptAllowed
  <2> QED BY <1>3, <2>1
<1>10. ASSUME NEW w \in Workers,
              \/ WorkerHeartbeat(w) \/ OfferWorker(w) \/ ApproveAllocation(w)
              \/ MaintenanceQueued(w) \/ MaintenanceEnded
       PROVE  HistoryKept(db, db')
  <2>1. db'.task = db.task /\ db'.att = db.att
    BY <1>2, <1>10 DEF WorkerHeartbeat, OfferWorker, ApproveAllocation, MaintenanceQueued,
       MaintenanceEnded, Database
  <2> QED BY <2>1, OtherRowsHistory
<1>11. ASSUME NEW w \in Workers,
              Lease(w) \/ MaintenanceClaimed(w) \/ \E force \in BOOLEAN : LeaveWorker(w, force)
       PROVE  HistoryKept(db, db')
  BY <1>1, <1>2, <1>11, LeaseHistory, LeaveWorkerHistory, ExpiredHistory DEF MaintenanceClaimed
<1>12. ASSUME SweepExpired \/ BrokerDeviceHeartbeat PROVE HistoryKept(db, db')
  BY <1>2, <1>12, ExpiredHistory, ExpireLeasesHistory DEF SweepExpired, BrokerDeviceHeartbeat
<1>13. ASSUME MaintenanceEnded PROVE HistoryKept(db, db')
  BY <1>13, OtherRowsHistory DEF MaintenanceEnded
<1> QED BY SMTT(30), <1>4, <1>5, <1>6, <1>7, <1>8, <1>9, <1>10, <1>11, <1>12, <1>13 DEF Next

\* The rows are settled in every behaviour.
THEOREM HistoryInvariant == Spec => []HInv
<1>1. Init => HInv
  <2> SUFFICES ASSUME Init PROVE AllSettled(db)
    BY InitEstablishes DEF HInv
  <2>1. \A t \in Tasks, n \in Numbers : db.att[t][n] = NoAttempt
    BY SMTT(30) DEF Init
  <2>2. Settled(NoAttempt)
    BY DEF Settled, Uncharged, NoAttempt
  <2> QED BY <2>1, <2>2 DEF AllSettled
<1>2. ASSUME HInv, [Next]_vars PROVE HInv'
  <2>1. CASE Next
    BY <1>2, <2>1, NextHistory
  <2>2. CASE UNCHANGED vars
    <3>1. IInv' /\ db' = db
      BY <1>2, <2>2, StutterKeeps DEF HInv, vars
    <3> QED BY Zenon, <1>2, <3>1 DEF HInv, AllSettled, Settled, Uncharged
  <2> QED BY <1>2, <2>1, <2>2
<1> QED BY <1>1, <1>2, PTL DEF Spec

\* Task row, attempt rows and leases agree between any two transactions, for
\* every number of Workers, tasks and attempts.
THEOREM RowsStayConsistent == Spec => []RowsConsistent
<1>1. IInv => RowsConsistent
  BY DEF IInv, RowsConsistent
<1> QED BY <1>1, InductiveInvariant, PTL

\* finish_attempt charges an attempt once, and never one that was cancelled
\* before it started; nothing else charges or refunds.
THEOREM AttemptsChargedOnce == Spec => []ChargedExactlyOnce
<1>1. HInv => ChargedExactlyOnce
  BY DEF HInv, AllSettled, Settled, ChargedExactlyOnce
<1> QED BY <1>1, HistoryInvariant, PTL

\* A succeeded or cancelled task never changes its state again, and a failed
\* or expired one is only revived by prepare_retry, with a new attempt.
THEOREM FinalStatesStay == Spec => FinishedTasksStay
<1>1. ASSUME HInv, [Next]_vars
      PROVE  [MayLeaveFinal(db, db')]_vars
  BY <1>1, NextHistory
<1>2. [MayLeaveFinal(db, db')]_vars =>
      [\A t \in Tasks :
        /\ db.task[t].state \in {"succeeded", "cancelled"} =>
              db'.task[t].state = db.task[t].state
        /\ db.task[t].state \in {"failed", "expired"} =>
              \/ db'.task[t].state = db.task[t].state
              \/ /\ db'.task[t].state = "rekey_required"
                 /\ \E n \in Numbers : /\ db.att[t][n].state = "none"
                                       /\ db'.att[t][n].state = "reserved"]_vars
  BY Zenon DEF MayLeaveFinal
<1> QED BY <1>1, <1>2, HistoryInvariant, PTL DEF Spec, FinishedTasksStay

=============================================================================
