---------------------------- MODULE RuntimeProofs ----------------------------
(***************************************************************************)
(* Proofs about the processes of a Worker's machine, for any number of     *)
(* update jobs, versions, runs, faults and restarts.  Only a runtime that  *)
(* the Gateway has accepted serves.  A run of the Executor returns what its*)
(* own prompt did.                                                         *)
(***************************************************************************)
EXTENDS RuntimeUpdate, ComfyRun, TLAPS

-----------------------------------------------------------------------------
(* Updates of the runtime *)

RuntimeSpec == UpdateInit /\ [][UpdateNext]_updateVars

Runtime == [from : {"none", "base", "store"}, ver : Nat]

JobRow == [state : {"queued", "leased", "running", "restarting", "succeeded", "failed", "cancelled"},
           fence : Int, mine : BOOLEAN, lease : {"none", "live"},
           result : {"none", "activated", "rolled_back", "failed"}]

Pointer == [st : {"none", "pending", "settled", "rolled_back"}, active : Runtime, prev : Runtime,
            job : Jobs \cup {NoJob}, fence : Int, verified : BOOLEAN]

Recovering == {"adopt", "probe", "verify", "commit", "readopt", "recommit", "cleanup"}

Busy == {"prepare", "stage", "point", "announce", "fail"}

Process == [pc : {"none", "exited", "recover", "report", "clear", "serve"} \cup Recovering \cup Busy,
            rt : Runtime, rollback : BOOLEAN, code : Nat, job : Jobs \cup {NoJob}, fence : Int]

Supervisor == [pc : {"down", "launch", "watch"}, base : Nat, selected : Runtime,
               rollback : BOOLEAN, rollbacks : Nat, restarts : Nat]

UpdateTyped ==
    /\ job \in [Jobs -> JobRow]
    /\ base \in Nat /\ refusals \in Int /\ refusals <= MaxRefusals
    /\ ptr \in Pointer
    /\ sup \in Supervisor
    /\ proc \in Process

\* The jobs whose activation the Gateway has accepted.
Done == {j \in Jobs : job[j].state = "succeeded"}

Unrefused == refusals = MaxRefusals

\* A runtime that may serve: the base, or a release the Gateway knows as active.
Allowed(rt, D) == rt.from = "store" => \E j \in D : Target[j] = rt.ver

\* No committed release is newer than v.
Covers(v, D) == \A j \in D : Target[j] <= v

\* What the Gateway has recorded of a job that is over, and of the pending one.
RowsGood ==
    /\ \A j \in Jobs : /\ job[j].state = "succeeded" => job[j].result = "activated"
                       /\ job[j].state = "failed" => job[j].result # "activated"
    /\ Pending /\ ptr.job \in Done => job[ptr.job].fence = ptr.fence

\* The pointer: what it falls back to may serve, and a committed target is
\* verified; settled or rolled back, it names what may serve.  D are the jobs
\* accepted, u says that no call was refused, b is the base.
PointerGood(p, D, u, b) ==
    /\ p.st = "pending" =>
        /\ p.job \in Jobs /\ p.active = Release(Target[p.job])
        /\ p.prev.ver < p.active.ver /\ Allowed(p.prev, D)
        /\ p.job \in D => p.verified
        /\ u => Covers(p.prev.ver, D \ {p.job})
    /\ p.st # "pending" =>
        /\ Allowed(p.active, D)
        /\ u => \A j \in D : Target[j] <= p.active.ver \/ Target[j] <= b
    /\ p.st = "none" => p.active = NoRuntime

\* A runtime that was started, or is about to be: it may serve, or it is the
\* target of the pending activation and tries to commit itself.
Startable(rt, rollback, p, D, u) ==
    /\ Allowed(rt, D) \/ (p.st = "pending" /\ p.active = rt /\ ~rollback)
    /\ u => Covers(rt.ver, D)

\* The supervisor: one child, and a rollback of a committed target only for a
\* newer base.
SupervisorGood(s, w, p, D, u, b) ==
    /\ s.pc \in {"down", "launch"} <=> w.pc = "none"
    /\ s.pc # "down" => s.base = b
    /\ s.pc = "launch" => Startable(s.selected, s.rollback, p, D, u)
    /\ s.pc = "watch" => w.rollback = s.rollback
    /\ u /\ s.pc # "down" /\ s.rollback /\ p.st = "pending" /\ p.job \in D => p.active.ver < b

\* The child: where it is, and what it has committed.
ProcessGood(w, p, D, u) ==
    /\ w.pc \notin {"none", "exited"} => Startable(w.rt, w.rollback, p, D, u)
    /\ w.pc \in {"report", "clear"} => p.st = "pending" /\ Allowed(w.rt, D)
    /\ w.pc \in Busy \cup {"serve"} => Allowed(w.rt, D)
    /\ w.pc \in Recovering => p.st = "pending" /\ p.active = w.rt /\ ~w.rollback
    /\ w.pc \in {"adopt", "probe", "verify"} => ~p.verified
    /\ w.pc \in {"commit", "readopt", "recommit", "cleanup"} => p.verified
    /\ w.pc \in {"readopt", "recommit"} => p.job \notin D
    /\ w.pc = "cleanup" => p.job \in D
    /\ w.pc \in Busy => w.job \in Jobs /\ w.job \notin D
    /\ w.pc \in {"stage", "point"} => Target[w.job] > w.rt.ver
    /\ w.pc = "announce" => p.st = "pending"
    /\ u /\ w.pc = "exited" /\ w.code = 76 /\ p.st = "pending" => p.job \notin D

UpdateInv ==
    /\ UpdateTyped
    /\ RowsGood
    /\ PointerGood(ptr, Done, Unrefused, base)
    /\ SupervisorGood(sup, proc, ptr, Done, Unrefused, base)
    /\ ProcessGood(proc, ptr, Done, Unrefused)

\* Fewer promises hold once a call was refused.
LEMMA Weaker ==
    ASSUME NEW p, NEW D, NEW b, NEW s, NEW w, NEW u \in BOOLEAN, NEW v \in BOOLEAN, v => u
    PROVE  /\ PointerGood(p, D, u, b) => PointerGood(p, D, v, b)
           /\ SupervisorGood(s, w, p, D, u, b) => SupervisorGood(s, w, p, D, v, b)
           /\ ProcessGood(w, p, D, u) => ProcessGood(w, p, D, v)
<1>1. PointerGood(p, D, u, b) => PointerGood(p, D, v, b)
  BY Zenon DEF PointerGood
<1>2. SupervisorGood(s, w, p, D, u, b) => SupervisorGood(s, w, p, D, v, b)
  BY Zenon DEF SupervisorGood, Startable
<1>3. ProcessGood(w, p, D, u) => ProcessGood(w, p, D, v)
  BY Zenon DEF ProcessGood, Startable
<1> QED BY <1>1, <1>2, <1>3

\* What a step does to the rows when it neither commits nor forgets a job.
JobsKept ==
    /\ job' \in [Jobs -> JobRow]
    /\ Done' = Done
    /\ RowsGood'
    /\ refusals' \in Int /\ refusals' <= refusals

\* A row that is rewritten without an end, or with a failure, commits nothing.
LEMMA RowWritten ==
    ASSUME UpdateInv, NEW j \in Jobs, NEW row \in JobRow, job' = [job EXCEPT ![j] = row],
           job[j].state # "succeeded", row.state # "succeeded",
           row.state = "failed" => row.result # "activated",
           UNCHANGED ptr, refusals' \in Int, refusals' <= refusals
    PROVE  JobsKept
<1> USE DEF UpdateInv, UpdateTyped
<1>1. job' \in [Jobs -> JobRow]
  OBVIOUS
<1>2. job'[j] = row /\ \A k \in Jobs : k # j => job'[k] = job[k]
  OBVIOUS
<1>3. Done' = Done
  BY <1>2 DEF Done
<1>4. RowsGood'
  BY <1>2, <1>3 DEF RowsGood, Done, Pending
<1> QED BY <1>1, <1>3, <1>4 DEF JobsKept

\* The same of rows that only lose their session.
LEMMA SessionsLost ==
    ASSUME UpdateInv, NEW m \in [Jobs -> BOOLEAN],
           job' = [j \in Jobs |-> [job[j] EXCEPT !.mine = m[j]]], UNCHANGED <<ptr, refusals>>
    PROVE  JobsKept
<1> USE DEF UpdateInv, UpdateTyped
<1>1. \A j \in Jobs : /\ job'[j].state = job[j].state /\ job'[j].fence = job[j].fence
                      /\ job'[j].result = job[j].result /\ job'[j] \in JobRow
  BY SMTT(30) DEF JobRow
<1>2. job' \in [Jobs -> JobRow]
  BY <1>1
<1>3. Done' = Done
  BY <1>1 DEF Done
<1>4. RowsGood'
  BY <1>1, <1>3 DEF RowsGood, Done, Pending
<1> QED BY <1>2, <1>3, <1>4 DEF JobsKept

\* The child moves under the same supervisor and pointer.
LEMMA ChildMoves ==
    ASSUME UpdateInv, JobsKept, UNCHANGED <<ptr, sup, base>>, proc' \in Process,
           proc.pc # "none", proc'.pc # "none", proc'.rollback = proc.rollback,
           ProcessGood(proc', ptr, Done, Unrefused')
    PROVE  UpdateInv'
<1>0. Unrefused \in BOOLEAN /\ Unrefused' \in BOOLEAN /\ (Unrefused' => Unrefused)
  BY DEF Unrefused, JobsKept, UpdateInv, UpdateTyped
<1>1. UpdateTyped'
  BY JobsAssumption DEF UpdateInv, UpdateTyped, JobsKept
<1>2. PointerGood(ptr, Done, Unrefused', base)
  BY <1>0, Weaker DEF UpdateInv
<1>3. SupervisorGood(sup, proc, ptr, Done, Unrefused', base)
  BY <1>0, Weaker DEF UpdateInv
<1>4. SupervisorGood(sup, proc', ptr, Done, Unrefused', base)
  BY <1>3 DEF SupervisorGood
<1> QED BY <1>1, <1>2, <1>4 DEF UpdateInv, JobsKept

\* Nothing happens but to the rows.
LEMMA OnlyJobs == ASSUME UpdateInv, JobsKept, UNCHANGED <<ptr, sup, base, proc>> PROVE UpdateInv'
<1>0. Unrefused \in BOOLEAN /\ Unrefused' \in BOOLEAN /\ (Unrefused' => Unrefused)
  BY DEF Unrefused, JobsKept, UpdateInv, UpdateTyped
<1>1. UpdateTyped'
  BY JobsAssumption DEF UpdateInv, UpdateTyped, JobsKept
<1>2. PointerGood(ptr, Done, Unrefused', base)
  BY <1>0, Weaker DEF UpdateInv
<1>3. SupervisorGood(sup, proc, ptr, Done, Unrefused', base)
  BY <1>0, Weaker DEF UpdateInv
<1>4. ProcessGood(proc, ptr, Done, Unrefused')
  BY <1>0, Weaker DEF UpdateInv
<1> QED BY <1>1, <1>2, <1>3, <1>4 DEF UpdateInv, JobsKept

\* What a heartbeat or a report of a failure does at the Gateway.
LEMMA BeatCalls ==
    ASSUME UpdateInv, UNCHANGED ptr, NEW j \in Jobs, NEW f, NEW adopt \in BOOLEAN,
           NEW state \in HeldStates, NEW heard \in Replies,
           Call(HeartbeatAnswer(j, f, adopt), Beaten(j, state, adopt), heard)
    PROVE  JobsKept
<1> USE DEF UpdateInv
<1>0. refusals' \in Int /\ refusals' <= refusals
  BY DEF Call, UpdateTyped
<1>1. CASE UNCHANGED job
  <2>1. Done' = Done /\ RowsGood' /\ job' \in [Jobs -> JobRow]
    BY <1>1 DEF Done, RowsGood, Pending, UpdateTyped
  <2> QED BY <1>0, <2>1 DEF JobsKept
<1>2. CASE job' = Beaten(j, state, adopt) /\ HeartbeatAnswer(j, f, adopt) = "ok"
  <2> DEFINE row == [job[j] EXCEPT !.state = state, !.mine = job[j].mine \/ adopt]
  <2>1. job[j] \in JobRow
    BY DEF UpdateTyped
  <2>2. job[j].state \in HeldStates
    BY <1>2 DEF HeartbeatAnswer, LeaseHeld
  <2>3. row \in JobRow /\ row.state = state
    BY Zenon, <2>1 DEF JobRow, HeldStates
  <2>4. job' = [job EXCEPT ![j] = row]
    BY Zenon, <1>2, <2>1 DEF Beaten, UpdateTyped, JobRow
  <2> HIDE DEF row
  <2> QED BY Zenon, <1>0, <2>2, <2>3, <2>4, RowWritten DEF HeldStates
<1> QED BY <1>1, <1>2 DEF Call

LEMMA FailureCalls ==
    ASSUME UpdateInv, UNCHANGED ptr, NEW j \in Jobs, NEW f,
           NEW result \in {"rolled_back", "failed"}, NEW heard \in Replies,
           Call(CompleteAnswer(j, f, result), Completed(j, result), heard)
    PROVE  JobsKept
<1> USE DEF UpdateInv
<1>0. refusals' \in Int /\ refusals' <= refusals
  BY DEF Call, UpdateTyped
<1>1. CASE UNCHANGED job
  <2>1. Done' = Done /\ RowsGood' /\ job' \in [Jobs -> JobRow]
    BY <1>1 DEF Done, RowsGood, Pending, UpdateTyped
  <2> QED BY <1>0, <2>1 DEF JobsKept
<1>2. CASE job[j].state \notin {"succeeded", "failed"} /\ job' = Completed(j, result)
  <2> DEFINE row == [job[j] EXCEPT !.state = "failed", !.lease = "none", !.result = result]
  <2>1. job[j] \in JobRow
    BY DEF UpdateTyped
  <2>2. row \in JobRow /\ row.state = "failed" /\ row.result = result
    BY Zenon, <2>1 DEF JobRow
  <2>3. job' = [job EXCEPT ![j] = row]
    BY Zenon, <1>2, <2>1 DEF Completed, UpdateTyped, JobRow
  <2> HIDE DEF row
  <2> QED BY Zenon, <1>0, <1>2, <2>2, <2>3, RowWritten
<1> QED BY <1>1, <1>2 DEF Call, Completed

\* The commit of the pending activation either leaves the rows as they are or
\* adds the job of the pointer; the answer tells, unless a call was refused.
CommitHeard(heard, D2, u2) ==
    /\ heard = "ok" => ptr.job \in D2
    /\ heard = "lost" => ptr.job \notin D2
    /\ heard \in {"conflict", "cancelled", "refused"} /\ u2 => ptr.job \notin D2

LEMMA CommitCalls ==
    ASSUME UpdateInv, UNCHANGED ptr, Pending, NEW heard \in Replies,
           Call(CompleteAnswer(ptr.job, ptr.fence, "activated"),
                Completed(ptr.job, "activated"), heard)
    PROVE  /\ job' \in [Jobs -> JobRow]
           /\ Done' = Done \/ Done' = Done \cup {ptr.job}
           /\ RowsGood'
           /\ refusals' \in Int /\ refusals' <= refusals
           /\ CommitHeard(heard, Done', Unrefused')
<1> USE DEF UpdateInv
<1> DEFINE j == ptr.job
           answer == CompleteAnswer(j, ptr.fence, "activated")
<1>0. refusals' \in Int /\ refusals' <= refusals
  BY DEF Call, UpdateTyped
<1>1. j \in Jobs /\ job[j] \in JobRow
  BY DEF PointerGood, Pending, UpdateTyped
<1>2. j \in Done <=> job[j].state = "succeeded"
  BY <1>1 DEF Done
<1>3. answer \in {"ok", "conflict", "lost"}
  BY DEF CompleteAnswer
<1>4. j \in Done => answer = "ok"
  BY <1>1, <1>2 DEF CompleteAnswer, RowsGood, Done
<1>5. heard = "refused" => ~Unrefused'
  BY DEF Call, Unrefused, UpdateTyped, CompleteAnswer
<1>6. CASE UNCHANGED job /\ (answer = "ok" => j \in Done \/ heard \in {"unreachable", "refused"})
  <2>1. Done' = Done /\ RowsGood' /\ job' \in [Jobs -> JobRow]
    BY <1>6 DEF Done, RowsGood, Pending, UpdateTyped
  <2>2. heard \in {answer, "unreachable", "refused"}
    BY DEF Call
  <2>3. CommitHeard(heard, Done', Unrefused')
    BY <1>3, <1>4, <1>5, <1>6, <2>1, <2>2 DEF CommitHeard
  <2> QED BY <1>0, <2>1, <2>3
<1>7. CASE /\ job[j].state \notin {"succeeded", "failed"} /\ answer = "ok"
           /\ job' = Completed(j, "activated")
  <2> DEFINE row == [job[j] EXCEPT !.state = "succeeded", !.lease = "none", !.result = "activated"]
  <2>2. row \in JobRow /\ row.state = "succeeded" /\ row.result = "activated" /\ row.fence = job[j].fence
    BY Zenon, <1>1 DEF JobRow
  <2>3. job' = [job EXCEPT ![j] = row]
    BY Zenon, <1>7, <1>1 DEF Completed, UpdateTyped, JobRow
  <2>4. job[j].fence = ptr.fence
    BY <1>7 DEF CompleteAnswer
  <2> HIDE DEF row
  <2>5. job' \in [Jobs -> JobRow] /\ job'[j] = row /\ \A k \in Jobs : k # j => job'[k] = job[k]
    BY <1>1, <2>2, <2>3 DEF UpdateTyped
  <2>6. Done' = Done \cup {j}
    BY <1>1, <2>2, <2>5 DEF Done
  <2>7. RowsGood'
    BY <1>1, <2>2, <2>4, <2>5 DEF RowsGood, Done, Pending
  <2>8. heard \in {"ok", "unreachable", "refused"}
    BY <1>7 DEF Call
  <2>9. CommitHeard(heard, Done', Unrefused')
    BY <1>5, <2>6, <2>8 DEF CommitHeard
  <2> QED BY <1>0, <2>5, <2>6, <2>7, <2>9
<1>8. job[j].state = "failed" => answer # "ok"
  BY <1>1 DEF CompleteAnswer, RowsGood
<1>9. \/ UNCHANGED job /\ (answer = "ok" => heard \in {"unreachable", "refused"})
      \/ answer = "ok" /\ job' = Completed(j, "activated")
  BY DEF Call
<1>10. ASSUME answer = "ok", job' = Completed(j, "activated"),
              job[j].state \in {"succeeded", "failed"}
       PROVE  UNCHANGED job /\ j \in Done
  BY <1>2, <1>8, <1>10 DEF Completed
<1> HIDE DEF answer, j
<1> QED BY <1>6, <1>7, <1>9, <1>10

Places == {"none", "exited", "recover", "report", "clear", "serve"} \cup Recovering \cup Busy

\* Where GoTo and Exit leave the process.
LEMMA Goes ==
    ASSUME UpdateInv, NEW pc \in Places, GoTo(pc)
    PROVE  /\ proc' \in Process /\ proc'.pc = pc /\ proc'.rt = proc.rt
           /\ proc'.rollback = proc.rollback /\ proc'.code = proc.code
           /\ proc'.job = proc.job /\ proc'.fence = proc.fence
  BY DEF UpdateInv, UpdateTyped, GoTo, Process, Places

\* A process that exits owes the pointer nothing, unless it asks for a rollback.
LEMMA ExitMoves ==
    ASSUME UpdateInv, JobsKept, UNCHANGED <<ptr, sup, base>>, proc.pc # "none",
           NEW code \in Nat, Exit(code),
           code = 76 /\ Unrefused' /\ Pending => ptr.job \notin Done
    PROVE  UpdateInv'
<1>1. /\ proc' \in Process /\ proc'.pc = "exited" /\ proc'.rollback = proc.rollback
      /\ proc'.code = code
  BY Zenon DEF UpdateInv, UpdateTyped, Exit, Process
<1>2. ProcessGood(proc', ptr, Done, Unrefused')
  BY <1>1 DEF ProcessGood, Busy, Recovering, Pending
<1> QED BY <1>1, <1>2, ChildMoves

\* The child goes on, from a place where it kept its promises.
LEMMA GoMoves ==
    ASSUME UpdateInv, JobsKept, UNCHANGED <<ptr, sup, base>>, proc.pc \notin {"none", "exited"},
           NEW pc \in Places \ {"none", "exited"}, GoTo(pc),
           pc \in {"report", "clear"} => Pending /\ Allowed(proc.rt, Done),
           pc \in Busy \cup {"serve"} => Allowed(proc.rt, Done),
           pc \in Recovering => Pending /\ ptr.active = proc.rt /\ ~proc.rollback,
           pc \in {"adopt", "probe", "verify"} => ~ptr.verified,
           pc \in {"commit", "readopt", "recommit", "cleanup"} => ptr.verified,
           pc \in {"readopt", "recommit"} => ptr.job \notin Done,
           pc = "cleanup" => ptr.job \in Done,
           pc \in Busy => proc.job \in Jobs /\ proc.job \notin Done,
           pc \in {"stage", "point"} => Target[proc.job] > proc.rt.ver,
           pc = "announce" => Pending
    PROVE  UpdateInv'
<1>0. Unrefused \in BOOLEAN /\ Unrefused' \in BOOLEAN /\ (Unrefused' => Unrefused)
  BY DEF Unrefused, JobsKept, UpdateInv, UpdateTyped
<1>1. /\ proc' \in Process /\ proc'.pc = pc /\ proc'.rt = proc.rt
      /\ proc'.rollback = proc.rollback /\ proc'.code = proc.code
      /\ proc'.job = proc.job /\ proc'.fence = proc.fence
  BY Goes
<1>2. Startable(proc.rt, proc.rollback, ptr, Done, Unrefused')
  BY <1>0 DEF UpdateInv, ProcessGood, Startable
<1>3. ProcessGood(proc', ptr, Done, Unrefused')
  BY <1>1, <1>2 DEF ProcessGood, Pending
<1>4. proc.pc # "none" /\ proc'.pc # "none"
  BY <1>1
<1> QED BY <1>1, <1>3, <1>4, ChildMoves

\* Steps that leave the rows alone.
LEMMA RowsAlone == ASSUME UpdateInv, UNCHANGED <<job, ptr, refusals>> PROVE JobsKept
  BY DEF UpdateInv, UpdateTyped, JobsKept, Done, RowsGood, Pending

\* recover_pending_update decides how the turn begins.
LEMMA RecoverKeeps == ASSUME UpdateInv, Recover PROVE UpdateInv'
<1>0. JobsKept /\ UNCHANGED <<ptr, sup, base>> /\ proc.pc = "recover"
  BY RowsAlone DEF Recover, At
<1>1. Startable(proc.rt, proc.rollback, ptr, Done, Unrefused)
  BY <1>0 DEF UpdateInv, ProcessGood
<1>2. CASE ~Pending /\ GoTo("serve")
  BY <1>0, <1>1, <1>2, GoMoves DEF Places, Recovering, Busy, Startable, Pending
<1>3. CASE Pending /\ proc.rollback /\ GoTo("report")
  BY <1>0, <1>1, <1>3, GoMoves DEF Places, Recovering, Busy, Startable, Pending
<1>4. CASE Exit(75)
  <2>1. proc.pc # "none" /\ 75 \in Nat /\ 75 # 76
    BY <1>0
  <2> QED BY <1>0, <1>4, <2>1, ExitMoves
<1>5. CASE Pending /\ ~proc.rollback /\ ptr.active = proc.rt /\ ptr.verified /\ GoTo("commit")
  BY <1>0, <1>5, GoMoves DEF Places, Recovering, Busy
<1>6. CASE Pending /\ ~proc.rollback /\ ptr.active = proc.rt /\ ~ptr.verified /\ GoTo("adopt")
  BY <1>0, <1>6, GoMoves DEF Places, Recovering, Busy
<1> QED BY <1>2, <1>3, <1>4, <1>5, <1>6 DEF Recover

\* The previous runtime reports the failure whatever the Gateway answers.
LEMMA ReportKeeps == ASSUME UpdateInv, ReportRollback PROVE UpdateInv'
<1>1. Pending /\ Allowed(proc.rt, Done) /\ ptr.job \in Jobs /\ proc.pc = "report"
  BY DEF UpdateInv, ProcessGood, PointerGood, Pending, ReportRollback, At
<1>2. JobsKept /\ UNCHANGED <<ptr, sup, base>> /\ GoTo("clear")
  BY <1>1, FailureCalls DEF ReportRollback, ReportThen
<1> QED BY <1>1, <1>2, GoMoves DEF Places, Recovering, Busy

\* The pointer of a rolled back activation names a runtime that may serve.
LEMMA MarkRolledBackKeeps == ASSUME UpdateInv, MarkRolledBack PROVE UpdateInv'
<1> DEFINE fallback == RollbackRuntime(proc.rt)
<1>1. /\ Pending /\ Allowed(proc.rt, Done) /\ proc.pc = "clear"
      /\ Allowed(ptr.prev, Done) /\ (Unrefused => Covers(proc.rt.ver, Done))
  BY DEF UpdateInv, ProcessGood, PointerGood, Pending, MarkRolledBack, At, Startable
<1>2. proc.rt \in Runtime /\ ptr.prev \in Runtime /\ ptr.job \in Jobs \cup {NoJob}
  BY DEF UpdateInv, UpdateTyped, Pointer, Process
<1>3. fallback \in Runtime /\ Allowed(fallback, Done) /\ fallback.ver >= proc.rt.ver
  BY <1>1, <1>2 DEF RollbackRuntime, Runtime
<1> HIDE DEF fallback
<1>4. /\ ptr' \in Pointer /\ ptr'.st = "rolled_back" /\ ptr'.active = fallback
  <2>1. ptr' = [st |-> "rolled_back", active |-> fallback, prev |-> NoRuntime, job |-> ptr.job,
                fence |-> 0, verified |-> FALSE]
    BY Zenon DEF MarkRolledBack, NoPointer, fallback
  <2>2. NoRuntime \in Runtime
    BY DEF NoRuntime, Runtime
  <2> QED BY <1>2, <1>3, <2>1, <2>2 DEF Pointer
<1>5. /\ proc' \in Process /\ proc'.pc = "recover" /\ proc'.rt = proc.rt
      /\ proc'.rollback = proc.rollback
  BY Goes DEF MarkRolledBack, Places
<1>6. UNCHANGED <<job, base, sup, refusals>> /\ Done' = Done /\ Unrefused' = Unrefused
  BY DEF MarkRolledBack, Done, Unrefused
<1>7. UpdateTyped'
  BY <1>4, <1>5, <1>6 DEF UpdateInv, UpdateTyped
<1>8. RowsGood'
  BY <1>4, <1>6 DEF UpdateInv, RowsGood, Pending
<1>9. Unrefused => \A j \in Done : Target[j] <= fallback.ver
  BY <1>1, <1>2, <1>3, JobsAssumption DEF Covers, Runtime, Done
<1>10. PointerGood(ptr', Done, Unrefused, base)
  BY <1>3, <1>4, <1>9 DEF PointerGood
<1>11. SupervisorGood(sup, proc', ptr', Done, Unrefused, base)
  BY <1>1, <1>4, <1>5 DEF UpdateInv, SupervisorGood
<1>12. ProcessGood(proc', ptr', Done, Unrefused)
  BY <1>1, <1>5 DEF ProcessGood, Startable, Busy, Recovering
<1> QED BY <1>6, <1>7, <1>8, <1>10, <1>11, <1>12 DEF UpdateInv

\* The target takes its lease over, or asks for a rollback.
LEMMA AdoptKeeps == ASSUME UpdateInv, AdoptLease PROVE UpdateInv'
<1>1. /\ Pending /\ ptr.active = proc.rt /\ ~proc.rollback /\ ~ptr.verified /\ proc.pc = "adopt"
      /\ ptr.job \in Jobs /\ ptr.job \notin Done
  BY DEF UpdateInv, ProcessGood, PointerGood, Pending, AdoptLease, At, Recovering
<1>2. JobsKept /\ UNCHANGED <<ptr, sup, base>> /\ (GoTo("probe") \/ Exit(76))
  BY Zenon, <1>1, BeatCalls DEF AdoptLease, AdoptThen, HeldStates
<1>3. CASE GoTo("probe")
  BY <1>1, <1>2, <1>3, GoMoves DEF Places, Recovering, Busy
<1>4. CASE Exit(76)
  <2>1. proc.pc # "none" /\ 76 \in Nat
    BY <1>1
  <2> QED BY <1>1, <1>2, <1>4, <2>1, ExitMoves
<1> QED BY <1>2, <1>3, <1>4

\* The probe of the target ends in its verification or in a rollback.
LEMMA ProbeUpdateKeeps == ASSUME UpdateInv, Probe PROVE UpdateInv'
<1>1. /\ Pending /\ ptr.active = proc.rt /\ ~proc.rollback /\ ~ptr.verified /\ proc.pc = "probe"
      /\ ptr.job \in Jobs /\ ptr.job \notin Done
  BY DEF UpdateInv, ProcessGood, PointerGood, Pending, Probe, At, Recovering
<1>2. JobsKept /\ UNCHANGED <<ptr, sup, base>> /\ (GoTo("verify") \/ Exit(76))
  BY Zenon, RowsAlone DEF Probe
<1>3. CASE GoTo("verify")
  BY <1>1, <1>2, <1>3, GoMoves DEF Places, Recovering, Busy
<1>4. CASE Exit(76)
  <2>1. proc.pc # "none" /\ 76 \in Nat
    BY <1>1
  <2> QED BY <1>1, <1>2, <1>4, <2>1, ExitMoves
<1> QED BY <1>2, <1>3, <1>4

\* A verified target stays the target of its pointer.
LEMMA MarkVerifiedKeeps == ASSUME UpdateInv, MarkVerified PROVE UpdateInv'
<1>1. /\ Pending /\ ptr.active = proc.rt /\ ~proc.rollback /\ proc.pc = "verify"
      /\ Startable(proc.rt, proc.rollback, ptr, Done, Unrefused)
  BY DEF UpdateInv, ProcessGood, Pending, MarkVerified, At, Recovering
<1>2. /\ ptr' \in Pointer /\ ptr'.st = ptr.st /\ ptr'.active = ptr.active /\ ptr'.prev = ptr.prev
      /\ ptr'.job = ptr.job /\ ptr'.fence = ptr.fence /\ ptr'.verified
  BY Zenon DEF UpdateInv, UpdateTyped, Pointer, MarkVerified
<1>3. /\ proc' \in Process /\ proc'.pc = "commit" /\ proc'.rt = proc.rt
      /\ proc'.rollback = proc.rollback
  BY Goes DEF MarkVerified, Places, Recovering
<1>4. UNCHANGED <<job, base, sup, refusals>> /\ Done' = Done /\ Unrefused' = Unrefused
  BY DEF MarkVerified, Done, Unrefused
<1>5. UpdateTyped'
  BY <1>2, <1>3, <1>4 DEF UpdateInv, UpdateTyped
<1>6. RowsGood'
  BY <1>2, <1>4 DEF UpdateInv, RowsGood, Pending
<1>7. PointerGood(ptr', Done, Unrefused, base)
  BY <1>2 DEF UpdateInv, PointerGood
<1>8. SupervisorGood(sup, proc', ptr', Done, Unrefused, base)
  <2>1. sup.pc \notin {"down", "launch"}
    BY <1>1 DEF UpdateInv, SupervisorGood
  <2> QED BY <1>2, <1>3, <2>1 DEF UpdateInv, SupervisorGood
<1>9. ProcessGood(proc', ptr', Done, Unrefused)
  BY <1>1, <1>2, <1>3 DEF ProcessGood, Startable, Busy, Recovering, Pending
<1> QED BY <1>4, <1>5, <1>6, <1>7, <1>8, <1>9 DEF UpdateInv

\* The Gateway accepts the pending activation while its target runs.
LEMMA Committed ==
    ASSUME UpdateInv, Pending, ptr.verified, ptr.active = proc.rt, ~proc.rollback,
           proc.pc \in {"commit", "recommit"}, UNCHANGED <<ptr, sup, base>>,
           job' \in [Jobs -> JobRow], RowsGood', refusals' \in Int, refusals' <= refusals,
           Done' = Done \/ Done' = Done \cup {ptr.job}, proc' \in Process,
           proc'.pc \in {"cleanup", "readopt", "recover", "exited"}, proc'.rt = proc.rt,
           proc'.rollback = proc.rollback, proc'.pc = "cleanup" => ptr.job \in Done',
           proc'.pc = "readopt" => ptr.job \notin Done',
           Unrefused' /\ proc'.pc = "exited" => ptr.job \notin Done'
    PROVE  UpdateInv'
<1>0. Unrefused' => Unrefused
  BY DEF Unrefused, UpdateInv, UpdateTyped
<1>1. UpdateTyped'
  BY JobsAssumption DEF UpdateInv, UpdateTyped
<1>2. PointerGood(ptr, Done', Unrefused', base)
  <2>1. Done' \ {ptr.job} \subseteq Done
    OBVIOUS
  <2>2. Allowed(ptr.prev, Done')
    BY DEF UpdateInv, PointerGood, Pending, Allowed
  <2>3. Unrefused' => Covers(ptr.prev.ver, Done' \ {ptr.job})
    BY <1>0, <2>1 DEF UpdateInv, PointerGood, Pending, Covers
  <2> QED BY <2>2, <2>3 DEF UpdateInv, PointerGood, Pending
<1>3. SupervisorGood(sup, proc', ptr, Done', Unrefused', base)
  <2>1. sup.pc = "watch" /\ ~sup.rollback
    BY DEF UpdateInv, UpdateTyped, Supervisor, SupervisorGood
  <2> QED BY <2>1 DEF UpdateInv, SupervisorGood
<1>4. Startable(proc.rt, proc.rollback, ptr, Done', Unrefused')
  <2>1. Unrefused => Covers(proc.rt.ver, Done)
    BY DEF UpdateInv, ProcessGood, Startable
  <2>2. ptr.job \in Jobs /\ Target[ptr.job] = proc.rt.ver
    BY DEF UpdateInv, PointerGood, Pending, Release
  <2>3. Unrefused' => Covers(proc.rt.ver, Done')
    BY <1>0, <2>1, <2>2, JobsAssumption DEF Covers
  <2> QED BY <2>3 DEF Startable, Pending
<1>5. ProcessGood(proc', ptr, Done', Unrefused')
  BY <1>4 DEF ProcessGood, Busy, Recovering, Pending
<1> QED BY <1>1, <1>2, <1>3, <1>5 DEF UpdateInv

\* The commit of a verified target, and what its answer leads to.
LEMMA CommitKeeps == ASSUME UpdateInv, CommitVerified \/ RecommitVerified PROVE UpdateInv'
<1>1. /\ Pending /\ ptr.verified /\ ptr.active = proc.rt /\ ~proc.rollback
      /\ proc.pc \in {"commit", "recommit"} /\ UNCHANGED <<ptr, sup, base>>
  BY DEF UpdateInv, ProcessGood, Pending, CommitVerified, RecommitVerified, At, Recovering
<1>2. PICK heard \in Replies :
        /\ Call(CompleteAnswer(ptr.job, ptr.fence, "activated"),
                Completed(ptr.job, "activated"), heard)
        /\ CommitThen(heard) \/ (RecommitThen(heard) /\ At("recommit"))
  BY DEF CommitVerified, RecommitVerified
<1>3. /\ job' \in [Jobs -> JobRow]
      /\ Done' = Done \/ Done' = Done \cup {ptr.job}
      /\ RowsGood'
      /\ refusals' \in Int /\ refusals' <= refusals
      /\ CommitHeard(heard, Done', Unrefused')
  BY <1>1, <1>2, CommitCalls
<1>4. \/ heard = "ok" /\ GoTo("cleanup")
      \/ heard = "lost" /\ GoTo("readopt")
      \/ heard = "unreachable" /\ GoTo("recover")
      \/ heard \in {"lost", "conflict", "cancelled", "refused"} /\ Exit(76)
  BY <1>2 DEF CommitThen, RecommitThen, Replies
<1>5. /\ proc' \in Process /\ proc'.pc \in {"cleanup", "readopt", "recover", "exited"}
      /\ proc'.rt = proc.rt /\ proc'.rollback = proc.rollback
  <2>1. GoTo("cleanup") \/ GoTo("readopt") \/ GoTo("recover") \/ Exit(76)
    BY <1>4
  <2>2. "cleanup" \in Places /\ "readopt" \in Places /\ "recover" \in Places
    BY DEF Places, Recovering
  <2>3. CASE Exit(76)
    BY Zenon, <2>3 DEF UpdateInv, UpdateTyped, Exit, Process
  <2> QED BY <2>1, <2>2, <2>3, Goes
<1>6. /\ proc'.pc = "cleanup" => heard = "ok"
      /\ proc'.pc = "readopt" => heard = "lost"
      /\ proc'.pc = "exited" => heard \in {"lost", "conflict", "cancelled", "refused"}
  BY Zenon, <1>4 DEF UpdateInv, UpdateTyped, GoTo, Exit, Process
<1>7. /\ proc'.pc = "cleanup" => ptr.job \in Done'
      /\ proc'.pc = "readopt" => ptr.job \notin Done'
      /\ Unrefused' /\ proc'.pc = "exited" => ptr.job \notin Done'
  BY <1>3, <1>6 DEF CommitHeard
<1> QED BY <1>1, <1>3, <1>5, <1>7, Committed

\* A lease that was lost before the commit is taken over once more.
LEMMA ReadoptKeeps == ASSUME UpdateInv, ReadoptLease PROVE UpdateInv'
<1>1. /\ Pending /\ ptr.active = proc.rt /\ ~proc.rollback /\ ptr.verified /\ proc.pc = "readopt"
      /\ ptr.job \in Jobs /\ ptr.job \notin Done
  BY DEF UpdateInv, ProcessGood, PointerGood, Pending, ReadoptLease, At, Recovering
<1>2. JobsKept /\ UNCHANGED <<ptr, sup, base>>
      /\ (GoTo("recommit") \/ GoTo("recover") \/ Exit(76))
  BY Zenon, <1>1, BeatCalls DEF ReadoptLease, ReadoptThen, HeldStates, Replies
<1>3. CASE GoTo("recommit")
  BY <1>1, <1>2, <1>3, GoMoves DEF Places, Recovering, Busy
<1>4. CASE GoTo("recover")
  BY <1>1, <1>2, <1>4, GoMoves DEF Places, Recovering, Busy
<1>5. CASE Exit(76)
  <2>1. proc.pc # "none" /\ 76 \in Nat
    BY <1>1
  <2> QED BY <1>1, <1>2, <1>5, <2>1, ExitMoves
<1> QED BY <1>2, <1>3, <1>4, <1>5

\* The pointer of a committed activation is settled, or stays as it is.
LEMMA MarkSucceededKeeps == ASSUME UpdateInv, MarkSucceeded PROVE UpdateInv'
<1>1. /\ Pending /\ ptr.active = proc.rt /\ ~proc.rollback /\ proc.pc = "cleanup"
      /\ ptr.job \in Done /\ ptr.active = Release(Target[ptr.job])
      /\ (Unrefused => Covers(proc.rt.ver, Done))
  BY DEF UpdateInv, ProcessGood, PointerGood, Pending, MarkSucceeded, At, Recovering, Startable
<1>2. Allowed(proc.rt, Done)
  BY <1>1 DEF Allowed, Release
<1>3. CASE UNCHANGED ptr /\ GoTo("serve")
  BY <1>1, <1>2, <1>3, RowsAlone, GoMoves DEF MarkSucceeded, Places, Recovering, Busy
<1>4. CASE /\ ptr' = [NoPointer EXCEPT !.st = "settled", !.active = ptr.active]
           /\ Exit(75) \/ GoTo("serve")
  <2>1. UNCHANGED <<job, base, sup, refusals>> /\ Done' = Done /\ Unrefused' = Unrefused
    BY DEF MarkSucceeded, Done, Unrefused
  <2>2. /\ ptr' \in Pointer /\ ptr'.st = "settled" /\ ptr'.active = proc.rt
    <3>1. ptr' = [st |-> "settled", active |-> ptr.active, prev |-> NoRuntime, job |-> NoJob,
                  fence |-> 0, verified |-> FALSE]
      BY Zenon, <1>4 DEF NoPointer
    <3>2. NoRuntime \in Runtime /\ ptr.active \in Runtime
      BY DEF NoRuntime, Runtime, UpdateInv, UpdateTyped, Pointer
    <3> QED BY <1>1, <3>1, <3>2 DEF Pointer
  <2>3. /\ proc' \in Process /\ proc'.pc \in {"exited", "serve"} /\ proc'.rt = proc.rt
        /\ proc'.rollback = proc.rollback
    <3>1. CASE Exit(75)
      BY Zenon, <3>1 DEF Exit, UpdateInv, UpdateTyped, Process
    <3>2. CASE GoTo("serve")
      BY <3>2, Goes DEF Places
    <3> QED BY <1>4, <3>1, <3>2
  <2>4. UpdateTyped'
    BY <2>1, <2>2, <2>3 DEF UpdateInv, UpdateTyped
  <2>5. RowsGood'
    BY <2>1, <2>2 DEF UpdateInv, RowsGood, Pending
  <2>6. PointerGood(ptr', Done, Unrefused, base)
    BY Zenon, <1>1, <1>2, <2>2 DEF PointerGood, Covers
  <2>7. SupervisorGood(sup, proc', ptr', Done, Unrefused, base)
    <3>1. sup.pc \notin {"down", "launch"}
      BY <1>1 DEF UpdateInv, SupervisorGood
    <3> QED BY <2>2, <2>3, <3>1 DEF UpdateInv, SupervisorGood
  <2>8. ProcessGood(proc', ptr', Done, Unrefused)
    BY Zenon, <1>1, <1>2, <2>2, <2>3 DEF ProcessGood, Startable, Busy, Recovering
  <2> QED BY <2>1, <2>4, <2>5, <2>6, <2>7, <2>8 DEF UpdateInv
<1> QED BY <1>3, <1>4 DEF MarkSucceeded

\* The next turn of the main loop.
LEMMA NextTurnKeeps == ASSUME UpdateInv, NextTurn PROVE UpdateInv'
<1>1. JobsKept /\ UNCHANGED <<ptr, sup, base>> /\ proc.pc = "serve" /\ GoTo("recover")
  BY RowsAlone DEF NextTurn, At
<1> QED BY <1>1, GoMoves DEF Places, Recovering, Busy

\* A runtime that serves claims a job that is not over.
LEMMA ClaimUpdateKeeps == ASSUME UpdateInv, NEW j \in Jobs, ClaimUpdate(j) PROVE UpdateInv'
<1> DEFINE next == job[j].fence + 1
           row == [job[j] EXCEPT !.state = "leased", !.fence = next, !.mine = TRUE, !.lease = "live"]
<1>1. job[j] \in JobRow /\ job[j].state = "queued" /\ proc.pc = "serve" /\ j \notin Done
      /\ UNCHANGED <<base, ptr, sup, refusals>> /\ Allowed(proc.rt, Done)
  BY DEF UpdateInv, UpdateTyped, ClaimUpdate, At, Done, ProcessGood
<1>0. next \in Int
  BY <1>1 DEF JobRow
<1>3. /\ job' = [job EXCEPT ![j] = row]
      /\ proc' = [proc EXCEPT !.pc = "prepare", !.job = j, !.fence = next]
  BY DEF ClaimUpdate
<1> HIDE DEF next
<1>2. row \in JobRow /\ row.state = "leased"
  BY Zenon, <1>0, <1>1 DEF JobRow
<1> HIDE DEF row
<1>4. JobsKept
  <2>1. refusals' \in Int /\ refusals' <= refusals
    BY <1>1 DEF UpdateInv, UpdateTyped
  <2> QED BY Zenon, <1>1, <1>2, <1>3, <2>1, RowWritten
<1>5. /\ proc' \in Process /\ proc'.pc = "prepare" /\ proc'.rt = proc.rt /\ proc'.job = j
      /\ proc'.rollback = proc.rollback
  BY Zenon, <1>0, <1>3 DEF UpdateInv, UpdateTyped, Process, Busy
<1>6. Unrefused' = Unrefused
  BY <1>1 DEF Unrefused
<1>7. Startable(proc.rt, proc.rollback, ptr, Done, Unrefused)
  BY <1>1 DEF UpdateInv, ProcessGood
<1>8. ProcessGood(proc', ptr, Done, Unrefused')
  BY <1>1, <1>5, <1>6, <1>7 DEF ProcessGood, Busy, Recovering
<1>9. proc.pc # "none" /\ proc'.pc # "none"
  BY <1>1, <1>5
<1> QED BY <1>1, <1>4, <1>5, <1>8, <1>9, ChildMoves

\* A claimed job is prepared, refused or given up.
LEMMA PrepareKeeps == ASSUME UpdateInv, PrepareUpdate PROVE UpdateInv'
<1>1. proc.pc = "prepare" /\ proc.job \in Jobs /\ proc.job \notin Done /\ Allowed(proc.rt, Done)
  BY DEF UpdateInv, ProcessGood, PrepareUpdate, At, Busy
<1>2. JobsKept /\ UNCHANGED <<ptr, sup, base>>
  BY Zenon, <1>1, BeatCalls DEF PrepareUpdate, HeldStates
<1>3. \/ GoTo("fail") \/ GoTo("serve") \/ GoTo("recover")
      \/ ~(Target[proc.job] <= proc.rt.ver) /\ GoTo("stage")
  BY DEF PrepareUpdate, PrepareThen, Replies
<1>4. ~(Target[proc.job] <= proc.rt.ver) => Target[proc.job] > proc.rt.ver
  BY <1>1, JobsAssumption DEF UpdateInv, UpdateTyped, Process, Runtime
<1>5. CASE GoTo("fail")
  BY <1>1, <1>2, <1>5, GoMoves DEF Places, Recovering, Busy
<1>6. CASE GoTo("serve")
  BY <1>1, <1>2, <1>6, GoMoves DEF Places, Recovering, Busy
<1>7. CASE GoTo("recover")
  BY <1>1, <1>2, <1>7, GoMoves DEF Places, Recovering, Busy
<1>8. CASE Target[proc.job] > proc.rt.ver /\ GoTo("stage")
  BY <1>1, <1>2, <1>8, GoMoves DEF Places, Recovering, Busy
<1> QED BY <1>3, <1>4, <1>5, <1>6, <1>7, <1>8

\* The release is staged, or the job fails.
LEMMA StageReleaseKeeps == ASSUME UpdateInv, StageRelease PROVE UpdateInv'
<1>1. /\ proc.pc = "stage" /\ proc.job \in Jobs /\ proc.job \notin Done
      /\ Allowed(proc.rt, Done) /\ Target[proc.job] > proc.rt.ver
  BY DEF UpdateInv, ProcessGood, StageRelease, At, Busy
<1>2. JobsKept /\ UNCHANGED <<ptr, sup, base>> /\ (GoTo("point") \/ GoTo("fail"))
  BY RowsAlone DEF StageRelease
<1>3. CASE GoTo("point")
  BY <1>1, <1>2, <1>3, GoMoves DEF Places, Recovering, Busy
<1>4. CASE GoTo("fail")
  BY <1>1, <1>2, <1>4, GoMoves DEF Places, Recovering, Busy
<1> QED BY <1>2, <1>3, <1>4

\* A new pending pointer falls back to the runtime that writes it.
LEMMA WritePendingPointerKeeps == ASSUME UpdateInv, WritePendingPointer PROVE UpdateInv'
<1>1. /\ proc.pc = "point" /\ proc.job \in Jobs /\ proc.job \notin Done
      /\ Allowed(proc.rt, Done) /\ Target[proc.job] > proc.rt.ver
      /\ (Unrefused => Covers(proc.rt.ver, Done))
  BY DEF UpdateInv, ProcessGood, WritePendingPointer, At, Busy, Startable
<1>2. CASE UNCHANGED ptr /\ GoTo("fail")
  BY <1>1, <1>2, RowsAlone, GoMoves DEF WritePendingPointer, Places, Recovering, Busy
<1>3. CASE /\ ptr' = [st |-> "pending", active |-> Release(Target[proc.job]), prev |-> proc.rt,
                      job |-> proc.job, fence |-> proc.fence, verified |-> FALSE]
           /\ GoTo("announce")
  <2>1. UNCHANGED <<job, base, sup, refusals>> /\ Done' = Done /\ Unrefused' = Unrefused
    BY DEF WritePendingPointer, Done, Unrefused
  <2>2. /\ Target[proc.job] \in Nat /\ proc.rt \in Runtime /\ proc.rt.ver \in Nat /\ proc.fence \in Int
        /\ Release(Target[proc.job]) \in Runtime
        /\ Release(Target[proc.job]).ver = Target[proc.job]
    BY <1>1, JobsAssumption DEF UpdateInv, UpdateTyped, Process, Runtime, Release
  <2>3. /\ ptr' \in Pointer /\ ptr'.st = "pending" /\ ptr'.active = Release(Target[proc.job])
        /\ ptr'.prev = proc.rt /\ ptr'.job = proc.job /\ ~ptr'.verified
    BY <1>1, <1>3, <2>2 DEF Pointer
  <2>4. /\ proc' \in Process /\ proc'.pc = "announce" /\ proc'.rt = proc.rt
        /\ proc'.rollback = proc.rollback /\ proc'.job = proc.job
    BY <1>3, Goes DEF Places, Busy
  <2>5. UpdateTyped'
    BY <2>1, <2>3, <2>4 DEF UpdateInv, UpdateTyped
  <2>6. RowsGood'
    BY <1>1, <2>1, <2>3 DEF UpdateInv, RowsGood, Pending
  <2>7. PointerGood(ptr', Done, Unrefused, base)
    BY <1>1, <2>2, <2>3 DEF PointerGood, Covers
  <2>8. SupervisorGood(sup, proc', ptr', Done, Unrefused, base)
    <3>1. sup.pc \notin {"down", "launch"}
      BY <1>1 DEF UpdateInv, SupervisorGood
    <3> QED BY <1>1, <2>3, <2>4, <3>1 DEF UpdateInv, SupervisorGood
  <2>9. ProcessGood(proc', ptr', Done, Unrefused)
    BY <1>1, <2>3, <2>4 DEF ProcessGood, Startable, Busy, Recovering
  <2> QED BY <2>1, <2>5, <2>6, <2>7, <2>8, <2>9 DEF UpdateInv
<1> QED BY <1>2, <1>3 DEF WritePendingPointer

\* The announcement leads to the restart, or the pointer is cleared.
LEMMA AnnounceRestartKeeps == ASSUME UpdateInv, AnnounceRestart PROVE UpdateInv'
<1>1. proc.pc = "announce" /\ proc.job \in Jobs /\ Allowed(proc.rt, Done) /\ Pending
  BY DEF UpdateInv, ProcessGood, AnnounceRestart, At, Busy, Pending
<1>2. JobsKept /\ UNCHANGED <<ptr, sup, base>> /\ (Exit(75) \/ GoTo("clear"))
  BY Zenon, <1>1, BeatCalls DEF AnnounceRestart, AnnounceThen, HeldStates
<1>3. CASE Exit(75)
  <2>1. proc.pc # "none" /\ 75 \in Nat /\ 75 # 76
    BY <1>1
  <2> QED BY <1>2, <1>3, <2>1, ExitMoves
<1>4. CASE GoTo("clear")
  BY <1>1, <1>2, <1>4, GoMoves DEF Places, Recovering, Busy
<1> QED BY <1>2, <1>3, <1>4

\* A failed job is reported and the turn ends.
LEMMA CompleteFailureKeeps == ASSUME UpdateInv, CompleteFailure PROVE UpdateInv'
<1>1. proc.pc = "fail" /\ proc.job \in Jobs
  BY DEF UpdateInv, ProcessGood, CompleteFailure, At, Busy
<1>2. JobsKept /\ UNCHANGED <<ptr, sup, base>> /\ GoTo("recover")
  BY <1>1, FailureCalls DEF CompleteFailure, FailThen
<1> QED BY <1>1, <1>2, GoMoves DEF Places, Recovering, Busy

\* What the supervisor of the installed base reads in a pointer it can read.
LEMMA StateGood ==
    ASSUME UpdateInv, ~Unreadable(base)
    PROVE  LET s == SupervisorState(base) IN
           /\ s.active \in Runtime /\ s.prev \in Runtime
           /\ s.pending <=> Pending
           /\ s.superseded <=> Pending /\ ptr.active.ver < base
           /\ Pending => (s.verified <=> ptr.verified)
           /\ Startable(s.active, FALSE, ptr, Done, Unrefused)
           /\ Pending => /\ Allowed(s.prev, Done)
                         /\ Unrefused /\ (ptr.job \notin Done \/ ptr.active.ver < base) =>
                                Covers(s.prev.ver, Done)
<1> DEFINE s == SupervisorState(base)
<1>0. /\ base \in Nat /\ ptr.active \in Runtime /\ ptr.prev \in Runtime /\ ptr.verified \in BOOLEAN
      /\ ptr.active.ver \in Nat /\ ptr.prev.ver \in Nat
      /\ \A j \in Done : Target[j] \in Nat
  BY JobsAssumption DEF UpdateInv, UpdateTyped, Pointer, Runtime, Done
<1>1. Base(base) \in Runtime /\ Base(base).ver = base /\ Allowed(Base(base), Done) /\ NoRuntime \in Runtime
  BY <1>0 DEF Base, Runtime, Allowed, NoRuntime
<1>2. CASE Pending
  <2>1. /\ s.active = ptr.active /\ s.prev = RollbackRuntime(Base(base)) /\ s.pending
        /\ s.verified = ptr.verified /\ s.superseded = (ptr.active.ver < base)
    BY <1>2 DEF SupervisorState
  <2>2. /\ ptr.job \in Jobs /\ ptr.active.ver = Target[ptr.job] /\ ptr.prev.ver < ptr.active.ver
        /\ Allowed(ptr.prev, Done) /\ (Unrefused => Covers(ptr.prev.ver, Done \ {ptr.job}))
    BY <1>2 DEF UpdateInv, PointerGood, Pending, Release
  <2>3. Unrefused => Covers(ptr.active.ver, Done)
    BY <1>0, <2>2 DEF Covers
  <2>4. Startable(s.active, FALSE, ptr, Done, Unrefused)
    BY <1>2, <2>1, <2>3 DEF Startable, Pending
  <2>5. /\ s.prev \in Runtime /\ Allowed(s.prev, Done)
        /\ s.prev.ver \in Nat /\ s.prev.ver >= ptr.prev.ver /\ s.prev.ver >= base
    <3>1. CASE ptr.prev.ver <= Base(base).ver
      BY <1>0, <1>1, <2>1, <3>1 DEF RollbackRuntime
    <3>2. CASE ~(ptr.prev.ver <= Base(base).ver)
      BY <1>0, <1>1, <2>1, <2>2, <3>2 DEF RollbackRuntime
    <3> QED BY <3>1, <3>2
  <2> HIDE DEF s
  <2>6. ASSUME Unrefused, ptr.job \notin Done \/ ptr.active.ver < base
        PROVE  Covers(s.prev.ver, Done)
    BY <1>0, <2>2, <2>5, <2>6 DEF Covers
  <2> QED BY Zenon, <1>0, <1>2, <2>1, <2>4, <2>5, <2>6 DEF s
<1>3. CASE ~Pending
  <2>1. /\ Allowed(ptr.active, Done)
        /\ Unrefused => \A j \in Done : Target[j] <= ptr.active.ver \/ Target[j] <= base
        /\ ptr.st = "none" => ptr.active.ver = 0
    BY <1>3 DEF UpdateInv, PointerGood, Pending, NoRuntime
  <2>2. CASE s = TrustedBase(base) /\ ptr.active.ver <= base
    <3>1. s.active = Base(base) /\ s.prev = NoRuntime /\ ~s.pending /\ ~s.superseded
      BY <2>2 DEF TrustedBase
    <3>2. Unrefused => Covers(base, Done)
      BY <1>0, <2>1, <2>2 DEF Covers
    <3> QED BY <1>1, <1>3, <3>1, <3>2 DEF Startable
  <2>3. CASE s = [TrustedBase(base) EXCEPT !.active = ptr.active] /\ ptr.active.ver >= base
    <3>1. s.active = ptr.active /\ s.prev = NoRuntime /\ ~s.pending /\ ~s.superseded
      BY <2>3 DEF TrustedBase
    <3>2. Unrefused => Covers(ptr.active.ver, Done)
      BY <1>0, <2>1, <2>3 DEF Covers
    <3> QED BY <1>0, <1>1, <1>3, <2>1, <3>1, <3>2 DEF Startable
  <2>4. ptr.st \in {"none", "settled", "rolled_back"}
    BY <1>3 DEF UpdateInv, UpdateTyped, Pointer, Pending
  <2>5. ~Exists(ptr.active, base) => ptr.active.ver <= base
    BY <1>0, <2>1, <2>4 DEF Unreadable
  <2> DEFINE old == \/ ptr.st = "none"
                    \/ ptr.st = "rolled_back" /\ ptr.active.ver <= base
                    \/ ptr.active.ver < base
                    \/ ~Exists(ptr.active, base)
  <2>6. s = IF old THEN TrustedBase(base) ELSE [TrustedBase(base) EXCEPT !.active = ptr.active]
    BY <1>3 DEF SupervisorState
  <2>7. old => ptr.active.ver <= base
    BY <1>0, <2>1, <2>5
  <2>8. ~old => ptr.active.ver >= base
    BY <1>0
  <2> HIDE DEF old, s
  <2> QED BY Zenon, <2>2, <2>3, <2>6, <2>7, <2>8 DEF s
<1> QED BY Zenon, <1>2, <1>3

\* A choice of the supervisor: it stops, goes on with the active runtime, or
\* falls back, and then the target was not committed or a newer base waits.
Chosen(t) ==
    /\ t \in Supervisor
    /\ \/ t.pc = "down"
       \/ /\ t.pc = "launch" /\ t.base = base
          /\ \/ ~t.rollback /\ t.selected = SupervisorState(base).active
             \/ /\ t.rollback /\ Pending /\ t.selected = SupervisorState(base).prev
                /\ Unrefused => ptr.job \notin Done \/ ptr.active.ver < base

LEMMA ChosenKeeps ==
    ASSUME UpdateInv, ~Unreadable(base) \/ sup'.pc = "down", Chosen(sup'),
           UNCHANGED <<job, base, ptr, refusals>>, proc' \in Process, proc'.pc = "none"
    PROVE  UpdateInv'
<1>1. Done' = Done /\ Unrefused' = Unrefused /\ RowsGood'
  BY DEF Done, Unrefused, UpdateInv, RowsGood, Pending
<1>2. UpdateTyped'
  BY DEF UpdateInv, UpdateTyped, Chosen
<1>3. PointerGood(ptr, Done, Unrefused, base)
  BY DEF UpdateInv
<1>4. ProcessGood(proc', ptr, Done, Unrefused)
  BY DEF ProcessGood, Busy, Recovering
<1>5. SupervisorGood(sup', proc', ptr, Done, Unrefused, base)
  <2>1. CASE sup'.pc = "down"
    BY <2>1 DEF SupervisorGood
  <2>2. CASE sup'.pc = "launch"
    <3>0. ~Unreadable(base)
      BY <2>2
    <3>1. CASE ~sup'.rollback /\ sup'.selected = SupervisorState(base).active
      <4>1. Startable(sup'.selected, FALSE, ptr, Done, Unrefused)
        BY Zenon, <3>0, <3>1, StateGood
      <4>2. Startable(sup'.selected, sup'.rollback, ptr, Done, Unrefused)
        BY <3>1, <4>1 DEF Startable
      <4> QED BY <2>2, <3>1, <4>2 DEF SupervisorGood, Chosen
    <3>2. CASE /\ sup'.rollback /\ Pending /\ sup'.selected = SupervisorState(base).prev
               /\ Unrefused => ptr.job \notin Done \/ ptr.active.ver < base
      <4>1. Startable(sup'.selected, sup'.rollback, ptr, Done, Unrefused)
        BY <3>0, <3>2, StateGood DEF Startable
      <4> QED BY Zenon, <2>2, <3>2, <4>1 DEF SupervisorGood, Chosen
    <3> QED BY <2>2, <3>1, <3>2 DEF Chosen
  <2> QED BY <2>1, <2>2 DEF Chosen
<1> QED BY <1>1, <1>2, <1>3, <1>4, <1>5 DEF UpdateInv

\* The supervisor starts as the newest base and reads the pointer.
LEMMA StartSupervisorKeeps == ASSUME UpdateInv, StartSupervisor PROVE UpdateInv'
<1> DEFINE s == SupervisorState(base)
           up == [Down EXCEPT !.base = base]
<1>1. ~Unreadable(base) /\ UNCHANGED <<job, base, ptr, refusals, proc>> /\ sup.pc = "down"
  BY DEF StartSupervisor
<1>2. /\ s.active \in Runtime /\ s.prev \in Runtime /\ (s.pending <=> Pending)
      /\ (s.superseded <=> Pending /\ ptr.active.ver < base)
      /\ (Pending => (s.verified <=> ptr.verified))
  BY <1>1, StateGood
<1>3. \/ sup' = Selecting(up, s.active, FALSE)
      \/ sup' = Selecting(up, s.prev, TRUE) /\ s.pending /\ (s.superseded \/ ~s.verified)
  BY Zenon DEF StartSupervisor
<1> HIDE DEF s
<1>5. base \in Nat /\ Down \in Supervisor
  BY DEF UpdateInv, UpdateTyped, Down, Supervisor, NoRuntime, Runtime
<1>4. up \in Supervisor /\ up.base = base
  BY <1>5 DEF Supervisor
<1> HIDE DEF up
<1>6. Pending /\ ~ptr.verified => ptr.job \notin Done
  BY DEF UpdateInv, PointerGood, Pending
<1>7. ASSUME sup' = Selecting(up, s.active, FALSE) PROVE Chosen(sup')
  <2>1. /\ sup' \in Supervisor /\ sup'.pc = "launch" /\ sup'.base = base /\ ~sup'.rollback
        /\ sup'.selected = s.active
    BY Zenon, <1>2, <1>4, <1>5, <1>7 DEF Selecting, Supervisor
  <2> QED BY <2>1 DEF Chosen, s
<1>8. ASSUME sup' = Selecting(up, s.prev, TRUE) /\ s.pending /\ (s.superseded \/ ~s.verified)
      PROVE  Chosen(sup')
  <2>1. /\ sup' \in Supervisor /\ sup'.pc = "launch" /\ sup'.base = base /\ sup'.rollback
        /\ sup'.selected = s.prev
    BY Zenon, <1>2, <1>4, <1>5, <1>8 DEF Selecting, Supervisor
  <2>2. Pending /\ (ptr.job \notin Done \/ ptr.active.ver < base)
    BY <1>2, <1>6, <1>8
  <2> QED BY <2>1, <2>2 DEF Chosen, s
<1>9. proc \in Process /\ proc.pc = "none"
  BY <1>1 DEF UpdateInv, UpdateTyped, SupervisorGood
<1> QED BY Zenon, <1>1, <1>3, <1>7, <1>8, <1>9, ChosenKeeps

\* Falling back is allowed: nothing is committed that a newer base does not cover.
MayFallBack == Pending /\ (Unrefused => ptr.job \notin Done \/ ptr.active.ver < base)

\* The choices of a supervisor that runs.
LEMMA Choices ==
    ASSUME UpdateInv, ~Unreadable(base), sup.pc # "down"
    PROVE  LET s == SupervisorState(base) IN
           /\ sup.base = base
           /\ Chosen(Down)
           /\ Chosen(RestartVerified(s))
           /\ Chosen([Selecting(sup, s.active, FALSE) EXCEPT !.rollbacks = 0, !.restarts = 0])
           /\ MayFallBack =>
                /\ Chosen(RollBackPending(s))
                /\ Chosen([RollBackPending(s) EXCEPT !.restarts = 0])
                /\ Chosen([Selecting(sup, s.prev, TRUE) EXCEPT !.rollbacks = 0, !.restarts = 0])
<1> DEFINE s == SupervisorState(base)
<1>1. sup \in Supervisor /\ sup.base = base
  BY DEF UpdateInv, UpdateTyped, SupervisorGood
<1>2. s.active \in Runtime /\ s.prev \in Runtime
  BY StateGood
<1> HIDE DEF s
<1> DEFINE ahead == Selecting(sup, s.active, FALSE)
           back == Selecting(sup, s.prev, TRUE)
<1>3. /\ ahead \in Supervisor /\ ahead.pc = "launch" /\ ahead.base = base /\ ~ahead.rollback
      /\ ahead.selected = s.active
  BY Zenon, <1>1, <1>2 DEF Selecting, Supervisor
<1>4. /\ back \in Supervisor /\ back.pc = "launch" /\ back.base = base /\ back.rollback
      /\ back.selected = s.prev
  BY Zenon, <1>1, <1>2 DEF Selecting, Supervisor
<1> HIDE DEF ahead, back
<1>5. Chosen(Down) /\ Down \in Supervisor /\ Down.pc = "down"
  <2>1. Down \in Supervisor /\ Down.pc = "down"
    BY DEF Down, Supervisor, NoRuntime, Runtime
  <2> QED BY <2>1 DEF Chosen
<1>6. ASSUME NEW n \in Nat, NEW m \in Nat PROVE Chosen([ahead EXCEPT !.rollbacks = n, !.restarts = m])
  <2> DEFINE t == [ahead EXCEPT !.rollbacks = n, !.restarts = m]
  <2>1. /\ t \in Supervisor /\ t.pc = "launch" /\ t.base = base /\ ~t.rollback
        /\ t.selected = s.active
    BY Zenon, <1>3 DEF Supervisor
  <2> HIDE DEF t
  <2>2. Chosen(t)
    BY <2>1 DEF Chosen, s
  <2> QED BY <2>2 DEF t
<1>7. ASSUME NEW n \in Nat PROVE Chosen([ahead EXCEPT !.restarts = n, !.rollbacks = 0])
  <2> DEFINE t == [ahead EXCEPT !.restarts = n, !.rollbacks = 0]
  <2>1. /\ t \in Supervisor /\ t.pc = "launch" /\ t.base = base /\ ~t.rollback
        /\ t.selected = s.active
    BY ZenonT(30), <1>3 DEF Supervisor
  <2> HIDE DEF t
  <2>2. Chosen(t)
    BY <2>1 DEF Chosen, s
  <2> QED BY <2>2 DEF t
<1>8. ahead.restarts + 1 \in Nat /\ back.rollbacks + 1 \in Nat
  BY <1>3, <1>4 DEF Supervisor
<1>9. Chosen(RestartVerified(s))
  BY Zenon, <1>5, <1>7, <1>8 DEF RestartVerified, ahead
<1>10. ASSUME MayFallBack, NEW t \in Supervisor, t.pc = "launch", t.base = base, t.rollback,
              t.selected = s.prev
       PROVE  Chosen(t)
  BY <1>10 DEF Chosen, MayFallBack, s
<1>11. ASSUME MayFallBack, NEW n \in Nat
       PROVE  /\ Chosen([back EXCEPT !.rollbacks = n])
              /\ Chosen([[back EXCEPT !.rollbacks = n] EXCEPT !.restarts = 0])
              /\ Chosen([back EXCEPT !.rollbacks = n, !.restarts = 0])
  <2> DEFINE t == [back EXCEPT !.rollbacks = n]
             v == [t EXCEPT !.restarts = 0]
  <2>1. t \in Supervisor /\ t.pc = "launch" /\ t.base = base /\ t.rollback /\ t.selected = s.prev
    BY <1>4 DEF Supervisor
  <2> HIDE DEF t
  <2>2. v \in Supervisor /\ v.pc = "launch" /\ v.base = base /\ v.rollback /\ v.selected = s.prev
    BY <2>1 DEF Supervisor
  <2> HIDE DEF v
  <2>3. Chosen(t) /\ Chosen(v)
    BY <1>10, <1>11, <2>1, <2>2
  <2> QED BY <2>3 DEF t, v
<1>12. Chosen([Down EXCEPT !.restarts = 0])
  <2> DEFINE t == [Down EXCEPT !.restarts = 0]
  <2>1. t \in Supervisor /\ t.pc = "down"
    BY <1>5 DEF Supervisor
  <2> HIDE DEF t
  <2>2. Chosen(t)
    BY SMTT(30), <2>1 DEF Chosen
  <2> QED BY <2>2 DEF t
<1>13. ASSUME MayFallBack PROVE Chosen(RollBackPending(s))
  BY Zenon, <1>5, <1>8, <1>11, <1>13 DEF RollBackPending, back
<1>14. ASSUME MayFallBack PROVE Chosen([RollBackPending(s) EXCEPT !.restarts = 0])
  <2>1. CASE sup.rollbacks = MaxAttempts
    <3>1. RollBackPending(s) = Down
      BY SMTT(30), <2>1 DEF RollBackPending
    <3> QED BY <1>12, <3>1
  <2>2. CASE sup.rollbacks # MaxAttempts
    <3>1. RollBackPending(s) = [back EXCEPT !.rollbacks = back.rollbacks + 1]
      BY SMTT(30), <2>2 DEF RollBackPending, back
    <3> QED BY Zenon, <1>8, <1>11, <1>14, <3>1
  <2> QED BY <2>1, <2>2
<1>15. MayFallBack => Chosen([back EXCEPT !.rollbacks = 0, !.restarts = 0])
  BY ZenonT(30), <1>11
<1>16. Chosen([ahead EXCEPT !.rollbacks = 0, !.restarts = 0])
  BY Zenon, <1>6
<1> QED BY <1>1, <1>5, <1>9, <1>13, <1>14, <1>15, <1>16 DEF s, ahead, back

\* A failure of a pending runtime that is not restarted may fall back.
LEMMA FailureFallsBack ==
    ASSUME UpdateInv, ~Unreadable(base), sup.pc # "down",
           ~MayRestart(SupervisorState(base)), MayRollBack(SupervisorState(base))
    PROVE  MayFallBack
<1> DEFINE s == SupervisorState(base)
<1>1. Pending /\ (s.verified <=> ptr.verified) /\ (~s.verified \/ sup.rollback)
  BY StateGood DEF MayRestart, MayRollBack
<1>2. ~ptr.verified => ptr.job \notin Done
  BY <1>1 DEF UpdateInv, PointerGood, Pending
<1>3. Unrefused /\ sup.rollback /\ ptr.job \in Done => ptr.active.ver < base
  BY <1>1 DEF UpdateInv, SupervisorGood, Pending
<1> QED BY <1>1, <1>2, <1>3 DEF MayFallBack

\* The supervisor launches what it selected, or answers that it cannot.
LEMMA LaunchKeeps == ASSUME UpdateInv, Launch PROVE UpdateInv'
<1>0. /\ sup.pc = "launch" /\ UNCHANGED <<base, ptr, refusals>> /\ sup \in Supervisor
      /\ sup.base = base /\ proc.pc = "none" /\ proc \in Process
      /\ Startable(sup.selected, sup.rollback, ptr, Done, Unrefused)
  BY DEF Launch, UpdateInv, UpdateTyped, SupervisorGood
<1>1. CASE Exists(sup.selected, sup.base)
  <2>1. PICK same \in BOOLEAN : job' = [j \in Jobs |-> [job[j] EXCEPT !.mine = job[j].mine /\ same]]
    BY <1>1 DEF Launch
  <2> DEFINE m == [j \in Jobs |-> job[j].mine /\ same]
  <2>2. m \in [Jobs -> BOOLEAN]
    BY DEF UpdateInv, UpdateTyped, JobRow
  <2>3. job' = [j \in Jobs |-> [job[j] EXCEPT !.mine = m[j]]]
    BY <2>1
  <2> HIDE DEF m
  <2>4. JobsKept
    BY Zenon, <1>0, <2>2, <2>3, SessionsLost
  <2>5. /\ sup' \in Supervisor /\ sup'.pc = "watch" /\ sup'.base = base
        /\ sup'.rollback = sup.rollback
    BY <1>0, <1>1 DEF Launch, Supervisor
  <2>6. /\ proc' \in Process /\ proc'.pc = "recover" /\ proc'.rt = sup.selected
        /\ proc'.rollback = sup.rollback
    <3>1. NoProc \in Process
      BY DEF NoProc, NoRuntime, Runtime, Process
    <3>2. proc' = [NoProc EXCEPT !.pc = "recover", !.rt = sup.selected, !.rollback = sup.rollback]
      BY <1>1 DEF Launch
    <3>3. sup.selected \in Runtime /\ sup.rollback \in BOOLEAN
      BY <1>0 DEF Supervisor
    <3> QED BY Zenon, <3>1, <3>2, <3>3 DEF Process
  <2>7. Unrefused' = Unrefused
    BY <1>0 DEF Unrefused
  <2>8. UpdateTyped'
    BY <1>0, <2>4, <2>5, <2>6 DEF UpdateInv, UpdateTyped, JobsKept
  <2>9. SupervisorGood(sup', proc', ptr, Done, Unrefused, base)
    BY <1>0, <2>5, <2>6 DEF UpdateInv, SupervisorGood
  <2>10. ProcessGood(proc', ptr, Done, Unrefused)
    BY <1>0, <2>6 DEF ProcessGood, Busy, Recovering
  <2> QED BY <1>0, <2>4, <2>7, <2>8, <2>9, <2>10 DEF UpdateInv, JobsKept
<1>2. CASE ~Exists(sup.selected, sup.base)
  <2>1. UNCHANGED <<job, proc>>
        /\ sup' = IF Unreadable(base) THEN Down ELSE LaunchFails(SupervisorState(base))
    BY <1>0, <1>2 DEF Launch
  <2>2. CASE Unreadable(base)
    <3>1. sup' = Down
      BY <2>1, <2>2
    <3>2. Down \in Supervisor /\ Down.pc = "down"
      BY DEF Down, Supervisor, NoRuntime, Runtime
    <3>3. Chosen(sup') /\ sup'.pc = "down"
      BY <3>1, <3>2 DEF Chosen
    <3> QED BY <1>0, <2>1, <3>3, ChosenKeeps
  <2>3. CASE ~Unreadable(base)
    <3>1. Chosen(sup')
      BY <1>0, <2>1, <2>3, Choices, FailureFallsBack DEF LaunchFails
    <3> QED BY <1>0, <2>1, <2>3, <3>1, ChosenKeeps
  <2> QED BY <2>2, <2>3
<1> QED BY <1>1, <1>2

\* The child exits, and the supervisor goes on as its code asks.
LEMMA ChildExitsKeeps == ASSUME UpdateInv, ChildExits PROVE UpdateInv'
<1> DEFINE s == SupervisorState(base)
<1>0. /\ sup.pc = "watch" /\ proc.pc = "exited" /\ UNCHANGED <<job, base, ptr, refusals>>
      /\ sup \in Supervisor /\ sup.base = base /\ proc' = NoProc
  BY DEF ChildExits, UpdateInv, UpdateTyped, SupervisorGood
<1>1. NoProc \in Process /\ NoProc.pc = "none"
  BY DEF NoProc, NoRuntime, Runtime, Process
<1>2. Down \in Supervisor /\ Down.pc = "down"
  BY DEF Down, Supervisor, NoRuntime, Runtime
<1>3. CASE Unreadable(base)
  <2>1. sup' = Down
    BY <1>0, <1>3 DEF ChildExits
  <2>2. Chosen(sup') /\ sup'.pc = "down"
    BY <1>2, <2>1 DEF Chosen
  <2> QED BY <1>0, <1>1, <2>2, ChosenKeeps
<1>4. CASE ~Unreadable(base)
  <2>1. \/ proc.code = 75 /\ sup' = AfterRestart(s)
        \/ proc.code = 76 /\ sup' = AfterRollback(s)
        \/ sup' = AfterFailure(s)
    BY <1>0, <1>4 DEF ChildExits
  <2>2. (s.pending <=> Pending) /\ (Pending => (s.verified <=> ptr.verified))
    BY <1>4, StateGood
  <2>3. ASSUME sup' = AfterRestart(s) PROVE Chosen(sup')
    <3>1. s.pending /\ ~s.verified => MayFallBack
      BY <2>2 DEF UpdateInv, PointerGood, Pending, MayFallBack
    <3> QED BY <1>0, <1>4, <2>3, <3>1, Choices DEF AfterRestart
  <2>4. ASSUME proc.code = 76, sup' = AfterRollback(s) PROVE Chosen(sup')
    <3>1. s.pending => MayFallBack
      BY <1>0, <2>2, <2>4 DEF UpdateInv, ProcessGood, Pending, MayFallBack
    <3> QED BY <1>0, <1>4, <2>4, <3>1, Choices DEF AfterRollback
  <2>5. ASSUME sup' = AfterFailure(s) PROVE Chosen(sup')
    BY <1>0, <1>4, <2>5, Choices, FailureFallsBack DEF AfterFailure
  <2>6. Chosen(sup')
    BY <2>1, <2>3, <2>4, <2>5
  <2> QED BY <1>0, <1>1, <1>4, <2>6, ChosenKeeps
<1> QED BY <1>3, <1>4

\* Processes die, and an installer brings a newer base to a host that is down.
LEMMA CrashKeeps == ASSUME UpdateInv, Crash PROVE UpdateInv'
<1>1. JobsKept /\ UNCHANGED <<ptr, sup, base>> /\ proc.pc # "none" /\ Exit(1)
  BY RowsAlone DEF Crash
<1>2. 1 \in Nat /\ 1 # 76
  OBVIOUS
<1> QED BY <1>1, <1>2, ExitMoves

LEMMA HostStopsKeeps == ASSUME UpdateInv, HostStops PROVE UpdateInv'
<1>1. UNCHANGED <<job, base, ptr, refusals>> /\ sup' = Down /\ proc' = NoProc
  BY DEF HostStops
<1>2. NoProc \in Process /\ NoProc.pc = "none"
  BY DEF NoProc, NoRuntime, Runtime, Process
<1>3. Down \in Supervisor /\ Down.pc = "down"
  BY DEF Down, Supervisor, NoRuntime, Runtime
<1>4. Chosen(sup') /\ sup'.pc = "down"
  BY <1>1, <1>3 DEF Chosen
<1> QED BY <1>1, <1>2, <1>4, ChosenKeeps

LEMMA InstallNewerBaseKeeps == ASSUME UpdateInv, InstallNewerBase PROVE UpdateInv'
<1>1. /\ UNCHANGED <<job, ptr, sup, proc, refusals>> /\ base \in Nat /\ base' = base + 1
      /\ sup.pc = "down"
  BY DEF InstallNewerBase, UpdateInv, UpdateTyped, Down
<1>2. Done' = Done /\ Unrefused' = Unrefused /\ RowsGood'
  BY <1>1 DEF Done, Unrefused, UpdateInv, RowsGood, Pending
<1>3. UpdateTyped'
  BY <1>1 DEF UpdateInv, UpdateTyped
<1>4. PointerGood(ptr, Done, Unrefused, base')
  <2>1. PointerGood(ptr, Done, Unrefused, base)
    BY DEF UpdateInv
  <2>2. \A j \in Done : Target[j] <= base => Target[j] <= base'
    BY <1>1, JobsAssumption DEF Done
  <2> QED BY <2>1, <2>2, Zenon DEF PointerGood
<1>5. SupervisorGood(sup, proc, ptr, Done, Unrefused, base')
  BY <1>1 DEF UpdateInv, SupervisorGood
<1> QED BY <1>1, <1>2, <1>3, <1>4, <1>5 DEF UpdateInv

\* A lease lapses, a job is cancelled or a session renewed.
LEMMA RowChangesKeep ==
    ASSUME UpdateInv, NEW j \in Jobs, LeaseLapses(j) \/ CancelJob(j)
    PROVE  UpdateInv'
<1> DEFINE lapsed == [job[j] EXCEPT !.state = "queued", !.lease = "none", !.mine = FALSE]
           cancelled == [job[j] EXCEPT !.state = "cancelled", !.lease = "none"]
<1>1. /\ job[j] \in JobRow /\ job[j].state # "succeeded" /\ UNCHANGED <<ptr, sup, base, proc, refusals>>
      /\ refusals' \in Int /\ refusals' <= refusals
  BY DEF UpdateInv, UpdateTyped, LeaseLapses, CancelJob, LeaseHeld, HeldStates
<1>2. /\ lapsed \in JobRow /\ lapsed.state = "queued"
      /\ cancelled \in JobRow /\ cancelled.state = "cancelled"
  BY Zenon, <1>1 DEF JobRow
<1>3. job' = [job EXCEPT ![j] = lapsed] \/ job' = [job EXCEPT ![j] = cancelled]
  BY Zenon DEF LeaseLapses, CancelJob, UpdateInv, UpdateTyped, JobRow
<1> HIDE DEF lapsed, cancelled
<1>4. JobsKept
  BY <1>1, <1>2, <1>3, RowWritten
<1> QED BY <1>1, <1>4, OnlyJobs

LEMMA SessionRenewedKeeps == ASSUME UpdateInv, SessionRenewed PROVE UpdateInv'
<1> DEFINE m == [j \in Jobs |-> FALSE]
<1>1. m \in [Jobs -> BOOLEAN] /\ job' = [j \in Jobs |-> [job[j] EXCEPT !.mine = m[j]]]
      /\ UNCHANGED <<ptr, sup, base, proc, refusals>>
  BY DEF SessionRenewed
<1> HIDE DEF m
<1> QED BY Zenon, <1>1, SessionsLost, OnlyJobs

\* Every step keeps the invariant.
LEMMA UpdateNextKeeps == UpdateInv /\ [UpdateNext]_updateVars => UpdateInv'
<1> SUFFICES ASSUME UpdateInv, [UpdateNext]_updateVars PROVE UpdateInv'
  OBVIOUS
<1>1. CASE UNCHANGED <<job, base, ptr, sup, proc, refusals>>
  BY <1>1, RowsAlone, OnlyJobs
<1>2. CASE SupervisorStep
  BY <1>2, StartSupervisorKeeps, LaunchKeeps, ChildExitsKeeps DEF SupervisorStep
<1>3. CASE ChildStep
  BY <1>3, RecoverKeeps, ReportKeeps, MarkRolledBackKeeps, AdoptKeeps, ProbeUpdateKeeps,
     MarkVerifiedKeeps, CommitKeeps, ReadoptKeeps, MarkSucceededKeeps, PrepareKeeps,
     StageReleaseKeeps, WritePendingPointerKeeps, AnnounceRestartKeeps, CompleteFailureKeeps
     DEF ChildStep
<1>4. CASE NextTurn \/ Crash \/ HostStops \/ InstallNewerBase \/ SessionRenewed
  BY <1>4, NextTurnKeeps, CrashKeeps, HostStopsKeeps, InstallNewerBaseKeeps, SessionRenewedKeeps
<1>5. ASSUME NEW j \in Jobs, ClaimUpdate(j) \/ LeaseLapses(j) \/ CancelJob(j) PROVE UpdateInv'
  BY <1>5, ClaimUpdateKeeps, RowChangesKeep
<1>6. ASSUME NEW v \in store, ReleaseLost(v) PROVE UpdateInv'
  BY <1>1, <1>6 DEF ReleaseLost
<1>7. UNCHANGED updateVars => UNCHANGED <<job, base, ptr, sup, proc, refusals>>
  BY DEF updateVars
<1> QED BY <1>1, <1>2, <1>3, <1>4, <1>5, <1>6, <1>7 DEF UpdateNext

\* A Worker starts with queued jobs, no pointer and no process.
LEMMA UpdateStarts == UpdateInit => UpdateInv
<1> SUFFICES ASSUME UpdateInit PROVE UpdateInv
  OBVIOUS
<1>1. NoProc \in Process /\ NoProc.pc = "none"
  BY DEF NoProc, NoRuntime, Runtime, Process
<1>2. Down \in Supervisor /\ Down.pc = "down"
  BY DEF Down, Supervisor, NoRuntime, Runtime
<1>3. NoPointer \in Pointer /\ NoPointer.st = "none" /\ NoPointer.active = NoRuntime
  BY DEF NoPointer, NoRuntime, Runtime, Pointer
<1>4. \A j \in Jobs : job[j] \in JobRow /\ job[j].state = "queued"
  BY DEF UpdateInit, JobRow
<1>5. job \in [Jobs -> JobRow]
  BY <1>4 DEF UpdateInit
<1>6. Done = {}
  BY <1>4 DEF Done
<1>7. UpdateTyped
  BY <1>1, <1>2, <1>3, <1>5, JobsAssumption DEF UpdateInit, UpdateTyped
<1>8. RowsGood
  BY <1>3, <1>4, <1>6 DEF RowsGood, Pending, UpdateInit
<1>9. NoRuntime.from = "none"
  BY DEF NoRuntime
<1>10. PointerGood(ptr, Done, Unrefused, base)
  BY <1>3, <1>6, <1>9 DEF PointerGood, UpdateInit, Allowed
<1>11. SupervisorGood(sup, proc, ptr, Done, Unrefused, base)
  BY <1>1, <1>2 DEF SupervisorGood, UpdateInit
<1>12. ProcessGood(proc, ptr, Done, Unrefused)
  BY <1>1 DEF ProcessGood, UpdateInit, Busy, Recovering
<1> QED BY <1>7, <1>8, <1>10, <1>11, <1>12 DEF UpdateInv

\* The pointer, the supervisor and the process agree with what the Gateway has
\* accepted (supervise_worker, recover_pending_update, _complete_verified_update).
THEOREM RuntimeInvariant == RuntimeSpec => []UpdateInv
  BY UpdateStarts, UpdateNextKeeps, PTL DEF RuntimeSpec

\* Only the base or an accepted release serves and, as long as no call is
\* refused, never one older than the Gateway has accepted, whatever is lost,
\* crashes, lapses or is cancelled (recover_pending_update, supervise_worker).
THEOREM OnlyCommittedServes == RuntimeSpec => []ServesOnlyCommitted
<1>1. UpdateInv => ServesOnlyCommitted
  <2> SUFFICES ASSUME UpdateInv PROVE ServesOnlyCommitted
    OBVIOUS
  <2>1. Serving => Allowed(proc.rt, Done) /\ (Unrefused => Covers(proc.rt.ver, Done))
    BY DEF UpdateInv, ProcessGood, Serving, Busy, Startable
  <2>2. Serving /\ proc.rt.from = "store" =>
          \E j \in Jobs : Target[j] = proc.rt.ver /\ job[j].state = "succeeded"
    BY <2>1 DEF Allowed, Done
  <2>3. Unrefused => NoFallbackAfterCommit
    <3>1. proc.rt.ver \in Nat /\ \A j \in Jobs : Target[j] \in Nat
      BY JobsAssumption DEF UpdateInv, UpdateTyped, Process, Runtime
    <3> QED BY <2>1, <3>1 DEF NoFallbackAfterCommit, Covers, Done
  <2> QED BY <2>2, <2>3 DEF ServesOnlyCommitted, Unrefused
<1> QED BY <1>1, RuntimeInvariant, PTL

-----------------------------------------------------------------------------
(* Runs and their prompts *)

PromptSpec == RunInit /\ [][RunNext]_runVars

Endings == {"none", "success", "error", "interrupted"}

\* A prompt that ComfyUI has not heard of, or not begun.
Untouched(r) == ended[r] = "none" /\ history[r] = "none" /\ sampling.r # r

ExecRow == [pc : {"idle", "bind", "connect", "submit", "wait", "recv", "poll", "collect"},
            r : 0..MaxRuns, open : BOOLEAN, closed : BOOLEAN, expired : BOOLEAN]

RunTyped ==
    /\ prompts \in Seq(Runs)
    /\ sampling \in [r : 0..MaxRuns, stop : BOOLEAN, told : BOOLEAN]
    /\ history \in [Runs -> Endings]
    /\ ended \in [Runs -> Endings]
    /\ socket \in Seq(Endings \cup {"idle"})
    /\ exec \in ExecRow
    /\ asked \in [Runs -> BOOLEAN]
    /\ outcome \in [Runs -> {"none", "refused", "cancelled", "unavailable", "timeout", "failed",
                             "lost", "done"}]

\* Every prompt is in one place: not submitted, in the queue once, sampled, over.
OncePerPrompt ==
    /\ \A k \in 1..Len(prompts) : Untouched(prompts[k])
    /\ \A k, l \in 1..Len(prompts) : prompts[k] = prompts[l] => k = l
    /\ sampling.r # 0 => /\ history[sampling.r] = "none"
                         /\ (ended[sampling.r] = "none") = ~sampling.told
    /\ sampling.told => sampling.r # 0
    /\ \A r \in Runs :
          r > exec.r \/ (r = exec.r /\ exec.pc \in {"bind", "connect", "submit"}) =>
              Untouched(r) /\ \A k \in 1..Len(prompts) : prompts[k] # r

\* What the client hears and what the history says is how the prompt ended.
PromptHeard ==
    /\ exec.pc # "idle" => exec.r # 0
    /\ exec.pc \in {"idle", "bind", "connect"} => ~exec.open /\ socket = <<>>
    /\ \A k \in 1..Len(socket) : /\ socket[k] # "none"
                                 /\ socket[k] = "interrupted" => ended[exec.r] = "interrupted"
    /\ \A r \in Runs : history[r] \in {"none", ended[r]}

PromptInv == RunTyped /\ OncePerPrompt /\ PromptHeard /\ ReturnedIsCompleted

\* Nothing is submitted at first (ComfyUIExecutor.execute).
LEMMA PromptStarts == RunInit => PromptInv
<1> SUFFICES ASSUME RunInit PROVE PromptInv
  OBVIOUS
<1> USE RunsAssumption DEF RunInit, RunAtRest
<1>1. RunTyped
  BY DEF RunTyped, ExecRow, Endings
<1>2. OncePerPrompt
  BY DEF OncePerPrompt, Untouched, Runs
<1>3. PromptHeard
  BY DEF PromptHeard
<1>4. ReturnedIsCompleted
  BY DEF ReturnedIsCompleted
<1> QED BY <1>1, <1>2, <1>3, <1>4 DEF PromptInv

\* A step that moves no prompt, and a client that does not go back (execute).
LEMMA OnceStays ==
    ASSUME OncePerPrompt, UNCHANGED <<prompts, history, ended>>,
           sampling'.r = sampling.r, sampling'.told = sampling.told, exec'.r = exec.r,
           exec'.pc \in {"bind", "connect", "submit"} => exec.pc \in {"bind", "connect", "submit"}
    PROVE  OncePerPrompt'
  BY DEF OncePerPrompt, Untouched

\* A step that neither the client nor ComfyUI's record of the prompt sees.
LEMMA HeardStays ==
    ASSUME PromptHeard, UNCHANGED <<exec, socket, ended, history>> PROVE PromptHeard'
  BY DEF PromptHeard

\* The way out of a run with a result that the prompt's end justifies (run).
LEMMA LeaveRunKeeps ==
    ASSUME PromptInv, exec.pc # "idle",
           NEW o \in {"refused", "cancelled", "unavailable", "timeout", "failed", "lost", "done"},
           LeaveRun(o),
           o = "done" => ended[exec.r] = "success",
           o = "cancelled" => asked[exec.r] \/ ended[exec.r] = "interrupted",
           UNCHANGED <<prompts, history, ended, asked>>,
           sampling' \in [r : 0..MaxRuns, stop : BOOLEAN, told : BOOLEAN],
           sampling'.r = sampling.r, sampling'.told = sampling.told
    PROVE  PromptInv'
<1> USE RunsAssumption DEF PromptInv, RunTyped, ExecRow
<1>0. exec.r \in Runs
  BY DEF PromptHeard, Runs
<1>1. exec' = RunAtRest(exec.r) /\ socket' = <<>> /\ outcome' = [outcome EXCEPT ![exec.r] = o]
  BY DEF LeaveRun
<1>2. RunTyped'
  BY <1>1, <1>0 DEF RunAtRest
<1>3. OncePerPrompt'
  <2>1. exec'.r = exec.r /\ exec'.pc = "idle"
    BY <1>1 DEF RunAtRest
  <2> QED BY <2>1, OnceStays DEF PromptInv
<1>4. PromptHeard'
  BY <1>1, <1>0 DEF PromptHeard, RunAtRest
<1>5. ReturnedIsCompleted'
  BY <1>1, <1>0 DEF ReturnedIsCompleted
<1> QED BY <1>2, <1>3, <1>4, <1>5

\* A step of the executor that ends nothing and submits nothing (run, _wait).
LEMMA GoesOn ==
    ASSUME PromptInv, exec.pc # "idle",
           NEW pc \in {"connect", "submit", "wait", "recv", "poll", "collect"},
           NEW open \in BOOLEAN, NEW closed \in BOOLEAN, NEW expired \in BOOLEAN,
           exec' = [pc |-> pc, r |-> exec.r, open |-> open, closed |-> closed,
                    expired |-> expired],
           pc \in {"connect", "submit"} => exec.pc \in {"bind", "connect", "submit"},
           pc = "connect" => ~open /\ socket' = <<>>,
           socket' \in {socket, <<>>},
           UNCHANGED <<prompts, sampling, history, ended, asked, outcome>>
    PROVE  PromptInv'
<1> USE RunsAssumption DEF PromptInv, RunTyped, ExecRow
<1>0. exec'.pc = pc /\ exec'.r = exec.r /\ exec'.open = open
  OBVIOUS
<1>1. exec' \in ExecRow
  BY DEF ExecRow
<1>s. socket' \in Seq(Endings \cup {"idle"})
  <2>1. <<>> \in Seq(Endings \cup {"idle"})
    OBVIOUS
  <2> QED BY Zenon, <2>1
<1>2. RunTyped'
  <2> HIDE DEF ExecRow
  <2> QED BY <1>1, <1>s
<1>3. OncePerPrompt'
  BY <1>0, OnceStays
<1>4. PromptHeard'
  BY <1>0 DEF PromptHeard
<1>5. ReturnedIsCompleted'
  BY DEF ReturnedIsCompleted
<1> QED BY <1>2, <1>3, <1>4, <1>5

\* The fields of a moved executor (run).
LEMMA GotoIs ==
    ASSUME PromptInv, NEW pc, Goto(pc)
    PROVE  /\ exec' = [pc |-> pc, r |-> exec.r, open |-> exec.open, closed |-> exec.closed,
                       expired |-> exec.expired]
           /\ exec.open \in BOOLEAN /\ exec.closed \in BOOLEAN /\ exec.expired \in BOOLEAN
           /\ UNCHANGED <<socket, outcome>>
  BY SMTT(30) DEF Goto, PromptInv, RunTyped, ExecRow

\* A move within the waiting loop (_wait).
LEMMA GotoKeeps ==
    ASSUME PromptInv, exec.pc # "idle", NEW pc \in {"wait", "recv", "poll", "collect"}, Goto(pc),
           UNCHANGED <<prompts, sampling, history, ended, asked>>
    PROVE  PromptInv'
<1>1. /\ exec' = [pc |-> pc, r |-> exec.r, open |-> exec.open, closed |-> exec.closed,
                  expired |-> exec.expired]
      /\ exec.open \in BOOLEAN /\ exec.closed \in BOOLEAN /\ exec.expired \in BOOLEAN
      /\ UNCHANGED <<socket, outcome>>
  BY GotoIs
<1>2. pc \in {"connect", "submit", "wait", "recv", "poll", "collect"} /\ pc \notin {"connect", "submit"}
  OBVIOUS
<1> QED BY <1>1, <1>2, GoesOn

\* A run begins, or is refused or cancelled at once (execute).
LEMMA BeginExecuteKeeps == ASSUME PromptInv, BeginExecute PROVE PromptInv'
<1> USE RunsAssumption DEF PromptInv, RunTyped, ExecRow
<1> DEFINE r == exec.r + 1
<1>0. /\ exec.pc = "idle" /\ exec.r < MaxRuns
      /\ UNCHANGED <<prompts, sampling, history, ended, socket, asked>>
  BY DEF BeginExecute, comfyVars
<1>r. r \in Runs /\ r \in 0..MaxRuns
  BY <1>0 DEF Runs
<1>1. \/ /\ outcome' = [outcome EXCEPT ![r] = "refused"] /\ exec' = RunAtRest(r)
      \/ /\ outcome' = [outcome EXCEPT ![r] = "cancelled"] /\ exec' = RunAtRest(r) /\ asked[r]
      \/ exec' = [RunAtRest(r) EXCEPT !.pc = "bind"] /\ outcome' = outcome
  BY DEF BeginExecute, RefusePayload
<1>2. /\ exec'.r = r /\ exec'.pc \in {"idle", "bind"} /\ exec'.open = FALSE
      /\ exec' \in ExecRow
  <2>1. CASE exec' = RunAtRest(r)
    BY <2>1, <1>r DEF RunAtRest
  <2>2. CASE exec' = [RunAtRest(r) EXCEPT !.pc = "bind"]
    <3>1. exec' = [pc |-> "bind", r |-> r, open |-> FALSE, closed |-> FALSE, expired |-> FALSE]
      BY Zenon, <2>2 DEF RunAtRest
    <3> QED BY <3>1, <1>r
  <2> QED BY Zenon, <1>1, <2>1, <2>2
<1>3. RunTyped'
  BY SMTT(30), <1>0, <1>1, <1>2, <1>r
<1>4. OncePerPrompt'
  BY <1>0, <1>2 DEF OncePerPrompt, Untouched, Runs
<1>5. PromptHeard'
  BY <1>0, <1>2, <1>r DEF PromptHeard
<1>6. ReturnedIsCompleted'
  BY <1>0, <1>1, <1>r DEF ReturnedIsCompleted
<1> QED BY <1>3, <1>4, <1>5, <1>6

\* The steps up to the submission (run).
LEMMA BindConnectKeeps == ASSUME PromptInv, BindInput \/ Connect PROVE PromptInv'
<1> USE DEF PromptInv, RunTyped, ExecRow
<1>0. exec.pc \in {"bind", "connect"} /\ UNCHANGED <<prompts, sampling, history, ended, asked>>
  BY DEF BindInput, Connect, comfyVars
<1>1. CASE Goto("connect")
  <2>1. exec.pc \in {"bind", "connect"} /\ ~exec.open /\ socket = <<>>
    BY <1>0 DEF PromptHeard
  <2> QED BY <1>0, <1>1, <2>1, GotoIs, GoesOn
<1>2. CASE exec' = [exec EXCEPT !.pc = "submit", !.open = TRUE] /\ UNCHANGED <<socket, outcome>>
  <2>1. exec' = [pc |-> "submit", r |-> exec.r, open |-> TRUE, closed |-> exec.closed,
                 expired |-> exec.expired]
    BY Zenon, <1>2
  <2>2. exec.closed \in BOOLEAN /\ exec.expired \in BOOLEAN
    OBVIOUS
  <2> QED BY Zenon, <1>0, <1>2, <2>1, <2>2, GoesOn
<1>3. CASE LeaveRun("refused")
  BY <1>0, <1>3, LeaveRunKeeps
<1>4. CASE LeaveRun("unavailable")
  BY <1>0, <1>4, LeaveRunKeeps
<1> QED BY <1>1, <1>2, <1>3, <1>4 DEF BindInput, Connect

\* The prompt enters the queue for the first and only time (submit).
LEMMA AppendKeeps ==
    ASSUME PromptInv, exec.pc = "submit", prompts' = Append(prompts, exec.r),
           UNCHANGED <<sampling, history, ended, asked>>,
           \/ exec' = [exec EXCEPT !.pc = "wait"] /\ UNCHANGED <<socket, outcome>>
           \/ LeaveRun("unavailable")
    PROVE  PromptInv'
<1> USE RunsAssumption DEF PromptInv, RunTyped, ExecRow
<1>0. exec.r \in Runs /\ exec.r \in 0..MaxRuns
  BY DEF PromptHeard, Runs
<1>u. Untouched(exec.r) /\ \A k \in 1..Len(prompts) : prompts[k] # exec.r
  BY <1>0 DEF OncePerPrompt
<1>1. /\ prompts' \in Seq(Runs) /\ Len(prompts') = Len(prompts) + 1
      /\ \A k \in 1..Len(prompts) : prompts'[k] = prompts[k]
      /\ prompts'[Len(prompts) + 1] = exec.r
  BY <1>0
<1>2. /\ exec'.r = exec.r /\ exec'.pc \in {"idle", "wait"}
      /\ exec' \in ExecRow
      /\ exec'.pc = "idle" => ~exec'.open /\ socket' = <<>>
      /\ socket' \in {socket, <<>>}
  <2>1. CASE exec' = [exec EXCEPT !.pc = "wait"] /\ UNCHANGED <<socket, outcome>>
    BY SMTT(30), <2>1
  <2>2. CASE exec' = RunAtRest(exec.r) /\ socket' = <<>>
    BY <2>2, <1>0 DEF RunAtRest
  <2> QED BY <2>1, <2>2 DEF LeaveRun
<1>o. outcome' = outcome \/ outcome' = [outcome EXCEPT ![exec.r] = "unavailable"]
  BY DEF LeaveRun
<1>s. socket' \in Seq(Endings \cup {"idle"})
  <2>1. <<>> \in Seq(Endings \cup {"idle"})
    OBVIOUS
  <2> QED BY Zenon, <2>1, <1>2
<1>3. RunTyped'
  <2>1. outcome' \in [Runs -> {"none", "refused", "cancelled", "unavailable", "timeout", "failed",
                               "lost", "done"}]
    BY SMTT(30), <1>o
  <2> HIDE DEF ExecRow
  <2> QED BY <1>1, <1>2, <1>s, <2>1
<1>4. OncePerPrompt'
  <2>1. (\A k \in 1..Len(prompts) : Untouched(prompts[k]))'
    BY <1>1, <1>u DEF OncePerPrompt, Untouched
  <2>2. \A k, l \in 1..Len(prompts') : prompts'[k] = prompts'[l] => k = l
    BY <1>1, <1>u DEF OncePerPrompt
  <2>3. (\A r \in Runs : r > exec.r => Untouched(r) /\ \A k \in 1..Len(prompts) : prompts[k] # r)'
    BY <1>0, <1>1, <1>2 DEF OncePerPrompt, Untouched, Runs
  <2> QED BY <1>2, <2>1, <2>2, <2>3 DEF OncePerPrompt
<1>5. PromptHeard'
  BY <1>0, <1>2 DEF PromptHeard, Runs
<1>6. ReturnedIsCompleted'
  BY <1>0, <1>o DEF ReturnedIsCompleted
<1> QED BY <1>3, <1>4, <1>5, <1>6

\* The submission, answered, refused or lost (submit).
LEMMA SubmitKeeps == ASSUME PromptInv, SubmitPrompt PROVE PromptInv'
<1>0. exec.pc = "submit" /\ UNCHANGED <<sampling, history, ended, asked>>
  BY DEF SubmitPrompt
<1>1. CASE Goto("wait") /\ prompts' = Append(prompts, exec.r)
  BY <1>0, <1>1, AppendKeeps DEF Goto
<1>2. CASE LeaveRun("unavailable") /\ prompts' = Append(prompts, exec.r)
  BY <1>0, <1>2, AppendKeeps
<1>3. CASE LeaveRun("refused") /\ prompts' = prompts
  BY <1>0, <1>3, LeaveRunKeeps DEF PromptInv, RunTyped
<1>4. CASE LeaveRun("unavailable") /\ prompts' = prompts
  BY <1>0, <1>4, LeaveRunKeeps DEF PromptInv, RunTyped
<1> QED BY <1>1, <1>2, <1>3, <1>4 DEF SubmitPrompt

\* What an interrupt does to ComfyUI, whoever it is meant for (interrupt).
LEMMA InterruptIs ==
    ASSUME PromptInv, Interrupt
    PROVE  /\ sampling' \in [r : 0..MaxRuns, stop : BOOLEAN, told : BOOLEAN]
           /\ sampling'.r = sampling.r /\ sampling'.told = sampling.told
<1>1. CASE sampling' = [sampling EXCEPT !.stop = sampling.r # 0]
  BY Zenon, <1>1 DEF PromptInv, RunTyped
<1>2. CASE sampling' = sampling
  BY <1>2 DEF PromptInv, RunTyped
<1> QED BY Zenon, <1>1, <1>2 DEF Interrupt

\* A turn of the waiting loop (_wait).
LEMMA WaitTurnKeeps == ASSUME PromptInv, WaitTurn PROVE PromptInv'
<1>0. exec.pc = "wait" /\ UNCHANGED <<prompts, history, ended, asked>>
  BY DEF WaitTurn
<1>1. CASE LeaveRun("timeout") /\ Interrupt
  BY <1>0, <1>1, InterruptIs, LeaveRunKeeps
<1>2. CASE asked[exec.r] /\ LeaveRun("cancelled") /\ Interrupt
  BY <1>0, <1>2, InterruptIs, LeaveRunKeeps
<1>3. ASSUME NEW pc \in {"poll", "recv"}, Goto(pc), sampling' = sampling PROVE PromptInv'
  BY <1>0, <1>3, GotoKeeps
<1> QED BY <1>1, <1>2, <1>3 DEF WaitTurn

\* A message, or none (_wait).
LEMMA ReceiveKeeps == ASSUME PromptInv, Receive PROVE PromptInv'
<1>0. /\ exec.pc = "recv" /\ UNCHANGED <<prompts, sampling, history, ended, asked>>
      /\ sampling \in [r : 0..MaxRuns, stop : BOOLEAN, told : BOOLEAN]
  BY DEF Receive, comfyVars, PromptInv, RunTyped
<1>1. ASSUME NEW pc \in {"wait", "collect"}, Goto(pc) PROVE PromptInv'
  BY <1>0, <1>1, GotoKeeps
<1>2. CASE exec' = [exec EXCEPT !.pc = "wait", !.closed = TRUE] /\ UNCHANGED <<socket, outcome>>
  <2>1. exec' = [pc |-> "wait", r |-> exec.r, open |-> exec.open, closed |-> TRUE,
                 expired |-> exec.expired]
    BY Zenon, <1>2 DEF PromptInv, RunTyped, ExecRow
  <2>2. exec.open \in BOOLEAN /\ exec.expired \in BOOLEAN
    BY DEF PromptInv, RunTyped, ExecRow
  <2> QED BY Zenon, <1>0, <1>2, <2>1, <2>2, GoesOn
<1>3. CASE socket # <<>>
  <2>1. Head(socket) = socket[1] /\ 1 \in 1..Len(socket) /\ socket[1] \in Endings \cup {"idle"}
    BY <1>3 DEF PromptInv, RunTyped
  <2>2. CASE Head(socket) \in {"success", "idle"} /\ Goto("collect")
    BY <1>1, <2>2
  <2>3. CASE LeaveRun("failed")
    BY <1>0, <2>3, LeaveRunKeeps
  <2>4. CASE Head(socket) = "interrupted" /\ LeaveRun("cancelled")
    <3>1. ended[exec.r] = "interrupted"
      BY <2>1, <2>4 DEF PromptInv, PromptHeard
    <3> QED BY <1>0, <2>4, <3>1, LeaveRunKeeps
  <2>5. CASE exec.open /\ socket = <<>> /\ Goto("wait")
    BY <1>3, <2>5
  <2>6. \A k \in 1..Len(socket) : socket[k] # "none"
    BY DEF PromptInv, PromptHeard
  <2>7. Head(socket) \in {"success", "idle", "error", "interrupted"}
    BY <2>1, <2>6 DEF Endings
  <2> QED BY Zenon, <1>2, <1>3, <2>2, <2>3, <2>4, <2>7 DEF Receive
<1>4. CASE socket = <<>>
  BY <1>1, <1>2, <1>4 DEF Receive
<1> QED BY <1>3, <1>4

\* The history says how the prompt ended (_history_failure).
LEMMA HistoryTells ==
    ASSUME PromptInv, exec.pc # "idle"
    PROVE  /\ exec.r \in Runs
           /\ HistoryFailure(history[exec.r]) \in {"none", "failed", "cancelled"}
           /\ HistoryFailure(history[exec.r]) = "cancelled" => ended[exec.r] = "interrupted"
           /\ history[exec.r] # "none" /\ HistoryFailure(history[exec.r]) = "none" =>
                  ended[exec.r] = "success"
  BY RunsAssumption DEF PromptInv, RunTyped, ExecRow, PromptHeard, HistoryFailure, Endings, Runs

\* Polling and collecting, or a lost lease (_wait, _collect_outputs).
LEMMA PollCollectKeeps ==
    ASSUME PromptInv, Poll \/ ProgressRaises \/ CollectOutputs PROVE PromptInv'
<1>0. /\ exec.pc \in {"recv", "poll", "collect"} /\ UNCHANGED <<prompts, sampling, history, ended, asked>>
      /\ sampling \in [r : 0..MaxRuns, stop : BOOLEAN, told : BOOLEAN]
  BY DEF Poll, ProgressRaises, CollectOutputs, comfyVars, PromptInv, RunTyped
<1> DEFINE h == history[exec.r]
<1>1. ASSUME NEW pc \in {"wait", "collect"}, Goto(pc) PROVE PromptInv'
  BY <1>0, <1>1, GotoKeeps
<1>2. ASSUME NEW o \in {"unavailable", "failed", "lost"}, LeaveRun(o) PROVE PromptInv'
  BY <1>0, <1>2, LeaveRunKeeps
<1>3. CASE HistoryFailure(h) # "none" /\ LeaveRun(HistoryFailure(h))
  <2>1. HistoryFailure(h) \in {"failed", "cancelled"}
    BY <1>0, <1>3, HistoryTells
  <2>2. CASE HistoryFailure(h) = "failed"
    BY <1>2, <1>3, <2>2
  <2>3. CASE HistoryFailure(h) = "cancelled"
    <3>1. LeaveRun("cancelled")
      BY <1>3, <2>3
    <3>2. ended[exec.r] = "interrupted"
      BY <1>0, <2>3, HistoryTells
    <3> QED BY <1>0, <3>1, <3>2, LeaveRunKeeps
  <2> QED BY <2>1, <2>2, <2>3
<1>4. CASE h # "none" /\ HistoryFailure(h) = "none" /\ LeaveRun("done")
  BY <1>0, <1>4, HistoryTells, LeaveRunKeeps
<1>5. CASE Poll
  BY <1>1, <1>2, <1>3, <1>5 DEF Poll
<1>6. CASE ProgressRaises
  BY <1>2, <1>6 DEF ProgressRaises
<1>7. CASE CollectOutputs
  BY <1>2, <1>3, <1>4, <1>7 DEF CollectOutputs, ReturnOutputs, MissingOutput
<1> QED BY <1>5, <1>6, <1>7

\* ComfyUI takes the next prompt.
LEMMA ComfyStartsKeeps == ASSUME PromptInv, ComfyStarts PROVE PromptInv'
<1> USE RunsAssumption DEF PromptInv, RunTyped
<1>0. /\ sampling.r = 0 /\ prompts # <<>> /\ UNCHANGED <<history, ended, socket, exec, asked, outcome>>
      /\ sampling' = [r |-> Head(prompts), stop |-> FALSE, told |-> FALSE]
      /\ prompts' = Tail(prompts)
  BY DEF ComfyStarts
<1>1. /\ Head(prompts) = prompts[1] /\ 1 \in 1..Len(prompts) /\ prompts[1] \in Runs
      /\ prompts' \in Seq(Runs) /\ Len(prompts') = Len(prompts) - 1
      /\ \A k \in 1..Len(prompts') : prompts'[k] = prompts[k + 1] /\ k + 1 \in 1..Len(prompts)
  BY <1>0
<1>2. Untouched(prompts[1]) /\ \A k \in 1..Len(prompts') : prompts'[k] # prompts[1]
  BY <1>1 DEF OncePerPrompt
<1>3. RunTyped'
  BY <1>0, <1>1 DEF Runs
<1>4. OncePerPrompt'
  <2>1. (\A k \in 1..Len(prompts) : Untouched(prompts[k]))'
    BY <1>0, <1>1, <1>2 DEF OncePerPrompt, Untouched
  <2>2. \A k, l \in 1..Len(prompts') : prompts'[k] = prompts'[l] => k = l
    BY SMTT(30), <1>1 DEF OncePerPrompt
  <2>3. sampling'.r = prompts[1] /\ sampling'.r # 0 /\ ~sampling'.told
    BY <1>0, <1>1 DEF Runs
  <2>4. history'[prompts[1]] = "none" /\ ended'[prompts[1]] = "none"
    BY <1>0, <1>2 DEF Untouched
  <2>5. ASSUME NEW r \in Runs,
               r > exec'.r \/ (r = exec'.r /\ exec'.pc \in {"bind", "connect", "submit"})
        PROVE  Untouched(r)' /\ \A k \in 1..Len(prompts') : prompts'[k] # r
    <3>1. exec' = exec
      BY <1>0
    <3>2. Untouched(r) /\ \A k \in 1..Len(prompts) : prompts[k] # r
      BY <2>5, <3>1 DEF OncePerPrompt
    <3>3. prompts[1] # r
      BY <1>1, <3>2
    <3>4. Untouched(r)'
      BY <1>0, <2>3, <3>2, <3>3 DEF Untouched
    <3> QED BY <1>1, <3>2, <3>4
  <2> QED BY <2>1, <2>2, <2>3, <2>4, <2>5 DEF OncePerPrompt
<1>5. PromptHeard'
  BY <1>0 DEF PromptHeard
<1>6. ReturnedIsCompleted'
  BY <1>0 DEF ReturnedIsCompleted
<1> QED BY <1>3, <1>4, <1>5, <1>6

\* What a client that is told of its prompt reads from then on.
LEMMA TellIs ==
    ASSUME PromptInv, NEW m \in Endings \cup {"idle"}, m # "none", Tell(m), exec' = exec,
           sampling.r # 0, m = "interrupted" => ended'[sampling.r] = "interrupted",
           \A r \in Runs : ended[r] = "interrupted" => ended'[r] = "interrupted"
    PROVE  /\ socket' \in Seq(Endings \cup {"idle"})
           /\ exec.pc \in {"idle", "bind", "connect"} => socket' = <<>>
           /\ \A k \in 1..Len(socket') :
                 /\ socket'[k] # "none"
                 /\ socket'[k] = "interrupted" => ended'[exec.r] = "interrupted"
<1> USE DEF PromptInv, RunTyped
<1>1. CASE exec.open /\ exec.r = sampling.r
  <2>1. socket' = Append(socket, m) /\ exec.pc \notin {"idle", "bind", "connect"}
    BY <1>1 DEF Tell, PromptHeard
  <2>2. exec.r \in Runs
    BY <1>1 DEF Runs
  <2>3. /\ Len(socket') = Len(socket) + 1 /\ socket'[Len(socket) + 1] = m
        /\ \A k \in 1..Len(socket) : socket'[k] = socket[k]
        /\ socket' \in Seq(Endings \cup {"idle"})
    BY <2>1
  <2>4. ASSUME NEW k \in 1..Len(socket')
        PROVE  /\ socket'[k] # "none"
               /\ socket'[k] = "interrupted" => ended'[exec.r] = "interrupted"
    <3>1. CASE k = Len(socket) + 1
      BY <1>1, <2>3, <3>1
    <3>2. CASE k \in 1..Len(socket)
      BY <2>2, <2>3, <3>2 DEF PromptHeard
    <3> QED BY <2>3, <3>1, <3>2
  <2> QED BY <2>1, <2>3, <2>4
<1>2. CASE ~(exec.open /\ exec.r = sampling.r)
  <2>1. socket' = socket
    BY <1>2 DEF Tell
  <2>2. CASE exec.r \in Runs
    BY <2>1, <2>2 DEF PromptHeard
  <2>3. CASE exec.r = 0
    BY <2>1, <2>3 DEF PromptHeard
  <2> QED BY <2>2, <2>3, RunsAssumption DEF Runs, ExecRow
<1> QED BY <1>1, <1>2

\* The prompt ends, and the client is told before the history is written.
LEMMA ComfyEndsKeeps ==
    ASSUME PromptInv, NEW how \in {"success", "error", "interrupted"}, ComfyEnds(how)
    PROVE  PromptInv'
<1> USE RunsAssumption DEF PromptInv, RunTyped
<1> DEFINE r == sampling.r
<1>0. /\ r # 0 /\ ~sampling.told /\ UNCHANGED <<prompts, history, exec, asked, outcome>>
      /\ ended' = [ended EXCEPT ![r] = how] /\ Tell(how)
      /\ sampling' = [sampling EXCEPT !.told = TRUE]
  BY DEF ComfyEnds
<1>1. r \in Runs /\ how \in Endings /\ how # "none"
  BY <1>0 DEF Runs, Endings
<1>2. ended[r] = "none" /\ history[r] = "none"
  BY <1>0 DEF OncePerPrompt
<1>3. /\ sampling'.r = r /\ sampling'.told = TRUE
      /\ sampling' \in [r : 0..MaxRuns, stop : BOOLEAN, told : BOOLEAN]
  BY Zenon, <1>0
<1>4. /\ ended' \in [Runs -> Endings] /\ ended'[r] = how
      /\ \A q \in Runs : q # r => ended'[q] = ended[q]
  BY <1>0, <1>1
<1>5. \A q \in Runs : ended[q] = "interrupted" => ended'[q] = "interrupted"
  BY <1>2, <1>4
<1>6. /\ socket' \in Seq(Endings \cup {"idle"})
      /\ exec.pc \in {"idle", "bind", "connect"} => socket' = <<>>
      /\ \A k \in 1..Len(socket') :
            /\ socket'[k] # "none"
            /\ socket'[k] = "interrupted" => ended'[exec.r] = "interrupted"
  BY <1>0, <1>1, <1>4, <1>5, TellIs
<1>7. RunTyped'
  BY <1>0, <1>3, <1>4, <1>6
<1>8. OncePerPrompt'
  <2>1. \A k \in 1..Len(prompts) : prompts[k] \in Runs /\ prompts[k] # r
    BY DEF OncePerPrompt, Untouched
  <2>2. (\A k \in 1..Len(prompts) : Untouched(prompts[k]))'
    BY <1>0, <1>3, <1>4, <2>1 DEF OncePerPrompt, Untouched
  <2>3. (\A q \in Runs :
          q > exec.r \/ (q = exec.r /\ exec.pc \in {"bind", "connect", "submit"}) =>
              Untouched(q) /\ \A k \in 1..Len(prompts) : prompts[k] # q)'
    BY <1>0, <1>3, <1>4 DEF OncePerPrompt, Untouched
  <2> QED BY <1>0, <1>1, <1>2, <1>3, <1>4, <2>2, <2>3 DEF OncePerPrompt
<1>9. PromptHeard'
  BY <1>0, <1>1, <1>2, <1>4, <1>6 DEF PromptHeard
<1>10. ReturnedIsCompleted'
  BY <1>0, <1>2, <1>4 DEF ReturnedIsCompleted
<1> QED BY <1>7, <1>8, <1>9, <1>10

\* The history gets how the prompt ended.
LEMMA ComfyRecordsKeeps == ASSUME PromptInv, ComfyRecords PROVE PromptInv'
<1> USE RunsAssumption DEF PromptInv, RunTyped
<1> DEFINE r == sampling.r
<1>0. /\ sampling.told /\ UNCHANGED <<prompts, ended, exec, asked, outcome>>
      /\ history' = [history EXCEPT ![r] = ended[r]] /\ Tell("idle")
      /\ sampling' = [r |-> 0, stop |-> FALSE, told |-> FALSE]
  BY DEF ComfyRecords
<1>1. r # 0 /\ r \in Runs
  BY <1>0 DEF Runs, OncePerPrompt
<1>2. "idle" \in Endings \cup {"idle"} /\ "idle" # "none" /\ "idle" # "interrupted"
  OBVIOUS
<1>3. /\ socket' \in Seq(Endings \cup {"idle"})
      /\ exec.pc \in {"idle", "bind", "connect"} => socket' = <<>>
      /\ \A k \in 1..Len(socket') :
            /\ socket'[k] # "none"
            /\ socket'[k] = "interrupted" => ended'[exec.r] = "interrupted"
  BY SMTT(30), <1>0, <1>1, <1>2, TellIs
<1>4. /\ history' \in [Runs -> Endings] /\ history'[r] = ended[r]
      /\ \A q \in Runs : q # r => history'[q] = history[q]
  BY <1>0, <1>1
<1>5. /\ sampling' \in [r : 0..MaxRuns, stop : BOOLEAN, told : BOOLEAN]
      /\ sampling'.r = 0 /\ sampling'.told = FALSE
  BY <1>0
<1>6. RunTyped'
  BY <1>0, <1>3, <1>4, <1>5
<1>7. OncePerPrompt'
  <2>1. \A k \in 1..Len(prompts) : prompts[k] \in Runs /\ prompts[k] # r
    BY DEF OncePerPrompt, Untouched
  <2>0. ASSUME NEW q \in Runs, Untouched(q) PROVE Untouched(q)'
    <3>1. q # r /\ q # 0
      BY <2>0 DEF Untouched, Runs
    <3> QED BY <1>0, <1>4, <1>5, <2>0, <3>1 DEF Untouched
  <2>2. (\A k \in 1..Len(prompts) : Untouched(prompts[k]))'
    <3>1. \A k \in 1..Len(prompts) : Untouched(prompts[k])
      BY DEF OncePerPrompt
    <3> QED BY <1>0, <2>0, <2>1, <3>1
  <2>3. (\A q \in Runs :
          q > exec.r \/ (q = exec.r /\ exec.pc \in {"bind", "connect", "submit"}) =>
              Untouched(q) /\ \A k \in 1..Len(prompts) : prompts[k] # q)'
    <3>1. \A q \in Runs :
            q > exec.r \/ (q = exec.r /\ exec.pc \in {"bind", "connect", "submit"}) =>
                Untouched(q) /\ \A k \in 1..Len(prompts) : prompts[k] # q
      BY DEF OncePerPrompt
    <3> QED BY <1>0, <2>0, <3>1
  <2>4. (\A k, l \in 1..Len(prompts) : prompts[k] = prompts[l] => k = l)'
    BY <1>0 DEF OncePerPrompt
  <2> QED BY <1>5, <2>2, <2>3, <2>4 DEF OncePerPrompt
<1>8. PromptHeard'
  BY <1>0, <1>1, <1>3, <1>4 DEF PromptHeard
<1>9. ReturnedIsCompleted'
  BY <1>0 DEF ReturnedIsCompleted
<1> QED BY <1>6, <1>7, <1>8, <1>9

\* A closed socket; a restart that loses the queue and the history.
LEMMA DropsKeeps == ASSUME PromptInv, SocketDrops \/ ComfyRestarts PROVE PromptInv'
<1> USE RunsAssumption DEF PromptInv, RunTyped
<1>0. /\ exec' = [exec EXCEPT !.open = FALSE] /\ socket' = <<>> /\ UNCHANGED <<ended, asked, outcome>>
      /\ \/ UNCHANGED <<prompts, sampling, history>>
         \/ /\ prompts' = <<>>
            /\ sampling' = [r |-> 0, stop |-> FALSE, told |-> FALSE]
            /\ history' = [r \in Runs |-> "none"]
  BY DEF SocketDrops, ComfyRestarts, comfyVars
<1>1. exec' \in ExecRow /\ exec'.r = exec.r /\ exec'.pc = exec.pc /\ exec'.open = FALSE
  BY Zenon, <1>0 DEF ExecRow
<1>2. <<>> \in Seq(Runs) /\ <<>> \in Seq(Endings \cup {"idle"}) /\ Len(<<>>) = 0 /\ "none" \in Endings
  BY DEF Endings
<1>3. CASE UNCHANGED <<prompts, sampling, history>>
  <2>1. RunTyped'
    BY <1>0, <1>1, <1>2, <1>3
  <2>2. OncePerPrompt'
    BY <1>0, <1>1, <1>3, OnceStays
  <2> QED BY <1>0, <1>1, <1>3, <2>1, <2>2 DEF PromptHeard, ReturnedIsCompleted
<1>4. CASE /\ prompts' = <<>>
           /\ sampling' = [r |-> 0, stop |-> FALSE, told |-> FALSE]
           /\ history' = [r \in Runs |-> "none"]
  <2>0. /\ sampling' \in [r : 0..MaxRuns, stop : BOOLEAN, told : BOOLEAN]
        /\ sampling'.r = 0 /\ sampling'.told = FALSE
        /\ history' \in [Runs -> Endings]
    BY <1>2, <1>4
  <2>1. RunTyped'
    BY <1>0, <1>1, <1>2, <1>4, <2>0
  <2>2. 1..Len(prompts') = {} /\ 0 \notin Runs
    BY <1>2, <1>4 DEF Runs
  <2>3. OncePerPrompt'
    BY <1>0, <1>1, <1>4, <2>0, <2>2 DEF OncePerPrompt, Untouched
  <2>4. PromptHeard' /\ ReturnedIsCompleted'
    BY <1>0, <1>1, <1>4 DEF PromptHeard, ReturnedIsCompleted
  <2> QED BY <2>1, <2>3, <2>4
<1> QED BY <1>0, <1>3, <1>4

\* A late interrupt hits whatever ComfyUI runs (interrupt).
LEMMA InterruptArrivesKeeps == ASSUME PromptInv, InterruptArrives PROVE PromptInv'
<1> USE DEF PromptInv, RunTyped
<1>0. /\ UNCHANGED <<prompts, history, ended, socket, exec, asked, outcome>>
      /\ sampling' = [sampling EXCEPT !.stop = sampling.r # 0]
  BY DEF InterruptArrives
<1>1. /\ sampling' \in [r : 0..MaxRuns, stop : BOOLEAN, told : BOOLEAN]
      /\ sampling'.r = sampling.r /\ sampling'.told = sampling.told
  BY Zenon, <1>0
<1>2. OncePerPrompt'
  BY <1>0, <1>1, OnceStays
<1>3. PromptHeard'
  BY <1>0, HeardStays
<1>4. ReturnedIsCompleted'
  BY <1>0 DEF ReturnedIsCompleted
<1> QED BY <1>0, <1>1, <1>2, <1>3, <1>4

\* The consumer asks for the cancellation of the run (ExecutionContext).
LEMMA AskCancelKeeps == ASSUME PromptInv, NEW r \in Runs, AskCancel(r) PROVE PromptInv'
<1> USE DEF PromptInv, RunTyped
<1>0. /\ UNCHANGED <<prompts, sampling, history, ended, socket, exec, outcome>>
      /\ asked' = [asked EXCEPT ![r] = TRUE]
  BY DEF AskCancel, comfyVars
<1>1. OncePerPrompt'
  BY <1>0, OnceStays
<1>2. PromptHeard'
  BY <1>0, HeardStays
<1>3. ReturnedIsCompleted'
  BY <1>0 DEF ReturnedIsCompleted
<1>4. RunTyped'
  BY <1>0
<1> QED BY <1>1, <1>2, <1>3, <1>4

\* The deadline of the run passes (_wait).
LEMMA DeadlineKeeps == ASSUME PromptInv, DeadlinePasses PROVE PromptInv'
<1>0. /\ exec.pc \in {"wait", "recv", "poll"} /\ exec' = [exec EXCEPT !.expired = TRUE]
      /\ UNCHANGED <<prompts, sampling, history, ended, socket, asked, outcome>>
  BY DEF DeadlinePasses, comfyVars
<1>1. /\ exec' = [pc |-> exec.pc, r |-> exec.r, open |-> exec.open, closed |-> exec.closed,
                  expired |-> TRUE]
      /\ exec.open \in BOOLEAN /\ exec.closed \in BOOLEAN
  BY Zenon, <1>0 DEF PromptInv, RunTyped, ExecRow
<1> QED BY Zenon, <1>0, <1>1, GoesOn

\* Every step keeps the invariant (ComfyUIExecutor.execute).
LEMMA PromptNextKeeps == PromptInv /\ [RunNext]_runVars => PromptInv'
<1> SUFFICES ASSUME PromptInv, [RunNext]_runVars PROVE PromptInv'
  OBVIOUS
<1>1. CASE UNCHANGED runVars
  <2>0. UNCHANGED <<prompts, sampling, history, ended, socket, exec, asked, outcome>>
    BY <1>1 DEF runVars
  <2>1. RunTyped'
    BY <2>0 DEF PromptInv, RunTyped
  <2>2. OncePerPrompt'
    BY <2>0, OnceStays DEF PromptInv
  <2>3. PromptHeard'
    BY <2>0, HeardStays DEF PromptInv
  <2>4. ReturnedIsCompleted'
    BY <2>0 DEF PromptInv, ReturnedIsCompleted
  <2> QED BY <2>1, <2>2, <2>3, <2>4 DEF PromptInv
<1>2. CASE RunNext
  BY <1>2, BeginExecuteKeeps, BindConnectKeeps, SubmitKeeps, WaitTurnKeeps, ReceiveKeeps,
     PollCollectKeeps, ComfyStartsKeeps, ComfyRecordsKeeps, DropsKeeps, InterruptArrivesKeeps,
     ComfyEndsKeeps, AskCancelKeeps, DeadlineKeeps, ZenonT(30) DEF RunNext
<1> QED BY <1>1, <1>2

\* A prompt is in one place at a time, and what the client hears of it is how it
\* ended (ComfyUIExecutor.execute).
THEOREM PromptInvariant == PromptSpec => []PromptInv
  BY PromptStarts, PromptNextKeeps, PTL DEF PromptSpec

\* Outputs are returned only of a prompt that ran to its end, and a run is called
\* cancelled only if it was cancelled or its own prompt was interrupted, for
\* itself or by an earlier run's late interrupt (_wait, _history_failure,
\* _collect_outputs).
THEOREM ReturnsAreCompleted == PromptSpec => []ReturnedIsCompleted
<1>1. PromptInv => ReturnedIsCompleted
  BY DEF PromptInv
<1> QED BY <1>1, PromptInvariant, PTL
=============================================================================
