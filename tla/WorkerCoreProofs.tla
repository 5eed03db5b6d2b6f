-------------------------- MODULE WorkerCoreProofs --------------------------
(***************************************************************************)
(* Proofs about a Worker process and its upload journal: no attempt is     *)
(* executed twice, a published manifest is durable, and no durable result  *)
(* is dropped while its lease is valid unless the Gateway rejects a call    *)
(* for it, for any number of attempts, outputs, lost calls and crashes.    *)
(***************************************************************************)
EXTENDS WorkerCore, TLAPS

CoreSpec == CoreInit /\ [][CoreNext]_coreVars

-----------------------------------------------------------------------------
(* The inductive invariant *)

AttemptRow == [state : {"none", "leased", "running", "succeeded", "failed", "cancelled",
                        "expired"},
               lease : {"none", "live", "lapsed", "released"}]

Directory == [files : [Outputs -> {"none", "volatile", "durable", "torn"}],
              manifest : BOOLEAN, pending : SUBSET Outputs, temp : BOOLEAN]

Between == {"down", "loop", "poll"}
Unexecuted == {"prepare", "download", "start"}
Unjournaled == {"poll", "prepare", "download", "start", "execute", "encrypt"}
Saving == {"sync", "write", "publish"}
Resuming == {"reconnect", "renew", "upload"}
Dropping == {"discard", "unlink"}

Places == Between \cup Unjournaled \cup Saving \cup Resuming \cup Dropping
             \cup {"complete", "fail"}

\* What the process holds: the type of wk.
Memory == [pc : Places, mode : {"none", "process", "resume"}, a : Nat,
           todo : SUBSET Outputs, remaining : SUBSET Outputs,
           journaled : BOOLEAN, cancelled : BOOLEAN,
           error : {"none", "lost", "unavailable", "rejected"},
           report : {"none", "failed", "cancelled"}, then : {"loop", "fail", "reject"},
           polled : Nat]

\* The rows of the Gateway and the directories of the spool, by themselves.
RowGood(r, x, d, stored, c) ==
    /\ x <= 1 /\ (r.state = "none" => x = 0)
    /\ d.manifest => /\ r.state # "none"
                     /\ \A o \in Outputs : d.files[o] \in {"durable", "none"}
                     /\ Outputs \ d.pending \subseteq stored
    /\ r.lease = "live" => r.state \in LiveStates
    /\ r.state = "cancelled" => c

Typed ==
    /\ att \in [Attempts -> AttemptRow]
    /\ executed \in [Attempts -> Nat]
    /\ disk \in [Attempts -> Directory]
    /\ objects \in [Attempts -> SUBSET Outputs]
    /\ cancelRequested \in BOOLEAN
    /\ wk \in Memory

Rows == \A a \in Attempts :
            RowGood(att[a], executed[a], disk[a], objects[a], cancelRequested)

\* What the process knows: an unanswered lease request, the attempt it is at.
Engaged(w, A, X) ==
    /\ w.polled # 0 => /\ w.polled \in Attempts
                       /\ A[w.polled].state # "none" /\ X[w.polled] = 0
    /\ w.pc \notin Between => w.a \in Attempts /\ A[w.a].state # "none"
    /\ w.pc \in Unexecuted => X[w.a] = 0 /\ w.polled = 0

\* Where it is with the attempt's directory, and with the outputs in the store.
Journals(w, D, O) ==
    /\ w.pc \in Unjournaled => \A a \in Attempts : ~D[a].manifest
    /\ w.pc \in {"write", "publish"} => \A o \in Outputs : D[w.a].files[o] = "durable"
    /\ w.pc \in Saving => Outputs \ w.remaining \subseteq O[w.a]
    /\ w.pc \in Resuming => Outputs \ w.todo \subseteq O[w.a]
    /\ w.pc = "complete" => Outputs \subseteq O[w.a]

\* What its flags and its plans mean.
Informed(w, A, c) ==
    /\ w.error = "lost" => w.pc \notin Between /\ A[w.a].lease # "live"
    /\ w.cancelled /\ w.error = "none" => c
    /\ w.pc \in Dropping => /\ w.then = "loop" => A[w.a].lease # "live"
                            /\ w.then = "fail" => w.report # "none"
                            /\ w.report = "cancelled" => c
    /\ w.pc = "fail" => w.report # "none"

Good(w, A, X, D, O, c) ==
    w \in Memory /\ Engaged(w, A, X) /\ Journals(w, D, O) /\ Informed(w, A, c)

WInv == Typed /\ Rows /\ Good(wk, att, executed, disk, objects, cancelRequested)

-----------------------------------------------------------------------------
(* The moves of the process *)

\* Every way back to the loop forgets all but an unanswered lease request.
LEMMA LoopRow ==
    ASSUME NEW w \in Memory
    PROVE  /\ Loop(w) \in Memory /\ Loop(w).pc = "loop" /\ Loop(w).polled = w.polled
           /\ Loop(w).error = "none" /\ Loop(w).cancelled = FALSE
  BY DEF Loop, Fresh, Memory, Places, Between

LEMMA LoopGood ==
    ASSUME NEW w, NEW A, NEW X, NEW D, NEW O, NEW c, w \in Memory, Engaged(w, A, X)
    PROVE  Good(Loop(w), A, X, D, O, c)
<1> DEFINE x == Loop(w)
<1>1. /\ x \in Memory /\ x.pc = "loop" /\ x.polled = w.polled
      /\ x.error = "none" /\ x.cancelled = FALSE
  BY Zenon, LoopRow
<1> HIDE DEF x
<1>2. Engaged(x, A, X)
  BY <1>1 DEF Engaged, Between, Unexecuted
<1>3. Journals(x, D, O)
  BY <1>1 DEF Journals, Unjournaled, Saving, Resuming
<1>4. Informed(x, A, c)
  BY <1>1 DEF Informed, Dropping
<1> QED BY <1>1, <1>2, <1>3, <1>4 DEF Good, x

\* The flags of a process that stays with its attempt.
SameFlags(w, x) ==
    x.a = w.a /\ x.polled = w.polled /\ x.error = w.error /\ x.cancelled = w.cancelled

\* A failure is reported next.
LEMMA FailRow ==
    ASSUME NEW w \in Memory, NEW r \in {"failed", "cancelled"}
    PROVE  /\ Fail(w, r) \in Memory /\ Fail(w, r).pc = "fail"
           /\ SameFlags(w, Fail(w, r)) /\ Fail(w, r).report = r
  BY Zenon DEF Fail, Memory, Places, SameFlags

LEMMA FailGood ==
    ASSUME NEW w, NEW A, NEW X, NEW D, NEW O, NEW c, w \in Memory, Engaged(w, A, X),
           w.pc \notin Between, Informed(w, A, c), NEW r \in {"failed", "cancelled"}
    PROVE  Good(Fail(w, r), A, X, D, O, c)
<1> DEFINE x == Fail(w, r)
<1>1. x \in Memory /\ x.pc = "fail" /\ SameFlags(w, x) /\ x.report = r
  BY FailRow
<1> HIDE DEF x
<1>2. Engaged(x, A, X)
  BY <1>1 DEF Engaged, Between, Unexecuted, SameFlags
<1>3. Journals(x, D, O)
  BY <1>1 DEF Journals, Unjournaled, Saving, Resuming
<1>4. Informed(x, A, c)
  BY <1>1 DEF Informed, Dropping, Between, SameFlags
<1> QED BY <1>1, <1>2, <1>3, <1>4 DEF Good, x

\* The spooled result is given up, for a reason.
LEMMA DiscardRow ==
    ASSUME NEW w \in Memory, NEW t \in {"loop", "fail", "reject"},
           NEW r \in {"none", "failed", "cancelled"}
    PROVE  LET x == Discard(w, t, r) IN
           /\ x \in Memory /\ x.pc = "discard" /\ SameFlags(w, x)
           /\ x.then = t /\ x.report = r
  BY Zenon DEF Discard, Memory, Places, SameFlags, Dropping

LEMMA DiscardGood ==
    ASSUME NEW w, NEW A, NEW X, NEW D, NEW O, NEW c, w \in Memory, Engaged(w, A, X),
           w.pc \notin Between, Informed(w, A, c),
           NEW t \in {"loop", "fail", "reject"}, NEW r \in {"none", "failed", "cancelled"},
           t = "loop" => A[w.a].lease # "live", t = "fail" => r # "none",
           r = "cancelled" => c
    PROVE  Good(Discard(w, t, r), A, X, D, O, c)
<1> DEFINE x == Discard(w, t, r)
<1>1. /\ x \in Memory /\ x.pc = "discard" /\ SameFlags(w, x)
      /\ x.then = t /\ x.report = r
  BY DiscardRow
<1> HIDE DEF x
<1>2. Engaged(x, A, X)
  BY <1>1 DEF Engaged, Between, Unexecuted, SameFlags
<1>3. Journals(x, D, O)
  BY <1>1 DEF Journals, Unjournaled, Saving, Resuming
<1>4. Informed(x, A, c)
  BY <1>1 DEF Informed, Dropping, Between, SameFlags
<1> QED BY <1>1, <1>2, <1>3, <1>4 DEF Good, x

\* What the keeper remembers is an error.
LEMMA MemoryErrors ==
    ASSUME NEW w \in Memory
    PROVE  w.error # "none" => w.error \in Errors
  BY DEF Memory, Errors, Faults

\* A result is given up on an error only when the lease is over, or rejected.
LEMMA RaiseGood ==
    ASSUME NEW w, NEW A, NEW X, NEW D, NEW O, NEW c, w \in Memory, Engaged(w, A, X),
           w.pc \notin Between, Informed(w, A, c), NEW e \in Errors,
           e = "lost" => A[w.a].lease # "live"
    PROVE  Good(RaiseError(w, e), A, X, D, O, c)
<1>1. Good(Loop(w), A, X, D, O, c)
  BY LoopGood
<1>2. ASSUME e = "lost" PROVE Good(Discard(w, "loop", "none"), A, X, D, O, c)
  BY <1>2, DiscardGood
<1>3. Good(Discard(w, "reject", "none"), A, X, D, O, c)
  BY DiscardGood
<1>4. e = "unavailable" \/ e = "lost" \/ e = "rejected"
  BY DEF Errors, Faults
<1> QED BY <1>1, <1>2, <1>3, <1>4 DEF RaiseError

-----------------------------------------------------------------------------
(* The tables change under it *)

\* A lease that is over stays over.
Advances(A, B) ==
    \A a \in Attempts : A[a].state # "none" =>
        B[a].state # "none" /\ (B[a].lease = "live" => A[a].lease = "live")

LEMMA AdvanceGood ==
    ASSUME NEW w, NEW A, NEW B, NEW X, NEW D, NEW O, NEW c, NEW e,
           Good(w, A, X, D, O, c), Advances(A, B), c => e
    PROVE  Good(w, B, X, D, O, e)
<1>1. Engaged(w, B, X)
  BY DEF Good, Engaged, Advances
<1>2. Informed(w, B, e)
  <2>1. w.pc \notin Between => (A[w.a].lease # "live" => B[w.a].lease # "live")
    BY DEF Good, Engaged, Advances
  <2>2. w.pc \in Dropping => w.pc \notin Between
    BY DEF Dropping, Between
  <2> QED BY <2>1, <2>2 DEF Good, Informed
<1> QED BY <1>1, <1>2 DEF Good

\* A step of the process alone.
LEMMA ProcessAlone ==
    ASSUME WInv, UNCHANGED <<att, executed, disk, objects, cancelRequested>>,
           Good(wk', att, executed, disk, objects, cancelRequested)
    PROVE  WInv'
  BY DEF WInv, Typed, Rows, Good

-----------------------------------------------------------------------------
(* Moving on, and hearing of the Gateway *)

\* Everything but pc and the flags stays.
SamePlan(w, x) ==
    x.todo = w.todo /\ x.remaining = w.remaining /\ x.then = w.then /\ x.report = w.report

LEMMA MoveRow ==
    ASSUME NEW w \in Memory, NEW q \in Places
    PROVE  LET x == [w EXCEPT !.pc = q] IN
           x \in Memory /\ x.pc = q /\ SameFlags(w, x) /\ SamePlan(w, x)
  BY DEF Memory, Places, SameFlags, SamePlan

\* Places the process may go to without having done anything else.
Follows(p, q) ==
    /\ p \notin Between /\ q \in Unjournaled \cup Resuming /\ q \notin Between
    /\ q \in Unexecuted => p \in Unexecuted
    /\ q \in Unjournaled => p \in Unjournaled
    /\ q \in Resuming => p \in Resuming

LEMMA MoveGood ==
    ASSUME NEW w, NEW A, NEW X, NEW D, NEW O, NEW c, Good(w, A, X, D, O, c),
           NEW q, Follows(w.pc, q)
    PROVE  Good([w EXCEPT !.pc = q], A, X, D, O, c)
<1> DEFINE x == [w EXCEPT !.pc = q]
<1>1. q \in Places /\ w \in Memory
  BY DEF Follows, Places, Good
<1>2. x \in Memory /\ x.pc = q /\ SameFlags(w, x) /\ SamePlan(w, x)
  BY <1>1, MoveRow
<1> HIDE DEF x
<1>3. Engaged(x, A, X)
  BY <1>2 DEF Engaged, Good, SameFlags, Follows
<1>4. Journals(x, D, O)
  BY <1>2 DEF Journals, Good, SameFlags, SamePlan, Follows, Saving, Resuming, Unjournaled
<1>5. Informed(x, A, c)
  BY <1>2 DEF Informed, Good, SameFlags, Follows, Dropping, Unjournaled, Resuming
<1> QED BY <1>2, <1>3, <1>4, <1>5 DEF Good, x

AllAnswers == {"ok", "cancelled"} \cup Errors

\* What a heartbeat's answer says of the Gateway.
LEMMA AnswerFacts ==
    ASSUME NEW a, NEW answer \in Answers(a)
    PROVE  /\ answer \in AllAnswers
           /\ answer = "lost" => att[a].lease # "live"
           /\ answer = "cancelled" => cancelRequested
  BY DEF Answers, AttemptHeartbeat, LeaseValid, AllAnswers, Errors, Faults

LEMMA DirectedRow ==
    ASSUME NEW w \in Memory, NEW answer
    PROVE  LET x == Directed(w, answer) IN
           /\ x \in Memory /\ x.pc = w.pc /\ x.a = w.a /\ x.polled = w.polled
           /\ x.error = w.error /\ SamePlan(w, x)
           /\ x.cancelled => w.cancelled \/ answer = "cancelled"
  BY Zenon DEF Directed, Memory, Places, SamePlan

LEMMA DirectedGood ==
    ASSUME NEW w, NEW A, NEW X, NEW D, NEW O, NEW c, Good(w, A, X, D, O, c),
           NEW answer, answer = "cancelled" => c
    PROVE  Good(Directed(w, answer), A, X, D, O, c)
<1> DEFINE x == Directed(w, answer)
<1>1. /\ x \in Memory /\ x.pc = w.pc /\ x.a = w.a /\ x.polled = w.polled
      /\ x.error = w.error /\ SamePlan(w, x)
      /\ x.cancelled => w.cancelled \/ answer = "cancelled"
  BY DirectedRow DEF Good
<1> HIDE DEF x
<1>2. Engaged(x, A, X)
  BY <1>1 DEF Engaged, Good
<1>3. Journals(x, D, O)
  BY <1>1 DEF Journals, Good, SamePlan
<1>4. Informed(x, A, c)
  BY <1>1 DEF Informed, Good, SamePlan
<1> QED BY <1>1, <1>2, <1>3, <1>4 DEF Good, x

LEMMA HeardGood ==
    ASSUME NEW w, NEW A, NEW X, NEW D, NEW O, NEW c, Good(w, A, X, D, O, c),
           NEW answer, answer = "cancelled" => c,
           answer = "lost" => A[w.a].lease # "live",
           NEW q, Follows(w.pc, q)
    PROVE  Good(Heard(w, answer, q), A, X, D, O, c)
<1>1. w.pc \notin Between /\ w \in Memory /\ Engaged(w, A, X) /\ Informed(w, A, c)
  BY DEF Follows, Good
<1>2. w.error = "lost" => A[w.a].lease # "live"
  BY <1>1 DEF Informed
<1>e. w.error # "none" => w.error \in Errors
  BY <1>1, MemoryErrors
<1>3. w.error # "none" => Good(RaiseError(w, w.error), A, X, D, O, c)
  BY <1>1, <1>2, <1>e, RaiseGood
<1>4. answer \in Errors => Good(RaiseError(w, answer), A, X, D, O, c)
  BY <1>1, RaiseGood
<1> DEFINE x == Directed(w, answer)
<1>5. Good(x, A, X, D, O, c) /\ x.pc = w.pc
  BY <1>1, DirectedGood, DirectedRow
<1> HIDE DEF x
<1>6. Good([x EXCEPT !.pc = q], A, X, D, O, c)
  BY <1>5, MoveGood
<1> QED BY <1>3, <1>4, <1>6 DEF Heard, x

-----------------------------------------------------------------------------
(* The serve loop *)

LEMMA FreshGood ==
    ASSUME NEW A, NEW X, NEW D, NEW O, NEW c
    PROVE  Good(Fresh(0), A, X, D, O, c) /\ Good([Fresh(0) EXCEPT !.pc = "down"], A, X, D, O, c)
<1> DEFINE x == Fresh(0)
           y == [Fresh(0) EXCEPT !.pc = "down"]
<1>1. /\ x \in Memory /\ x.pc = "loop" /\ x.polled = 0 /\ x.error = "none" /\ ~x.cancelled
      /\ y \in Memory /\ y.pc = "down" /\ y.polled = 0 /\ y.error = "none" /\ ~y.cancelled
  BY Zenon DEF Fresh, Memory, Places, Between
<1> HIDE DEF x, y
<1>2. Engaged(x, A, X) /\ Engaged(y, A, X)
  BY <1>1 DEF Engaged, Between, Unexecuted
<1>3. Journals(x, D, O) /\ Journals(y, D, O)
  BY <1>1 DEF Journals, Unjournaled, Saving, Resuming
<1>4. Informed(x, A, c) /\ Informed(y, A, c)
  BY <1>1 DEF Informed, Dropping
<1> QED BY <1>1, <1>2, <1>3, <1>4 DEF Good, x, y

LEMMA NoDirectoryRow ==
    /\ NoDirectory \in Directory /\ ~NoDirectory.manifest
    /\ NoDirectory.pending = {} /\ ~NoDirectory.temp
    /\ \A o \in Outputs : NoDirectory.files[o] = "none"
  BY DEF NoDirectory, Directory

LEMMA InitHolds == CoreInit => WInv
<1> SUFFICES ASSUME CoreInit PROVE WInv
  OBVIOUS
<1>1. Good(wk, att, executed, disk, objects, cancelRequested)
  BY SMTT(30), FreshGood DEF CoreInit
<1>2. Typed
  BY Zenon, <1>1, NoDirectoryRow DEF CoreInit, Typed, Good, AttemptRow
<1>3. Rows
  BY NoDirectoryRow DEF CoreInit, Rows, RowGood
<1> QED BY <1>1, <1>2, <1>3 DEF WInv

LEMMA StartKeeps == WInv /\ Start => WInv'
  BY FreshGood, ProcessAlone DEF Start, gateway

\* What is left in the spool loads, or is empty.
LEMMA ScannedRows ==
    ASSUME Typed, Rows, disk' = Scanned, UNCHANGED <<gateway, executed>>
    PROVE  /\ disk' \in [Attempts -> Directory] /\ Rows'
           /\ \A a \in Attempts : Loadable(disk[a]) => disk'[a] = disk[a]
           /\ \A a \in Attempts : ~Loadable(disk[a]) => ~disk'[a].manifest
<1>1. \A a \in Attempts : disk'[a] = IF Loadable(disk[a]) THEN disk[a] ELSE NoDirectory
  BY DEF Scanned
<1>2. disk' \in [Attempts -> Directory]
  BY NoDirectoryRow DEF Scanned, Typed
<1>3. Rows'
  BY <1>1, NoDirectoryRow DEF Rows, RowGood, gateway
<1> QED BY <1>1, <1>2, <1>3, NoDirectoryRow

LEMMA ResumedRow ==
    ASSUME wk \in Memory, NEW a \in Nat, disk[a].pending \in SUBSET Outputs
    PROVE  LET x == ResumedWith(a) IN
           /\ x \in Memory /\ x.pc = "reconnect" /\ x.a = a /\ x.polled = wk.polled
           /\ x.todo = disk[a].pending /\ x.error = "none" /\ ~x.cancelled
  BY ZenonT(30) DEF ResumedWith, Loop, Fresh, Memory, Places, Resuming

LEMMA ScanKeeps == WInv /\ Scan => WInv'
<1> SUFFICES ASSUME WInv, Scan PROVE WInv'
  OBVIOUS
<1>1. /\ Typed /\ Rows /\ Good(wk, att, executed, disk, objects, cancelRequested)
      /\ disk' = Scanned /\ UNCHANGED <<gateway, executed>> /\ wk.pc = "loop"
      /\ wk \in Memory
  BY DEF WInv, Scan, Good
<1>2. /\ disk' \in [Attempts -> Directory] /\ Rows'
      /\ \A a \in Attempts : Loadable(disk[a]) => disk'[a] = disk[a]
      /\ \A a \in Attempts : ~Loadable(disk[a]) => ~disk'[a].manifest
  BY <1>1, ScannedRows
<1>3. ASSUME NEW a \in PendingResults, wk' = ResumedWith(a)
      PROVE  Good(wk', att, executed, disk', objects, cancelRequested)
  <2>1. a \in Attempts /\ a \in Nat /\ disk[a].manifest /\ disk[a] \in Directory
    BY <1>1, <1>3 DEF PendingResults, Loadable, Typed, Attempts
  <2>2. disk[a].pending \in SUBSET Outputs
    BY <2>1 DEF Directory
  <2>3. /\ wk' \in Memory /\ wk'.pc = "reconnect" /\ wk'.a = a /\ wk'.polled = wk.polled
        /\ wk'.todo = disk[a].pending /\ wk'.error = "none" /\ ~wk'.cancelled
    BY <1>1, <1>3, <2>1, <2>2, ResumedRow
  <2>4. att[a].state # "none" /\ Outputs \ disk[a].pending \subseteq objects[a]
    BY <1>1, <2>1 DEF Rows, RowGood
  <2>5. Engaged(wk', att, executed)
    BY <1>1, <2>1, <2>3, <2>4 DEF Good, Engaged, Unexecuted
  <2>6. Journals(wk', disk', objects)
    BY <2>3, <2>4 DEF Journals, Unjournaled, Saving, Resuming
  <2>7. Informed(wk', att, cancelRequested)
    BY <2>3 DEF Informed, Dropping
  <2> QED BY <2>3, <2>5, <2>6, <2>7 DEF Good
<1>4. ASSUME PendingResults = {}, wk' = [wk EXCEPT !.pc = "poll"]
      PROVE  Good(wk', att, executed, disk', objects, cancelRequested)
  <2>1. \A a \in Attempts : ~disk'[a].manifest
    BY <1>2, <1>4 DEF PendingResults
  <2>2. wk' \in Memory /\ wk'.pc = "poll" /\ SameFlags(wk, wk')
    BY <1>1, <1>4, MoveRow DEF Places, Between
  <2>3. Engaged(wk', att, executed)
    BY <1>1, <2>2 DEF Good, Engaged, Unexecuted, Between, SameFlags
  <2>4. Journals(wk', disk', objects)
    BY <2>1, <2>2 DEF Journals, Saving, Resuming
  <2>5. Informed(wk', att, cancelRequested)
    BY <1>1, <2>2 DEF Good, Informed, Dropping, Between, SameFlags
  <2> QED BY <2>2, <2>3, <2>4, <2>5 DEF Good
<1>5. Good(wk', att, executed, disk', objects, cancelRequested)
  BY <1>3, <1>4 DEF Scan
<1>6. Typed'
  BY <1>1, <1>2, <1>5 DEF Typed, Good, gateway
<1> QED BY <1>1, <1>2, <1>5, <1>6 DEF WInv, gateway

LEMMA ProcessRow ==
    ASSUME wk \in Memory, NEW a \in Nat
    PROVE  LET x == Process(a) IN
           /\ x \in Memory /\ x.pc = "prepare" /\ x.a = a /\ x.polled = 0
           /\ x.error = "none" /\ ~x.cancelled
  BY ZenonT(30) DEF Process, Loop, Fresh, Memory, Places, Unjournaled

\* A leased attempt is begun when nothing is in the spool.
LEMMA ProcessGood ==
    ASSUME wk \in Memory, NEW a \in Attempts, NEW A, A[a].state # "none", executed[a] = 0,
           \A i \in Attempts : ~disk[i].manifest
    PROVE  Good(Process(a), A, executed, disk, objects, cancelRequested)
<1> DEFINE x == Process(a)
<1>1. /\ x \in Memory /\ x.pc = "prepare" /\ x.a = a /\ x.polled = 0
      /\ x.error = "none" /\ ~x.cancelled
  BY ProcessRow DEF Attempts
<1> HIDE DEF x
<1>2. Engaged(x, A, executed)
  BY <1>1 DEF Engaged
<1>3. Journals(x, disk, objects)
  BY <1>1 DEF Journals, Saving, Resuming
<1>4. Informed(x, A, cancelRequested)
  BY <1>1 DEF Informed, Dropping
<1> QED BY <1>1, <1>2, <1>3, <1>4 DEF Good, x

\* The answer to a granted lease is lost.
LEMMA UnansweredGood ==
    ASSUME wk \in Memory, NEW a \in Attempts, NEW A, A[a].state # "none", executed[a] = 0
    PROVE  Good([Loop(wk) EXCEPT !.polled = a], A, executed, disk, objects, cancelRequested)
<1> DEFINE y == Loop(wk)
           x == [Loop(wk) EXCEPT !.polled = a]
<1>0. y \in Memory /\ y.pc = "loop" /\ y.error = "none" /\ y.cancelled = FALSE
  BY Zenon, LoopRow
<1>y. x = [y EXCEPT !.polled = a] /\ a \in Nat
  BY DEF Attempts
<1> HIDE DEF y, x
<1>1. /\ x \in Memory /\ x.pc = "loop" /\ x.polled = a
      /\ x.error = "none" /\ ~x.cancelled
  BY <1>0, <1>y DEF Memory, Places
<1> HIDE DEF x
<1>2. Engaged(x, A, executed)
  BY <1>1 DEF Engaged, Between, Unexecuted
<1>3. Journals(x, disk, objects)
  BY <1>1 DEF Journals, Unjournaled, Saving, Resuming
<1>4. Informed(x, A, cancelRequested)
  BY <1>1 DEF Informed, Dropping
<1> QED BY <1>1, <1>2, <1>3, <1>4 DEF Good, x

\* One row of task_attempts and leases is written.
LEMMA AttemptWritten ==
    ASSUME Typed, Rows, UNCHANGED <<executed, disk, objects, cancelRequested>>,
           NEW a \in Attempts, NEW r \in AttemptRow, att' = [att EXCEPT ![a] = r],
           r.state # "none", r.lease = "live" => r.state \in LiveStates,
           r.state = "cancelled" => cancelRequested
    PROVE  att' \in [Attempts -> AttemptRow] /\ Rows' /\ att'[a] = r
<1>1. att' \in [Attempts -> AttemptRow] /\ att'[a] = r
      /\ \A i \in Attempts : i # a => att'[i] = att[i]
  BY DEF Typed
<1>2. ASSUME NEW i \in Attempts
      PROVE  RowGood(att'[i], executed[i], disk[i], objects[i], cancelRequested)
  BY <1>1 DEF Rows, RowGood
<1> QED BY <1>1, <1>2 DEF Rows

\* The other tables are as they were.
LEMMA Together ==
    ASSUME Typed, att' \in [Attempts -> AttemptRow], Rows',
           UNCHANGED <<executed, disk, objects, cancelRequested>>,
           Good(wk', att', executed, disk, objects, cancelRequested)
    PROVE  WInv'
  BY DEF WInv, Typed, Good

LEMMA PollLeaseKeeps == WInv /\ PollLease => WInv'
<1> SUFFICES ASSUME WInv, PollLease PROVE WInv'
  OBVIOUS
<1>1. /\ Typed /\ Rows /\ Engaged(wk, att, executed) /\ wk \in Memory
      /\ UNCHANGED <<executed, disk, objects, cancelRequested>>
  BY DEF WInv, Good, PollLease
<1>2. \A i \in Attempts : ~disk[i].manifest
  BY DEF WInv, Good, Journals, PollLease, Unjournaled
<1>3. CASE wk.polled # 0 /\ wk' = Process(wk.polled) /\ UNCHANGED <<att, art, callFaults>>
  <2>1. wk.polled \in Attempts /\ att[wk.polled].state # "none" /\ executed[wk.polled] = 0
    BY <1>1, <1>3 DEF Engaged
  <2>2. Good(wk', att, executed, disk, objects, cancelRequested)
    BY <1>1, <1>2, <1>3, <2>1, ProcessGood
  <2> QED BY <1>1, <1>3, <2>2, ProcessAlone
<1>4. ASSUME NEW a \in Attempts, Offered(a),
             att' = [att EXCEPT ![a] = [state |-> "leased", lease |-> "live"]],
             wk' = Process(a) \/ wk' = [Loop(wk) EXCEPT !.polled = a]
      PROVE  WInv'
  <2> DEFINE r == [state |-> "leased", lease |-> "live"]
  <2>1. r \in AttemptRow /\ r.state = "leased" /\ r.lease = "live" /\ r.state \in LiveStates
    BY DEF AttemptRow, LiveStates
  <2>2. att' = [att EXCEPT ![a] = r]
    BY <1>4
  <2> HIDE DEF r
  <2>3. att' \in [Attempts -> AttemptRow] /\ Rows' /\ att'[a] = r
    BY Zenon, <1>1, <2>1, <2>2, AttemptWritten
  <2>4. executed[a] = 0
    BY <1>1, <1>4 DEF Offered, Rows, RowGood
  <2>5. Good(wk', att', executed, disk, objects, cancelRequested)
    BY ZenonT(30), <1>1, <1>2, <1>4, <2>1, <2>3, <2>4, ProcessGood, UnansweredGood
  <2> QED BY <1>1, <2>3, <2>5, Together
<1>5. CASE wk' = Loop(wk) /\ UNCHANGED <<att, art, callFaults>>
  <2>1. Good(wk', att, executed, disk, objects, cancelRequested)
    BY <1>1, <1>5, LoopGood
  <2> QED BY <1>1, <1>5, <2>1, ProcessAlone
<1>6. CASE wk.polled # 0 /\ wk' = ReplayedLease(wk.polled) /\ UNCHANGED <<att, art, callFaults>>
  BY <1>3, <1>5, <1>6 DEF ReplayedLease
<1> QED BY <1>4, <1>5, <1>6 DEF PollLease

\* A Worker that forgets the lease it never heard of is between two calls.
LEMMA RefreshSessionKeeps == WInv /\ RefreshSession => WInv'
<1> SUFFICES ASSUME WInv, RefreshSession PROVE WInv'
  OBVIOUS
<1>1. /\ Typed /\ Rows /\ wk \in Memory /\ wk.pc = "poll"
      /\ UNCHANGED <<att, art, executed, disk, objects, cancelRequested>>
      /\ wk' = [wk EXCEPT !.polled = 0]
      /\ Engaged(wk, att, executed) /\ Journals(wk, disk, objects)
      /\ Informed(wk, att, cancelRequested)
  BY DEF WInv, Good, RefreshSession, gateway
<1> DEFINE x == [wk EXCEPT !.polled = 0]
<1>2. /\ x \in Memory /\ x.pc = wk.pc /\ x.a = wk.a /\ x.polled = 0 /\ x.error = wk.error
      /\ x.cancelled = wk.cancelled /\ x.todo = wk.todo /\ x.remaining = wk.remaining
      /\ x.then = wk.then /\ x.report = wk.report /\ x.journaled = wk.journaled
      /\ x.mode = wk.mode
  BY <1>1 DEF Memory
<1> HIDE DEF x
<1>3. Engaged(x, att, executed)
  BY <1>1, <1>2 DEF Engaged
<1>4. Journals(x, disk, objects)
  BY <1>1, <1>2 DEF Journals
<1>5. Informed(x, att, cancelRequested)
  BY <1>1, <1>2 DEF Informed
<1>6. Good(wk', att, executed, disk, objects, cancelRequested)
  BY <1>1, <1>2, <1>3, <1>4, <1>5 DEF Good, x
<1> QED BY <1>1, <1>6, ProcessAlone

-----------------------------------------------------------------------------
(* process: from the lease to the executed result *)

\* What the other lemmas about the process need to know of the state.
LEMMA AtAttempt ==
    ASSUME WInv, wk.pc \notin Between
    PROVE  /\ wk \in Memory /\ Typed /\ Rows /\ Engaged(wk, att, executed)
           /\ Journals(wk, disk, objects) /\ Informed(wk, att, cancelRequested)
           /\ wk.a \in Attempts /\ att[wk.a].state # "none" /\ wk.a \in Nat
           /\ att[wk.a] \in AttemptRow /\ disk[wk.a] \in Directory
           /\ objects[wk.a] \in SUBSET Outputs
           /\ Good(wk, att, executed, disk, objects, cancelRequested)
  BY DEF WInv, Good, Engaged, Typed, Attempts

\* The process reports a failure or goes back to the loop.
LEMMA LeavesGood ==
    ASSUME WInv, wk.pc \notin Between
    PROVE  /\ Good(Loop(wk), att, executed, disk, objects, cancelRequested)
           /\ Good(Fail(wk, "failed"), att, executed, disk, objects, cancelRequested)
           /\ Good(Fail(wk, "cancelled"), att, executed, disk, objects, cancelRequested)
           /\ wk.error # "none" =>
                 Good(RaiseError(wk, wk.error), att, executed, disk, objects, cancelRequested)
<1>1. /\ wk \in Memory /\ Engaged(wk, att, executed) /\ Informed(wk, att, cancelRequested)
  BY AtAttempt
<1>2. wk.error = "lost" => att[wk.a].lease # "live"
  BY <1>1 DEF Informed
<1>3. Good(Loop(wk), att, executed, disk, objects, cancelRequested)
  BY <1>1, LoopGood
<1>4. \A r \in {"failed", "cancelled"} :
          Good(Fail(wk, r), att, executed, disk, objects, cancelRequested)
  BY <1>1, FailGood
<1>5. wk.error # "none" =>
         Good(RaiseError(wk, wk.error), att, executed, disk, objects, cancelRequested)
  BY <1>1, <1>2, MemoryErrors, RaiseGood
<1> QED BY <1>3, <1>4, <1>5

LEMMA HearsGood ==
    ASSUME WInv, NEW q, Follows(wk.pc, q), NEW answer \in Answers(wk.a)
    PROVE  Good(Heard(wk, answer, q), att, executed, disk, objects, cancelRequested)
  BY AnswerFacts, HeardGood DEF WInv

LEMMA RefuseKeeps == WInv /\ Refuse => WInv'
<1> SUFFICES ASSUME WInv, Refuse PROVE WInv'
  OBVIOUS
<1>1. wk.pc \notin Between
  BY DEF Refuse, Between
<1> QED BY <1>1, LeavesGood, ProcessAlone DEF Refuse, Unmaterialized, gateway

LEMMA PrepareKeeps == WInv /\ Prepare => WInv'
<1> SUFFICES ASSUME WInv, Prepare PROVE WInv'
  OBVIOUS
<1>1. Follows(wk.pc, "download")
  BY DEF Prepare, Follows, Between, Unexecuted, Unjournaled, Resuming
<1>2. Good(wk', att, executed, disk, objects, cancelRequested)
  BY <1>1, HearsGood DEF Prepare
<1> QED BY <1>2, ProcessAlone DEF Prepare, gateway

LEMMA ReportKeeps == WInv /\ Report => WInv'
<1> SUFFICES ASSUME WInv, Report PROVE WInv'
  OBVIOUS
<1>1. Follows(wk.pc, wk.pc)
  BY DEF Report, Follows, Between, Unexecuted, Unjournaled, Resuming
<1>2. Good(wk', att, executed, disk, objects, cancelRequested)
  BY <1>1, HearsGood DEF Report
<1> QED BY <1>2, ProcessAlone DEF Report, gateway

LEMMA ReconnectKeeps == WInv /\ Reconnect => WInv'
<1> SUFFICES ASSUME WInv, Reconnect PROVE WInv'
  OBVIOUS
<1>1. Follows(wk.pc, "renew")
  BY DEF Reconnect, Follows, Between, Unexecuted, Unjournaled, Resuming
<1>2. Good(wk', att, executed, disk, objects, cancelRequested)
  BY <1>1, HearsGood DEF Reconnect
<1> QED BY <1>2, ProcessAlone DEF Reconnect, gateway

LEMMA DownloadKeeps == WInv /\ Download => WInv'
<1> SUFFICES ASSUME WInv, Download PROVE WInv'
  OBVIOUS
<1>1. wk.pc \notin Between /\ Follows(wk.pc, "start")
  BY DEF Download, Follows, Between, Unexecuted, Unjournaled, Resuming
<1>2. Good([wk EXCEPT !.pc = "start"], att, executed, disk, objects, cancelRequested)
  BY <1>1, AtAttempt, MoveGood
<1>3. Good(wk', att, executed, disk, objects, cancelRequested)
  BY <1>1, <1>2, LeavesGood DEF Download
<1> QED BY <1>3, ProcessAlone DEF Download, gateway

LEMMA ExecuteKeeps == WInv /\ Execute => WInv'
<1> SUFFICES ASSUME WInv, Execute PROVE WInv'
  OBVIOUS
<1>1. wk.pc \notin Between /\ Follows(wk.pc, "encrypt")
  BY DEF Execute, Follows, Between, Unexecuted, Unjournaled, Resuming
<1>2. Good([wk EXCEPT !.pc = "encrypt"], att, executed, disk, objects, cancelRequested)
  BY <1>1, AtAttempt, MoveGood
<1>3. Good(wk', att, executed, disk, objects, cancelRequested)
  BY <1>1, <1>2, LeavesGood DEF Execute
<1> QED BY <1>3, ProcessAlone DEF Execute, gateway

LEMMA RenewTicketsKeeps == WInv /\ RenewTickets => WInv'
<1> SUFFICES ASSUME WInv, RenewTickets PROVE WInv'
  OBVIOUS
<1>1. wk.pc \notin Between /\ Follows(wk.pc, "upload")
  BY DEF RenewTickets, Follows, Between, Unexecuted, Unjournaled, Resuming
<1>2. Good([wk EXCEPT !.pc = "upload"], att, executed, disk, objects, cancelRequested)
  BY <1>1, AtAttempt, MoveGood
<1>3. ~LeaseValid(wk.a) => Good(RaiseError(wk, "lost"), att, executed, disk, objects, cancelRequested)
  BY <1>1, AtAttempt, RaiseGood DEF LeaseValid, Errors
<1>r. \A e \in Faults : Good(RaiseError(wk, e), att, executed, disk, objects, cancelRequested)
  BY <1>1, AtAttempt, RaiseGood DEF Errors, Faults
<1>4. Good(wk', att, executed, disk, objects, cancelRequested)
  BY <1>1, <1>2, <1>3, <1>r, LeavesGood DEF RenewTickets
<1> QED BY <1>4, ProcessAlone DEF RenewTickets, gateway

\* A heartbeat that fails is remembered; one that is refused ended the lease.
LEMMA KeeperHeartbeatKeeps == WInv /\ KeeperHeartbeat => WInv'
<1> SUFFICES ASSUME WInv, KeeperHeartbeat PROVE WInv'
  OBVIOUS
<1>1. wk.pc \notin Between
  BY DEF KeeperHeartbeat, KeeperRuns, Between
<1>2. /\ wk \in Memory /\ Engaged(wk, att, executed) /\ Journals(wk, disk, objects)
      /\ Informed(wk, att, cancelRequested)
      /\ Good(wk, att, executed, disk, objects, cancelRequested)
  BY SMTT(30), <1>1, AtAttempt
<1>3. PICK answer \in Answers(wk.a) :
          wk' = IF answer \in Errors
                THEN [wk EXCEPT !.error = answer, !.cancelled = @ \/ wk.mode = "process"]
                ELSE Directed(wk, answer)
  BY Zenon DEF KeeperHeartbeat
<1>4. /\ answer = "lost" => att[wk.a].lease # "live"
      /\ answer = "cancelled" => cancelRequested
  BY AnswerFacts
<1>5. Good(Directed(wk, answer), att, executed, disk, objects, cancelRequested)
  BY <1>2, <1>4, DirectedGood
<1>6. ASSUME answer \in Errors
      PROVE  Good(wk', att, executed, disk, objects, cancelRequested)
  <2> DEFINE y == [wk EXCEPT !.error = answer]
             b == wk.cancelled \/ wk.mode = "process"
  <2>b. b \in BOOLEAN
    OBVIOUS
  <2>e. wk' = [wk EXCEPT !.error = answer, !.cancelled = b]
    BY <1>3, <1>6
  <2> HIDE DEF b
  <2>x. wk' = [y EXCEPT !.cancelled = b]
    BY <2>e, Zenon
  <2>y. /\ y \in Memory /\ y.pc = wk.pc /\ y.a = wk.a /\ y.polled = wk.polled
        /\ SamePlan(wk, y) /\ y.error = answer
    BY <1>2, <1>6 DEF Memory, Places, SamePlan, Errors, Faults
  <2> HIDE DEF y
  <2>1. /\ wk' \in Memory /\ wk'.pc = wk.pc /\ wk'.a = wk.a /\ wk'.polled = wk.polled
        /\ SamePlan(wk, wk') /\ wk'.error = answer
    BY <2>b, <2>x, <2>y DEF Memory, Places, SamePlan
  <2>2. Engaged(wk', att, executed)
    BY <1>2, <2>1 DEF Engaged
  <2>3. Journals(wk', disk, objects)
    BY <1>2, <2>1 DEF Journals, SamePlan
  <2>4. Informed(wk', att, cancelRequested)
    BY <1>1, <1>2, <1>4, <1>6, <2>1 DEF Informed, SamePlan, Errors, Faults
  <2> QED BY <2>1, <2>2, <2>3, <2>4 DEF Good
<1>7. Good(wk', att, executed, disk, objects, cancelRequested)
  BY <1>3, <1>5, <1>6
<1> QED BY <1>7, ProcessAlone DEF KeeperHeartbeat, gateway

\* Nothing but the end of a poll forgets an unanswered lease request.
LEMMA HeardPolled ==
    ASSUME NEW w \in Memory, NEW answer, NEW q \in Places
    PROVE  Heard(w, answer, q).polled = w.polled
<1>1. Loop(w).polled = w.polled
  BY Zenon, LoopRow
<1>2. /\ Discard(w, "loop", "none").polled = w.polled
      /\ Discard(w, "reject", "none").polled = w.polled
  BY DiscardRow DEF SameFlags
<1>3. \A e : RaiseError(w, e).polled = w.polled
  BY <1>1, <1>2 DEF RaiseError
<1> DEFINE x == Directed(w, answer)
<1>4. x \in Memory /\ x.polled = w.polled
  BY DirectedRow
<1> HIDE DEF x
<1>5. [x EXCEPT !.pc = q].polled = w.polled
  BY <1>4, MoveRow DEF SameFlags
<1> QED BY <1>3, <1>5 DEF Heard, x

\* heartbeat_attempt with started leaves the lease alone.
LEMMA StartedRows ==
    ASSUME Typed, Rows, NEW a \in Attempts, att[a].state # "none",
           att' \in {att, StartedAt(a)}, UNCHANGED <<disk, objects, cancelRequested>>,
           executed' = executed \/ (executed[a] = 0 /\ executed' = [executed EXCEPT ![a] = @ + 1])
    PROVE  /\ att' \in [Attempts -> AttemptRow] /\ executed' \in [Attempts -> Nat] /\ Rows'
           /\ Advances(att, att')
<1>1. att[a] \in AttemptRow
  BY DEF Typed
<1>2. /\ att' \in [Attempts -> AttemptRow]
      /\ \A i \in Attempts : att'[i].lease = att[i].lease
      /\ \A i \in Attempts : att'[i] = att[i]
                             \/ (i = a /\ att[i].state = "leased" /\ att'[i].state = "running")
  <2> DEFINE r == [att[a] EXCEPT !.state = "running"]
  <2>1. r \in AttemptRow /\ r.lease = att[a].lease /\ r.state = "running"
    BY <1>1 DEF AttemptRow
  <2>2. att' = att \/ (att[a].state = "leased" /\ att' = [att EXCEPT ![a] = r])
    BY DEF StartedAt
  <2> HIDE DEF r
  <2> QED BY <2>1, <2>2 DEF Typed
<1>3. /\ executed' \in [Attempts -> Nat]
      /\ \A i \in Attempts : executed'[i] = executed[i]
                             \/ (i = a /\ executed[i] = 0 /\ executed'[i] = 1)
  BY DEF Typed
<1>4. ASSUME NEW i \in Attempts
      PROVE  RowGood(att'[i], executed'[i], disk[i], objects[i], cancelRequested)
  BY <1>2, <1>3 DEF Rows, RowGood, LiveStates
<1>5. Advances(att, att')
  BY <1>2 DEF Advances
<1> QED BY <1>2, <1>3, <1>4, <1>5 DEF Rows

LEMMA MarkStartedKeeps == WInv /\ MarkStarted => WInv'
<1> SUFFICES ASSUME WInv, MarkStarted PROVE WInv'
  OBVIOUS
<1>1. wk.pc = "start" /\ wk.pc \notin Between /\ Follows(wk.pc, "execute")
      /\ UNCHANGED <<cancelRequested, objects, disk>>
  BY DEF MarkStarted, Follows, Between, Unexecuted, Unjournaled, Resuming
<1>2. /\ wk \in Memory /\ Typed /\ Rows /\ wk.a \in Attempts /\ att[wk.a].state # "none"
      /\ Engaged(wk, att, executed)
  BY <1>1, AtAttempt
<1>3. executed[wk.a] = 0 /\ wk.polled = 0
  BY <1>1, <1>2 DEF Engaged, Unexecuted
<1>4. PICK answer \in Answers(wk.a) :
          LET w == Heard(wk, answer, "execute")
          IN  IF wk.error # "none"
              THEN wk' = w /\ UNCHANGED <<att, executed, callFaults>>
              ELSE /\ Paid(answer)
                   /\ \/ answer \notin Faults /\ att' = StartedAt(wk.a)
                      \/ answer \in Faults /\ att' \in {att, StartedAt(wk.a)}
                   /\ wk' = IF w.pc = "execute" /\ w.cancelled THEN Fail(w, "cancelled") ELSE w
                   /\ executed' = IF wk'.pc = "execute"
                                  THEN [executed EXCEPT ![wk.a] = @ + 1] ELSE executed
  BY DEF MarkStarted
<1> DEFINE w == Heard(wk, answer, "execute")
<1>5. Good(w, att, executed, disk, objects, cancelRequested)
  BY <1>1, HearsGood
<1>6. w.polled = 0
  BY <1>2, <1>3, HeardPolled DEF Places, Unjournaled
<1>7. /\ att' \in {att, StartedAt(wk.a)}
      /\ wk' = w \/ (w.pc = "execute" /\ wk' = Fail(w, "cancelled"))
      /\ executed' = executed
         \/ (wk'.pc = "execute" /\ executed' = [executed EXCEPT ![wk.a] = @ + 1])
  BY <1>4
<1> HIDE DEF w
<1>8. /\ att' \in [Attempts -> AttemptRow] /\ executed' \in [Attempts -> Nat] /\ Rows'
      /\ Advances(att, att')
  BY <1>1, <1>2, <1>3, <1>7, StartedRows
<1>9. Good(Fail(w, "cancelled"), att, executed, disk, objects, cancelRequested)
      \/ w.pc # "execute"
  BY <1>5, FailGood DEF Good, Between
<1>10. Good(wk', att, executed, disk, objects, cancelRequested)
  BY <1>5, <1>7, <1>9
<1>11. wk'.pc = "execute" => wk'.polled = 0
  BY <1>5, <1>6, <1>7, FailRow DEF Good
<1>12. Engaged(wk', att, executed')
  BY <1>7, <1>10, <1>11 DEF Good, Engaged, Unexecuted
<1>13. Good(wk', att, executed', disk, objects, cancelRequested)
  BY <1>10, <1>12 DEF Good
<1>14. Good(wk', att', executed', disk, objects, cancelRequested)
  BY <1>8, <1>13, AdvanceGood
<1>15. Typed'
  BY <1>1, <1>2, <1>8, <1>14 DEF Typed, Good
<1> QED BY <1>1, <1>8, <1>14, <1>15 DEF WInv

-----------------------------------------------------------------------------
(* The attempt's directory *)

\* A manifest is only where it may be.
Sound(d, stored) ==
    d.manifest => /\ \A o \in Outputs : d.files[o] \in {"durable", "none"}
                  /\ Outputs \ d.pending \subseteq stored

LEMMA DirectorySound ==
    ASSUME Rows, NEW a \in Attempts
    PROVE  Sound(disk[a], objects[a])
  BY DEF Rows, RowGood, Sound

\* One directory is written.
LEMMA DirectoryWritten ==
    ASSUME Typed, Rows, UNCHANGED <<att, executed, objects, cancelRequested>>,
           NEW a \in Attempts, NEW d \in Directory, disk' = [disk EXCEPT ![a] = d],
           att[a].state # "none", Sound(d, objects[a]),
           Good(wk', att, executed, [disk EXCEPT ![a] = d], objects, cancelRequested)
    PROVE  WInv'
<1>1. disk' \in [Attempts -> Directory] /\ disk'[a] = d
      /\ \A i \in Attempts : i # a => disk'[i] = disk[i]
  BY DEF Typed
<1>2. ASSUME NEW i \in Attempts
      PROVE  RowGood(att[i], executed[i], disk'[i], objects[i], cancelRequested)
  <2>1. CASE i = a
    BY <1>1, <2>1 DEF Rows, RowGood, Sound
  <2>2. CASE i # a
    BY <1>1, <2>2 DEF Rows
  <2> QED BY <2>1, <2>2
<1>3. Rows'
  BY <1>2 DEF Rows
<1>4. Typed'
  BY <1>1 DEF Typed, Good
<1> QED BY <1>3, <1>4 DEF WInv

\* The process and the directory it writes, in the table of directories.
LEMMA WrittenTable ==
    ASSUME Typed, NEW a \in Attempts, NEW d
    PROVE  /\ [disk EXCEPT ![a] = d][a] = d
           /\ \A i \in Attempts : i # a => [disk EXCEPT ![a] = d][i] = disk[i]
  BY SMTT(30) DEF Typed

LEMMA EncryptKeeps == WInv /\ Encrypt => WInv'
<1> SUFFICES ASSUME WInv, Encrypt PROVE WInv'
  OBVIOUS
<1>1. wk.pc = "encrypt" /\ wk.pc \notin Between /\ UNCHANGED <<gateway, executed>>
  BY DEF Encrypt, Between
<1>2. /\ wk \in Memory /\ Typed /\ Rows /\ wk.a \in Attempts /\ att[wk.a].state # "none"
      /\ disk[wk.a] \in Directory /\ Engaged(wk, att, executed)
      /\ Journals(wk, disk, objects) /\ Informed(wk, att, cancelRequested)
  BY <1>1, AtAttempt
<1>3. \A i \in Attempts : ~disk[i].manifest
  BY <1>1, <1>2 DEF Journals, Unjournaled
<1>4. ASSUME NEW o \in Outputs, disk' = [disk EXCEPT ![wk.a].files[o] = "volatile"],
             UNCHANGED wk
      PROVE  WInv'
  <2> DEFINE d == [disk[wk.a] EXCEPT !.files[o] = "volatile"]
             E == [disk EXCEPT ![wk.a] = d]
  <2>1. d \in Directory /\ d.manifest = disk[wk.a].manifest
    BY <1>2 DEF Directory
  <2>2. disk' = E
    BY <1>4
  <2> HIDE DEF d
  <2>3. E[wk.a] = d /\ \A i \in Attempts : i # wk.a => E[i] = disk[i]
    BY <1>2, WrittenTable
  <2> HIDE DEF E
  <2>4. \A i \in Attempts : ~E[i].manifest
    BY <1>3, <2>1, <2>3, <1>2
  <2>5. Journals(wk', E, objects)
    BY <1>1, <1>4, <2>4 DEF Journals, Saving, Resuming
  <2>6. Good(wk', att, executed, E, objects, cancelRequested)
    BY <1>2, <1>4, <2>5 DEF Good
  <2>7. Sound(d, objects[wk.a])
    BY Zenon, <1>2, <1>3, <2>1 DEF Sound
  <2> QED BY Zenon, <1>1, <1>2, <2>1, <2>2, <2>6, <2>7, DirectoryWritten DEF gateway, E
<1>5. ASSUME wk' = [wk EXCEPT !.pc = "sync", !.remaining = Outputs], UNCHANGED disk
      PROVE  WInv'
  <2>1. /\ wk' \in Memory /\ wk'.pc = "sync" /\ SameFlags(wk, wk') /\ wk'.remaining = Outputs
    BY Zenon, <1>2, <1>5 DEF Memory, Places, SameFlags, Saving
  <2>2. Engaged(wk', att, executed)
    BY <1>1, <1>2, <2>1 DEF Engaged, SameFlags, Unexecuted, Between
  <2>3. Journals(wk', disk, objects)
    BY <2>1 DEF Journals, Unjournaled, Resuming
  <2>4. Informed(wk', att, cancelRequested)
    BY <1>1, <1>2, <2>1 DEF Informed, SameFlags, Dropping, Between
  <2>5. Good(wk', att, executed, disk, objects, cancelRequested)
    BY <2>1, <2>2, <2>3, <2>4 DEF Good
  <2> QED BY <1>1, <1>5, <2>5, ProcessAlone DEF gateway
<1>6. ASSUME wk' \in {Fail(wk, "failed"), Fail(wk, "cancelled")}, UNCHANGED disk
      PROVE  WInv'
  BY <1>1, <1>6, LeavesGood, ProcessAlone DEF gateway
<1> QED BY Zenon, <1>4, <1>5, <1>6 DEF Encrypt

LEMMA SyncKeeps == WInv /\ Sync => WInv'
<1> SUFFICES ASSUME WInv, Sync PROVE WInv'
  OBVIOUS
<1>1. wk.pc = "sync" /\ wk.pc \notin Between /\ UNCHANGED <<gateway, executed>>
      /\ wk' = [wk EXCEPT !.pc = "write"]
  BY DEF Sync, Between
<1>2. /\ wk \in Memory /\ Typed /\ Rows /\ wk.a \in Attempts /\ att[wk.a].state # "none"
      /\ disk[wk.a] \in Directory /\ Engaged(wk, att, executed)
      /\ Journals(wk, disk, objects) /\ Informed(wk, att, cancelRequested)
  BY <1>1, AtAttempt
<1> DEFINE d == [disk[wk.a] EXCEPT !.files = [o \in Outputs |-> "durable"]]
           E == [disk EXCEPT ![wk.a] = d]
<1>3. /\ d \in Directory /\ d.manifest = disk[wk.a].manifest /\ d.pending = disk[wk.a].pending
      /\ \A o \in Outputs : d.files[o] = "durable"
  BY <1>2 DEF Directory
<1>4. disk' = E
  BY DEF Sync
<1> HIDE DEF d
<1>5. E[wk.a] = d
  BY <1>2, WrittenTable
<1> HIDE DEF E
<1>6. wk' \in Memory /\ wk'.pc = "write" /\ SameFlags(wk, wk') /\ SamePlan(wk, wk')
  BY <1>1, <1>2, MoveRow DEF Places, Saving
<1>7. Engaged(wk', att, executed)
  BY <1>1, <1>2, <1>6 DEF Engaged, SameFlags, Unexecuted, Between
<1>8. Journals(wk', E, objects)
  BY <1>1, <1>2, <1>3, <1>5, <1>6 DEF Journals, SameFlags, SamePlan, Unjournaled, Saving, Resuming
<1>9. Informed(wk', att, cancelRequested)
  BY <1>1, <1>2, <1>6 DEF Informed, SameFlags, Dropping, Between
<1>10. Good(wk', att, executed, E, objects, cancelRequested)
  BY <1>6, <1>7, <1>8, <1>9 DEF Good
<1>11. Sound(d, objects[wk.a])
  BY Zenon, <1>2, <1>3, DirectorySound DEF Sound
<1> QED BY Zenon, <1>1, <1>2, <1>3, <1>4, <1>10, <1>11, DirectoryWritten DEF gateway, E

LEMMA WriteTemporaryKeeps == WInv /\ WriteTemporary => WInv'
<1> SUFFICES ASSUME WInv, WriteTemporary PROVE WInv'
  OBVIOUS
<1>1. wk.pc = "write" /\ wk.pc \notin Between /\ UNCHANGED <<gateway, executed>>
      /\ wk' = [wk EXCEPT !.pc = "publish"]
  BY DEF WriteTemporary, Between
<1>2. /\ wk \in Memory /\ Typed /\ Rows /\ wk.a \in Attempts /\ att[wk.a].state # "none"
      /\ disk[wk.a] \in Directory /\ Engaged(wk, att, executed)
      /\ Journals(wk, disk, objects) /\ Informed(wk, att, cancelRequested)
  BY <1>1, AtAttempt
<1> DEFINE d == [disk[wk.a] EXCEPT !.temp = TRUE]
           E == [disk EXCEPT ![wk.a] = d]
<1>3. /\ d \in Directory /\ d.manifest = disk[wk.a].manifest /\ d.pending = disk[wk.a].pending
      /\ d.files = disk[wk.a].files
  BY Zenon, <1>2 DEF Directory
<1>4. disk' = E
  BY DEF WriteTemporary
<1> HIDE DEF d
<1>5. E[wk.a] = d
  BY <1>2, WrittenTable
<1> HIDE DEF E
<1>6. wk' \in Memory /\ wk'.pc = "publish" /\ SameFlags(wk, wk') /\ SamePlan(wk, wk')
  BY <1>1, <1>2, MoveRow DEF Places, Saving
<1>7. Engaged(wk', att, executed)
  BY <1>1, <1>2, <1>6 DEF Engaged, SameFlags, Unexecuted, Between
<1>8. Journals(wk', E, objects)
  BY <1>1, <1>2, <1>3, <1>5, <1>6 DEF Journals, SameFlags, SamePlan, Unjournaled, Saving, Resuming
<1>9. Informed(wk', att, cancelRequested)
  BY <1>1, <1>2, <1>6 DEF Informed, SameFlags, Dropping, Between
<1>10. Good(wk', att, executed, E, objects, cancelRequested)
  BY <1>6, <1>7, <1>8, <1>9 DEF Good
<1>11. Sound(d, objects[wk.a])
  BY Zenon, <1>2, <1>3, DirectorySound DEF Sound
<1> QED BY Zenon, <1>1, <1>2, <1>3, <1>4, <1>10, <1>11, DirectoryWritten DEF gateway, E

LEMMA PublishedDirectory ==
    ASSUME NEW d \in Directory, NEW left \in SUBSET Outputs
    PROVE  LET x == [d EXCEPT !.temp = FALSE, !.manifest = TRUE, !.pending = left] IN
           x \in Directory /\ x.files = d.files /\ x.pending = left
  BY Zenon DEF Directory

LEMMA PublishedRow ==
    ASSUME NEW w \in Memory
    PROVE  LET x == [w EXCEPT !.pc = "upload", !.todo = w.remaining, !.journaled = TRUE] IN
           /\ x \in Memory /\ x.pc = "upload" /\ SameFlags(w, x) /\ x.todo = w.remaining
  BY Zenon DEF Memory, Places, SameFlags, Resuming

LEMMA PublishManifestKeeps == WInv /\ PublishManifest => WInv'
<1> SUFFICES ASSUME WInv, PublishManifest PROVE WInv'
  OBVIOUS
<1>1. wk.pc = "publish" /\ wk.pc \notin Between /\ UNCHANGED <<gateway, executed>>
      /\ wk' = [wk EXCEPT !.pc = "upload", !.todo = wk.remaining, !.journaled = TRUE]
  BY DEF PublishManifest, Between
<1>2. /\ wk \in Memory /\ Typed /\ Rows /\ wk.a \in Attempts /\ att[wk.a].state # "none"
      /\ disk[wk.a] \in Directory /\ Engaged(wk, att, executed)
      /\ Journals(wk, disk, objects) /\ Informed(wk, att, cancelRequested)
      /\ wk.remaining \in SUBSET Outputs
  BY <1>1, AtAttempt DEF Memory, Places
<1> DEFINE d == [disk[wk.a] EXCEPT !.temp = FALSE, !.manifest = TRUE, !.pending = wk.remaining]
           E == [disk EXCEPT ![wk.a] = d]
<1>3. d \in Directory /\ d.files = disk[wk.a].files /\ d.pending = wk.remaining
  BY Zenon, <1>2, PublishedDirectory
<1>4. disk' = E
  BY SMTT(30) DEF PublishManifest
<1> HIDE DEF d
<1> HIDE DEF E
<1>6. wk' \in Memory /\ wk'.pc = "upload" /\ SameFlags(wk, wk') /\ wk'.todo = wk.remaining
  BY Zenon, <1>1, <1>2, PublishedRow
<1>7. Engaged(wk', att, executed)
  BY <1>1, <1>2, <1>6 DEF Engaged, SameFlags, Unexecuted, Between
<1>8. Outputs \ wk.remaining \subseteq objects[wk.a] /\ \A o \in Outputs : disk[wk.a].files[o] = "durable"
  BY <1>1, <1>2 DEF Journals, Saving
<1>9. Journals(wk', E, objects)
  BY <1>6, <1>8 DEF Journals, SameFlags, Unjournaled, Saving
<1>10. Informed(wk', att, cancelRequested)
  BY <1>1, <1>2, <1>6 DEF Informed, SameFlags, Dropping, Between
<1>11. Good(wk', att, executed, E, objects, cancelRequested)
  BY <1>6, <1>7, <1>9, <1>10 DEF Good
<1>12. Sound(d, objects[wk.a])
  BY <1>3, <1>8 DEF Sound
<1> QED BY Zenon, <1>1, <1>2, <1>3, <1>4, <1>11, <1>12, DirectoryWritten DEF gateway, E

LEMMA SaveFailsKeeps == WInv /\ SaveFails => WInv'
<1> SUFFICES ASSUME WInv, SaveFails PROVE WInv'
  OBVIOUS
<1>1. wk.pc \notin Between /\ UNCHANGED <<gateway, executed>>
      /\ wk' \in {Fail(wk, "failed"), [Fresh(0) EXCEPT !.pc = "down"]}
  BY DEF SaveFails, Between
<1>2. /\ wk \in Memory /\ Typed /\ Rows /\ wk.a \in Attempts /\ att[wk.a].state # "none"
      /\ disk[wk.a] \in Directory /\ Engaged(wk, att, executed)
      /\ Informed(wk, att, cancelRequested)
  BY <1>1, AtAttempt
<1> DEFINE d == [disk[wk.a] EXCEPT !.temp = FALSE]
           E == [disk EXCEPT ![wk.a] = d]
<1>3. /\ d \in Directory /\ d.manifest = disk[wk.a].manifest /\ d.pending = disk[wk.a].pending
      /\ d.files = disk[wk.a].files
  BY Zenon, <1>2 DEF Directory
<1>4. disk' = E
  BY DEF SaveFails
<1> HIDE DEF d, E
<1>5. Good(wk', att, executed, E, objects, cancelRequested)
  BY <1>1, <1>2, FailGood, FreshGood
<1>6. Sound(d, objects[wk.a])
  BY Zenon, <1>2, <1>3, DirectorySound DEF Sound
<1> QED BY Zenon, <1>1, <1>2, <1>3, <1>4, <1>5, <1>6, DirectoryWritten DEF gateway, E

-----------------------------------------------------------------------------
(* Upload *)

LEMMA UploadsDoneKeeps == WInv /\ UploadsDone => WInv'
<1> SUFFICES ASSUME WInv, UploadsDone PROVE WInv'
  OBVIOUS
<1>1. /\ wk.pc = "upload" /\ wk.todo = {} /\ wk.pc \notin Between
      /\ UNCHANGED <<gateway, disk, executed>>
  BY DEF UploadsDone, Between
<1>2. /\ wk \in Memory /\ Engaged(wk, att, executed) /\ Journals(wk, disk, objects)
      /\ Informed(wk, att, cancelRequested)
  BY <1>1, AtAttempt
<1>3. wk.error = "none" /\ wk.cancelled
         => Good(Discard(wk, "fail", "cancelled"), att, executed, disk, objects, cancelRequested)
  <2>1. wk.error = "none" /\ wk.cancelled => cancelRequested
    BY <1>2 DEF Informed
  <2> QED BY Zenon, <1>1, <1>2, <2>1, DiscardGood
<1>4. Good([wk EXCEPT !.pc = "complete"], att, executed, disk, objects, cancelRequested)
  <2> DEFINE x == [wk EXCEPT !.pc = "complete"]
  <2>1. x \in Memory /\ x.pc = "complete" /\ SameFlags(wk, x)
    BY <1>2, MoveRow DEF Places
  <2> HIDE DEF x
  <2>2. Engaged(x, att, executed)
    BY <1>1, <1>2, <2>1 DEF Engaged, SameFlags, Unexecuted
  <2>3. Outputs \subseteq objects[wk.a]
    BY <1>1, <1>2 DEF Journals, Resuming
  <2>4. Journals(x, disk, objects)
    BY <2>1, <2>3 DEF Journals, SameFlags, Unjournaled, Saving, Resuming
  <2>5. Informed(x, att, cancelRequested)
    BY <1>2, <2>1 DEF Informed, SameFlags, Dropping, Between
  <2> QED BY <2>1, <2>2, <2>4, <2>5 DEF Good, x
<1>5. Good(wk', att, executed, disk, objects, cancelRequested)
  BY <1>1, <1>3, <1>4, LeavesGood DEF UploadsDone
<1> QED BY <1>1, <1>5, ProcessAlone DEF gateway

\* A stored output goes off the list of those to upload.
LEMMA MarkedRow ==
    ASSUME NEW w \in Memory, NEW o
    PROVE  LET x == Marked(w, o) IN
           /\ x \in Memory /\ x.pc = "sync" /\ SameFlags(w, x) /\ x.remaining = w.todo \ {o}
  BY Zenon DEF Marked, Memory, Places, SameFlags, Saving

LEMMA UploadKeeps == WInv /\ Upload => WInv'
<1> SUFFICES ASSUME WInv, Upload PROVE WInv'
  OBVIOUS
<1>1. /\ wk.pc = "upload" /\ wk.pc \notin Between
      /\ UNCHANGED <<att, cancelRequested, disk, executed>>
  BY DEF Upload, Between
<1>2. /\ wk \in Memory /\ Typed /\ Rows /\ wk.a \in Attempts
      /\ Engaged(wk, att, executed) /\ Journals(wk, disk, objects)
      /\ Informed(wk, att, cancelRequested) /\ wk.todo \in SUBSET Outputs
  BY <1>1, AtAttempt DEF Memory, Places
<1>3. PICK o \in wk.todo : objects' = [objects EXCEPT ![wk.a] = @ \cup {o}]
                          /\ wk' \in {Marked(wk, o), Loop(wk)}
  BY Zenon DEF Upload, Stored
<1>4. /\ objects' \in [Attempts -> SUBSET Outputs]
      /\ \A i \in Attempts : objects[i] \subseteq objects'[i]
      /\ objects'[wk.a] = objects[wk.a] \cup {o}
  BY <1>2, <1>3 DEF Typed
<1>5. ASSUME NEW i \in Attempts
      PROVE  RowGood(att[i], executed[i], disk[i], objects'[i], cancelRequested)
  BY <1>2, <1>4 DEF Rows, RowGood
<1>6. Good(Loop(wk), att, executed, disk, objects', cancelRequested)
  BY <1>2, LoopGood
<1>7. Good(Marked(wk, o), att, executed, disk, objects', cancelRequested)
  <2> DEFINE x == Marked(wk, o)
  <2>1. x \in Memory /\ x.pc = "sync" /\ SameFlags(wk, x) /\ x.remaining = wk.todo \ {o}
    BY <1>2, MarkedRow
  <2> HIDE DEF x
  <2>2. Engaged(x, att, executed)
    BY <1>1, <1>2, <2>1 DEF Engaged, SameFlags, Unexecuted
  <2>3. Outputs \ wk.todo \subseteq objects[wk.a]
    BY <1>1, <1>2 DEF Journals, Resuming
  <2>4. Outputs \ (wk.todo \ {o}) \subseteq objects'[wk.a]
    BY <1>4, <2>3
  <2>5. Journals(x, disk, objects')
    BY <2>1, <2>4 DEF Journals, SameFlags, Unjournaled, Resuming
  <2>6. Informed(x, att, cancelRequested)
    BY <1>1, <1>2, <2>1 DEF Informed, SameFlags, Dropping, Between
  <2> QED BY <2>1, <2>2, <2>5, <2>6 DEF Good, x
<1>8. Good(wk', att, executed, disk, objects', cancelRequested)
  BY <1>3, <1>6, <1>7
<1>9. Typed' /\ Rows'
  BY <1>1, <1>2, <1>4, <1>5, <1>8 DEF Typed, Rows, Good
<1> QED BY <1>1, <1>8, <1>9 DEF WInv

\* An empty directory replaces the attempt's.
LEMMA Emptied ==
    ASSUME Typed, Rows, UNCHANGED <<att, executed, objects, cancelRequested>>,
           NEW a \in Attempts, disk' = [disk EXCEPT ![a] = NoDirectory],
           att[a].state # "none",
           Good(wk', att, executed, [disk EXCEPT ![a] = NoDirectory], objects, cancelRequested)
    PROVE  WInv'
<1>1. NoDirectory \in Directory /\ Sound(NoDirectory, objects[a])
  BY NoDirectoryRow DEF Sound
<1> QED BY Zenon, <1>1, DirectoryWritten

LEMMA UploadFailsKeeps == WInv /\ UploadFails => WInv'
<1> SUFFICES ASSUME WInv, UploadFails PROVE WInv'
  OBVIOUS
<1>1. wk.pc \notin Between /\ UNCHANGED <<gateway, executed>>
  BY DEF UploadFails, Between
<1>2. /\ wk \in Memory /\ Typed /\ Rows /\ wk.a \in Attempts /\ att[wk.a].state # "none"
      /\ Engaged(wk, att, executed) /\ Informed(wk, att, cancelRequested)
  BY <1>1, AtAttempt
<1>3. CASE wk' = Loop(wk) /\ UNCHANGED disk
  BY <1>1, <1>3, LeavesGood, ProcessAlone DEF gateway
<1>4. CASE wk' = Discard(wk, "fail", "failed") /\ UNCHANGED disk
  <2>1. Good(wk', att, executed, disk, objects, cancelRequested)
    BY <1>1, <1>2, <1>4, DiscardGood
  <2> QED BY <1>1, <1>4, <2>1, ProcessAlone DEF gateway
<1>5. CASE wk' = Fail(wk, "failed") /\ disk' = [disk EXCEPT ![wk.a] = NoDirectory]
  <2>1. \A E : Good(wk', att, executed, E, objects, cancelRequested)
    BY <1>1, <1>2, <1>5, FailGood
  <2> QED BY Zenon, <1>1, <1>2, <1>5, <2>1, Emptied DEF gateway
<1> QED BY <1>3, <1>4, <1>5 DEF UploadFails

-----------------------------------------------------------------------------
(* The end of an attempt *)

LEMMA FinishedRows ==
    ASSUME Typed, Rows, UNCHANGED <<executed, disk, objects, cancelRequested>>,
           NEW a \in Attempts, NEW report \in {"succeeded", "failed", "cancelled"},
           report = "cancelled" => cancelRequested, att' = Finished(a, report)
    PROVE  /\ att' \in [Attempts -> AttemptRow] /\ Rows' /\ Advances(att, att')
           /\ att'[a].lease # "live"
<1> DEFINE r == [state |-> IF cancelRequested THEN "cancelled" ELSE report, lease |-> "released"]
<1>1. /\ r \in AttemptRow /\ r.state # "none" /\ r.lease = "released"
      /\ r.state = "cancelled" => cancelRequested
  BY DEF AttemptRow
<1>2. att' = [att EXCEPT ![a] = r]
  BY DEF Finished
<1> HIDE DEF r
<1>3. att' \in [Attempts -> AttemptRow] /\ Rows' /\ att'[a] = r
  BY Zenon, <1>1, <1>2, AttemptWritten
<1>4. \A i \in Attempts : i # a => att'[i] = att[i]
  BY <1>2 DEF Typed
<1>5. Advances(att, att')
  BY <1>1, <1>3, <1>4 DEF Advances
<1> QED BY <1>1, <1>3, <1>5

\* When the Gateway answers a completion, the lease is over.
LEMMA CompleteAttemptKeeps == WInv /\ CompleteAttempt => WInv'
<1> SUFFICES ASSUME WInv, CompleteAttempt PROVE WInv'
  OBVIOUS
<1>1. /\ wk.pc = "complete" /\ wk.pc \notin Between
      /\ UNCHANGED <<executed, disk, objects, cancelRequested>>
  BY DEF CompleteAttempt, Between
<1>2. /\ wk \in Memory /\ Typed /\ Rows /\ wk.a \in Attempts
      /\ Engaged(wk, att, executed) /\ Journals(wk, disk, objects)
      /\ Informed(wk, att, cancelRequested)
      /\ Good(wk, att, executed, disk, objects, cancelRequested)
  BY <1>1, AtAttempt
<1>3. Outputs \subseteq objects[wk.a]
  BY <1>1, <1>2 DEF Journals
<1>4. att' = att \/ att' = Finished(wk.a, "succeeded")
  BY DEF CompleteAttempt, CompletedAtGateway
<1>5. att' \in [Attempts -> AttemptRow] /\ Rows' /\ Advances(att, att')
  <2>1. CASE att' = att
    BY <1>1, <1>2, <2>1 DEF Typed, Rows, Advances
  <2>2. CASE att' = Finished(wk.a, "succeeded")
    BY <1>1, <1>2, <2>2, FinishedRows
  <2> QED BY <1>4, <2>1, <2>2
<1>6. Good(wk, att', executed, disk, objects, cancelRequested)
  BY <1>2, <1>5, AdvanceGood
<1>7. Engaged(wk, att', executed) /\ Informed(wk, att', cancelRequested)
  BY <1>6 DEF Good
<1>8. CompletedAtGateway(wk.a) => att'[wk.a].lease # "live"
  <2>1. CASE Accepts(wk.a, "succeeded")
    BY <1>1, <1>2, <1>3, <2>1, FinishedRows DEF CompletedAtGateway
  <2>2. CASE ~Accepts(wk.a, "succeeded")
    <3>1. att[wk.a].lease # "live"
      BY <1>2, <2>2 DEF Accepts, LeaseValid, Rows, RowGood
    <3> QED BY <2>2, <3>1 DEF CompletedAtGateway
  <2> QED BY <2>1, <2>2
<1>9. Good(Loop(wk), att', executed, disk, objects, cancelRequested)
  BY <1>2, <1>7, LoopGood
<1>10. CompletedAtGateway(wk.a)
         => Good(Discard(wk, "loop", "none"), att', executed, disk, objects, cancelRequested)
  BY <1>1, <1>2, <1>7, <1>8, DiscardGood
<1>r. Good(Discard(wk, "reject", "none"), att', executed, disk, objects, cancelRequested)
  BY <1>1, <1>2, <1>7, DiscardGood
<1>11. Good(wk', att', executed, disk, objects, cancelRequested)
  BY <1>9, <1>10, <1>r DEF CompleteAttempt
<1> QED BY <1>1, <1>2, <1>5, <1>11, Together

LEMMA ReportAttemptFailureKeeps == WInv /\ ReportAttemptFailure => WInv'
<1> SUFFICES ASSUME WInv, ReportAttemptFailure PROVE WInv'
  OBVIOUS
<1>1. /\ wk.pc = "fail" /\ wk.pc \notin Between /\ wk' = Loop(wk)
      /\ UNCHANGED <<executed, disk, objects, cancelRequested>>
  BY DEF ReportAttemptFailure, Between
<1>2. /\ wk \in Memory /\ Typed /\ Rows /\ wk.a \in Attempts
      /\ Informed(wk, att, cancelRequested)
      /\ Good(wk, att, executed, disk, objects, cancelRequested)
  BY <1>1, AtAttempt
<1>3. wk.report \in {"failed", "cancelled"}
  BY <1>1, <1>2 DEF Informed, Memory, Places
<1>4. att' = att \/ (Accepts(wk.a, wk.report) /\ att' = Finished(wk.a, wk.report))
  BY DEF ReportAttemptFailure, Reported
<1>5. att' \in [Attempts -> AttemptRow] /\ Rows' /\ Advances(att, att')
  <2>1. CASE att' = att
    BY <1>1, <1>2, <2>1 DEF Typed, Rows, Advances
  <2>2. CASE Accepts(wk.a, wk.report) /\ att' = Finished(wk.a, wk.report)
    <3>1. wk.report = "cancelled" => cancelRequested
      BY <2>2 DEF Accepts
    <3>2. wk.report \in {"succeeded", "failed", "cancelled"}
      BY <1>3
    <3> QED BY <1>1, <1>2, <2>2, <3>1, <3>2, FinishedRows
  <2> QED BY <1>4, <2>1, <2>2
<1>6. Engaged(wk, att', executed)
  BY <1>2, <1>5, AdvanceGood DEF Good
<1>7. Good(wk', att', executed, disk, objects, cancelRequested)
  BY <1>1, <1>2, <1>6, LoopGood
<1> QED BY <1>1, <1>2, <1>5, <1>7, Together

\* Where the process goes when the directory is gone.
LEMMA DroppedGood ==
    ASSUME WInv, wk.pc \in Dropping, NEW E
    PROVE  Good(IF wk.then = "fail" THEN Fail(wk, wk.report) ELSE Loop(wk),
                att, executed, E, objects, cancelRequested)
<1>1. wk.pc \notin Between
  BY DEF Dropping, Between
<1>2. /\ wk \in Memory /\ Engaged(wk, att, executed) /\ Informed(wk, att, cancelRequested)
  BY <1>1, AtAttempt
<1>3. wk.then = "fail" => wk.report \in {"failed", "cancelled"}
  BY <1>2 DEF Informed, Memory, Places
<1>4. CASE wk.then = "fail"
  BY <1>1, <1>2, <1>3, <1>4, FailGood
<1>5. CASE wk.then # "fail"
  BY <1>2, <1>5, LoopGood
<1> QED BY <1>4, <1>5

LEMMA DiscardPendingKeeps == WInv /\ DiscardPending => WInv'
<1> SUFFICES ASSUME WInv, DiscardPending PROVE WInv'
  OBVIOUS
<1>1. /\ wk.pc = "discard" /\ wk.pc \notin Between /\ wk.pc \in Dropping
      /\ UNCHANGED <<gateway, executed>>
  BY DEF DiscardPending, Between, Dropping
<1>2. /\ wk \in Memory /\ Typed /\ Rows /\ wk.a \in Attempts /\ att[wk.a].state # "none"
      /\ Engaged(wk, att, executed) /\ Informed(wk, att, cancelRequested)
  BY <1>1, AtAttempt
<1>3. CASE wk' = [wk EXCEPT !.pc = "unlink"] /\ UNCHANGED disk
  <2>1. wk' \in Memory /\ wk'.pc = "unlink" /\ SameFlags(wk, wk') /\ SamePlan(wk, wk')
    BY <1>2, <1>3, MoveRow DEF Places, Dropping
  <2>2. Engaged(wk', att, executed)
    BY <1>1, <1>2, <2>1 DEF Engaged, SameFlags, Unexecuted
  <2>3. Journals(wk', disk, objects)
    BY <2>1 DEF Journals, Unjournaled, Saving, Resuming
  <2>4. Informed(wk', att, cancelRequested)
    BY <1>1, <1>2, <2>1 DEF Informed, SameFlags, SamePlan, Between
  <2>5. Good(wk', att, executed, disk, objects, cancelRequested)
    BY <2>1, <2>2, <2>3, <2>4 DEF Good
  <2> QED BY <1>1, <1>3, <2>5, ProcessAlone DEF gateway
<1>4. CASE /\ disk' = [disk EXCEPT ![wk.a] = NoDirectory]
           /\ wk' = IF wk.then = "fail" THEN Fail(wk, wk.report) ELSE Loop(wk)
  <2>1. \A E : Good(wk', att, executed, E, objects, cancelRequested)
    BY <1>1, <1>4, DroppedGood
  <2> QED BY Zenon, <1>1, <1>2, <1>4, <2>1, Emptied DEF gateway
<1> QED BY <1>3, <1>4 DEF DiscardPending

LEMMA UnlinkKeeps == WInv /\ Unlink => WInv'
<1> SUFFICES ASSUME WInv, Unlink PROVE WInv'
  OBVIOUS
<1>1. /\ wk.pc = "unlink" /\ wk.pc \notin Between /\ wk.pc \in Dropping
      /\ UNCHANGED <<gateway, executed>>
  BY DEF Unlink, Between, Dropping
<1>2. /\ wk \in Memory /\ Typed /\ Rows /\ wk.a \in Attempts /\ att[wk.a].state # "none"
      /\ disk[wk.a] \in Directory
      /\ Engaged(wk, att, executed) /\ Informed(wk, att, cancelRequested)
  BY <1>1, AtAttempt
<1>3. ASSUME NEW d \in Unlinked(disk[wk.a]), disk' = [disk EXCEPT ![wk.a] = d], UNCHANGED wk
      PROVE  WInv'
  <2>1. PICK o \in Outputs : d = [disk[wk.a] EXCEPT !.files[o] = "none"]
    BY <1>3 DEF Unlinked
  <2>2. /\ d \in Directory /\ d.manifest = disk[wk.a].manifest
        /\ d.pending = disk[wk.a].pending
        /\ \A i \in Outputs : d.files[i] \in {"none", disk[wk.a].files[i]}
    BY <1>2, <2>1 DEF Directory
  <2>3. Sound(d, objects[wk.a])
    BY Zenon, <1>2, <2>2, DirectorySound DEF Sound
  <2>4. \A E : Journals(wk', E, objects)
    BY <1>1, <1>3 DEF Journals, Unjournaled, Saving, Resuming
  <2>5. \A E : Good(wk', att, executed, E, objects, cancelRequested)
    BY <1>2, <1>3, <2>4 DEF Good
  <2> QED BY Zenon, <1>1, <1>2, <1>3, <2>2, <2>3, <2>5, DirectoryWritten DEF gateway
<1>4. CASE /\ disk' = [disk EXCEPT ![wk.a] = NoDirectory]
           /\ wk' = IF wk.then = "fail" THEN Fail(wk, wk.report) ELSE Loop(wk)
  <2>1. \A E : Good(wk', att, executed, E, objects, cancelRequested)
    BY <1>1, <1>4, DroppedGood
  <2> QED BY Zenon, <1>1, <1>2, <1>4, <2>1, Emptied DEF gateway
<1> QED BY <1>3, <1>4 DEF Unlink

-----------------------------------------------------------------------------
(* The Gateway's own steps, and crashes *)

\* The process is not told.
LEMMA GatewayAlone ==
    ASSUME WInv, att' \in [Attempts -> AttemptRow], Rows', Advances(att, att'),
           cancelRequested' \in BOOLEAN, cancelRequested => cancelRequested',
           UNCHANGED <<executed, disk, objects, wk>>
    PROVE  WInv'
<1>1. Good(wk, att', executed, disk, objects, cancelRequested')
  BY AdvanceGood DEF WInv
<1>2. Typed'
  BY DEF WInv, Typed
<1> QED BY <1>1, <1>2 DEF WInv

LEMMA AttemptLeaseLapsesKeeps ==
    ASSUME WInv, NEW a \in Attempts, AttemptLeaseLapses(a)
    PROVE  WInv'
<1>1. Typed /\ Rows /\ att[a] \in AttemptRow
  BY DEF WInv, Typed
<1> DEFINE r == [att[a] EXCEPT !.lease = "lapsed"]
<1>2. r \in AttemptRow /\ r.state = att[a].state /\ r.lease = "lapsed"
  BY <1>1 DEF AttemptRow
<1>3. att' = [att EXCEPT ![a] = r] /\ UNCHANGED <<executed, disk, objects, cancelRequested, wk>>
  BY DEF AttemptLeaseLapses
<1> HIDE DEF r
<1>4. att[a].state \in LiveStates /\ (att[a].state = "cancelled" => cancelRequested)
  BY <1>1 DEF AttemptLeaseLapses, Rows, RowGood
<1>5. att' \in [Attempts -> AttemptRow] /\ Rows' /\ att'[a] = r
  BY Zenon, <1>1, <1>2, <1>3, <1>4, AttemptWritten DEF LiveStates
<1>6. \A i \in Attempts : i # a => att'[i] = att[i]
  BY <1>1, <1>3 DEF Typed
<1>7. Advances(att, att')
  BY <1>2, <1>5, <1>6 DEF Advances
<1> QED BY <1>1, <1>3, <1>5, <1>7, GatewayAlone DEF Typed

LEMMA SweepLeaseKeeps ==
    ASSUME WInv, NEW a \in Attempts, SweepLease(a)
    PROVE  WInv'
<1>1. Typed /\ Rows
  BY DEF WInv
<1> DEFINE r == [state |-> "expired", lease |-> "released"]
<1>2. r \in AttemptRow /\ r.state = "expired" /\ r.lease = "released"
  BY DEF AttemptRow
<1>3. att' = [att EXCEPT ![a] = r] /\ UNCHANGED <<executed, disk, objects, cancelRequested, wk>>
  BY DEF SweepLease
<1> HIDE DEF r
<1>4. att' \in [Attempts -> AttemptRow] /\ Rows' /\ att'[a] = r
  BY Zenon, <1>1, <1>2, <1>3, AttemptWritten
<1>5. \A i \in Attempts : i # a => att'[i] = att[i]
  BY <1>1, <1>3 DEF Typed
<1>6. Advances(att, att')
  BY <1>2, <1>4, <1>5 DEF Advances
<1> QED BY <1>1, <1>3, <1>4, <1>6, GatewayAlone DEF Typed

LEMMA CancelTaskKeeps == WInv /\ CancelTask => WInv'
<1> SUFFICES ASSUME WInv, CancelTask PROVE WInv'
  OBVIOUS
<1>1. Typed /\ Rows
  BY DEF WInv
<1> DEFINE r == [state |-> "cancelled", lease |-> "released"]
<1>2. r \in AttemptRow /\ r.state = "cancelled" /\ r.lease = "released"
  BY DEF AttemptRow
<1>3. /\ att' = [a \in Attempts |-> IF att[a].state = "leased" THEN r ELSE att[a]]
      /\ cancelRequested' = TRUE /\ UNCHANGED <<executed, disk, objects, wk>>
  BY DEF CancelTask
<1> HIDE DEF r
<1>4. att' \in [Attempts -> AttemptRow]
  BY <1>1, <1>2, <1>3 DEF Typed
<1>5. \A a \in Attempts : att'[a] = att[a] \/ att'[a] = r
  BY <1>3
<1>6. ASSUME NEW a \in Attempts
      PROVE  RowGood(att'[a], executed[a], disk[a], objects[a], TRUE)
  <2>1. CASE att'[a] = att[a]
    BY <1>1, <2>1 DEF Rows, RowGood
  <2>2. CASE att'[a] = r
    BY <1>1, <1>2, <2>2 DEF Rows, RowGood
  <2> QED BY Zenon, <1>5, <2>1, <2>2
<1>7. Rows'
  BY Zenon, <1>3, <1>6 DEF Rows
<1>8. Advances(att, att')
  BY <1>2, <1>5 DEF Advances
<1> QED BY <1>3, <1>4, <1>7, <1>8, GatewayAlone

\* A power loss tears only what no manifest names.
LEMMA WorkerCrashKeeps ==
    ASSUME WInv, NEW power \in BOOLEAN, WorkerCrash(power)
    PROVE  WInv'
<1>1. /\ Typed /\ Rows /\ UNCHANGED <<gateway, executed>>
      /\ wk' = [Fresh(0) EXCEPT !.pc = "down"]
  BY DEF WInv, WorkerCrash
<1> DEFINE F(a) == [o \in Outputs |-> IF disk[a].files[o] = "volatile" THEN "torn"
                                      ELSE disk[a].files[o]]
           T(a) == [disk[a] EXCEPT !.files = F(a)]
<1>2. disk' = disk \/ disk' = [a \in Attempts |-> T(a)]
  BY DEF WorkerCrash
<1>3. ASSUME NEW a \in Attempts
      PROVE  /\ T(a) \in Directory /\ T(a).manifest = disk[a].manifest
             /\ T(a).pending = disk[a].pending
             /\ \A o \in Outputs : disk[a].files[o] # "volatile"
                                     => T(a).files[o] = disk[a].files[o]
  <2>1. disk[a] \in Directory
    BY <1>1 DEF Typed
  <2>2. F(a) \in [Outputs -> {"none", "volatile", "durable", "torn"}]
    BY <2>1 DEF Directory
  <2>3. \A o \in Outputs : disk[a].files[o] # "volatile" => F(a)[o] = disk[a].files[o]
    OBVIOUS
  <2> HIDE DEF F
  <2> QED BY <2>1, <2>2, <2>3 DEF Directory
<1> HIDE DEF T
<1>4. disk' \in [Attempts -> Directory]
  BY <1>1, <1>2, <1>3 DEF Typed
<1>5. ASSUME NEW a \in Attempts
      PROVE  RowGood(att[a], executed[a], disk'[a], objects[a], cancelRequested)
  <2>1. CASE disk' = disk
    BY <1>1, <2>1 DEF Rows
  <2>2. CASE disk'[a] = T(a)
    BY <1>1, <1>3, <2>2 DEF Rows, RowGood
  <2> QED BY <1>2, <2>1, <2>2
<1>6. Good(wk', att, executed, disk', objects, cancelRequested)
  BY <1>1, FreshGood
<1>7. Typed' /\ Rows'
  BY <1>1, <1>4, <1>5, <1>6 DEF Typed, Rows, Good, gateway
<1> QED BY <1>1, <1>6, <1>7 DEF WInv, gateway

-----------------------------------------------------------------------------
(* Every behaviour *)

LEMMA NextKeeps == WInv /\ [CoreNext]_coreVars => WInv'
<1> SUFFICES ASSUME WInv, [CoreNext]_coreVars PROVE WInv'
  OBVIOUS
<1>1. CASE WorkerStep
  BY ZenonT(30), <1>1, StartKeeps, ScanKeeps, PollLeaseKeeps, RefuseKeeps, PrepareKeeps,
     DownloadKeeps, MarkStartedKeeps, ExecuteKeeps, EncryptKeeps, SyncKeeps,
     WriteTemporaryKeeps, PublishManifestKeeps, SaveFailsKeeps, UploadKeeps,
     UploadFailsKeeps, UploadsDoneKeeps, CompleteAttemptKeeps, ReportAttemptFailureKeeps,
     DiscardPendingKeeps, UnlinkKeeps, ReconnectKeeps, RenewTicketsKeeps
     DEF WorkerStep
<1>2. CASE UNCHANGED coreVars
  BY <1>2 DEF coreVars, WInv, Typed, Rows
<1> QED BY ZenonT(30), <1>1, <1>2, RefreshSessionKeeps, ReportKeeps, KeeperHeartbeatKeeps, CancelTaskKeeps,
           AttemptLeaseLapsesKeeps, SweepLeaseKeeps, WorkerCrashKeeps DEF CoreNext

\* The tables of the Gateway, the spool directories and the memory of the
\* process agree at every step: what is journaled, stored and known.
THEOREM WorkerInvariant == CoreSpec => []WInv
  BY InitHolds, NextKeeps, PTL DEF CoreSpec

\* No attempt is executed twice, whatever is lost, replayed or restarted:
\* poll_lease replays an unanswered lease only before it was started, and
\* process runs only on an attempt that nothing was executed for.
THEOREM AttemptsExecuteOnce == CoreSpec => []ExecutedOnce
<1>1. WInv => ExecutedOnce
  BY DEF WInv, Rows, RowGood, ExecutedOnce
<1> QED BY <1>1, WorkerInvariant, PTL

\* A manifest in the spool names only synchronized ciphertexts, and success is
\* reported only when every output is in the store, through any number of
\* crashes, power losses and resumed uploads (UploadJournal.save, complete).
THEOREM ManifestsAreDurable == CoreSpec => []PublishedIsDurable
<1>1. WInv => PublishedIsDurable
  BY DEF WInv, Rows, RowGood, Good, Journals, PublishedIsDurable
<1> QED BY <1>1, WorkerInvariant, PTL

\* A journaled result is given up without a report only when the lease is over
\* or an HTTP error answered a call for it, and as cancelled only when the task
\* is: a call nobody answers costs no result (process, resume_pending,
\* _discard_pending_attempt).
THEOREM OutagesKeepResults == CoreSpec => []ResultKeptWhileLeased
<1>1. WInv => ResultKeptWhileLeased
  BY DEF WInv, Rows, RowGood, Good, Informed, Dropping, LeaseValid, ResultKeptWhileLeased
<1> QED BY <1>1, WorkerInvariant, PTL
=============================================================================
