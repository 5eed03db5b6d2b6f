----------------------------- MODULE UsageLedger -----------------------------
(***************************************************************************)
(* The usage ledger.  A handler that finishes an attempt, or an            *)
(* administrator's reversal, reads the clock before its transaction and    *)
(* appends under that time, linked to the row with the greatest            *)
(* (created_at, id).  Ids are random, so any unused id may come next.      *)
(*                                                                         *)
(* Charges are never billable today; databases written by earlier releases *)
(* hold billable ones, and only those can be reversed.                     *)
(***************************************************************************)
EXTENDS Integers

CONSTANTS LedgerIds,        \* ids of ledger rows, a set of naturals
          FinishCalls,      \* handlers that finish an attempt
          ReverseCalls,     \* handlers of reversal requests
          LastTick          \* the clock stops here

ASSUME LedgerAssumption == LedgerIds \subseteq Nat \ {0} /\ LastTick \in Nat

VARIABLES ledger,           \* the rows, in no order
          ledgerCalls,      \* what each handler has read so far
          ledgerClock
ledgerVars == <<ledger, ledgerCalls, ledgerClock>>

Calls == FinishCalls \cup ReverseCalls
NoLink == 0
NotCalled == [step |-> "idle", stamp |-> 0, prior |-> NoLink]

Row(id, stamp, type, billable, total, prior, reverses) ==
    [id |-> id, created |-> stamp, type |-> type, billable |-> billable,
     total |-> total, previous |-> prior, reverses |-> reverses]

\* An empty ledger, or one with a billable charge and a failed attempt's free
\* one, from an earlier release.
LedgerInit ==
    /\ \/ ledger = {}
       \/ \E x \in LedgerIds : \E y \in LedgerIds \ {x} :
             ledger = {Row(x, 0, "charge", TRUE, 2, NoLink, NoLink),
                       Row(y, 1, "charge", FALSE, 0, x, NoLink)}
    /\ ledgerCalls = [c \in Calls |-> NotCalled]
    /\ ledgerClock = 1

Unused == LedgerIds \ {r.id : r \in ledger}
Later(r, s) == r.created > s.created \/ (r.created = s.created /\ r.id > s.id)

\* ORDER BY created_at DESC, id DESC LIMIT 1.
PriorLink ==
    IF ledger = {} THEN NoLink
    ELSE (CHOOSE r \in ledger : \A s \in ledger \ {r} : Later(r, s)).id

Step(c, s) == ledgerCalls' = [ledgerCalls EXCEPT ![c] = s]

----------------------------------------------------------------------------
\* finish_attempt and reverse_usage_charge: stamp = now().
ReadClock(c) ==
    /\ ledgerCalls[c].step = "idle"
    /\ Step(c, [ledgerCalls[c] EXCEPT !.step = "stamped", !.stamp = ledgerClock])
    /\ UNCHANGED <<ledger, ledgerClock>>

\* The prior row looked up before BEGIN IMMEDIATE instead of after it.
PriorBefore(c, id) ==
    IF c \in FinishCalls /\ ledgerCalls[c].step = "stamped"
    THEN /\ Step(c, [ledgerCalls[c] EXCEPT !.step = "read", !.prior = PriorLink])
         /\ UNCHANGED <<ledger, ledgerClock>>
    ELSE /\ ledgerCalls[c].step = "read" /\ c \in FinishCalls
         /\ ledger' = ledger \cup
                {Row(id, ledgerCalls[c].stamp, "charge", FALSE, 0, ledgerCalls[c].prior, NoLink)}
         /\ Step(c, [ledgerCalls[c] EXCEPT !.step = "done"])
         /\ UNCHANGED ledgerClock

\* _append_ledger, inside the transaction of finish_attempt.
AppendCharge(c, id) ==
    /\ c \in FinishCalls /\ ledgerCalls[c].step = "stamped"
    /\ ledger' = ledger \cup
           {Row(id, ledgerCalls[c].stamp, "charge", FALSE, 0, PriorLink, NoLink)}
    /\ Step(c, [ledgerCalls[c] EXCEPT !.step = "done"])
    /\ UNCHANGED ledgerClock

Reversals(r) == {s \in ledger : s.reverses = r.id}
Reversible(r) == r.type = "charge" /\ r.billable /\ r.total >= 0

\* An existing reversal is returned; a row that is no billable charge is refused;
\* otherwise one row is appended that takes the charge back.
Reverse(c, r, id) ==
    /\ c \in ReverseCalls /\ ledgerCalls[c].step = "stamped"
    /\ ledger' = IF Reversals(r) = {} /\ Reversible(r)
                 THEN ledger \cup {Row(id, ledgerCalls[c].stamp, "reversal", TRUE, -r.total,
                                       PriorLink, r.id)}
                 ELSE ledger
    /\ Step(c, [ledgerCalls[c] EXCEPT !.step = "done"])
    /\ UNCHANGED ledgerClock

\* The call failed before its transaction committed, or its answer was lost:
\* it is made again.
CallAgain(c) ==
    /\ ledgerCalls[c].step \in {"stamped", "read"} \/
       (c \in ReverseCalls /\ ledgerCalls[c].step = "done")
    /\ Step(c, NotCalled)
    /\ UNCHANGED <<ledger, ledgerClock>>

Tick ==
    /\ ledgerClock < LastTick
    /\ ledgerClock' = ledgerClock + 1
    /\ UNCHANGED <<ledger, ledgerCalls>>

LedgerNext ==
    \/ Tick
    \/ \E c \in Calls :
           \/ ReadClock(c) \/ CallAgain(c)
           \/ \E id \in Unused :
                  AppendCharge(c, id) \/ (\E r \in ledger : Reverse(c, r, id))

----------------------------------------------------------------------------
\* A set of rows with the first one and with every row linked to one of its own.
Follows(S) ==
    \A r \in ledger : (r.previous = NoLink \/ \E s \in S : r.previous = s.id) => r \in S

\* Whatever order concurrent handlers read the clock and commit in, the rows
\* hang together: one row has no predecessor, and every other is reached from it
\* along the links, so that no part of the ledger is detached
\* (_append_ledger and reverse_usage_charge look the prior row up inside the
\* immediate transaction); and only a charge is taken back, once, in full.
LedgerHangsTogether ==
    /\ \A r, s \in ledger : r.previous = NoLink /\ s.previous = NoLink => r = s
    /\ \A S \in SUBSET ledger : Follows(S) => S = ledger
    /\ \A r \in ledger : \A s, u \in Reversals(r) :
           r.type = "charge" /\ s = u /\ s.total = -r.total
=============================================================================
