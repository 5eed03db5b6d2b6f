------------------------------- MODULE ComfyRun -------------------------------
(***************************************************************************)
(* ComfyUIExecutor.execute and the client below it (executors/comfyui.py): *)
(* one run after the other submits a prompt to the ComfyUI process on the  *)
(* Worker's machine, follows it over a websocket or, once that is closed,  *)
(* by polling the history, and collects its outputs.  An interrupt stops   *)
(* whatever prompt ComfyUI runs at that moment; it may be lost, or handled *)
(* long after the client has stopped waiting for the answer.               *)
(*                                                                         *)
(* The prompt of a run is named after the run.  What ComfyUI does is taken *)
(* from what the client expects of it: it works through its queue, tells   *)
(* the client of a prompt over the websocket, and then records the prompt  *)
(* in its history, which a restart loses.                                  *)
(***************************************************************************)
EXTENDS Naturals, Sequences

CONSTANTS
    MaxRuns,        \* executions, one after the other
    MaxComfyFaults  \* bound on lost calls, closed sockets and restarts

ASSUME RunsAssumption == MaxRuns \in Nat \ {0}

VARIABLES
    prompts,     \* ComfyUI's queue
    sampling,    \* the prompt it runs, 0 if none, and whether it is told to stop
    history,     \* what its history says of each prompt
    ended,       \* how each prompt really ended
    socket,      \* messages on their way to the client of the running execute
    exec,        \* the executor
    asked,       \* runs whose context says cancelled
    late,        \* an interrupt ComfyUI has not handled yet
    outcome,     \* how each run ended
    comfyFaults  \* faults left

runVars == <<prompts, sampling, history, ended, socket, exec, asked, late, outcome, comfyFaults>>

comfyVars == <<prompts, sampling, history, ended>>

Runs == 1..MaxRuns

RunAtRest(r) == [pc |-> "idle", r |-> r, open |-> FALSE, closed |-> FALSE, expired |-> FALSE]

RunInit ==
    /\ prompts = <<>>
    /\ sampling = [r |-> 0, stop |-> FALSE, told |-> FALSE]
    /\ history = [r \in Runs |-> "none"]
    /\ ended = [r \in Runs |-> "none"]
    /\ socket = <<>>
    /\ exec = RunAtRest(0)
    /\ asked = [r \in Runs |-> FALSE]
    /\ late = FALSE
    /\ outcome = [r \in Runs |-> "none"]
    /\ comfyFaults = MaxComfyFaults

ComfyFault == comfyFaults > 0 /\ comfyFaults' = comfyFaults - 1

\* Every way out of run closes the websocket.
LeaveRun(o) ==
    /\ exec' = RunAtRest(exec.r)
    /\ socket' = <<>>
    /\ outcome' = [outcome EXCEPT ![exec.r] = o]

Goto(pc) == exec' = [exec EXCEPT !.pc = pc] /\ UNCHANGED <<socket, outcome>>

-----------------------------------------------------------------------------
(* execute, up to the submission *)

\* The payload does not decode, or is not what the installed release builds from
\* its parameters.
RefusePayload(r) == outcome' = [outcome EXCEPT ![r] = "refused"] /\ exec' = RunAtRest(r)

\* The release, its resources, models, policy and parameters are checked; then
\* a cancellation ends the run before ComfyUI hears of it.
BeginExecute ==
    /\ exec.pc = "idle" /\ exec.r < MaxRuns
    /\ LET r == exec.r + 1 IN
       \/ RefusePayload(r)
       \/ /\ asked[r]
          /\ outcome' = [outcome EXCEPT ![r] = "cancelled"]
          /\ exec' = RunAtRest(r)
       \/ /\ ~asked[r]
          /\ exec' = [RunAtRest(r) EXCEPT !.pc = "bind"]
          /\ UNCHANGED outcome
    /\ UNCHANGED <<comfyVars, socket, asked, late, comfyFaults>>

BindInput ==
    /\ exec.pc = "bind"
    /\ \/ Goto("connect") /\ UNCHANGED comfyFaults
       \/ LeaveRun("refused") /\ UNCHANGED comfyFaults
       \/ LeaveRun("unavailable") /\ ComfyFault
    /\ UNCHANGED <<comfyVars, asked, late>>

Connect ==
    /\ exec.pc = "connect"
    /\ \/ /\ exec' = [exec EXCEPT !.pc = "submit", !.open = TRUE]
          /\ UNCHANGED <<socket, outcome, comfyFaults>>
       \/ LeaveRun("unavailable") /\ ComfyFault
    /\ UNCHANGED <<comfyVars, asked, late>>

\* A lost answer leaves a prompt in the queue that nobody waits for.
SubmitPrompt ==
    /\ exec.pc = "submit"
    /\ \/ Goto("wait") /\ prompts' = Append(prompts, exec.r) /\ UNCHANGED comfyFaults
       \/ LeaveRun("refused") /\ UNCHANGED <<prompts, comfyFaults>>
       \/ LeaveRun("unavailable") /\ prompts' \in {prompts, Append(prompts, exec.r)} /\ ComfyFault
    /\ UNCHANGED <<sampling, history, ended, asked, late>>

-----------------------------------------------------------------------------
(* _wait *)

\* POST /interrupt: handled, lost, or still on its way when the client gives up.
Interrupt ==
    \/ /\ sampling' = [sampling EXCEPT !.stop = sampling.r # 0]
       /\ UNCHANGED <<late, comfyFaults>>
    \/ late' \in {late, TRUE} /\ UNCHANGED sampling /\ ComfyFault

WaitTurn ==
    /\ exec.pc = "wait"
    /\ \/ exec.expired /\ LeaveRun("timeout") /\ Interrupt
       \/ ~exec.expired /\ asked[exec.r] /\ LeaveRun("cancelled") /\ Interrupt
       \/ /\ ~exec.expired /\ ~asked[exec.r]
          /\ Goto(IF exec.closed THEN "poll" ELSE "recv")
          /\ UNCHANGED <<sampling, late, comfyFaults>>
    /\ UNCHANGED <<prompts, history, ended, asked>>

\* Nothing arrives for a second, the websocket is closed, or a message does;
\* progress is ignored.
Receive ==
    /\ exec.pc = "recv"
    /\ \/ exec.open /\ socket = <<>> /\ Goto("wait")
       \/ /\ ~exec.open
          /\ exec' = [exec EXCEPT !.pc = "wait", !.closed = TRUE]
          /\ UNCHANGED <<socket, outcome>>
       \/ /\ socket # <<>>
          /\ CASE Head(socket) \in {"success", "idle"} -> Goto("collect")
               [] Head(socket) = "error" -> LeaveRun("failed")
               [] Head(socket) = "interrupted" -> LeaveRun("cancelled")
    /\ UNCHANGED <<comfyVars, asked, late, comfyFaults>>

HistoryFailureUnlessStopped(h) == IF h = "error" THEN "failed" ELSE "none"

HistoryFailure(h) ==
    IF h = "error" THEN "failed" ELSE IF h = "interrupted" THEN "cancelled" ELSE "none"

\* An interrupted prompt may have outputs as well.
HistorySucceeded(h) == h \in {"success", "interrupted"}

Poll ==
    /\ exec.pc = "poll"
    /\ \/ /\ UNCHANGED comfyFaults
          /\ LET h == history[exec.r] IN
             IF HistoryFailure(h) # "none" THEN LeaveRun(HistoryFailure(h))
             ELSE Goto(IF HistorySucceeded(h) THEN "collect" ELSE "wait")
       \/ LeaveRun("unavailable") /\ ComfyFault
    /\ UNCHANGED <<comfyVars, asked, late>>

\* on_progress reaches the Gateway: a lost lease ends the run from there, and
\* ComfyUI is not told.
ProgressRaises ==
    /\ exec.pc \in {"recv", "poll"}
    /\ ComfyFault
    /\ LeaveRun("lost")
    /\ UNCHANGED <<comfyVars, asked, late>>

ReturnOutputs == LeaveRun("done")

\* An output that is not on disk.
MissingOutput == LeaveRun("failed")

\* The history may not be written yet; after eight tries it counts as missing.
\* A prompt without an output has failed.
CollectOutputs ==
    /\ exec.pc = "collect"
    /\ \/ /\ UNCHANGED comfyFaults
          /\ LET h == history[exec.r] IN
             IF h = "none" THEN LeaveRun("failed")
             ELSE IF HistoryFailure(h) # "none" THEN LeaveRun(HistoryFailure(h))
             ELSE ReturnOutputs \/ MissingOutput
       \/ LeaveRun("unavailable") /\ ComfyFault
    /\ UNCHANGED <<comfyVars, asked, late>>

-----------------------------------------------------------------------------
(* ComfyUI, the consumer and time *)

Tell(m) == socket' = IF exec.open /\ exec.r = sampling.r THEN Append(socket, m) ELSE socket

ComfyStarts ==
    /\ sampling.r = 0 /\ prompts # <<>>
    /\ sampling' = [r |-> Head(prompts), stop |-> FALSE, told |-> FALSE]
    /\ prompts' = Tail(prompts)
    /\ UNCHANGED <<history, ended, socket, exec, asked, late, outcome, comfyFaults>>

ComfyEnds(how) ==
    /\ sampling.r # 0 /\ ~sampling.told
    /\ how = "interrupted" => sampling.stop
    /\ ended' = [ended EXCEPT ![sampling.r] = how]
    /\ sampling' = [sampling EXCEPT !.told = TRUE]
    /\ Tell(how)
    /\ UNCHANGED <<prompts, history, exec, asked, late, outcome, comfyFaults>>

ComfyRecords ==
    /\ sampling.told
    /\ history' = [history EXCEPT ![sampling.r] = ended[sampling.r]]
    /\ sampling' = [r |-> 0, stop |-> FALSE, told |-> FALSE]
    /\ Tell("idle")
    /\ UNCHANGED <<prompts, ended, exec, asked, late, outcome, comfyFaults>>

SocketDrops ==
    /\ exec.open /\ ComfyFault
    /\ exec' = [exec EXCEPT !.open = FALSE]
    /\ socket' = <<>>
    /\ UNCHANGED <<comfyVars, asked, late, outcome>>

ComfyRestarts ==
    /\ ComfyFault
    /\ prompts' = <<>>
    /\ sampling' = [r |-> 0, stop |-> FALSE, told |-> FALSE]
    /\ history' = [r \in Runs |-> "none"]
    /\ exec' = [exec EXCEPT !.open = FALSE]
    /\ socket' = <<>>
    /\ UNCHANGED <<ended, asked, late, outcome>>

InterruptArrives ==
    /\ late
    /\ late' = FALSE
    /\ sampling' = [sampling EXCEPT !.stop = sampling.r # 0]
    /\ UNCHANGED <<prompts, history, ended, socket, exec, asked, outcome, comfyFaults>>

AskCancel(r) ==
    /\ r \in {exec.r, exec.r + 1} \cap Runs
    /\ ~asked[r] /\ outcome[r] = "none"
    /\ asked' = [asked EXCEPT ![r] = TRUE]
    /\ UNCHANGED <<comfyVars, socket, exec, late, outcome, comfyFaults>>

DeadlinePasses ==
    /\ exec.pc \in {"wait", "recv", "poll"} /\ ~exec.expired
    /\ exec' = [exec EXCEPT !.expired = TRUE]
    /\ UNCHANGED <<comfyVars, socket, asked, late, outcome, comfyFaults>>

RunNext ==
    \/ BeginExecute \/ BindInput \/ Connect \/ SubmitPrompt
    \/ WaitTurn \/ Receive \/ Poll \/ ProgressRaises \/ CollectOutputs
    \/ ComfyStarts \/ ComfyRecords \/ SocketDrops \/ ComfyRestarts \/ InterruptArrives
    \/ \E how \in {"success", "error", "interrupted"} : ComfyEnds(how)
    \/ \E r \in Runs : AskCancel(r)
    \/ DeadlinePasses

-----------------------------------------------------------------------------
\* Whatever told the executor that a prompt is over - a message, the history, or
\* neither after a restart - it returns outputs only of a prompt that ran to its
\* end, and says cancelled only of a run that was cancelled or whose own prompt
\* was interrupted (_wait, _history_failure, _collect_outputs).  Who asked for
\* that interrupt is not part of it: one that an earlier run sent, or that is
\* handled late, stops the prompt of the next run, against the comment of cancel
\* that "an interrupt cannot affect another attempt".
ReturnedIsCompleted ==
    \A r \in Runs :
        /\ outcome[r] = "done" => ended[r] = "success"
        /\ outcome[r] = "cancelled" => asked[r] \/ ended[r] = "interrupted"
=============================================================================
