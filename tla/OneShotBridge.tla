---------------------------- MODULE OneShotBridge ----------------------------
(***************************************************************************)
(* OneShotRuntimeBridge (_nvdaPiperDriver/runtimeBridge.py) and the one-shot *)
(* mode of its worker: every call of synthesize starts a process, hands it   *)
(* the request and waits for its end, for a minute at most.  The driver now  *)
(* uses the persistent bridge; this one is called by its tests, and here as  *)
(* the controller calls a bridge, whose arguments it preceded.              *)
(*                                                                         *)
(* A step is a critical section of _processLock or an operation on a        *)
(* process.  What the worker answers is in WorkerFrames.                    *)
(***************************************************************************)
EXTENDS Integers, Sequences

CONSTANTS
    MaxCalls,        \* bound: calls of synthesize
    MaxInterrupts    \* bound: interrupts before shutdown

ASSUME OneShotAssumption == MaxCalls \in Nat /\ MaxInterrupts \in Nat

None == 0

VARIABLES
    (* the bridge's fields: _process, _cancellationToken *)
    process, cancellationToken,
    (* controller thread: its place in synthesize, the token of its request, the
       number of calls, the local process, how the last call ended or will end *)
    cpc, token, call, handle, outcome,
    (* main thread: its place in interrupt, shutdown or stop, its local process *)
    mpc, victim,
    (* the processes started so far *)
    status

fields == <<process, cancellationToken>>
callVars == <<cpc, token, call, handle, outcome>>
mainVars == <<mpc, victim>>
vars == <<fields, callVars, mainVars, status>>

(* poll() is None *)
Alive(w) == w # None /\ status[w] \in {"running", "dying"}

Init ==
    /\ process = None /\ cancellationToken = 0
    /\ cpc = "idle" /\ token = 0 /\ call = 0 /\ handle = None /\ outcome = "none"
    /\ mpc = "idle" /\ victim = None
    /\ status = <<>>

-----------------------------------------------------------------------------
(* The controller thread. *)

Proceed(from, to) == cpc = from /\ cpc' = to /\ UNCHANGED <<token, call, mainVars>>

Return(from, how) ==
    /\ Proceed(from, IF how = "result" THEN "ready" ELSE "idle")
    /\ outcome' = how
    /\ handle' = None

ReadToken ==
    /\ cpc = "idle" /\ mpc \in {"idle", "terminate"}
    /\ cpc' = "ready" /\ token' = cancellationToken
    /\ UNCHANGED <<fields, call, handle, outcome, mainVars, status>>

EndRequest == Proceed("ready", "idle") /\ UNCHANGED <<fields, handle, outcome, status>>

(* synthesize: the token is compared first.  It raises workerBusy when it finds
   a process, which its only caller never leaves there (WorkersAreOwned). *)
Call ==
    /\ cpc = "ready" /\ call < MaxCalls
    /\ call' = call + 1
    /\ \/ token = cancellationToken /\ process = None /\ cpc' = "spawn" /\ outcome' = "none"
       \/ token # cancellationToken /\ cpc' = "idle" /\ outcome' = "cancelled"
    /\ UNCHANGED <<fields, token, handle, mainVars, status>>

Spawn ==
    /\ \/ Return("spawn", "workerStartupFailure") /\ UNCHANGED status
       \/ /\ Proceed("spawn", "publish")
          /\ status' = Append(status, "running")
          /\ handle' = Len(status) + 1
          /\ UNCHANGED outcome
    /\ UNCHANGED fields

(* Faulty variant: it is not asked again whether the call is still wanted. *)
PublishUnchecked ==
    /\ Proceed("publish", "communicate")
    /\ process' = handle
    /\ UNCHANGED <<cancellationToken, handle, outcome, status>>

Publish ==
    /\ Proceed("publish", IF token = cancellationToken THEN "communicate" ELSE "terminateOwn")
    /\ process' = handle
    /\ UNCHANGED <<cancellationToken, handle, outcome, status>>

Terminated(w) == [status EXCEPT ![w] = IF Alive(w) THEN "dying" ELSE @]

(* It was interrupted before anyone could see its process. *)
TerminateOwn ==
    /\ Proceed("terminateOwn", "communicate")
    /\ status' = Terminated(handle)
    /\ UNCHANGED <<fields, handle, outcome>>

(* communicate() returns when the process has ended, or after a minute; then the
   process is terminated, and killed if it does not end. *)
Communicate ==
    /\ cpc = "communicate"
    /\ \/ ~Alive(handle) /\ Proceed("communicate", "clear") /\ UNCHANGED <<status, outcome>>
       \/ /\ Alive(handle) /\ Proceed("communicate", "reap")
          /\ status' = Terminated(handle)
          /\ outcome' = "workerHang"
    /\ UNCHANGED <<fields, handle>>

(* Faulty variant: its end is not awaited. *)
ReapOwnLater == Proceed("reap", "clear") /\ UNCHANGED <<fields, handle, outcome, status>>

ReapOwn ==
    /\ Proceed("reap", "clear")
    /\ status' = [status EXCEPT ![handle] = "failed"]
    /\ UNCHANGED <<fields, handle, outcome>>

(* finally; a hung worker's error is then on its way. *)
ClearProcess ==
    /\ process' = IF process = handle THEN None ELSE process
    /\ \/ outcome = "none" /\ Proceed("clear", "judge") /\ UNCHANGED <<handle, outcome>>
       \/ outcome = "workerHang" /\ Return("clear", "workerHang")
    /\ UNCHANGED <<cancellationToken, status>>

(* Faulty variant: the answer is taken whatever came meanwhile. *)
JudgeExitOnly ==
    /\ cpc = "judge"
    /\ \/ status[handle] = "failed" /\ Return("judge", "workerFailure")
       \/ status[handle] = "answered" /\ \E how \in {"result", "badResponse"} : Return("judge", how)
    /\ UNCHANGED <<fields, status>>

(* The token, the exit status and the response, in this order. *)
Judge ==
    /\ cpc = "judge"
    /\ \/ token # cancellationToken /\ Return("judge", "cancelled")
       \/ /\ token = cancellationToken
          /\ \/ status[handle] = "failed" /\ Return("judge", "workerFailure")
             \/ /\ status[handle] = "answered"
                /\ \E how \in {"result", "badResponse"} : Return("judge", how)
    /\ UNCHANGED <<fields, status>>

-----------------------------------------------------------------------------
(* The main thread: interrupt, and the steps of BackgroundController.shutdown. *)

(* The critical section of interrupt() and forceStop(). *)
Revoke(from, to) ==
    /\ mpc = from /\ mpc' = to
    /\ cancellationToken' = cancellationToken + 1
    /\ victim' = process
    /\ UNCHANGED <<process, callVars, status>>

(* terminate() or kill(), unless the process has ended. *)
Kill(from, to) ==
    /\ mpc = from /\ mpc' = to
    /\ status' = IF victim = None THEN status ELSE Terminated(victim)
    /\ UNCHANGED <<fields, callVars, victim>>

Interrupt == Revoke("idle", "terminate") /\ cancellationToken < MaxInterrupts
BeginShutdown == Revoke("idle", "shutdown")

JoinThread(from) ==
    /\ mpc = from /\ mpc' = "stop"
    /\ UNCHANGED <<fields, callVars, victim, status>>
(* shutdown() gives up waiting. *)
ForceStop == Revoke("join", "forceStop")

(* stop(), after its interrupt. *)
Snapshot ==
    /\ mpc = "snapshot" /\ mpc' = IF Alive(process) THEN "reap" ELSE "done"
    /\ victim' = process
    /\ UNCHANGED <<fields, callVars, status>>

Reap ==
    /\ mpc = "reap" /\ mpc' = "done"
    /\ status' = [status EXCEPT ![victim] = IF Alive(victim) THEN "failed" ELSE @]
    /\ UNCHANGED <<fields, callVars, victim>>

-----------------------------------------------------------------------------
(* A worker answers, or fails, or hangs. *)
End(w) ==
    /\ \/ status[w] = "running" /\ \E how \in {"answered", "failed"} : status' = [status EXCEPT ![w] = how]
       \/ status[w] = "dying" /\ status' = [status EXCEPT ![w] = "failed"]
    /\ UNCHANGED <<fields, callVars, mainVars>>

CallStep ==
    \/ Spawn \/ Publish \/ TerminateOwn \/ Communicate \/ ReapOwn \/ ClearProcess \/ Judge

InterruptStep ==
    \/ Kill("terminate", "idle") \/ Kill("shutdown", "join")
    \/ JoinThread("join") /\ cpc = "idle"
    \/ ForceStop \/ Kill("forceStop", "forcedJoin") \/ JoinThread("forcedJoin")
    \/ Revoke("stop", "stopKill") \/ Kill("stopKill", "snapshot")
    \/ Snapshot \/ Reap

(* Nothing is left to do after stop(). *)
Finished ==
    /\ mpc = "done" /\ cpc = "idle" /\ \A w \in 1 .. Len(status) : ~Alive(w)
    /\ UNCHANGED vars

Next ==
    \/ Finished
    \/ ReadToken \/ Call \/ EndRequest \/ CallStep
    \/ Interrupt \/ BeginShutdown \/ InterruptStep
    \/ \E w \in 1 .. Len(status) : End(w)

Spec == Init /\ [][Next]_vars

(* Both threads run; nobody is obliged to call, interrupt or stop, and no worker
   to end, for communicate() gives up. *)
FairSpec == Spec /\ WF_vars(CallStep) /\ WF_vars(InterruptStep) /\ WF_vars(EndRequest)

-----------------------------------------------------------------------------
(* Properties. *)

Calling == cpc \notin {"idle", "ready"}

Failures == {"workerStartupFailure", "workerHang", "workerFailure", "badResponse"}

(* "The bridge uses a cancellation token to close the race between generation
   replacement and child creation": a call that waits for its worker although it
   was interrupted waits for one that is being ended, wherever in the start of
   the process the interrupt came. *)
RevokedWorkersAreDoomed ==
    cpc = "communicate" /\ token # cancellationToken =>
        \/ status[handle] # "running"
        \/ victim = handle /\ mpc \in {"terminate", "shutdown", "forceStop", "stopKill"}

(* "Own at most one synchronous, one-request worker process": none runs but that
   of the call in progress, interrupt() finds it from its publication to its
   end, and a call never finds an earlier one's. *)
WorkersAreOwned ==
    /\ process # None => process = handle
    /\ \A w \in 1 .. Len(status) :
          Alive(w) => handle = w /\ (process = w \/ cpc = "publish")

(* To its caller the bridge is the contract, also when workers hang. *)
Contract == INSTANCE BridgeContract WITH
    phase <- IF Calling THEN "calling" ELSE cpc,
    stale <- token # cancellationToken,
    ending <- CASE Calling -> "none"
                [] ~Calling /\ outcome = "result" -> "speech"
                [] ~Calling /\ outcome \in Failures -> "error"
                [] OTHER -> outcome

ImplementsContract == Contract!Spec
=============================================================================
