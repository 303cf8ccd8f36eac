----------------------------- MODULE RuntimeBridge -----------------------------
(***************************************************************************)
(* PersistentRuntimeBridge (_nvdaPiperDriver/runtimeBridge.py) and its      *)
(* worker processes (runtimeWorker.py): the controller thread calls         *)
(* synthesize, which starts a worker when there is none; NVDA's main thread *)
(* calls interrupt, forceStop and stop, which kill it.                      *)
(*                                                                         *)
(* A step is what a thread does between two moments at which another thread *)
(* or a worker can interfere: a critical section of _processLock, a process *)
(* or pipe operation, an unlocked read of self._process.                    *)
(***************************************************************************)
EXTENDS Integers, Sequences

CONSTANTS
    MaxCalls,        \* bound: calls of synthesize
    MaxInterrupts,   \* bound: interrupts before shutdown
    MAX_RESTARTS,
    Faults           \* what may go wrong, besides a worker that hangs:
                     \* "spawn", "crash", "garbage"

Worker == 1 .. MaxCalls     \* a call starts at most one
None == 0

ASSUME BoundsAssumption == MaxCalls \in Nat /\ MaxInterrupts \in Nat
ASSUME RestartsAssumption == MAX_RESTARTS \in Nat \ {0}

VARIABLES
    (* the bridge's fields: _process, _cancellationToken, _restartCount *)
    process, cancellationToken, restartCount,
    (* controller thread: its place in synthesize, the token of its request, the
       number of the call, the local process, the frame read, how the last call
       ended or is about to end *)
    cpc, token, call, handle, frame, outcome,
    (* main thread: its place in interrupt, shutdown or stop, its local process *)
    mpc, victim,
    (* the workers started so far, their pipes, those whose pipes the bridge closed *)
    status, inbox, outbox, closed,
    (* history: workers the bridge terminated, consecutive starts that failed of
       themselves, whether stop() looked for a worker before a start in progress
       had published its own *)
    terminated, failedStarts, overtaken

fields == <<process, cancellationToken, restartCount>>
callVars == <<cpc, token, call, handle, frame, outcome>>
mainVars == <<mpc, victim>>
workerVars == <<status, inbox, outbox, closed>>
historyVars == <<terminated, failedStarts, overtaken>>
vars == <<fields, callVars, mainVars, workerVars, historyVars>>

(* The frame of the handshake, a frame that fails validation; any other frame
   is the number of the call it answers. *)
Ready == 0
Garbage == -1

(* poll() is None: a terminated process may take its time to end. *)
Alive(w) == w # None /\ status[w] # "dead"

Init ==
    /\ process = None /\ cancellationToken = 0 /\ restartCount = 0
    /\ cpc = "idle" /\ token = 0 /\ call = 0 /\ handle = None /\ frame = Ready /\ outcome = "none"
    /\ mpc = "idle" /\ victim = None
    /\ status = <<>> /\ closed = {}
    /\ inbox = [w \in Worker |-> <<>>] /\ outbox = [w \in Worker |-> <<>>]
    /\ terminated = {} /\ failedStarts = 0 /\ overtaken = FALSE

-----------------------------------------------------------------------------
(* The controller thread. *)

(* It has what it wants of the pipes and fields. *)
Proceed(from, to) ==
    /\ cpc = from /\ cpc' = to
    /\ UNCHANGED <<token, call, mainVars>>

Return(from, how) ==
    /\ Proceed(from, IF how = "result" THEN "ready" ELSE "idle")
    /\ outcome' = how
    /\ handle' = None
    /\ UNCHANGED frame

(* cancellationToken, read by _run when it starts a request that is current. *)
ReadToken ==
    /\ cpc = "idle" /\ mpc \in {"idle", "terminate"}
    /\ cpc' = "ready" /\ token' = cancellationToken
    /\ UNCHANGED <<fields, call, handle, frame, outcome, mainVars, workerVars, historyVars>>

EndRequest ==
    /\ Proceed("ready", "idle")
    /\ UNCHANGED <<fields, handle, frame, outcome, workerVars, historyVars>>

(* Faulty variant: the token is compared only when the answer is there. *)
CallUnchecked ==
    /\ cpc = "ready" /\ call < MaxCalls
    /\ call' = call + 1
    /\ cpc' = "lookup" /\ outcome' = "none"
    /\ UNCHANGED <<fields, token, handle, frame, mainVars, workerVars, historyVars>>

(* synthesize: the token is compared first. *)
Call ==
    /\ cpc = "ready" /\ call < MaxCalls
    /\ call' = call + 1
    /\ \/ token = cancellationToken /\ cpc' = "lookup" /\ outcome' = "none"
       \/ token # cancellationToken /\ cpc' = "idle" /\ outcome' = "cancelled"
    /\ UNCHANGED <<fields, token, handle, frame, mainVars, workerVars, historyVars>>

(* self._process is read without the lock, and read again when it was alive. *)
Lookup ==
    /\ Proceed("lookup", IF Alive(process) THEN "use" ELSE "start")
    /\ UNCHANGED <<fields, handle, frame, outcome, workerVars, historyVars>>

Use ==
    /\ \/ /\ process # None
          /\ Proceed("use", "write")
          /\ handle' = process
          /\ UNCHANGED <<frame, outcome>>
       \/ process = None /\ Proceed("use", "start") /\ UNCHANGED <<handle, frame, outcome>>
       \/ process = None /\ Return("use", "internal")
    /\ UNCHANGED <<fields, workerVars, historyVars>>

(* Faulty variant: one start more. *)
StartCheckOneMore ==
    /\ \/ /\ Alive(process)
          /\ Proceed("start", "write")
          /\ handle' = process
          /\ UNCHANGED <<restartCount, frame, outcome>>
       \/ /\ ~Alive(process) /\ restartCount > MAX_RESTARTS
          /\ Return("start", "restartLimit")
          /\ UNCHANGED restartCount
       \/ /\ ~Alive(process) /\ restartCount <= MAX_RESTARTS
          /\ Proceed("start", "spawn")
          /\ restartCount' = restartCount + 1
          /\ UNCHANGED <<handle, frame, outcome>>
    /\ UNCHANGED <<process, cancellationToken, workerVars, historyVars>>

(* _start, first critical section. *)
StartCheck ==
    /\ \/ /\ Alive(process)
          /\ Proceed("start", "write")
          /\ handle' = process
          /\ UNCHANGED <<restartCount, frame, outcome>>
       \/ /\ ~Alive(process) /\ restartCount >= MAX_RESTARTS
          /\ Return("start", "restartLimit")
          /\ UNCHANGED restartCount
       \/ /\ ~Alive(process) /\ restartCount < MAX_RESTARTS
          /\ Proceed("start", "spawn")
          /\ restartCount' = restartCount + 1
          /\ UNCHANGED <<handle, frame, outcome>>
    /\ UNCHANGED <<process, cancellationToken, workerVars, historyVars>>

(* subprocess.Popen *)
Spawn ==
    /\ \/ /\ "spawn" \in Faults
          /\ Return("spawn", "workerStartupFailure")
          /\ failedStarts' = failedStarts + 1
          /\ UNCHANGED status
       \/ /\ Proceed("spawn", "publish")
          /\ status' = Append(status, "loading")
          /\ handle' = Len(status) + 1
          /\ UNCHANGED <<frame, outcome, failedStarts>>
    /\ UNCHANGED <<fields, inbox, outbox, closed, terminated, overtaken>>

Publish ==
    /\ Proceed("publish", "handshake")
    /\ process' = handle
    /\ UNCHANGED <<cancellationToken, restartCount, handle, frame, outcome, workerVars, historyVars>>

(* A pipe operation fails: the call is going to end with an error. *)
Fails(from, to, how) ==
    /\ Proceed(from, to)
    /\ outcome' = how
    /\ UNCHANGED <<handle, frame>>

(* _readFrame on the stdout of the local process, of a frame or of its end. *)
Receive ==
    /\ handle \notin closed /\ outbox[handle] # <<>>
    /\ outbox' = [outbox EXCEPT ![handle] = Tail(@)]
EndOfFile == outbox[handle] = <<>> /\ ~Alive(handle) /\ UNCHANGED outbox

Handshake ==
    /\ cpc = "handshake"
    /\ \/ /\ Receive /\ Head(outbox[handle]) = Ready
          /\ Proceed("handshake", "write")
          /\ restartCount' = 0 /\ failedStarts' = 0
          /\ UNCHANGED <<handle, frame, outcome>>
       \/ /\ \/ Receive /\ Head(outbox[handle]) = Garbage /\ Fails("handshake", "abandon", "protocolFailure")
             \/ EndOfFile /\ Fails("handshake", "abandon", "workerCrash")
             \/ /\ handle \in closed
                /\ Fails("handshake", "abandon", "workerStartupFailure")
                /\ UNCHANGED outbox
          /\ UNCHANGED <<restartCount, failedStarts>>
    /\ UNCHANGED <<process, cancellationToken, status, inbox, closed, terminated, overtaken>>

(* Faulty variant: a worker whose handshake failed is forgotten, not ended. *)
AbandonUnreaped ==
    /\ Proceed("abandon", "forget")
    /\ failedStarts' = IF handle \in terminated THEN failedStarts ELSE failedStarts + 1
    /\ UNCHANGED <<fields, handle, frame, outcome, workerVars, terminated, overtaken>>

(* _terminateProcess waits for the end of the process. *)
Abandon ==
    /\ Proceed("abandon", "forget")
    /\ status' = [status EXCEPT ![handle] = "dead"]
    /\ terminated' = IF Alive(handle) THEN terminated \union {handle} ELSE terminated
    /\ failedStarts' = IF handle \in terminated THEN failedStarts ELSE failedStarts + 1
    /\ UNCHANGED <<fields, handle, frame, outcome, inbox, outbox, closed, overtaken>>

Forget ==
    /\ Return("forget", outcome)
    /\ process' = IF process = handle THEN None ELSE process
    /\ UNCHANGED <<cancellationToken, restartCount, workerVars, historyVars>>

(* A dying process may still have its pipe's buffer filled. *)
Write ==
    /\ cpc = "write"
    /\ \/ /\ handle \notin closed /\ Alive(handle)
          /\ Proceed("write", "read")
          /\ inbox' = [inbox EXCEPT ![handle] = Append(@, call)]
          /\ UNCHANGED <<handle, frame, outcome>>
       \/ /\ handle \notin closed /\ status[handle] \in {"dying", "dead"}
          /\ Fails("write", "discard", "workerCrash")
          /\ UNCHANGED inbox
       \/ handle \in closed /\ Return("write", "internal") /\ UNCHANGED inbox
    /\ UNCHANGED <<fields, status, outbox, closed, historyVars>>

(* Faulty variant: a revoked call does not wait for its answer. *)
ReadUnlessStale ==
    /\ cpc = "read"
    /\ \/ /\ token # cancellationToken
          /\ Return("read", "cancelled")
          /\ UNCHANGED outbox
       \/ /\ token = cancellationToken
          /\ Receive /\ Head(outbox[handle]) # Garbage
          /\ Proceed("read", "verify")
          /\ frame' = Head(outbox[handle])
          /\ UNCHANGED <<handle, outcome>>
       \/ Receive /\ Head(outbox[handle]) = Garbage /\ Fails("read", "discard", "protocolFailure")
       \/ EndOfFile /\ Fails("read", "discard", "workerCrash")
       \/ handle \in closed /\ Return("read", "internal") /\ UNCHANGED outbox
    /\ UNCHANGED <<fields, status, inbox, closed, historyVars>>

Read ==
    /\ cpc = "read"
    /\ \/ /\ Receive /\ Head(outbox[handle]) # Garbage
          /\ Proceed("read", "verify")
          /\ frame' = Head(outbox[handle])
          /\ UNCHANGED <<handle, outcome>>
       \/ Receive /\ Head(outbox[handle]) = Garbage /\ Fails("read", "discard", "protocolFailure")
       \/ EndOfFile /\ Fails("read", "discard", "workerCrash")
       \/ handle \in closed /\ Return("read", "internal") /\ UNCHANGED outbox
    /\ UNCHANGED <<fields, status, inbox, closed, historyVars>>

(* _discardProcess; its wait gives up after five seconds and kills nothing. *)
Discard ==
    /\ Proceed("discard", "judge")
    /\ process' = IF process = handle THEN None ELSE process
    /\ closed' = closed \union {handle}
    /\ UNCHANGED <<cancellationToken, restartCount, handle, frame, outcome, status, inbox, outbox,
                   historyVars>>

Judge ==
    /\ Return("judge", IF token # cancellationToken THEN "cancelled" ELSE outcome)
    /\ UNCHANGED <<fields, workerVars, historyVars>>

(* Faulty variant: the answer is returned whatever came meanwhile. *)
VerifyIdentityOnly ==
    /\ \/ frame # call /\ Return("verify", "staleResult")
       \/ frame = call /\ Return("verify", "result")
       \/ frame = call /\ "garbage" \in Faults /\ Return("verify", "protocolFailure")
    /\ UNCHANGED <<fields, workerVars, historyVars>>

(* The checks after the answer: whatever they find, the worker is left alone.
   protocolFailure is also the code invalidPcm. *)
Verify ==
    /\ \/ token # cancellationToken /\ Return("verify", "cancelled")
       \/ token = cancellationToken /\ frame # call /\ Return("verify", "staleResult")
       \/ token = cancellationToken /\ frame = call /\ Return("verify", "result")
       \/ /\ token = cancellationToken /\ frame = call /\ "garbage" \in Faults
          /\ Return("verify", "protocolFailure")
    /\ UNCHANGED <<fields, workerVars, historyVars>>

-----------------------------------------------------------------------------
(* The main thread. *)

(* Faulty variant: the start of an interrupted worker counts as failed. *)
RevokeCountsStart(from, to) ==
    /\ mpc = from /\ mpc' = to
    /\ cancellationToken' = cancellationToken + 1
    /\ victim' = process
    /\ UNCHANGED <<process, restartCount, callVars, workerVars, historyVars>>

(* The critical section of interrupt(): the worker that is alive is going to be
   terminated, which is no failed start. *)
Revoke(from, to) ==
    /\ mpc = from /\ mpc' = to
    /\ cancellationToken' = cancellationToken + 1
    /\ victim' = process
    /\ restartCount' = IF Alive(process) THEN 0 ELSE restartCount
    /\ UNCHANGED <<process, callVars, workerVars, historyVars>>

(* The rest of interrupt(). *)
Kill(from, to) ==
    /\ mpc = from /\ mpc' = to
    /\ IF Alive(victim)
         THEN /\ status' = [status EXCEPT ![victim] = "dying"]
              /\ terminated' = terminated \union {victim}
         ELSE UNCHANGED <<status, terminated>>
    /\ UNCHANGED <<fields, callVars, victim, inbox, outbox, closed, failedStarts, overtaken>>

Interrupt == Revoke("idle", "terminate") /\ cancellationToken < MaxInterrupts
BeginShutdown == Revoke("idle", "shutdown")

(* BackgroundController.shutdown() waits for the thread, which ends when it has
   nothing to do; when it gives up waiting, wherever the thread is, it interrupts
   once more, waits again and stops the bridge. *)
JoinThread(from) ==
    /\ mpc = from /\ mpc' = "stop"
    /\ UNCHANGED <<fields, callVars, victim, workerVars, historyVars>>
ForceStop == Revoke("join", "forceStop")

(* A call that may publish a worker yet. *)
Starting == {"lookup", "use", "start", "spawn", "publish"}

(* stop(), after its interrupt. *)
Snapshot ==
    /\ mpc = "snapshot" /\ mpc' = IF process = None THEN "done" ELSE "reap"
    /\ victim' = process
    /\ overtaken' = (cpc \in Starting)
    /\ UNCHANGED <<fields, callVars, workerVars, terminated, failedStarts>>

Reap ==
    /\ mpc = "reap" /\ mpc' = "close"
    /\ status' = [status EXCEPT ![victim] = "dead"]
    /\ UNCHANGED <<fields, callVars, victim, inbox, outbox, closed, historyVars>>

Close ==
    /\ mpc = "close" /\ mpc' = "done"
    /\ process' = IF process = victim THEN None ELSE process
    /\ closed' = closed \union {victim}
    /\ UNCHANGED <<cancellationToken, restartCount, callVars, victim, status, inbox, outbox, historyVars>>

-----------------------------------------------------------------------------
(* A worker. *)

Sends(w, good) ==
    \E f \in {good} \union (IF "garbage" \in Faults THEN {Garbage} ELSE {}) :
        outbox' = [outbox EXCEPT ![w] = Append(@, f)]

Load(w) ==
    /\ status[w] = "loading"
    /\ status' = [status EXCEPT ![w] = "serving"]
    /\ Sends(w, Ready)
    /\ UNCHANGED <<fields, callVars, mainVars, inbox, closed, historyVars>>

Answer(w) ==
    /\ status[w] = "serving" /\ inbox[w] # <<>> /\ w \notin closed
    /\ inbox' = [inbox EXCEPT ![w] = Tail(@)]
    /\ Sends(w, Head(inbox[w]))
    /\ UNCHANGED <<fields, callVars, mainVars, status, closed, historyVars>>

Dies(w) ==
    /\ status' = [status EXCEPT ![w] = "dead"]
    /\ UNCHANGED <<fields, callVars, mainVars, inbox, outbox, closed, historyVars>>

(* It was terminated, or its stdin was closed. *)
End(w) == (status[w] = "dying" \/ (status[w] = "serving" /\ w \in closed)) /\ Dies(w)

Crash(w) == "crash" \in Faults /\ status[w] \in {"loading", "serving"} /\ Dies(w)

-----------------------------------------------------------------------------

CallStep ==
    \/ Lookup \/ Use \/ StartCheck \/ Spawn \/ Publish \/ Handshake \/ Abandon \/ Forget
    \/ Write \/ Read \/ Discard \/ Judge \/ Verify

InterruptStep ==
    \/ Kill("terminate", "idle") \/ Kill("shutdown", "join")
    \/ JoinThread("join") /\ cpc = "idle"
    \/ ForceStop \/ Kill("forceStop", "forcedJoin") \/ JoinThread("forcedJoin")
    \/ Revoke("stop", "stopKill") \/ Kill("stopKill", "snapshot")
    \/ Snapshot \/ Reap \/ Close

(* Nobody has anything left to do after stop(), though a worker may wait for
   requests. *)
Finished == mpc = "done" /\ cpc = "idle" /\ UNCHANGED vars

Next ==
    \/ Finished
    \/ ReadToken \/ Call \/ EndRequest \/ CallStep
    \/ Interrupt \/ BeginShutdown \/ InterruptStep
    \/ \E w \in 1 .. Len(status) : Load(w) \/ Answer(w) \/ End(w) \/ Crash(w)

Spec == Init /\ [][Next]_vars

(* Both threads run; a worker that is killed or has lost its stdin ends.  A
   worker may hang, and nobody is obliged to call, interrupt or stop. *)
FairSpec ==
    /\ Spec
    /\ WF_vars(CallStep) /\ WF_vars(InterruptStep) /\ WF_vars(EndRequest)
    /\ \A w \in Worker : WF_vars(w <= Len(status) /\ End(w))

(* None hangs. *)
WorkersAnswer == \A w \in Worker : WF_vars(w <= Len(status) /\ (Load(w) \/ Answer(w)))

-----------------------------------------------------------------------------
(* Properties. *)

Calling == cpc \notin {"idle", "ready"}

Failures == {"internal", "restartLimit", "workerStartupFailure", "protocolFailure", "workerCrash",
             "staleResult"}

(* Every field, local and pipe keeps its type. *)
TypeOK ==
    /\ process \in 0 .. Len(status) /\ handle \in 0 .. Len(status) /\ victim \in 0 .. Len(status)
    /\ cancellationToken \in Nat /\ token \in 0 .. cancellationToken
    /\ restartCount \in 0 .. MAX_RESTARTS /\ failedStarts \in Nat
    /\ cpc \in {"idle", "ready", "lookup", "use", "start", "spawn", "publish", "handshake",
                "abandon", "forget", "write", "read", "discard", "judge", "verify"}
    /\ call \in 0 .. MaxCalls
    /\ frame \in {Garbage} \union 0 .. MaxCalls
    /\ outcome \in {"none", "result", "cancelled"} \union Failures
    /\ mpc \in {"idle", "terminate", "shutdown", "join", "forceStop", "forcedJoin", "stop",
                "stopKill", "snapshot", "reap", "close", "done"}
    /\ status \in Seq({"loading", "serving", "dying", "dead"}) /\ Len(status) <= call
    /\ inbox \in [Worker -> Seq(1 .. MaxCalls)]
    /\ outbox \in [Worker -> Seq({Garbage} \union 0 .. MaxCalls)]
    /\ closed \subseteq 1 .. Len(status) /\ terminated \subseteq 1 .. Len(status)
    /\ overtaken \in BOOLEAN

(* There is at most one worker that is not on its way out, and the bridge can
   reach it: none is forgotten while it runs, however starts, failures,
   interrupts and stop() interleave. *)
WorkersAreOwned ==
    \A w \in 1 .. Len(status) :
        status[w] \in {"loading", "serving"} /\ w \notin closed
            => process = w \/ (cpc = "publish" /\ handle = w)

(* The response a call reads is its own: cancelled, failed and abandoned calls
   leave nothing in the pipes of a worker that is used again. *)
AnswersMatchCalls == cpc = "verify" => frame = call

(* "Consecutive failed starts are capped ... an interrupted live worker is an
   expected cancellation rather than a failed startup": the bridge refuses to
   start a worker only after MAX_RESTARTS starts in a row failed of themselves. *)
RestartLimitIsEarned == outcome = "restartLimit" => failedStarts >= MAX_RESTARTS

(* To its caller the bridge is the contract, which promises the end of a call
   only of workers that do not hang. *)
Contract == INSTANCE BridgeContract WITH
    phase <- IF Calling THEN "calling" ELSE cpc,
    stale <- token # cancellationToken,
    ending <- CASE Calling -> "none"
                [] ~Calling /\ outcome = "result" -> "speech"
                [] ~Calling /\ outcome \in Failures -> "error"
                [] OTHER -> outcome

ImplementsContract == Contract!Safety /\ (WorkersAnswer => Contract!CallsReturn)

(* shutdown() comes to its end, hung workers or not; the controller thread is
   released from the call it is in, and no worker process is left.  The exception is
   a worker that a call in progress starts so late that it outlasts both waits and is
   not published when stop() looks: nobody ends that one, nor a call that it hangs. *)
ShutdownLeavesNothing ==
    mpc = "shutdown" ~> /\ mpc = "done"
                        /\ cpc = "idle" \/ overtaken
                        /\ \A w \in 1 .. Len(status) :
                              status[w] = "dead" \/ (overtaken /\ w = Len(status))

(* The call in progress when interrupt() is called comes to an end, also when
   its worker hangs. *)
InterruptFreesCall == Calling /\ token # cancellationToken ~> ~Calling
=============================================================================
