------------------------- MODULE RuntimeBridgeProofs -------------------------
(***************************************************************************)
(* Proofs about RuntimeBridge, for any number of calls and interrupts, any  *)
(* restart limit and any of the faults.  The properties are not inductive:  *)
(* that a call reads its own answer depends on what earlier calls left in   *)
(* the pipes (Pipes), that a worker is never forgotten on which of them the *)
(* places of the two threads may still hold (Owned), and that the restart   *)
(* limit is earned on which starts are counted already (Restarts).          *)
(***************************************************************************)
EXTENDS RuntimeBridge, TLAPS

Statuses == {"loading", "serving", "dying", "dead"}
Calls == 1 .. MaxCalls
Frames == {Garbage} \union 0 .. MaxCalls

(* TypeOK, with the sets named. *)
Types ==
    /\ status \in Seq(Statuses) /\ Len(status) <= call /\ call \in 0 .. MaxCalls
    /\ process \in 0 .. Len(status) /\ handle \in 0 .. Len(status) /\ victim \in 0 .. Len(status)
    /\ cancellationToken \in Nat /\ token \in 0 .. cancellationToken
    /\ restartCount \in 0 .. MAX_RESTARTS /\ failedStarts \in Nat
    /\ cpc \in {"idle", "ready", "lookup", "use", "start", "spawn", "publish", "handshake",
                "abandon", "forget", "write", "read", "discard", "judge", "verify"}
    /\ frame \in Frames
    /\ outcome \in {"none", "result", "cancelled"} \union Failures
    /\ mpc \in {"idle", "terminate", "shutdown", "join", "forceStop", "forcedJoin", "stop",
                "stopKill", "snapshot", "reap", "close", "done"}
    /\ inbox \in [Worker -> Seq(Calls)]
    /\ outbox \in [Worker -> Seq(Frames)]
    /\ closed \subseteq 1 .. Len(status) /\ terminated \subseteq 1 .. Len(status)

(* What the places of the threads say of their locals. *)
Places ==
    /\ handle = None <=> cpc \in {"idle", "ready", "lookup", "use", "start", "spawn"}
    /\ cpc \in {"lookup", "use", "start", "spawn"} => Len(status) < call
    /\ mpc \in {"reap", "close"} => victim # None
    /\ cpc \in {"abandon", "forget", "discard", "judge"} => outcome \in Failures

(* Which workers the field and the local of a call may still hold. *)
Owned ==
    /\ WorkersAreOwned
    /\ process \notin closed
    /\ cpc \in {"spawn", "publish"} => ~Alive(process)
    /\ cpc = "publish" => handle \notin closed \union terminated \union {process, victim}
    /\ cpc \in {"handshake", "abandon", "forget", "write", "read", "discard", "verify"}
         => process \in {handle, None}
    /\ cpc = "judge" => process = None
    /\ cpc = "forget" => status[handle] = "dead"

(* A worker that has done its handshake and owes no answer. *)
Served(w) == status[w] # "loading" /\ inbox[w] = <<>> /\ outbox[w] = <<>>

(* What is in the pipes of the worker that is used, or may be used next. *)
Pipes ==
    /\ \A w \in Worker : w > Len(status) => inbox[w] = <<>> /\ outbox[w] = <<>>
    /\ cpc \in {"idle", "ready", "lookup", "use", "start", "spawn"} /\ process # None
         => Served(process)
    /\ cpc \in {"write", "verify"} => Served(handle)
    /\ cpc \in {"publish", "handshake"} =>
          /\ inbox[handle] = <<>> /\ Len(outbox[handle]) <= 1
          /\ status[handle] = "loading" => outbox[handle] = <<>>
    /\ cpc = "read" =>
          /\ status[handle] # "loading"
          /\ Len(inbox[handle]) + Len(outbox[handle]) <= 1
          /\ inbox[handle] # <<>> => Head(inbox[handle]) = call
          /\ outbox[handle] # <<>> => Head(outbox[handle]) \in {call, Garbage}
    /\ AnswersMatchCalls

(* The worker that interrupt() found is about to be terminated. *)
Killing == mpc \in {"terminate", "shutdown", "forceStop", "stopKill"}

(* Starts that are counted failed of themselves, but for the one in progress; an
   interrupted start is not counted at all. *)
Restarts ==
    /\ restartCount <= failedStarts
         + (IF cpc \in {"spawn", "publish", "handshake", "abandon"} THEN 1 ELSE 0)
    /\ cpc \in {"handshake", "abandon"}
       /\ (handle \in terminated \/ (Killing /\ victim = handle /\ Alive(handle)))
         => restartCount = 0
    /\ outcome = "restartLimit" => cpc \in {"idle", "ready"} /\ failedStarts >= MAX_RESTARTS

IInv == Types /\ Places /\ Owned /\ Pipes /\ Restarts

-----------------------------------------------------------------------------

(* The initial state satisfies the invariant. *)
LEMMA IInvInit == Init => IInv
<1> SUFFICES ASSUME Init PROVE IInv
  OBVIOUS
<1> USE BoundsAssumption, RestartsAssumption DEF Init, Failures, Ready, Garbage, None
<1>1. Types
  BY DEF Types, Statuses, Calls, Frames
<1>2. Places
  BY DEF Places
<1>3. Owned
  BY DEF Owned, WorkersAreOwned, Alive
<1>4. Pipes
  BY DEF Pipes, Served, AnswersMatchCalls
<1>5. Restarts
  BY DEF Restarts
<1>6. QED
  BY <1>1, <1>2, <1>3, <1>4, <1>5 DEF IInv

(* To write a sequence to the end of a pipe, and to read from its beginning. *)
LEMMA PipeWritten ==
    ASSUME NEW S, NEW box \in [Worker -> Seq(S)], NEW w \in Worker, NEW x \in S,
           NEW after, after = [box EXCEPT ![w] = Append(@, x)]
    PROVE  /\ after \in [Worker -> Seq(S)]
           /\ after[w] = Append(box[w], x) /\ Len(after[w]) = Len(box[w]) + 1
           /\ box[w] = <<>> => Head(after[w]) = x
           /\ \A v \in Worker \ {w} : after[v] = box[v]
OBVIOUS

LEMMA PipeRead ==
    ASSUME NEW S, NEW box \in [Worker -> Seq(S)], NEW w \in Worker, box[w] # <<>>,
           NEW after, after = [box EXCEPT ![w] = Tail(@)]
    PROVE  /\ after \in [Worker -> Seq(S)] /\ Head(box[w]) \in S
           /\ Len(after[w]) = Len(box[w]) - 1
           /\ Len(box[w]) <= 1 => after[w] = <<>>
           /\ \A v \in Worker \ {w} : after[v] = box[v]
OBVIOUS

(* The status of one worker changes. *)
LEMMA StatusChanged ==
    ASSUME status \in Seq(Statuses), NEW w \in 1 .. Len(status), NEW x \in Statuses,
           status' = [status EXCEPT ![w] = x]
    PROVE  /\ status' \in Seq(Statuses) /\ Len(status') = Len(status)
           /\ status'[w] = x
           /\ \A v \in 1 .. Len(status) \ {w} : status'[v] = status[v]
OBVIOUS

-----------------------------------------------------------------------------
(* The controller thread. *)

(* No step outside a call, and none that only reads, disturbs the invariant. *)
LEMMA OutsideStep ==
    ASSUME IInv, ReadToken \/ EndRequest \/ Call \/ Lookup \/ Finished PROVE IInv'
<1> USE DEF IInv, Types, Places, Owned, WorkersAreOwned, Pipes, Served, AnswersMatchCalls, Restarts,
            Killing, Alive, None, Failures, fields, callVars, mainVars, workerVars, historyVars
<1>1. CASE ReadToken
  BY <1>1 DEF ReadToken
<1>2. CASE EndRequest
  BY <1>2 DEF EndRequest, Proceed
<1>3. CASE Call
  BY <1>3, BoundsAssumption DEF Call
<1>4. CASE Lookup
  BY <1>4 DEF Lookup, Proceed
<1>5. CASE Finished
  BY <1>5 DEF Finished, vars
<1>6. QED
  BY <1>1, <1>2, <1>3, <1>4, <1>5

(* The choice of a worker: the living one, or a start if there are any left. *)
LEMMA ChooseStep == ASSUME IInv, Use \/ StartCheck PROVE IInv'
<1> USE DEF IInv, Types, Places, Owned, WorkersAreOwned, Pipes, Served, AnswersMatchCalls, Restarts,
            Killing, Alive, None, Failures, fields, callVars, mainVars, workerVars, historyVars,
            Proceed, Return
<1>1. CASE Use
  BY <1>1 DEF Use
<1>2. CASE StartCheck
  BY <1>2, RestartsAssumption DEF StartCheck
<1>3. QED
  BY <1>1, <1>2

LEMMA NextWorker ==
    ASSUME status \in Seq(Statuses), call \in 0 .. MaxCalls, Len(status) < call
    PROVE  Len(status) + 1 \in Worker
BY BoundsAssumption DEF Worker

(* Popen adds a worker that only the call knows of. *)
LEMMA SpawnStep == ASSUME IInv, Spawn PROVE IInv'
<1> USE DEF IInv, Types, Places, Owned, WorkersAreOwned, Pipes, Served, AnswersMatchCalls, Restarts,
            Killing, Alive, None, Failures, fields, mainVars, Proceed, Return
<1>1. CASE Return("spawn", "workerStartupFailure") /\ failedStarts' = failedStarts + 1
           /\ UNCHANGED <<status, fields, inbox, outbox, closed, terminated>>
  BY <1>1
<1>2. CASE /\ Proceed("spawn", "publish") /\ status' = Append(status, "loading")
           /\ handle' = Len(status) + 1
           /\ UNCHANGED <<frame, outcome, failedStarts, fields, inbox, outbox, closed, terminated>>
  <2>1. /\ status' \in Seq(Statuses) /\ Len(status') = Len(status) + 1
        /\ status'[Len(status) + 1] = "loading"
        /\ \A w \in 1 .. Len(status) : status'[w] = status[w]
    BY <1>2 DEF Statuses
  <2>2. Len(status) + 1 \in Worker
    BY <1>2, NextWorker
  <2>3. Types'
    BY <1>2, <2>1
  <2>4. Places' /\ Restarts'
    BY <1>2, <2>1
  <2>5. Owned'
    BY <1>2, <2>1
  <2>6. Pipes'
    <3>1. inbox'[handle'] = <<>> /\ outbox'[handle'] = <<>>
      BY <1>2, <2>2
    <3>2. \A w \in Worker : w > Len(status') => inbox'[w] = <<>> /\ outbox'[w] = <<>>
      BY <1>2, <2>1 DEF Worker
    <3>3. QED
      BY <1>2, <3>1, <3>2
  <2>7. QED
    BY <2>3, <2>4, <2>5, <2>6
<1>3. QED
  BY <1>1, <1>2 DEF Spawn

(* The worker becomes known, is forgotten or has its pipes closed. *)
LEMMA FieldStep == ASSUME IInv, Publish \/ Forget \/ Discard PROVE IInv'
<1> USE DEF IInv, Types, Places, Owned, WorkersAreOwned, Pipes, Served, AnswersMatchCalls, Restarts,
            Killing, Alive, None, Failures, fields, mainVars, workerVars, historyVars, Proceed, Return
<1>1. CASE Publish
  BY <1>1 DEF Publish
<1>2. CASE Forget
  BY <1>2 DEF Forget
<1>3. CASE Discard
  BY <1>3 DEF Discard
<1>4. QED
  BY <1>1, <1>2, <1>3

(* The end of a call. *)
LEMMA EndStep == ASSUME IInv, Judge \/ Verify PROVE IInv'
<1> USE DEF IInv, Types, Places, Owned, WorkersAreOwned, Pipes, Served, AnswersMatchCalls, Restarts,
            Killing, Alive, None, Failures, fields, mainVars, workerVars, historyVars, Proceed, Return
<1>1. CASE Judge
  BY <1>1 DEF Judge
<1>2. CASE Verify
  BY <1>2 DEF Verify
<1>3. QED
  BY <1>1, <1>2

(* The handshake is read, or fails. *)
LEMMA HandshakeStep == ASSUME IInv, Handshake PROVE IInv'
<1> USE DEF Alive, None, Failures, fields, mainVars, workerVars, historyVars, Proceed
<1>0. /\ cpc = "handshake" /\ handle \in Worker /\ handle \in 1 .. Len(status)
      /\ outbox \in [Worker -> Seq(Frames)]
      /\ UNCHANGED <<process, cancellationToken, status, inbox, closed, terminated, token, call, mpc,
                     victim, handle, frame>>
  <2>1. handle # None /\ Len(status) \in Nat /\ Len(status) <= call /\ call \in 0 .. MaxCalls
    BY DEF IInv, Types, Places, Handshake
  <2>2. handle \in 1 .. Len(status) /\ handle \in Worker
    BY <2>1, BoundsAssumption DEF IInv, Types, Worker
  <2>3. QED
    BY <2>2 DEF Handshake, Fails, IInv, Types
<1>1. CASE /\ Receive /\ Head(outbox[handle]) = Ready /\ Proceed("handshake", "write")
           /\ restartCount' = 0 /\ failedStarts' = 0 /\ UNCHANGED outcome
  <2>1. /\ outbox' \in [Worker -> Seq(Frames)] /\ outbox'[handle] = <<>>
        /\ \A w \in Worker \ {handle} : outbox'[w] = outbox[w]
        /\ status[handle] # "loading" /\ inbox[handle] = <<>>
    BY <1>0, <1>1, PipeRead DEF IInv, Pipes, Receive
  <2>2. Types'
    BY <1>0, <1>1, <2>1, RestartsAssumption DEF IInv, Types
  <2>3. Places' /\ Restarts'
    BY <1>0, <1>1 DEF IInv, Types, Places, Restarts, Killing
  <2>4. Owned'
    BY <1>0, <1>1 DEF IInv, Owned, WorkersAreOwned
  <2>5. Pipes'
    BY <1>0, <1>1, <2>1 DEF IInv, Types, Pipes, Served, AnswersMatchCalls
  <2>6. QED
    BY <2>2, <2>3, <2>4, <2>5 DEF IInv
<1>2. CASE /\ Proceed("handshake", "abandon")
           /\ outcome' \in {"protocolFailure", "workerCrash", "workerStartupFailure"}
           /\ Receive \/ UNCHANGED outbox
           /\ UNCHANGED <<restartCount, failedStarts>>
  <2>1. /\ outbox' \in [Worker -> Seq(Frames)]
        /\ \A w \in Worker \ {handle} : outbox'[w] = outbox[w]
    BY <1>0, <1>2, PipeRead DEF Receive
  <2>2. Types'
    BY <1>0, <1>2, <2>1 DEF IInv, Types
  <2>3. Places' /\ Restarts'
    BY <1>0, <1>2 DEF IInv, Types, Places, Restarts, Killing
  <2>4. Owned'
    BY <1>0, <1>2 DEF IInv, Owned, WorkersAreOwned
  <2>5. Pipes'
    BY <1>0, <1>2, <2>1 DEF IInv, Types, Pipes, Served, AnswersMatchCalls
  <2>6. QED
    BY <2>2, <2>3, <2>4, <2>5 DEF IInv
<1>3. QED
  BY <1>1, <1>2 DEF Handshake, Fails, EndOfFile

(* The bridge ends a worker whose handshake failed, and counts the start. *)
LEMMA AbandonStep == ASSUME IInv, Abandon PROVE IInv'
<1> USE DEF Alive, None, Failures, fields, mainVars, Proceed, Abandon
<1>1. handle \in 1 .. Len(status) /\ cpc = "abandon"
  BY DEF IInv, Types, Places
<1>2. /\ status' \in Seq(Statuses) /\ Len(status') = Len(status) /\ status'[handle] = "dead"
      /\ \A w \in 1 .. Len(status) \ {handle} : status'[w] = status[w]
  BY <1>1, StatusChanged DEF IInv, Types, Statuses
<1>3. Types'
  BY <1>1, <1>2 DEF IInv, Types
<1>4. Places' /\ Restarts'
  BY <1>1, <1>2 DEF IInv, Types, Places, Restarts
<1>5. Owned'
  BY <1>1, <1>2 DEF IInv, Types, Owned, WorkersAreOwned
<1>6. Pipes'
  BY <1>1, <1>2 DEF IInv, Types, Pipes, AnswersMatchCalls
<1>7. QED
  BY <1>3, <1>4, <1>5, <1>6 DEF IInv

(* The request is written to a worker that owes nothing. *)
LEMMA WriteStep == ASSUME IInv, Write PROVE IInv'
<1> USE DEF Alive, None, Failures, fields, mainVars, workerVars, historyVars, Proceed
<1>0. /\ cpc = "write" /\ handle \in Worker /\ handle \in 1 .. Len(status) /\ call \in Calls
      /\ inbox \in [Worker -> Seq(Calls)]
      /\ UNCHANGED <<fields, status, outbox, closed, historyVars, token, call, mpc, victim, frame>>
  <2>1. handle # None /\ Len(status) \in Nat /\ Len(status) <= call /\ call \in 0 .. MaxCalls
    BY DEF IInv, Types, Places, Write
  <2>2. handle \in 1 .. Len(status) /\ handle \in Worker /\ call \in Calls
    BY <2>1, BoundsAssumption DEF IInv, Types, Worker, Calls
  <2>3. QED
    BY <2>2 DEF Write, Fails, Return, IInv, Types
<1>1. CASE /\ Proceed("write", "read") /\ inbox' = [inbox EXCEPT ![handle] = Append(@, call)]
           /\ UNCHANGED <<handle, outcome>>
  <2>1. /\ inbox' \in [Worker -> Seq(Calls)]
        /\ Len(inbox'[handle]) = 1 /\ Head(inbox'[handle]) = call
        /\ \A w \in Worker \ {handle} : inbox'[w] = inbox[w]
        /\ status[handle] # "loading" /\ outbox[handle] = <<>>
    BY <1>0, <1>1, PipeWritten DEF IInv, Pipes, Served
  <2>2. Types'
    BY <1>0, <1>1, <2>1 DEF IInv, Types
  <2>3. Places' /\ Restarts'
    BY <1>0, <1>1 DEF IInv, Types, Places, Restarts, Killing
  <2>4. Owned'
    BY <1>0, <1>1 DEF IInv, Owned, WorkersAreOwned
  <2>5. Pipes'
    BY <1>0, <1>1, <2>1 DEF IInv, Types, Pipes, Served, AnswersMatchCalls
  <2>6. QED
    BY <2>2, <2>3, <2>4, <2>5 DEF IInv
<1>2. CASE /\ UNCHANGED inbox
           /\ \/ Proceed("write", "discard") /\ outcome' = "workerCrash" /\ UNCHANGED handle
              \/ handle \in closed /\ Return("write", "internal")
  <2>1. Types' /\ Places' /\ Restarts'
    BY <1>0, <1>2 DEF IInv, Types, Places, Restarts, Killing, Return
  <2>2. Owned' /\ Pipes'
    BY <1>0, <1>2 DEF IInv, Types, Places, Owned, WorkersAreOwned, Pipes, Served, AnswersMatchCalls,
                      Return
  <2>3. QED
    BY <2>1, <2>2 DEF IInv
<1>3. QED
  BY <1>1, <1>2 DEF Write, Fails

(* The answer is read: it is that of the call, since the pipes held nothing else. *)
LEMMA ReadStep == ASSUME IInv, Read PROVE IInv'
<1> USE DEF Alive, None, Failures, fields, mainVars, workerVars, historyVars, Proceed
<1>0. /\ cpc = "read" /\ handle \in Worker /\ handle \in 1 .. Len(status) /\ call \in Calls
      /\ outbox \in [Worker -> Seq(Frames)]
      /\ UNCHANGED <<fields, status, inbox, closed, historyVars, token, call, mpc, victim>>
  <2>1. handle # None /\ Len(status) \in Nat /\ Len(status) <= call /\ call \in 0 .. MaxCalls
    BY DEF IInv, Types, Places, Read
  <2>2. handle \in 1 .. Len(status) /\ handle \in Worker /\ call \in Calls
    BY <2>1, BoundsAssumption DEF IInv, Types, Worker, Calls
  <2>3. QED
    BY <2>2 DEF Read, Fails, Return, IInv, Types
<1>1. CASE /\ Receive /\ Head(outbox[handle]) # Garbage /\ Proceed("read", "verify")
           /\ frame' = Head(outbox[handle]) /\ UNCHANGED <<handle, outcome>>
  <2>0. inbox \in [Worker -> Seq(Calls)]
    BY DEF IInv, Types
  <2>1. /\ outbox' \in [Worker -> Seq(Frames)] /\ Head(outbox[handle]) \in Frames
        /\ Len(outbox'[handle]) = Len(outbox[handle]) - 1
        /\ \A w \in Worker \ {handle} : outbox'[w] = outbox[w]
    BY <1>0, <1>1, PipeRead DEF Receive
  <2>2. /\ status[handle] # "loading" /\ Len(inbox[handle]) + Len(outbox[handle]) <= 1
        /\ outbox[handle] # <<>>
        /\ Head(outbox[handle]) = call
    BY <1>0, <1>1 DEF IInv, Pipes, Receive
  <2>3. outbox'[handle] = <<>> /\ inbox[handle] = <<>>
    <3>1. PICK in \in Seq(Calls), out \in Seq(Frames), after \in Seq(Frames) :
              in = inbox[handle] /\ out = outbox[handle] /\ after = outbox'[handle]
      BY <1>0, <2>0, <2>1
    <3>2. Len(in) + Len(out) <= 1 /\ out # <<>> /\ Len(after) = Len(out) - 1
      BY <3>1, <2>1, <2>2
    <3>3. Len(in) = 0 /\ Len(after) = 0
      BY <3>2
    <3>4. QED
      BY <3>1, <3>3
  <2>4. Types'
    BY <1>0, <1>1, <2>1 DEF IInv, Types
  <2>5. Places' /\ Restarts'
    BY <1>0, <1>1 DEF IInv, Types, Places, Restarts, Killing
  <2>6. Owned'
    BY <1>0, <1>1 DEF IInv, Owned, WorkersAreOwned
  <2>7. Pipes'
    BY <1>0, <1>1, <2>1, <2>2, <2>3 DEF IInv, Types, Pipes, Served, AnswersMatchCalls
  <2>8. QED
    BY <2>4, <2>5, <2>6, <2>7 DEF IInv
<1>2. CASE /\ Proceed("read", "discard") /\ outcome' \in {"protocolFailure", "workerCrash"}
           /\ Receive \/ UNCHANGED outbox
           /\ UNCHANGED <<handle, frame>>
  <2>1. /\ outbox' \in [Worker -> Seq(Frames)]
        /\ \A w \in Worker \ {handle} : outbox'[w] = outbox[w]
    <3>1. CASE Receive
      BY <1>0, <3>1, PipeRead DEF Receive
    <3>2. QED
      BY <1>0, <1>2, <3>1
  <2>2. Types'
    BY <1>0, <1>2, <2>1 DEF IInv, Types
  <2>3. Places' /\ Restarts'
    BY <1>0, <1>2 DEF IInv, Types, Places, Restarts, Killing
  <2>4. Owned'
    BY <1>0, <1>2 DEF IInv, Owned, WorkersAreOwned
  <2>5. Pipes'
    BY <1>0, <1>2, <2>1 DEF IInv, Types, Pipes, AnswersMatchCalls
  <2>6. QED
    BY <2>2, <2>3, <2>4, <2>5 DEF IInv
<1>3. CASE handle \in closed /\ Return("read", "internal") /\ UNCHANGED outbox
  <2>1. process = None
    BY <1>0, <1>3 DEF IInv, Owned
  <2>2. Types' /\ Places' /\ Restarts'
    BY <1>0, <1>3 DEF IInv, Types, Places, Restarts, Killing, Return
  <2>3. Owned' /\ Pipes'
    BY <1>0, <1>3, <2>1 DEF IInv, Types, Owned, WorkersAreOwned, Pipes, AnswersMatchCalls, Return
  <2>4. QED
    BY <2>2, <2>3 DEF IInv
<1>4. QED
  BY <1>1, <1>2, <1>3 DEF Read, Fails, EndOfFile

-----------------------------------------------------------------------------
(* The main thread. *)

(* interrupt() finds the worker and takes its start out of the count. *)
LEMMA RevokeStep ==
    ASSUME IInv, NEW from, NEW to \in {"terminate", "shutdown", "forceStop", "stopKill"},
           Revoke(from, to)
    PROVE  IInv'
<1> USE DEF Alive, None, Failures, callVars, workerVars, historyVars, Revoke
<1>1. Types' /\ Places'
  BY RestartsAssumption DEF IInv, Types, Places
<1>2. Owned'
  BY DEF IInv, Types, Owned, WorkersAreOwned
<1>3. Pipes'
  BY DEF IInv, Types, Pipes, Served, AnswersMatchCalls
<1>4. Restarts'
  BY DEF IInv, Types, Places, Owned, Restarts, Killing
<1>5. QED
  BY <1>1, <1>2, <1>3, <1>4 DEF IInv

(* It terminates that worker, whose start it took out of the count. *)
LEMMA KillStep ==
    ASSUME IInv, NEW from \in {"terminate", "shutdown", "forceStop", "stopKill"},
           NEW to \in {"idle", "join", "forcedJoin", "snapshot"}, Kill(from, to)
    PROVE  IInv'
<1> USE DEF Alive, None, Failures, fields, callVars, Kill
<1>1. CASE ~Alive(victim)
  <2>1. Types' /\ Places'
    BY <1>1 DEF IInv, Types, Places
  <2>2. Restarts'
    BY <1>1 DEF IInv, Types, Restarts, Killing
  <2>3. Owned' /\ Pipes'
    BY <1>1 DEF IInv, Types, Owned, WorkersAreOwned, Pipes, Served, AnswersMatchCalls
  <2>4. QED
    BY <2>1, <2>2, <2>3 DEF IInv
<1>2. CASE Alive(victim)
  <2>1. victim \in 1 .. Len(status)
    BY <1>2 DEF IInv, Types
  <2>2. /\ status' \in Seq(Statuses) /\ Len(status') = Len(status) /\ status'[victim] = "dying"
        /\ \A w \in 1 .. Len(status) \ {victim} : status'[w] = status[w]
    BY <1>2, <2>1, StatusChanged DEF IInv, Types, Statuses
  <2>3. Types' /\ Places'
    BY <1>2, <2>1, <2>2 DEF IInv, Types, Places
  <2>4. Restarts'
    BY <1>2, <2>1, <2>2 DEF IInv, Types, Restarts, Killing
  <2>5. Owned'
    BY <1>2, <2>1, <2>2 DEF IInv, Types, Places, Owned, WorkersAreOwned
  <2>6. Pipes'
    BY <1>2, <2>1, <2>2 DEF IInv, Types, Places, Pipes, Served, AnswersMatchCalls
  <2>7. QED
    BY <2>3, <2>4, <2>5, <2>6 DEF IInv
<1>3. QED
  BY <1>1, <1>2

LEMMA WaitStep ==
    ASSUME IInv, (\E from \in {"join", "forcedJoin"} : JoinThread(from)) \/ Snapshot PROVE IInv'
<1> USE DEF IInv, Types, Places, Owned, WorkersAreOwned, Pipes, Served, AnswersMatchCalls, Restarts,
            Killing, Alive, None, Failures, fields, callVars, workerVars, historyVars
<1>1. CASE \E from \in {"join", "forcedJoin"} : JoinThread(from)
  BY <1>1 DEF JoinThread
<1>2. CASE Snapshot
  BY <1>2 DEF Snapshot
<1>3. QED
  BY <1>1, <1>2

(* stop() ends the worker it found, then closes its pipes. *)
LEMMA StopStep == ASSUME IInv, Reap \/ Close PROVE IInv'
<1> USE DEF Alive, None, Failures, fields, callVars, historyVars
<1>1. victim \in 1 .. Len(status)
  BY DEF IInv, Types, Places, Reap, Close
<1>2. CASE Reap
  <2>1. /\ status' \in Seq(Statuses) /\ Len(status') = Len(status) /\ status'[victim] = "dead"
        /\ \A w \in 1 .. Len(status) \ {victim} : status'[w] = status[w]
    BY <1>1, <1>2, StatusChanged DEF IInv, Types, Statuses, Reap
  <2>2. Types' /\ Places'
    BY <1>1, <1>2, <2>1 DEF IInv, Types, Places, Reap
  <2>3. Restarts'
    BY <1>1, <1>2, <2>1 DEF IInv, Types, Restarts, Killing, Reap
  <2>4. Owned'
    BY <1>1, <1>2, <2>1 DEF IInv, Types, Places, Owned, WorkersAreOwned, Reap
  <2>5. Pipes'
    BY <1>1, <1>2, <2>1 DEF IInv, Types, Places, Pipes, Served, AnswersMatchCalls, Reap
  <2>6. QED
    BY <2>2, <2>3, <2>4, <2>5 DEF IInv
<1>3. CASE Close
  <2>1. Types' /\ Places' /\ Restarts'
    BY <1>1, <1>3 DEF IInv, Types, Places, Restarts, Killing, Close
  <2>2. Owned' /\ Pipes'
    BY <1>1, <1>3 DEF IInv, Types, Places, Owned, WorkersAreOwned, Pipes, Served, AnswersMatchCalls,
                      Close
  <2>3. QED
    BY <2>1, <2>2 DEF IInv
<1>4. QED
  BY <1>2, <1>3

-----------------------------------------------------------------------------
(* The workers. *)

(* A worker that loads is one whose handshake is awaited, or nobody's. *)
LEMMA LoadStep == ASSUME IInv, NEW w \in 1 .. Len(status), Load(w) PROVE IInv'
<1> USE DEF Alive, None, Failures, fields, callVars, mainVars, historyVars
<1>0. w \in Worker
  BY BoundsAssumption DEF IInv, Types, Worker
<1>1. /\ status' \in Seq(Statuses) /\ Len(status') = Len(status) /\ status'[w] = "serving"
      /\ \A v \in 1 .. Len(status) \ {w} : status'[v] = status[v]
      /\ status[w] = "loading"
  BY StatusChanged DEF IInv, Types, Statuses, Load
<1>2. PICK f \in Frames : outbox' = [outbox EXCEPT ![w] = Append(@, f)]
  <2>1. Ready \in Frames /\ Garbage \in Frames
    BY BoundsAssumption DEF Frames, Ready
  <2>2. QED
    BY <2>1 DEF Load, Sends
<1>3. /\ outbox' \in [Worker -> Seq(Frames)]
      /\ Len(outbox'[w]) = Len(outbox[w]) + 1
      /\ \A v \in Worker \ {w} : outbox'[v] = outbox[v]
  BY <1>0, <1>2, PipeWritten DEF IInv, Types
<1>4. outbox[w] = <<>> => Len(outbox'[w]) <= 1
  BY <1>3
<1>5. Types' /\ Places'
  BY <1>1, <1>3 DEF IInv, Types, Places, Load
<1>6. Restarts'
  BY <1>1 DEF IInv, Types, Restarts, Killing, Load
<1>7. Owned'
  BY <1>1 DEF IInv, Types, Places, Owned, WorkersAreOwned, Load
<1>8. Pipes'
  <2>1. inbox' = inbox /\ (status[w] = "loading") /\ UNCHANGED <<callVars, mainVars, fields>>
    BY <1>1 DEF Load
  <2>2. w = handle => cpc \notin {"read", "write", "verify"}
    BY <2>1 DEF IInv, Pipes, Served
  <2>3. w = process => cpc \notin {"idle", "ready", "lookup", "use", "start", "spawn"}
    BY <2>1 DEF IInv, Pipes, Served
  <2>4. w = handle /\ cpc \in {"publish", "handshake"} => outbox[w] = <<>>
    BY <2>1 DEF IInv, Pipes
  <2>5. handle \in 0 .. Len(status) /\ process \in 0 .. Len(status)
        /\ (handle = None <=> cpc \in {"idle", "ready", "lookup", "use", "start", "spawn"})
        /\ \A v \in 1 .. Len(status) : v \in Worker
    BY BoundsAssumption DEF IInv, Types, Places, Worker
  <2>6. \A v \in Worker : v > Len(status) => v # w
    OBVIOUS
  <2>7. CASE w = handle /\ cpc \in {"publish", "handshake"}
    BY <1>0, <1>1, <1>3, <1>4, <2>1, <2>4, <2>5, <2>6, <2>7 DEF IInv, Pipes, AnswersMatchCalls
  <2>8. CASE ~(w = handle /\ cpc \in {"publish", "handshake"})
    <3>1. cpc \in {"publish", "handshake", "read", "write", "verify"}
            => /\ status'[handle] = status[handle]
               /\ outbox'[handle] = outbox[handle]
      BY <1>1, <1>3, <2>2, <2>5, <2>8
    <3>2. cpc \in {"idle", "ready", "lookup", "use", "start", "spawn"} /\ process # None
            => status'[process] = status[process] /\ outbox'[process] = outbox[process]
      BY <1>1, <1>3, <2>3, <2>5
    <3>3. \A v \in Worker : v > Len(status) => outbox'[v] = outbox[v]
      BY <1>3, <2>6
    <3>4. QED
      BY <1>1, <2>1, <3>1, <3>2, <3>3 DEF IInv, Pipes, Served, AnswersMatchCalls
  <2>9. QED
    BY <2>7, <2>8
<1>9. QED
  BY <1>5, <1>6, <1>7, <1>8 DEF IInv

(* It answers what it was asked. *)
LEMMA AnswerStep == ASSUME IInv, NEW w \in 1 .. Len(status), Answer(w) PROVE IInv'
<1> USE DEF Alive, None, Failures, fields, callVars, mainVars, historyVars
<1>0. w \in Worker /\ inbox[w] # <<>> /\ inbox \in [Worker -> Seq(Calls)]
      /\ outbox \in [Worker -> Seq(Frames)]
  <2>1. /\ status \in Seq(Statuses) /\ Len(status) <= call /\ call \in 0 .. MaxCalls
        /\ inbox \in [Worker -> Seq(Calls)] /\ outbox \in [Worker -> Seq(Frames)]
    BY DEF IInv, Types
  <2>2. w \in Worker
    BY <2>1, BoundsAssumption DEF Worker
  <2>3. QED
    BY <2>1, <2>2 DEF Answer
<1>1. /\ inbox' \in [Worker -> Seq(Calls)] /\ Head(inbox[w]) \in Calls
      /\ Len(inbox'[w]) = Len(inbox[w]) - 1
      /\ \A v \in Worker \ {w} : inbox'[v] = inbox[v]
  BY <1>0, PipeRead DEF Answer
<1>2. PICK f \in Frames : /\ outbox' = [outbox EXCEPT ![w] = Append(@, f)]
                          /\ f \in {Head(inbox[w]), Garbage}
  <2>1. Head(inbox[w]) \in Frames /\ Garbage \in Frames
    BY <1>1 DEF Frames, Calls
  <2>2. QED
    BY <2>1 DEF Answer, Sends
<1>3. /\ outbox' \in [Worker -> Seq(Frames)]
      /\ Len(outbox'[w]) = Len(outbox[w]) + 1
      /\ outbox[w] = <<>> => Head(outbox'[w]) = f
      /\ \A v \in Worker \ {w} : outbox'[v] = outbox[v]
  BY <1>0, <1>2, PipeWritten
<1>4. ASSUME Len(inbox[w]) + Len(outbox[w]) <= 1
      PROVE  /\ inbox'[w] = <<>> /\ outbox[w] = <<>>
             /\ Len(inbox'[w]) + Len(outbox'[w]) <= 1
  <2>1. PICK in \in Seq(Calls), out \in Seq(Frames), inAfter \in Seq(Calls), outAfter \in Seq(Frames) :
            /\ in = inbox[w] /\ out = outbox[w]
            /\ inAfter = inbox'[w] /\ outAfter = outbox'[w]
    BY <1>0, <1>1, <1>3
  <2>2. Len(in) + Len(out) <= 1 /\ in # <<>> /\ Len(inAfter) = Len(in) - 1
        /\ Len(outAfter) = Len(out) + 1
    BY <1>0, <1>1, <1>3, <1>4, <2>1
  <2>3. Len(inAfter) = 0 /\ Len(out) = 0 /\ Len(inAfter) + Len(outAfter) <= 1
    BY <2>2
  <2>4. QED
    BY <2>1, <2>3
<1>5. Types' /\ Places'
  BY <1>1, <1>3 DEF IInv, Types, Places, Answer
<1>6. Owned' /\ Restarts'
  BY DEF IInv, Owned, WorkersAreOwned, Restarts, Killing, Answer
<1>7. Pipes'
  <2>1. CASE cpc = "read" /\ w = handle
    BY <1>0, <1>1, <1>2, <1>3, <1>4, <2>1 DEF IInv, Types, Pipes, AnswersMatchCalls, Answer
  <2>2. CASE ~(cpc = "read" /\ w = handle)
    <3>1. UNCHANGED <<callVars, mainVars, fields, status>>
      BY DEF Answer
    <3>2. w = handle => cpc \notin {"read", "write", "verify", "publish", "handshake"}
      BY <1>0, <2>2 DEF IInv, Pipes, Served
    <3>3. w = process => cpc \notin {"idle", "ready", "lookup", "use", "start", "spawn"}
      BY <1>0 DEF IInv, Pipes, Served
    <3>4. handle \in 0 .. Len(status) /\ process \in 0 .. Len(status)
          /\ (handle = None <=> cpc \in {"idle", "ready", "lookup", "use", "start", "spawn"})
          /\ \A v \in 1 .. Len(status) : v \in Worker
      BY BoundsAssumption DEF IInv, Types, Places, Worker
    <3>5. \A v \in Worker : v > Len(status) => v # w
      OBVIOUS
    <3>6. QED
      <4>1. cpc \in {"publish", "handshake", "read", "write", "verify"}
              => inbox'[handle] = inbox[handle] /\ outbox'[handle] = outbox[handle]
        BY <1>1, <1>3, <3>2, <3>4
      <4>2. cpc \in {"idle", "ready", "lookup", "use", "start", "spawn"} /\ process # None
              => inbox'[process] = inbox[process] /\ outbox'[process] = outbox[process]
        BY <1>1, <1>3, <3>3, <3>4
      <4>3. \A v \in Worker : v > Len(status) => inbox'[v] = inbox[v] /\ outbox'[v] = outbox[v]
        BY <1>1, <1>3, <3>5
      <4>4. QED
        BY <3>1, <4>1, <4>2, <4>3 DEF IInv, Pipes, Served, AnswersMatchCalls
  <2>3. QED
    BY <2>1, <2>2
<1>8. QED
  BY <1>5, <1>6, <1>7 DEF IInv

LEMMA DiesStep == ASSUME IInv, NEW w \in 1 .. Len(status), Dies(w) PROVE IInv'
<1> USE DEF Alive, None, Failures, fields, callVars, mainVars, historyVars
<1>1. /\ status' \in Seq(Statuses) /\ Len(status') = Len(status) /\ status'[w] = "dead"
      /\ \A v \in 1 .. Len(status) \ {w} : status'[v] = status[v]
  BY StatusChanged DEF IInv, Types, Statuses, Dies
<1>2. Types' /\ Places'
  BY <1>1 DEF IInv, Types, Places, Dies
<1>3. Restarts'
  BY <1>1 DEF IInv, Types, Restarts, Killing, Dies
<1>4. Owned'
  BY <1>1 DEF IInv, Types, Places, Owned, WorkersAreOwned, Dies
<1>5. Pipes'
  BY <1>1 DEF IInv, Types, Places, Pipes, Served, AnswersMatchCalls, Dies
<1>6. QED
  BY <1>2, <1>3, <1>4, <1>5 DEF IInv

-----------------------------------------------------------------------------

(* Every step preserves the invariant. *)
LEMMA IInvStep == IInv /\ [Next]_vars => IInv'
<1> SUFFICES ASSUME IInv, [Next]_vars PROVE IInv'
  OBVIOUS
<1>1. CASE UNCHANGED vars
  BY <1>1 DEF IInv, Types, Places, Owned, WorkersAreOwned, Pipes, Served, AnswersMatchCalls, Restarts,
              Killing, Alive, vars, fields, callVars, mainVars, workerVars, historyVars
<1>2. CASE ReadToken \/ EndRequest \/ Call \/ Finished
  BY <1>2, OutsideStep
<1>3. CASE CallStep
  BY <1>3, OutsideStep, ChooseStep, SpawnStep, FieldStep, HandshakeStep, AbandonStep, WriteStep,
     ReadStep, EndStep DEF CallStep
<1>4. CASE Interrupt \/ BeginShutdown
  BY <1>4, RevokeStep DEF Interrupt, BeginShutdown
<1>5. CASE InterruptStep
  BY <1>5, RevokeStep, KillStep, WaitStep, StopStep DEF InterruptStep, ForceStop
<1>6. CASE \E w \in 1 .. Len(status) : Load(w) \/ Answer(w) \/ End(w) \/ Crash(w)
  BY <1>6, LoadStep, AnswerStep, DiesStep DEF End, Crash
<1>7. QED
  BY <1>1, <1>2, <1>3, <1>4, <1>5, <1>6 DEF Next

LEMMA Invariance == Spec => []IInv
BY IInvInit, IInvStep, PTL DEF Spec

-----------------------------------------------------------------------------

(* Only stop() notes that it came too early. *)
Noted == overtaken \in BOOLEAN

LEMMA OvertakenStep == Noted /\ [Next]_vars => Noted'
<1> SUFFICES ASSUME overtaken \in BOOLEAN, [Next]_vars PROVE overtaken' \in BOOLEAN
  BY DEF Noted
<1> USE DEF historyVars
<1>1. CASE UNCHANGED vars \/ ReadToken \/ EndRequest \/ Call \/ Finished
  <2>1. UNCHANGED overtaken
    BY <1>1 DEF vars, ReadToken, EndRequest, Call, Finished
  <2>2. QED
    BY <2>1
<1>2. CASE CallStep
  <2>1. CASE Lookup \/ Use \/ StartCheck \/ Spawn \/ Publish \/ Handshake \/ Abandon
    <3>1. UNCHANGED overtaken
      BY <2>1 DEF Lookup, Use, StartCheck, Spawn, Publish, Handshake, Abandon
    <3>2. QED
      BY <3>1
  <2>2. CASE Forget \/ Write \/ Read \/ Discard \/ Judge \/ Verify
    <3>1. UNCHANGED overtaken
      BY <2>2 DEF Forget, Write, Read, Discard, Judge, Verify
    <3>2. QED
      BY <3>1
  <2>3. QED
    BY <1>2, <2>1, <2>2 DEF CallStep
<1>3. CASE Snapshot
  <2>1. overtaken' = (cpc \in Starting)
    BY <1>3 DEF Snapshot
  <2>2. (cpc \in Starting) \in BOOLEAN
    OBVIOUS
  <2>3. QED
    BY <2>1, <2>2
<1>4. CASE Interrupt \/ BeginShutdown \/ (InterruptStep /\ ~Snapshot)
  <2>1. UNCHANGED overtaken
    BY <1>4 DEF Interrupt, BeginShutdown, InterruptStep, Revoke, Kill, JoinThread, ForceStop, Reap, Close
  <2>2. QED
    BY <2>1
<1>5. CASE \E w \in 1 .. Len(status) : Load(w) \/ Answer(w) \/ End(w) \/ Crash(w)
  <2>1. UNCHANGED overtaken
    BY <1>5 DEF Load, Answer, End, Crash, Dies
  <2>2. QED
    BY <2>1
<1>6. QED
  <2>1. \/ UNCHANGED vars \/ ReadToken \/ EndRequest \/ Call \/ Finished \/ CallStep
        \/ Interrupt \/ BeginShutdown \/ InterruptStep
        \/ \E w \in 1 .. Len(status) : Load(w) \/ Answer(w) \/ End(w) \/ Crash(w)
    BY DEF Next
  <2>2. QED
    BY <1>1, <1>2, <1>3, <1>4, <1>5, <2>1, Zenon

LEMMA OvertakenIsTyped == Spec => []Noted
<1>1. Init => Noted
  BY DEF Init, Noted
<1>2. QED
  BY <1>1, OvertakenStep, PTL DEF Spec

(* Every field, local and pipe of the bridge keeps its type. *)
THEOREM TypeCorrect == Spec => []TypeOK
<1>1. IInv /\ Noted => TypeOK
  BY DEF IInv, Types, TypeOK, Noted, Statuses, Calls, Frames
<1>2. QED
  BY <1>1, Invariance, OvertakenIsTyped, PTL

(* No worker is forgotten while it runs: at most one is not on its way out, and
   the bridge's field or the start in progress holds it. *)
THEOREM Ownership == Spec => []WorkersAreOwned
<1>1. IInv => WorkersAreOwned
  BY DEF IInv, Owned
<1>2. QED
  BY <1>1, Invariance, PTL

(* The response that a call of synthesize reads is the answer to its request. *)
THEOREM OwnAnswers == Spec => []AnswersMatchCalls
<1>1. IInv => AnswersMatchCalls
  BY DEF IInv, Pipes
<1>2. QED
  BY <1>1, Invariance, PTL

(* The bridge refuses to start a worker only after MAX_RESTARTS starts in a row
   that failed of themselves; interrupted ones are none. *)
THEOREM EarnedLimit == Spec => []RestartLimitIsEarned
<1>1. IInv => RestartLimitIsEarned
  BY DEF IInv, Restarts, RestartLimitIsEarned
<1>2. QED
  BY <1>1, Invariance, PTL

-----------------------------------------------------------------------------
(* The bridge implements the safety of the contract. *)

LEMMA ContractInit == Init => Contract!Init
BY DEF Init, Contract!Init, Calling, Failures

LEMMA ContractStep == IInv /\ [Next]_vars => [Contract!Next]_(Contract!contractVars)
<1> SUFFICES ASSUME IInv, [Next]_vars PROVE [Contract!Next]_(Contract!contractVars)
  OBVIOUS
<1> USE DEF Contract!contractVars, Calling, fields, callVars, mainVars
<1>0. /\ token \in 0 .. cancellationToken /\ cancellationToken \in Nat
      /\ cpc \in {"forget", "judge"} => outcome \in Failures
  BY DEF IInv, Types, Places
<1>1. CASE UNCHANGED vars
  BY <1>1 DEF vars
<1>2. CASE ReadToken
  BY <1>2 DEF ReadToken, Contract!Next, Contract!ReadToken
<1>3. CASE EndRequest
  BY <1>3 DEF EndRequest, Proceed, Contract!Next, Contract!EndRequest
<1>4. CASE Call
  BY <1>4 DEF Call, Failures, Contract!Next, Contract!Call, Contract!Refuse
<1>5. ASSUME NEW from, from \notin {"idle", "ready"}, NEW how \in Failures, Return(from, how),
             UNCHANGED cancellationToken
      PROVE  Contract!Next
  BY <1>5 DEF Return, Proceed, Failures, Contract!Next, Contract!Return
<1>6. ASSUME NEW from, from \notin {"idle", "ready"}, NEW to, to \notin {"idle", "ready"},
             Proceed(from, to), UNCHANGED cancellationToken
      PROVE  UNCHANGED Contract!contractVars
  BY <1>6 DEF Proceed
<1>7. CASE Lookup \/ Publish \/ Handshake \/ Abandon \/ Discard
  BY <1>6, <1>7 DEF Lookup, Publish, Handshake, Fails, Abandon, Discard
<1>8. CASE Use \/ StartCheck \/ Spawn
  BY <1>5, <1>6, <1>8 DEF Use, StartCheck, Spawn, Failures
<1>9. CASE Write \/ Read
  BY <1>5, <1>6, <1>9 DEF Write, Read, Fails, Failures
<1>10. CASE Forget
  <2>1. outcome \in Failures
    BY <1>0, <1>10 DEF Forget, Return, Proceed
  <2>2. QED
    BY <1>5, <1>10, <2>1 DEF Forget
<1>11. CASE Judge
  BY <1>0, <1>11 DEF Judge, Return, Proceed, Failures, Contract!Next, Contract!Return
<1>12. CASE Verify
  BY <1>12 DEF Verify, Return, Proceed, Failures, Contract!Next, Contract!Return
<1>13. ASSUME NEW from, NEW to, Revoke(from, to) PROVE [Contract!Next]_(Contract!contractVars)
  BY <1>0, <1>13 DEF Revoke, Contract!Next, Contract!Interrupt
<1>14. ASSUME NEW from, NEW to, Kill(from, to) PROVE UNCHANGED Contract!contractVars
  BY <1>14 DEF Kill
<1>15. CASE Interrupt \/ BeginShutdown
  BY <1>13, <1>15 DEF Interrupt, BeginShutdown
<1>16. CASE InterruptStep
  BY <1>13, <1>14, <1>16 DEF InterruptStep, ForceStop, JoinThread, Snapshot, Reap, Close
<1>17. CASE Finished \/ \E w \in 1 .. Len(status) : Load(w) \/ Answer(w) \/ End(w) \/ Crash(w)
  BY <1>17 DEF Finished, Load, Answer, End, Crash, Dies, vars
<1>18. QED
  BY <1>1, <1>2, <1>3, <1>4, <1>7, <1>8, <1>9, <1>10, <1>11, <1>12, <1>15, <1>16, <1>17
     DEF Next, CallStep

(* To its caller the persistent bridge is the bridge of the contract. *)
THEOREM Refinement == Spec => Contract!Safety
BY ContractInit, ContractStep, Invariance, PTL DEF Spec, Contract!Safety
=============================================================================
