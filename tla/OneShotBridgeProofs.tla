------------------------- MODULE OneShotBridgeProofs -------------------------
(***************************************************************************)
(* Proofs about OneShotBridge, for any number of calls and interrupts.      *)
(* The ownership of the processes is inductive once it is said where in a   *)
(* call the process exists, is published and has ended (CallOwns).          *)
(***************************************************************************)
EXTENDS OneShotBridge, TLAPS

Statuses == {"running", "dying", "answered", "failed"}

(* The fields, the locals and the processes keep their types. *)
TypeCorrect ==
    /\ status \in Seq(Statuses)
    /\ process \in 0 .. Len(status) /\ handle \in 0 .. Len(status) /\ victim \in 0 .. Len(status)
    /\ cancellationToken \in Nat /\ token \in 0 .. cancellationToken
    /\ cpc \in {"idle", "ready", "spawn", "publish", "terminateOwn", "communicate", "reap", "clear",
                "judge"}
    /\ outcome \in {"none", "result", "cancelled"} \union Failures

(* The process of a call, from its start to its end. *)
CallOwns ==
    /\ handle = None <=> cpc \in {"idle", "ready", "spawn"}
    /\ process = IF cpc \in {"terminateOwn", "communicate", "reap", "clear"} THEN handle ELSE None
    /\ \A w \in 1 .. Len(status) :
          Alive(w) => handle = w /\ cpc \in {"publish", "terminateOwn", "communicate", "reap"}

ReapsSomeone == mpc = "reap" => victim # None

IInv == TypeCorrect /\ CallOwns /\ ReapsSomeone /\ RevokedWorkersAreDoomed

-----------------------------------------------------------------------------

(* The initial state satisfies the invariant. *)
LEMMA IInvInit == Init => IInv
BY DEF Init, IInv, TypeCorrect, CallOwns, ReapsSomeone, RevokedWorkersAreDoomed, Alive, None, Failures

(* To terminate a process changes no other. *)
LEMMA TerminatedStatus ==
    ASSUME TypeCorrect, NEW w \in 1 .. Len(status)
    PROVE  /\ Terminated(w) \in Seq(Statuses) /\ Len(Terminated(w)) = Len(status)
           /\ \A x \in 1 .. Len(status) \ {w} : Terminated(w)[x] = status[x]
           /\ Terminated(w)[w] = IF Alive(w) THEN "dying" ELSE status[w]
BY DEF TypeCorrect, Terminated, Alive, Statuses, None

(* No step before or after the call's process exists disturbs the invariant. *)
LEMMA OutsideStep ==
    ASSUME IInv, ReadToken \/ EndRequest \/ Call \/ Finished PROVE IInv'
<1> USE DEF IInv, TypeCorrect, CallOwns, ReapsSomeone, RevokedWorkersAreDoomed, Alive, None, Failures,
            fields, callVars, mainVars
<1>1. CASE ReadToken
  BY <1>1 DEF ReadToken
<1>2. CASE EndRequest
  BY <1>2 DEF EndRequest, Proceed
<1>3. CASE Call
  BY <1>3 DEF Call
<1>4. CASE Finished
  BY <1>4 DEF Finished, vars
<1>5. QED
  BY <1>1, <1>2, <1>3, <1>4

(* Popen adds a process that only the call knows of. *)
LEMMA SpawnStep == ASSUME IInv, Spawn PROVE IInv'
<1> USE DEF IInv, TypeCorrect, CallOwns, ReapsSomeone, RevokedWorkersAreDoomed, Alive, None, Failures,
            fields, mainVars
<1>1. CASE Return("spawn", "workerStartupFailure") /\ UNCHANGED status /\ UNCHANGED fields
  BY <1>1 DEF Return, Proceed
<1>2. CASE /\ Proceed("spawn", "publish")
           /\ status' = Append(status, "running") /\ handle' = Len(status) + 1
           /\ UNCHANGED outcome /\ UNCHANGED fields
  <2>1. /\ status' \in Seq(Statuses) /\ Len(status') = Len(status) + 1
        /\ \A w \in 1 .. Len(status) : status'[w] = status[w]
    BY <1>2 DEF Statuses
  <2>2. QED
    BY <1>2, <2>1 DEF Proceed
<1>3. QED
  BY <1>1, <1>2 DEF Spawn

(* Those of the call's steps that change only its place or the field. *)
LEMMA PlaceStep == ASSUME IInv, Publish \/ ClearProcess \/ Judge PROVE IInv'
<1> USE DEF IInv, TypeCorrect, CallOwns, ReapsSomeone, RevokedWorkersAreDoomed, Alive, None, Failures,
            fields, mainVars
<1>1. CASE Publish
  BY <1>1 DEF Publish, Proceed
<1>2. CASE ClearProcess
  BY <1>2 DEF ClearProcess, Proceed, Return
<1>3. CASE Judge
  BY <1>3 DEF Judge, Proceed, Return
<1>4. QED
  BY <1>1, <1>2, <1>3

(* The call ends its process. *)
LEMMA EndOwnStep == ASSUME IInv, TerminateOwn \/ Communicate \/ ReapOwn PROVE IInv'
<1> USE DEF IInv, TypeCorrect, CallOwns, ReapsSomeone, RevokedWorkersAreDoomed, None, Failures,
            fields, mainVars
<1>1. CASE TerminateOwn
  <2>1. handle \in 1 .. Len(status) /\ status' = Terminated(handle)
    BY <1>1 DEF TerminateOwn, Proceed
  <2>2. QED
    BY <1>1, <2>1, TerminatedStatus DEF TerminateOwn, Proceed, Alive
<1>2. CASE Communicate
  <2>1. handle \in 1 .. Len(status)
    BY <1>2 DEF Communicate
  <2>2. CASE ~Alive(handle)
    BY <1>2, <2>1, <2>2 DEF Communicate, Proceed, Alive
  <2>3. CASE Alive(handle)
    BY <1>2, <2>1, <2>3, TerminatedStatus DEF Communicate, Proceed, Alive
  <2>4. QED
    BY <2>2, <2>3
<1>3. CASE ReapOwn
  <2>1. handle \in 1 .. Len(status) /\ status' = [status EXCEPT ![handle] = "failed"]
    BY <1>3 DEF ReapOwn, Proceed
  <2>2. /\ status' \in Seq(Statuses) /\ Len(status') = Len(status) /\ status'[handle] = "failed"
        /\ \A w \in 1 .. Len(status) \ {handle} : status'[w] = status[w]
    BY <2>1 DEF Statuses
  <2>3. QED
    BY <1>3, <2>1, <2>2 DEF ReapOwn, Proceed, Alive
<1>4. QED
  BY <1>1, <1>2, <1>3

(* Interrupts: whom Revoke finds, Kill ends. *)
LEMMA RevokeStep ==
    ASSUME IInv, NEW from, NEW to \in {"terminate", "shutdown", "forceStop", "stopKill"},
           Revoke(from, to)
    PROVE  IInv'
BY DEF IInv, TypeCorrect, CallOwns, ReapsSomeone, RevokedWorkersAreDoomed, Alive, None, Failures,
       callVars, Revoke

LEMMA KillStep ==
    ASSUME IInv, NEW from, NEW to \in {"idle", "join", "forcedJoin", "snapshot"}, Kill(from, to)
    PROVE  IInv'
<1> USE DEF IInv, TypeCorrect, CallOwns, ReapsSomeone, RevokedWorkersAreDoomed, None, Failures,
            fields, callVars, Kill
<1>1. CASE victim = None
  BY <1>1 DEF Alive
<1>2. CASE victim # None
  BY <1>2, TerminatedStatus DEF Alive
<1>3. QED
  BY <1>1, <1>2

LEMMA JoinStep == ASSUME IInv, NEW from \in {"join", "forcedJoin"}, JoinThread(from) PROVE IInv'
BY DEF IInv, TypeCorrect, CallOwns, ReapsSomeone, RevokedWorkersAreDoomed, Alive, None, Failures,
       fields, callVars, JoinThread

LEMMA StopStep == ASSUME IInv, Snapshot \/ Reap PROVE IInv'
<1> USE DEF IInv, TypeCorrect, CallOwns, ReapsSomeone, RevokedWorkersAreDoomed, None, Failures,
            fields, callVars
<1>1. CASE Snapshot
  BY <1>1 DEF Snapshot, Alive
<1>2. CASE Reap
  <2>1. victim \in 1 .. Len(status)
    BY <1>2 DEF Reap
  <2>2. /\ status' \in Seq(Statuses) /\ Len(status') = Len(status)
        /\ status'[victim] \in {status[victim], "failed"} /\ status'[victim] # "running"
        /\ \A w \in 1 .. Len(status) \ {victim} : status'[w] = status[w]
    BY <1>2, <2>1 DEF Reap, Alive, Statuses
  <2>3. QED
    BY <1>2, <2>1, <2>2 DEF Reap, Alive
<1>3. QED
  BY <1>1, <1>2

LEMMA EndStep == ASSUME IInv, NEW w \in 1 .. Len(status), End(w) PROVE IInv'
<1> USE DEF IInv, TypeCorrect, CallOwns, ReapsSomeone, RevokedWorkersAreDoomed, None, Failures,
            fields, callVars, mainVars
<1>1. /\ status' \in Seq(Statuses) /\ Len(status') = Len(status)
      /\ status'[w] \in {"answered", "failed"}
      /\ \A x \in 1 .. Len(status) \ {w} : status'[x] = status[x]
  BY DEF End, Statuses
<1>2. QED
  BY <1>1 DEF End, Alive

(* Every step preserves the invariant. *)
LEMMA IInvStep == IInv /\ [Next]_vars => IInv'
<1> SUFFICES ASSUME IInv, [Next]_vars PROVE IInv'
  OBVIOUS
<1>1. CASE UNCHANGED vars
  BY <1>1 DEF IInv, TypeCorrect, CallOwns, ReapsSomeone, RevokedWorkersAreDoomed, Alive, vars, fields,
              callVars, mainVars
<1>2. CASE ReadToken \/ EndRequest \/ Call \/ Finished
  BY <1>2, OutsideStep
<1>3. CASE CallStep
  BY <1>3, SpawnStep, PlaceStep, EndOwnStep DEF CallStep
<1>4. CASE Interrupt \/ BeginShutdown
  BY <1>4, RevokeStep DEF Interrupt, BeginShutdown
<1>5. CASE InterruptStep
  BY <1>5, RevokeStep, KillStep, JoinStep, StopStep DEF InterruptStep, ForceStop
<1>6. CASE \E w \in 1 .. Len(status) : End(w)
  BY <1>6, EndStep
<1>7. QED
  BY <1>1, <1>2, <1>3, <1>4, <1>5, <1>6 DEF Next

LEMMA Invariance == Spec => []IInv
BY IInvInit, IInvStep, PTL DEF Spec

-----------------------------------------------------------------------------

(* No process runs but the one of the call in progress, and interrupt() finds it
   from its publication to its end (OneShotRuntimeBridge.synthesize). *)
THEOREM Ownership == Spec => []WorkersAreOwned
<1>1. IInv => WorkersAreOwned
  BY DEF IInv, CallOwns, WorkersAreOwned
<1>2. QED
  BY <1>1, Invariance, PTL

(* A call that waits although it was interrupted waits for a process that is being
   ended, wherever in the start of the process the interrupt came. *)
THEOREM RevocationReaches == Spec => []RevokedWorkersAreDoomed
<1>1. IInv => RevokedWorkersAreDoomed
  BY DEF IInv
<1>2. QED
  BY <1>1, Invariance, PTL

-----------------------------------------------------------------------------
(* The bridge implements the safety of the contract: every step of the two threads
   and of the processes is a step of the contract or changes nothing of it. *)

LEMMA ContractInit == Init => Contract!Init
BY DEF Init, Contract!Init, Calling, Failures

LEMMA ContractStep == IInv /\ [Next]_vars => [Contract!Next]_(Contract!contractVars)
<1> SUFFICES ASSUME IInv, [Next]_vars PROVE [Contract!Next]_(Contract!contractVars)
  OBVIOUS
<1> USE DEF Contract!contractVars, Calling, fields, callVars, mainVars
<1>0. token \in 0 .. cancellationToken /\ cancellationToken \in Nat
  BY DEF IInv, TypeCorrect
<1>1. CASE UNCHANGED vars
  BY <1>1 DEF vars
<1>2. CASE ReadToken
  BY <1>2 DEF ReadToken, Contract!Next, Contract!ReadToken
<1>3. CASE EndRequest
  BY <1>3 DEF EndRequest, Proceed, Contract!Next, Contract!EndRequest
<1>4. CASE Call
  BY <1>4 DEF Call, Failures, Contract!Next, Contract!Call, Contract!Refuse
<1>5. CASE Spawn
  BY <1>5 DEF Spawn, Return, Proceed, Failures, Contract!Next, Contract!Return
<1>6. CASE Publish \/ TerminateOwn \/ Communicate \/ ReapOwn
  BY <1>6 DEF Publish, TerminateOwn, Communicate, ReapOwn, Proceed
<1>7. CASE ClearProcess
  BY <1>7 DEF ClearProcess, Return, Proceed, Failures, Contract!Next, Contract!Return
<1>8. CASE Judge
  BY <1>8 DEF Judge, Return, Proceed, Failures, Contract!Next, Contract!Return
<1>9. ASSUME NEW from, NEW to, Revoke(from, to) PROVE [Contract!Next]_(Contract!contractVars)
  BY <1>0, <1>9 DEF Revoke, Contract!Next, Contract!Interrupt
<1>10. ASSUME NEW from, NEW to, Kill(from, to) PROVE UNCHANGED Contract!contractVars
  BY <1>10 DEF Kill
<1>11. CASE Interrupt \/ BeginShutdown
  BY <1>9, <1>11 DEF Interrupt, BeginShutdown
<1>12. CASE InterruptStep
  BY <1>9, <1>10, <1>12 DEF InterruptStep, ForceStop, JoinThread, Snapshot, Reap
<1>13. CASE Finished \/ \E w \in 1 .. Len(status) : End(w)
  BY <1>13 DEF Finished, End, vars
<1>14. QED
  BY <1>1, <1>2, <1>3, <1>4, <1>5, <1>6, <1>7, <1>8, <1>11, <1>12, <1>13 DEF Next, CallStep

(* To its caller the one-shot bridge is the bridge of the contract. *)
THEOREM Refinement == Spec => Contract!Safety
BY ContractInit, ContractStep, Invariance, PTL DEF Spec, Contract!Safety
=============================================================================
