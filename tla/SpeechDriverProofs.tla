-------------------------- MODULE SpeechDriverProofs --------------------------
(***************************************************************************)
(* Proofs about SpeechDriver, for any number of requests, any utterances,   *)
(* chunks, device buffer and players.  Every step of the driver is one of   *)
(* its controller or changes nothing of it (Refinement), so the invariant   *)
(* of the controller holds in the driver; what the driver adds is where the *)
(* audio in the device comes from.                                          *)
(***************************************************************************)
EXTENDS SpeechDriver, TLAPS

Proofs == INSTANCE BackgroundControllerProofs

-----------------------------------------------------------------------------
(* The controller of the driver is the one the proofs are about. *)

LEMMA SameInit == Controller!Init => Proofs!Init
BY DEF Controller!Init, Proofs!Init, Controller!NoGen, Proofs!NoGen

LEMMA SameMainStep == Controller!MainStep => Proofs!MainStep
BY DEF Controller!MainStep, Proofs!MainStep, Controller!Submit, Proofs!Submit,
       Controller!Enqueue, Proofs!Enqueue, Controller!Notify, Proofs!Notify,
       Controller!SubmitInterrupts, Proofs!SubmitInterrupts, Controller!activeShortRequest,
       Proofs!activeShortRequest, Controller!IsShort, Proofs!IsShort, Controller!Segments,
       Proofs!Segments, Controller!Cancel, Proofs!Cancel, Controller!ClearQueue,
       Proofs!ClearQueue, Controller!Interrupt, Proofs!Interrupt, Controller!Shutdown,
       Proofs!Shutdown, Controller!ShutdownStep, Proofs!ShutdownStep, Controller!CallBridge,
       Proofs!CallBridge, Controller!Join, Proofs!Join, Controller!Deliver, Proofs!Deliver,
       Controller!IsCurrent, Proofs!IsCurrent, Controller!Category, Proofs!Category,
       Controller!currentRequestCategory, Proofs!currentRequestCategory,
       Controller!activeRequestCategory, Proofs!activeRequestCategory, Controller!NoGen,
       Proofs!NoGen, Controller!queueVars, Proofs!queueVars, Controller!controllerVars,
       Proofs!controllerVars, Controller!mainVars, Proofs!mainVars, Controller!localVars,
       Proofs!localVars, Controller!historyVars, Proofs!historyVars

LEMMA SameThreadStep == Controller!ThreadStep => Proofs!ThreadStep
BY DEF Controller!ThreadStep, Proofs!ThreadStep, Controller!Boot, Proofs!Boot, Controller!Park,
       Proofs!Park, Controller!LeaveLoop, Proofs!LeaveLoop, Controller!Take, Proofs!Take,
       Controller!FirstCheck, Proofs!FirstCheck, Controller!ReadToken, Proofs!ReadToken,
       Controller!LoopHead, Proofs!LoopHead, Controller!CacheLookup, Proofs!CacheLookup,
       Controller!Synthesize, Proofs!Synthesize, Controller!CachePut, Proofs!CachePut,
       Controller!PlayCheck, Proofs!PlayCheck, Controller!Play, Proofs!Play,
       Controller!DispatchIndex, Proofs!DispatchIndex, Controller!NextSegment,
       Proofs!NextSegment, Controller!LastCheck, Proofs!LastCheck, Controller!DispatchEnd,
       Proofs!DispatchEnd, Controller!DispatchRaises, Proofs!DispatchRaises,
       Controller!FailureCheck, Proofs!FailureCheck, Controller!ReportError, Proofs!ReportError,
       Controller!Finally, Proofs!Finally, Controller!Exit, Proofs!Exit, Controller!Goto,
       Proofs!Goto, Controller!Check, Proofs!Check, Controller!StartIndexes,
       Proofs!StartIndexes, Controller!IndexEvent, Proofs!IndexEvent, Controller!EndEvent,
       Proofs!EndEvent, Controller!request, Proofs!request, Controller!ClearQueue,
       Proofs!ClearQueue, Controller!IsCurrent, Proofs!IsCurrent, Controller!Category,
       Proofs!Category, Controller!currentRequestCategory, Proofs!currentRequestCategory,
       Controller!activeRequestCategory, Proofs!activeRequestCategory, Controller!Segments,
       Proofs!Segments, Controller!NoGen, Proofs!NoGen, Controller!queueVars, Proofs!queueVars,
       Controller!controllerVars, Proofs!controllerVars, Controller!mainVars, Proofs!mainVars,
       Controller!localVars, Proofs!localVars, Controller!historyVars, Proofs!historyVars

LEMMA SameStep == [Controller!Next]_(Controller!vars) => [Proofs!Next]_(Proofs!vars)
BY SameMainStep, SameThreadStep
   DEF Controller!Next, Proofs!Next, Controller!vars, Proofs!vars, Controller!controllerVars,
       Proofs!controllerVars, Controller!queueVars, Proofs!queueVars, Controller!mainVars,
       Proofs!mainVars, Controller!localVars, Proofs!localVars, Controller!historyVars,
       Proofs!historyVars

LEMMA SameAssumptions ==
    MaxGen \in Nat /\ Shapes \subseteq Proofs!Shape /\ CharacterQueueLimit \in Nat \ {0}
BY ControllerAssumption DEF Controller!Shape, Proofs!Shape, Controller!Segment, Proofs!Segment,
   Controller!TextKinds, Proofs!TextKinds

-----------------------------------------------------------------------------
(* Every step of the driver is one of the controller, or none. *)

Utterances == utterance \in {<<>>} \union {<<s>> : s \in Shapes}

(* Only an utterance that may be spoken waits to be submitted. *)
LEMMA UtterancesStep == Utterances /\ [Next]_vars => Utterances'
BY DEF Utterances, Next, MainStep, ThreadStep, PlayResult, Speak, SpeakStop, SpeakSubmit, Cancel,
       Terminate, Revoke, Silence, Shutdown, Close, ControllerCall, Refuse, Enter, Open, CheckChunk,
       Feed, Drain, Accept, PlayerRaises, Move, Hear, Finished, vars, driverVars, callVars

LEMMA SilentStep ==
    ASSUME UNCHANGED controllerVars PROVE UNCHANGED Controller!vars
BY DEF controllerVars, Controller!vars, Controller!controllerVars, Controller!queueVars,
       Controller!mainVars, Controller!localVars, Controller!historyVars

LEMMA RefinementStep == Utterances /\ [Next]_vars => [Controller!Next]_(Controller!vars)
<1> SUFFICES ASSUME Utterances, [Next]_vars PROVE [Controller!Next]_(Controller!vars)
  OBVIOUS
<1>1. CASE \/ UNCHANGED vars \/ Hear \/ Finished \/ SpeakStop \/ Close
           \/ (\E s \in Shapes : Speak(s)) \/ Enter \/ Open \/ CheckChunk \/ Feed \/ Drain
           \/ Silence("cancelling", "idle") \/ Silence("terminating", "shutdown")
  BY <1>1, SilentStep DEF vars, Hear, Finished, SpeakStop, Close, Speak, Enter, Open, CheckChunk,
     Feed, Drain, Silence, Move
<1>2. CASE SpeakSubmit
  <2>1. PICK s \in Shapes : Controller!Submit(s)
    BY <1>2 DEF SpeakSubmit, Utterances, Range
  <2>2. QED
    BY <2>1 DEF Controller!Next, Controller!MainStep
<1>3. CASE Revoke("cancelling") \/ Revoke("terminating") \/ Shutdown \/ ControllerCall
  BY <1>3 DEF Revoke, Shutdown, ControllerCall, Controller!Next, Controller!MainStep
<1>4. CASE Refuse \/ Accept \/ PlayerRaises
  <2>1. Controller!Play
    BY <1>4 DEF Refuse, Accept, PlayerRaises, Controller!Play, Controller!Goto, request
  <2>2. QED
    BY <2>1 DEF Controller!Next, Controller!ThreadStep
<1>5. CASE Controller!ThreadStep
  BY <1>5 DEF Controller!Next
<1>6. QED
  BY <1>1, <1>2, <1>3, <1>4, <1>5 DEF Next, MainStep, ThreadStep, PlayResult, Cancel, Terminate

LEMMA UtterancesInvariant == Spec => []Utterances
<1>1. Init => Utterances
  BY DEF Init, Utterances
<1>2. QED
  BY <1>1, UtterancesStep, PTL DEF Spec

(* playResult chunk by chunk, with a main thread that stops and closes the player,
   is to the controller its one step Play, and everything else it does not see. *)
THEOREM Refinement == Spec => ImplementsController
<1>1. Init => Controller!Init
  BY DEF Init
<1>2. QED
  BY <1>1, UtterancesInvariant, RefinementStep, PTL DEF Spec, ImplementsController, Controller!Spec

(* So the controller's invariant holds in the driver. *)
LEMMA ControllerInvariant == Spec => []Proofs!IInv
<1>1. Init => Proofs!IInv
  BY SameInit, SameAssumptions, Proofs!InvInit DEF Init
<1>2. Proofs!IInv /\ Utterances /\ [Next]_vars => Proofs!IInv'
  BY RefinementStep, SameStep, SameAssumptions, Proofs!InvStep
<1>3. QED
  BY <1>1, <1>2, UtterancesInvariant, PTL DEF Spec

-----------------------------------------------------------------------------

(* Where the thread has a request and is not playing it. *)
BetweenPlays == {"taken", "readToken", "segment", "lookup", "synthesize", "synthesizing",
                 "cachePut", "playCheck", "indexes"}

NoAudioOf(g) == \A i \in 1 .. Len(buffer) : buffer[i][1] # g

(* The player that playResult feeds is the open one, as long as nobody shuts down. *)
Places ==
    /\ place # "enter" => pc = "playing"
    /\ place \in {"check", "feed"} => chunk <= Chunks
    /\ place = "feed" => player # None
    /\ place \in {"check", "feed", "drain", "verdict"} /\ ~stopping
         => player = local /\ player # None
    /\ player = None => buffer = <<>>

(* What a call of the main thread has revoked by the place it has reached. *)
Revoked ==
    /\ currentGeneration \in {0, Len(shape)}
    /\ call \in {"cancelling", "terminating", "shutdown", "close"} => currentGeneration = 0
    /\ call = "close" \/ lifecycle = "terminated" => stopping
    /\ lifecycle = "terminated" => player = None

AudioPast == \A i \in 1 .. Len(buffer) : Proofs!Past(buffer[i][1])

(* The audio is of requests that were taken; what cancel() silenced is not fed again. *)
Sources ==
    /\ cut \subseteq Controller!Gen \X (Nat \ {0})
    /\ \A c \in cut : c[1] <= Len(shape)
    /\ AudioPast
    /\ CancelledAudioIsGone
    /\ place = "feed" => request > silencedUpTo \/ Controller!IsCharacter(request)

(* A result is fed into a device that has nothing left of its request, and
   accepted when it has nothing left at all. *)
Drained ==
    /\ pc \in BetweenPlays \/ (pc = "playing" /\ place \in {"enter", "open"})
         => NoAudioOf(activeGeneration)
    /\ place = "verdict" /\ ~stopping => buffer = <<>>

(* The index is behind whatever the device still has to play. *)
BehindAudio(e) ==
    e.kind = "index" =>
        \A i \in 1 .. Len(buffer) : buffer[i][1] = e.gen => buffer[i][2] > e.segment

AllBehindAudio ==
    /\ \A i \in 1 .. Len(events) : BehindAudio(events[i])
    /\ \A i \in 1 .. Len(notified) : BehindAudio(notified[i])

(* Who lost audio is no longer current, or is not when NVDA's queue is next run. *)
Heard ==
    /\ AllBehindAudio
    /\ \A c \in cut : c[1] = currentGeneration /\ ~Controller!IsCharacter(c[1]) => call = "submit"
    /\ ReportedSpeechWasHeard

DInv == TypeOK /\ Places /\ Revoked /\ Sources /\ Drained /\ Heard

-----------------------------------------------------------------------------
(* What the controller's invariant says of the fields the driver depends on. *)

LEMMA ControllerFacts ==
    ASSUME Proofs!IInv
    PROVE  /\ Len(shape) \in Nat /\ Len(shape) <= MaxGen /\ shape \in Seq(Shapes)
           /\ activeGeneration \in 0 .. Len(shape) /\ currentGeneration \in 0 .. Len(shape)
           /\ cancelledUpTo \in 0 .. Len(shape)
           /\ stopping => currentGeneration = 0
           /\ currentGeneration # 0 => currentGeneration > cancelledUpTo
           /\ pc = "playing" => activeGeneration \in Controller!Gen /\ segment \in Nat \ {0}
           /\ pc \in BetweenPlays => activeGeneration # 0
           /\ pc = "waiting" => activeGeneration = 0
<1>1. /\ shape \in Seq(Shapes) /\ Len(shape) <= MaxGen
      /\ activeGeneration \in Nat /\ currentGeneration \in Nat /\ segment \in Nat
  BY SameAssumptions DEF Proofs!IInv, Proofs!TypeOK, Proofs!Gen, Proofs!NoGen
<1>2. /\ pc = "playing" \/ pc \in BetweenPlays => activeGeneration # 0
      /\ pc = "waiting" => activeGeneration = 0
  BY DEF Proofs!IInv, Proofs!Linked, Proofs!Holding, Proofs!InSegment, Proofs!Ending,
         Proofs!NoGen, BetweenPlays
<1>3. /\ activeGeneration <= Len(shape) /\ currentGeneration <= Len(shape)
      /\ cancelledUpTo <= Len(shape) /\ cancelledUpTo \in 0 .. MaxGen
      /\ pc = "playing" => segment \in 1 .. Len(Proofs!Segments(Proofs!request))
  BY DEF Proofs!IInv, Proofs!TypeOK, Proofs!Linked, Proofs!InSegment
<1>4. /\ stopping => currentGeneration = 0
      /\ currentGeneration # 0 => currentGeneration > cancelledUpTo
  BY DEF Proofs!IInv, Proofs!CurrentIsFresh, Proofs!NoGen
<1>5. Len(shape) \in Nat
  BY <1>1
<1>6. pc = "playing" => segment \in Nat \ {0}
  BY <1>1, <1>3
<1>7. QED
  BY <1>1, <1>2, <1>3, <1>4, <1>5, <1>6, SameAssumptions DEF Controller!Gen

(* Only a character can be current without having the current generation, and
   only beside another. *)
LEMMA CurrentFacts ==
    ASSUME NEW g, Controller!IsCurrent(g)
    PROVE  /\ ~stopping
           /\ ~Controller!IsCharacter(g) => currentGeneration = g
           /\ currentGeneration # g => Controller!IsCharacter(currentGeneration)
BY DEF Controller!IsCurrent, Controller!IsCharacter, Controller!currentRequestCategory,
       Controller!activeRequestCategory

(* A request keeps its category when others are submitted. *)
LEMMA CategoryStays ==
    ASSUME Proofs!IInv, NEW g \in 1 .. Len(shape), NEW s \in Shapes, shape' = Append(shape, s)
    PROVE  Controller!IsCharacter(g)' <=> Controller!IsCharacter(g)
<1>1. shape'[g] = shape[g] /\ g # 0
  BY ControllerFacts
<1>2. QED
  BY <1>1 DEF Controller!IsCharacter, Controller!Category, Controller!NoGen

(* The thread outside playResult leaves the main thread's fields alone, gets a new
   request only by taking it, and posts nothing ahead of its place. *)
Taken == pc = "waiting" /\ Controller!Take /\ pc' = "taken"

LEMMA ThreadFrame ==
    ASSUME pc # "playing", Controller!ThreadStep
    PROVE  /\ UNCHANGED <<currentGeneration, stopping, shape, notified, cancelledUpTo>>
           /\ Taken \/ (pc' \in BetweenPlays \union {"playing"}
                           => pc \in BetweenPlays /\ UNCHANGED activeGeneration)
           /\ \/ UNCHANGED events
              \/ pc = "indexes" /\ \E e : events' = Append(events, e) /\ e.gen = activeGeneration
              \/ \E e : events' = Append(events, e) /\ e.kind # "index"
<1> USE DEF Controller!controllerVars, Controller!queueVars, Controller!mainVars,
            Controller!localVars, Controller!historyVars, BetweenPlays, Taken
<1>g. ASSUME NEW from, NEW to, Controller!Goto(from, to),
             to \in BetweenPlays \union {"playing"} => from \in BetweenPlays
      PROVE  /\ UNCHANGED <<currentGeneration, stopping, shape, notified, cancelledUpTo, events>>
             /\ pc' \in BetweenPlays \union {"playing"}
                   => pc \in BetweenPlays /\ UNCHANGED activeGeneration
  BY <1>g DEF Controller!Goto
<1>1. CASE Controller!Boot \/ Controller!ReportError \/ Controller!Finally \/ Controller!Exit
  BY <1>1 DEF Controller!Boot, Controller!ReportError, Controller!Finally, Controller!Exit
<1>2. CASE Controller!Park \/ Controller!LeaveLoop
  BY <1>2, <1>g DEF Controller!Park, Controller!LeaveLoop
<1>3. CASE Controller!Take
  BY <1>3 DEF Controller!Take
<1>4. CASE Controller!FirstCheck \/ Controller!PlayCheck \/ Controller!LastCheck
           \/ Controller!FailureCheck
  BY <1>4, <1>g DEF Controller!FirstCheck, Controller!PlayCheck, Controller!LastCheck,
     Controller!FailureCheck, Controller!Check
<1>5. CASE Controller!ReadToken \/ Controller!NextSegment
  BY <1>5 DEF Controller!ReadToken, Controller!NextSegment
<1>6. CASE Controller!LoopHead
  <2>1. CASE Controller!StartIndexes("segment") /\ UNCHANGED played
    BY <2>1 DEF Controller!StartIndexes
  <2>2. QED
    BY <1>6, <1>g, <2>1 DEF Controller!LoopHead
<1>7. CASE Controller!CacheLookup \/ Controller!Synthesize \/ Controller!CachePut
           \/ Controller!DispatchRaises
  BY <1>7, <1>g DEF Controller!CacheLookup, Controller!Synthesize, Controller!CachePut,
     Controller!DispatchRaises
<1>8. CASE Controller!Play
  BY <1>8 DEF Controller!Play, Controller!Goto, Controller!StartIndexes
<1>9. CASE Controller!DispatchIndex
  <2>1. Controller!IndexEvent(activeGeneration, segment, nextIndex).gen = activeGeneration
    BY DEF Controller!IndexEvent
  <2>2. QED
    BY <1>9, <2>1 DEF Controller!DispatchIndex, Controller!request
<1>10. CASE \/ Controller!DispatchEnd("complete", "done")
            \/ Controller!DispatchEnd("dispatchError", "error")
  <2>1. /\ Controller!EndEvent("done", activeGeneration).kind # "index"
        /\ Controller!EndEvent("error", activeGeneration).kind # "index"
    BY DEF Controller!EndEvent
  <2>2. QED
    BY <1>10, <2>1 DEF Controller!DispatchEnd, Controller!request
<1>11. QED
  BY <1>1, <1>2, <1>3, <1>4, <1>5, <1>6, <1>7, <1>8, <1>9, <1>10 DEF Controller!ThreadStep

(* What belongs to no request that still waits goes on doing so. *)
LEMMA PastStays ==
    ASSUME Proofs!IInv, NEW g \in Nat, Proofs!Past(g), [Controller!Next]_(Controller!vars)
    PROVE  Proofs!Past(g)'
<1> USE DEF Proofs!Past, Proofs!NoGen, Controller!NoGen, Controller!controllerVars,
            Controller!queueVars, Controller!mainVars, Controller!localVars, Controller!historyVars
<1>0. /\ shape \in Seq(Shapes) /\ characterPending \in Seq(Proofs!Gen) /\ Proofs!QueueOrder
      /\ pending \in Nat /\ Len(shape) \in Nat /\ Proofs!Gen \subseteq Nat
  BY SameAssumptions DEF Proofs!IInv, Proofs!TypeOK, Proofs!Gen
<1>1. ASSUME NEW s, Controller!Submit(s) PROVE Proofs!Past(g)'
  <2>1. Len(shape') = Len(shape) + 1 /\ UNCHANGED activeGeneration /\ g < Len(shape) + 1
    BY <1>0, <1>1 DEF Controller!Submit
  <2>2. pending' \in {pending, Len(shape) + 1}
    BY <1>1 DEF Controller!Submit, Controller!Enqueue
  <2>3. ASSUME NEW i \in 1 .. Len(characterPending') PROVE g < characterPending'[i]
    <3>1. CASE characterPending' \in {characterPending, <<>>}
      BY <1>0, <3>1
    <3>2. CASE characterPending' = Append(characterPending, Len(shape) + 1)
      BY <1>0, <2>1, <3>2
    <3>3. QED
      BY <1>1, <3>1, <3>2 DEF Controller!Submit, Controller!Enqueue
  <2>4. QED
    BY <2>1, <2>2, <2>3
<1>2. CASE Controller!Cancel \/ Controller!Shutdown \/ Controller!Exit
  BY <1>2 DEF Controller!Cancel, Controller!Shutdown, Controller!Exit, Controller!ClearQueue
<1>3. CASE Controller!Take
  <2>1. CASE pending # 0
    BY <1>0, <1>3, <2>1 DEF Controller!Take, Proofs!QueueOrder
  <2>2. CASE pending = 0
    <3>1. /\ characterPending # <<>> /\ activeGeneration' = characterPending[1]
          /\ characterPending' = Tail(characterPending) /\ UNCHANGED <<shape, pending>>
      BY <1>0, <1>3, <2>2 DEF Controller!Take
    <3>2. \A i \in 1 .. Len(characterPending') : g < characterPending'[i]
      BY <1>0, <3>1
    <3>3. characterPending[1] \in Nat /\ g < characterPending[1] /\ g <= Len(shape)
      <4>1. 1 \in 1 .. Len(characterPending)
        BY <1>0, <3>1
      <4>2. characterPending[1] \in Proofs!Gen
        BY <1>0, <4>1
      <4>3. QED
        BY <1>0, <4>1, <4>2
    <3>4. QED
      BY <2>2, <3>1, <3>2, <3>3
  <2>3. QED
    BY <2>1, <2>2
<1>4. CASE \/ UNCHANGED <<shape, activeGeneration, pending, characterPending>>
           \/ UNCHANGED <<shape, pending, characterPending>> /\ activeGeneration' = 0
  BY <1>4
<1>5. ASSUME Controller!ThreadStep
      PROVE  \/ Controller!Take \/ Controller!Exit
             \/ UNCHANGED <<shape, activeGeneration, pending, characterPending>>
             \/ UNCHANGED <<shape, pending, characterPending>> /\ activeGeneration' = 0
  BY <1>5
     DEF Controller!ThreadStep, Controller!Boot, Controller!Park, Controller!LeaveLoop,
         Controller!FirstCheck, Controller!ReadToken, Controller!LoopHead, Controller!CacheLookup,
         Controller!Synthesize, Controller!CachePut, Controller!PlayCheck, Controller!Play,
         Controller!DispatchIndex, Controller!NextSegment, Controller!LastCheck,
         Controller!DispatchEnd, Controller!DispatchRaises, Controller!FailureCheck,
         Controller!ReportError, Controller!Finally, Controller!Goto, Controller!Check,
         Controller!StartIndexes
<1>6. CASE \/ Controller!Interrupt \/ Controller!ShutdownStep \/ Controller!Deliver
           \/ UNCHANGED Controller!vars
  BY <1>4, <1>6 DEF Controller!Interrupt, Controller!ShutdownStep, Controller!Deliver,
     Controller!CallBridge, Controller!Join, Controller!vars
<1>7. QED
  BY <1>1, <1>2, <1>3, <1>4, <1>5, <1>6 DEF Controller!Next, Controller!MainStep

-----------------------------------------------------------------------------
(* The device. *)

Audio == Controller!Gen \X (Nat \ {0})

LEMMA AudioFacts ==
    ASSUME TypeOK, NEW i \in 1 .. Len(buffer)
    PROVE  buffer \in Seq(Audio) /\ buffer[i] \in Audio /\ buffer[i][1] \in Nat /\ buffer[i][2] \in Nat
BY SameAssumptions DEF TypeOK, Audio, Controller!Gen

(* What is thrown away is lost, and was behind no index that was posted. *)
LEMMA DiscardStep ==
    ASSUME Proofs!IInv, DInv, Discard, UNCHANGED <<shape, events, notified>>
    PROVE  /\ cut' \subseteq Audio /\ \A c \in cut' : c[1] <= Len(shape)
           /\ \A c \in cut' : c \in cut \/ \E i \in 1 .. Len(buffer) : c = buffer[i]
           /\ buffer' \in Seq(Audio) /\ Len(buffer') = 0
           /\ AllBehindAudio'
           /\ ReportedSpeechWasHeard'
<1>1. buffer' = <<>> /\ \A c \in cut' : c \in cut \/ \E i \in 1 .. Len(buffer) : c = buffer[i]
  BY DEF Discard, Range, DInv, TypeOK
<1>2. \A c \in cut' : c \in Audio /\ c[1] <= Len(shape)
  BY <1>1, AudioFacts DEF DInv, Sources, AudioPast, Audio, Proofs!Past
<1>3. AllBehindAudio'
  BY <1>1 DEF AllBehindAudio, BehindAudio
<1>4. ReportedSpeechWasHeard'
  <2> SUFFICES ASSUME NEW i \in 1 .. Len(notified), notified[i].kind = "index",
                      ~Controller!IsCharacter(notified[i].gen), NEW s \in 1 .. notified[i].segment,
                      <<notified[i].gen, s>> \in cut'
               PROVE  FALSE
    BY DEF ReportedSpeechWasHeard, Controller!IsCharacter, Controller!Category
  <2>1. <<notified[i].gen, s>> \notin cut
    BY DEF DInv, Heard, ReportedSpeechWasHeard
  <2>2. PICK k \in 1 .. Len(buffer) : buffer[k] = <<notified[i].gen, s>>
    BY <1>1, <2>1
  <2>3. buffer[k][2] > notified[i].segment /\ buffer[k][2] = s
    BY <2>2 DEF DInv, Heard, AllBehindAudio, BehindAudio
  <2>4. notified[i] \in Proofs!Event
    BY DEF Proofs!IInv, Proofs!TypeOK
  <2>5. QED
    BY <2>3, <2>4 DEF Proofs!Event
<1>5. QED
  BY <1>1, <1>2, <1>3, <1>4

-----------------------------------------------------------------------------
(* The main thread. *)

(* The steps of speak(), and those of cancel() and terminate() that stop or close
   the player, which change nothing of the controller. *)
LEMMA SpeakStep ==
    ASSUME Proofs!IInv, DInv, NEW s \in Shapes, Speak(s) PROVE DInv'
BY ControllerFacts
   DEF DInv, TypeOK, Places, Revoked, Sources, Drained, Heard, AllBehindAudio, BehindAudio,
       NoAudioOf, AudioPast, Proofs!Past,
       CancelledAudioIsGone, ReportedSpeechWasHeard, Speak, Idle, controllerVars, audioVars, playVars,
       Controller!IsCharacter, Controller!Category, Controller!Segments, request, Controller!request

LEMMA StopPlayerStep ==
    ASSUME Proofs!IInv, DInv, StopPlayer, UNCHANGED <<controllerVars, playVars>>,
           UNCHANGED lifecycle, Utterances', silencedUpTo' \in {silencedUpTo, cancelledUpTo},
           \/ call = "stop" /\ call' = "submit"
           \/ call = "cancelling" /\ call' = "idle"
           \/ call = "terminating" /\ call' = "shutdown"
    PROVE  DInv'
<1> USE ControllerFacts DEF DInv, StopPlayer, controllerVars, playVars
<1>1. UNCHANGED <<shape, events, notified, activeGeneration, pc, currentGeneration, stopping,
                  cancelledUpTo, segment, place, local, chunk, player, opened, audioLock, lifecycle,
                  pending, characterPending>>
  OBVIOUS
<1>2. CASE player = None /\ UNCHANGED <<buffer, cut>>
  <2>1. buffer = <<>> /\ place # "feed"
    BY <1>2 DEF Places
  <2>2. TypeOK' /\ Places' /\ Revoked' /\ Drained'
    BY <1>1, <1>2, <2>1 DEF TypeOK, Places, Revoked, Drained, NoAudioOf, Utterances
  <2>3. Sources'
    BY <1>1, <1>2, <2>1 DEF Sources, AudioPast, CancelledAudioIsGone
  <2>4. Heard'
    BY <1>1, <1>2, <2>1 DEF Heard, Revoked, AllBehindAudio, BehindAudio, ReportedSpeechWasHeard,
       Controller!IsCharacter, Controller!Category
  <2>5. QED
    BY <2>2, <2>3, <2>4
<1>3. CASE player # None /\ Discard
  <2>1. /\ cut' \subseteq Audio /\ \A c \in cut' : c[1] <= Len(shape)
        /\ buffer' = <<>> /\ place # "feed"
        /\ AllBehindAudio'
        /\ ReportedSpeechWasHeard'
    BY <1>1, <1>3, DiscardStep DEF TypeOK, Discard
  <2>2. TypeOK' /\ Places' /\ Revoked' /\ Drained'
    BY <1>1, <1>3, <2>1, AudioAssumption DEF TypeOK, Places, Revoked, Drained, NoAudioOf, Utterances
  <2>3. Sources'
    BY <1>1, <1>3, <2>1 DEF Sources, AudioPast, CancelledAudioIsGone, Audio
  <2>4. \A c \in cut' : c[1] = currentGeneration' /\ ~Controller!IsCharacter(c[1])' => call' = "submit"
    <3>1. CASE call' = "submit"
      BY <3>1
    <3>2. CASE currentGeneration = 0
      BY <1>1, <2>1, <3>2 DEF Audio, Controller!Gen
    <3>3. QED
      BY <3>1, <3>2 DEF Revoked
  <2>5. QED
    BY <1>1, <2>1, <2>2, <2>3, <2>4 DEF Heard
<1>4. QED
  BY <1>2, <1>3

LEMMA CloseStep == ASSUME Proofs!IInv, DInv, Close PROVE DInv'
<1> USE ControllerFacts DEF DInv, controllerVars, playVars
<1>1. /\ UNCHANGED <<shape, events, notified, activeGeneration, pc, currentGeneration, stopping,
                     cancelledUpTo, segment, place, local, chunk, opened, audioLock, utterance,
                     silencedUpTo>>
      /\ player' = None /\ Discard /\ lifecycle' = "terminated" /\ call' = "idle" /\ call = "close"
      /\ audioLock = "free"
  BY DEF Close, ClosePlayer
<1>2. /\ cut' \subseteq Audio /\ \A c \in cut' : c[1] <= Len(shape)
      /\ buffer' = <<>> /\ place # "feed"
      /\ AllBehindAudio'
      /\ ReportedSpeechWasHeard'
  BY <1>1, DiscardStep DEF TypeOK, Discard
<1>3. stopping /\ currentGeneration = 0
  BY <1>1 DEF Revoked
<1>4. TypeOK' /\ Places' /\ Revoked' /\ Drained'
  BY <1>1, <1>2, <1>3, AudioAssumption DEF TypeOK, Places, Revoked, Drained, NoAudioOf
<1>5. Sources'
  BY <1>1, <1>2 DEF Sources, AudioPast, CancelledAudioIsGone, Audio
<1>6. Heard'
  <2>1. \A c \in cut' : c[1] # currentGeneration'
    BY <1>1, <1>2, <1>3 DEF Audio, Controller!Gen
  <2>2. QED
    BY <1>1, <1>2, <2>1 DEF Heard
<1>7. QED
  BY <1>4, <1>5, <1>6

(* The steps of the controller leave the audio where it is. *)
LEMMA AudioPastStays ==
    ASSUME Proofs!IInv, DInv, [Controller!Next]_(Controller!vars), UNCHANGED buffer
    PROVE  AudioPast'
<1>1. ASSUME NEW i \in 1 .. Len(buffer), NEW g \in Nat, g = buffer[i][1]
      PROVE  Proofs!Past(g)'
  BY <1>1, PastStays DEF DInv, Sources, AudioPast
<1>2. \A i \in 1 .. Len(buffer) : buffer[i][1] \in Nat
  BY AudioFacts DEF DInv
<1>3. \A i \in 1 .. Len(buffer) : \A g \in Nat : g = buffer[i][1] => Proofs!Past(g)'
  BY <1>1
<1>4. QED
  BY <1>2, <1>3 DEF AudioPast, Proofs!Past

(* The requests that the device, the queue and NVDA know of. *)
LEMMA KnownGenerations ==
    ASSUME Proofs!IInv, DInv
    PROVE  /\ \A i \in 1 .. Len(buffer) : buffer[i][1] \in 1 .. Len(shape)
           /\ \A c \in cut : c[1] \in 1 .. Len(shape)
           /\ \A i \in 1 .. Len(notified) : notified[i].gen \in 1 .. Len(shape)
                                            /\ notified[i].segment \in Nat
<1>1. \A i \in 1 .. Len(buffer) : buffer[i][1] \in 1 .. Len(shape)
  BY ControllerFacts, AudioFacts, SameAssumptions
     DEF DInv, Sources, AudioPast, Audio, Controller!Gen, Proofs!Past
<1>2. \A c \in cut : c[1] \in 1 .. Len(shape)
  BY ControllerFacts, SameAssumptions DEF DInv, Sources, Controller!Gen
<1>3. ASSUME NEW i \in 1 .. Len(notified)
      PROVE  notified[i].gen \in 1 .. Len(shape) /\ notified[i].segment \in Nat
  <2>1. notified[i] \in Proofs!Event /\ Proofs!Past(notified[i].gen)
    BY DEF Proofs!IInv, Proofs!TypeOK, Proofs!AllPast
  <2>2. QED
    BY <2>1, ControllerFacts, SameAssumptions DEF Proofs!Event, Proofs!Gen, Proofs!Past
<1>4. QED
  BY <1>1, <1>2, <1>3

LEMMA SubmitStep == ASSUME Proofs!IInv, DInv, Utterances, SpeakSubmit PROVE DInv'
<1>1. PICK s \in Shapes : Controller!Submit(s)
  BY DEF SpeakSubmit, Utterances, Range
<1>2. /\ UNCHANGED <<events, notified, activeGeneration, stopping, cancelledUpTo, segment, place,
                     local, chunk, player, opened, audioLock, buffer, cut, lifecycle, silencedUpTo>>
      /\ shape' = Append(shape, s) /\ currentGeneration' = Len(shape) + 1
      /\ pc' = (IF pc = "parked" THEN "waiting" ELSE pc)
      /\ call' = "idle" /\ utterance' = <<>>
      /\ call = "submit"
  BY <1>1 DEF SpeakSubmit, audioVars, playVars, Controller!Submit, Controller!Notify,
     Controller!localVars, Controller!historyVars
<1>3. Len(shape') = Len(shape) + 1 /\ Len(shape) \in Nat
  BY <1>2, ControllerFacts
<1>4. \A g \in 1 .. Len(shape) : Controller!IsCharacter(g)' <=> Controller!IsCharacter(g)
  BY <1>2, CategoryStays
<1>5. TypeOK' /\ Places' /\ Drained' /\ Revoked'
  BY <1>2, <1>3 DEF DInv, TypeOK, Places, Drained, NoAudioOf, Revoked, BetweenPlays
<1>6. Sources'
  <2>1. AudioPast'
    BY <1>1, <1>2, AudioPastStays DEF Controller!Next, Controller!MainStep
  <2>2. CancelledAudioIsGone'
    BY <1>2, <1>4, KnownGenerations DEF DInv, Sources, CancelledAudioIsGone
  <2>3. place' = "feed" => request' > silencedUpTo' \/ Controller!IsCharacter(request)'
    <3>1. CASE place = "feed"
      <4>1. request \in 1 .. Len(shape) /\ request' = request
        BY <1>2, <3>1, ControllerFacts DEF DInv, Places, request, Controller!request, Controller!Gen
      <4>2. Controller!IsCharacter(request)' <=> Controller!IsCharacter(request)
        BY <1>2, <1>3, <4>1, ControllerFacts
           DEF Controller!IsCharacter, Controller!Category, Controller!NoGen
      <4>3. QED
        BY <1>2, <3>1, <4>1, <4>2 DEF DInv, Sources
    <3>2. QED
      BY <1>2, <3>1
  <2>4. cut' \subseteq Controller!Gen \X (Nat \ {0}) /\ \A c \in cut' : c[1] <= Len(shape')
    BY <1>2, <1>3, KnownGenerations DEF DInv, Sources
  <2>5. QED
    BY <2>1, <2>2, <2>3, <2>4 DEF Sources
<1>7. Heard'
  <2>1. AllBehindAudio'
    BY <1>2 DEF DInv, Heard, AllBehindAudio, BehindAudio
  <2>2. \A c \in cut' : c[1] # currentGeneration'
    BY <1>2, <1>3, KnownGenerations
  <2>3. \A i \in 1 .. Len(notified) :
            Controller!IsCharacter(notified[i].gen)' <=> Controller!IsCharacter(notified[i].gen)
    BY <1>2, <1>3, KnownGenerations, ControllerFacts
       DEF Controller!IsCharacter, Controller!Category, Controller!NoGen
  <2>4. ReportedSpeechWasHeard'
    BY <1>2, <2>3 DEF DInv, Heard, ReportedSpeechWasHeard
  <2>5. QED
    BY <2>1, <2>2, <2>4 DEF Heard
<1>8. QED
  BY <1>5, <1>6, <1>7 DEF DInv

(* Neither cancel() nor shutdown() leaves a request that is current. *)
LEMMA RevokeStep ==
    ASSUME Proofs!IInv, DInv, Revoke("cancelling") \/ Revoke("terminating") \/ Shutdown
    PROVE  DInv'
<1>1. Controller!Cancel \/ Controller!Shutdown
  BY DEF Revoke, Shutdown
<1>2. /\ UNCHANGED <<shape, events, notified, activeGeneration, segment, place, local, chunk, player,
                     opened, audioLock, buffer, cut, lifecycle, silencedUpTo, utterance>>
      /\ pc' = (IF pc = "parked" THEN "waiting" ELSE pc)
      /\ currentGeneration' = 0 /\ (stopping => stopping')
      /\ cancelledUpTo' \in {cancelledUpTo, Len(shape)}
      /\ call' \in {"cancelling", "terminating"} \/ (call' = "close" /\ stopping')
  BY DEF Revoke, Shutdown, audioVars, playVars, Controller!Cancel, Controller!Shutdown,
     Controller!Notify, Controller!NoGen, Controller!localVars, Controller!historyVars
<1>3. TypeOK' /\ Places' /\ Drained' /\ Revoked'
  BY <1>2, ControllerFacts DEF DInv, TypeOK, Places, Drained, NoAudioOf, Revoked, BetweenPlays
<1>4. Sources'
  <2>1. AudioPast'
    BY <1>1, <1>2, AudioPastStays DEF Controller!Next, Controller!MainStep
  <2>2. QED
    BY <1>2, <2>1 DEF DInv, Sources, CancelledAudioIsGone, request, Controller!request,
       Controller!IsCharacter, Controller!Category
<1>5. Heard'
  BY <1>2, KnownGenerations DEF DInv, Heard, AllBehindAudio, BehindAudio, ReportedSpeechWasHeard,
     Controller!IsCharacter, Controller!Category
<1>6. QED
  BY <1>3, <1>4, <1>5 DEF DInv

(* What a step of the controller keeps that leaves alone what the driver did,
   requests and cancellations, and the thread's place if it is inside playResult. *)
LEMMA FrameStep ==
    ASSUME Proofs!IInv, DInv, [Controller!Next]_(Controller!vars), UNCHANGED driverVars,
           UNCHANGED <<currentGeneration, stopping, shape, cancelledUpTo>>,
           place # "enter" => UNCHANGED <<pc, activeGeneration>>
    PROVE  TypeOK' /\ Places' /\ Revoked' /\ Sources'
<1>1. UNCHANGED <<lifecycle, player, opened, audioLock, buffer, cut, call, utterance, silencedUpTo,
                  place, local, chunk>>
  BY DEF driverVars, audioVars, callVars, playVars
<1>2. TypeOK' /\ Places' /\ Revoked'
  BY <1>1 DEF DInv, TypeOK, Places, Revoked
<1>3. AudioPast'
  BY <1>1, AudioPastStays
<1>4. CancelledAudioIsGone'
  BY <1>1 DEF DInv, Sources, CancelledAudioIsGone, Controller!IsCharacter, Controller!Category
<1>5. place' = "feed" => request' > silencedUpTo' \/ Controller!IsCharacter(request)'
  BY <1>1 DEF DInv, Sources, request, Controller!request, Controller!IsCharacter,
     Controller!Category
<1>6. QED
  BY <1>1, <1>3, <1>2, <1>4, <1>5 DEF DInv, Sources

LEMMA ControllerCallStep == ASSUME Proofs!IInv, DInv, ControllerCall PROVE DInv'
<1>1. /\ UNCHANGED <<currentGeneration, stopping, shape, cancelledUpTo, pc, activeGeneration,
                     buffer, cut, call, place>>
      /\ UNCHANGED driverVars
  BY DEF ControllerCall, Controller!Interrupt, Controller!ShutdownStep, Controller!Deliver,
     Controller!CallBridge, Controller!Join, Controller!controllerVars, Controller!mainVars,
     Controller!historyVars, driverVars, audioVars, callVars, playVars
<1>2. TypeOK' /\ Places' /\ Revoked' /\ Sources'
  BY <1>1, FrameStep DEF ControllerCall, Controller!Next, Controller!MainStep
<1>3. Drained'
  BY <1>1 DEF DInv, Drained, NoAudioOf
<1>4. Heard'
  <2>1. CASE UNCHANGED <<events, notified>>
    BY <1>1, <2>1 DEF DInv, Heard, AllBehindAudio, BehindAudio, ReportedSpeechWasHeard,
       Controller!IsCharacter, Controller!Category
  <2>2. CASE call = "idle" /\ Controller!Deliver
    <3> DEFINE e == Head(events)
    <3>1. /\ events \in Seq(Proofs!Event) /\ events # <<>> /\ events' = Tail(events)
          /\ notified \in Seq(Proofs!Event)
          /\ \/ UNCHANGED notified
             \/ /\ notified' = Append(notified, e)
                /\ e.kind = "error" \/ Controller!IsCurrent(e.gen)
      BY <2>2 DEF Controller!Deliver, Proofs!IInv, Proofs!TypeOK
    <3>2. /\ e = events[1] /\ 1 \in 1 .. Len(events)
          /\ \A i \in 1 .. Len(events') : events'[i] = events[i + 1] /\ i + 1 \in 1 .. Len(events)
      BY <3>1
    <3>3. \A i \in 1 .. Len(notified') :
              notified'[i] = e \/ (i \in 1 .. Len(notified) /\ notified'[i] = notified[i])
      BY <3>1
    <3>4. AllBehindAudio'
      <4> DEFINE Behind(d) == d.kind = "index" =>
                     \A k \in 1 .. Len(buffer) : buffer[k][1] = d.gen => buffer[k][2] > d.segment
      <4>1. /\ \A i \in 1 .. Len(events) : Behind(events[i])
            /\ \A i \in 1 .. Len(notified) : Behind(notified[i])
        BY DEF DInv, Heard, AllBehindAudio, BehindAudio
      <4> HIDE DEF Behind
      <4>2. /\ \A i \in 1 .. Len(events') : Behind(events'[i])
            /\ \A i \in 1 .. Len(notified') : Behind(notified'[i])
        BY <3>2, <3>3, <4>1
      <4>3. QED
        BY <1>1, <4>2 DEF AllBehindAudio, BehindAudio, Behind
    <3>5. ReportedSpeechWasHeard'
      <4>1. CASE UNCHANGED notified
        BY <1>1, <4>1 DEF DInv, Heard, ReportedSpeechWasHeard, Controller!IsCharacter,
           Controller!Category
      <4>2. CASE ~UNCHANGED notified
        <5>1. e.kind = "index" /\ ~Controller!IsCharacter(e.gen) => e.gen = currentGeneration
          BY <3>1, <4>2, CurrentFacts
        <5>2. e.kind = "index" /\ ~Controller!IsCharacter(e.gen)
                => \A s \in 1 .. e.segment : <<e.gen, s>> \notin cut
          BY <2>2, <5>1 DEF DInv, Heard
        <5>3. QED
          BY <1>1, <3>3, <5>2 DEF DInv, Heard, ReportedSpeechWasHeard, Controller!IsCharacter,
             Controller!Category
      <4>3. QED
        BY <4>1, <4>2
    <3>6. QED
      BY <1>1, <3>4, <3>5 DEF DInv, Heard, Controller!IsCharacter, Controller!Category
  <2>3. QED
    BY <2>1, <2>2
       DEF ControllerCall, Controller!Interrupt, Controller!ShutdownStep, Controller!CallBridge,
           Controller!Join, Controller!historyVars
<1>5. QED
  BY <1>2, <1>3, <1>4 DEF DInv

-----------------------------------------------------------------------------
(* The controller thread outside playResult. *)

LEMMA ThreadOutsideStep ==
    ASSUME Proofs!IInv, DInv, pc # "playing", Controller!ThreadStep, UNCHANGED driverVars
    PROVE  DInv'
<1>1. place = "enter" /\ UNCHANGED <<buffer, cut, call, place>>
  BY DEF DInv, Places, driverVars, audioVars, callVars, playVars
<1>2. UNCHANGED <<currentGeneration, stopping, shape, notified, cancelledUpTo>>
  BY ThreadFrame
<1>3. TypeOK' /\ Places' /\ Revoked' /\ Sources'
  BY <1>1, <1>2, FrameStep DEF Controller!Next
<1>4. Drained'
  <2>1. CASE Taken
    <3>1. \/ pending # 0 /\ activeGeneration' = pending
          \/ characterPending # <<>> /\ activeGeneration' = Head(characterPending)
      BY <2>1 DEF Taken, Controller!Take, Controller!NoGen
    <3>3. characterPending \in Seq(Proofs!Gen) /\ pending \in Nat
      BY SameAssumptions DEF Proofs!IInv, Proofs!TypeOK, Proofs!Gen, Proofs!NoGen
    <3>4. characterPending # <<>> => /\ 1 \in 1 .. Len(characterPending)
                                     /\ Head(characterPending) = characterPending[1]
      BY <3>3
    <3>5. \A i \in 1 .. Len(buffer) : buffer[i][1] \in Nat
      BY AudioFacts DEF DInv
    <3>6. characterPending # <<>> => characterPending[1] \in Nat
      BY <3>3, <3>4, SameAssumptions DEF Proofs!Gen
    <3>7. NoAudioOf(activeGeneration)'
      BY <1>1, <3>1, <3>3, <3>4, <3>5, <3>6
         DEF DInv, Sources, AudioPast, Proofs!Past, NoAudioOf, Proofs!NoGen
    <3>8. QED
      BY <1>1, <3>7 DEF Drained
  <2>2. CASE pc' \in BetweenPlays \union {"playing"} => pc \in BetweenPlays /\ UNCHANGED activeGeneration
    BY <1>1, <2>2 DEF DInv, Drained, NoAudioOf
  <2>3. QED
    BY <2>1, <2>2, ThreadFrame
<1>5. AllBehindAudio'
  <2> USE <1>1, <1>2 DEF DInv, Heard, AllBehindAudio, BehindAudio
  <2>1. CASE UNCHANGED events
    BY <2>1
  <2>2. CASE \E e : events' = Append(events, e) /\ (e.kind # "index" \/ NoAudioOf(e.gen))
    <3>1. PICK e : events' = Append(events, e) /\ (e.kind # "index" \/ NoAudioOf(e.gen))
      BY <2>2
    <3>2. events \in Seq(Proofs!Event)
      BY DEF Proofs!IInv, Proofs!TypeOK
    <3>3. \A i \in 1 .. Len(events') :
              events'[i] = e \/ (i \in 1 .. Len(events) /\ events'[i] = events[i])
      BY <3>1, <3>2
    <3>4. QED
      BY <3>1, <3>3 DEF NoAudioOf
  <2>3. pc = "indexes" => NoAudioOf(activeGeneration)
    BY DEF Drained, BetweenPlays
  <2>4. QED
    BY <2>1, <2>2, <2>3, ThreadFrame
<1>6. Heard'
  BY <1>1, <1>2, <1>5
     DEF DInv, Heard, ReportedSpeechWasHeard, Controller!IsCharacter, Controller!Category
<1>7. QED
  BY <1>3, <1>4, <1>6 DEF DInv

-----------------------------------------------------------------------------
(* The controller thread in playResult. *)

(* What a step inside playResult leaves to prove, which changes nothing of the
   controller or only where its thread is. *)
LEMMA PlayFrame ==
    ASSUME Proofs!IInv, DInv, pc = "playing",
           UNCHANGED <<shape, events, notified, activeGeneration, currentGeneration, stopping,
                       pending, characterPending, cancelledUpTo, callVars>>
    PROVE  /\ Revoked' <=> (lifecycle = "terminated" => player' = None)
           /\ UNCHANGED buffer => AudioPast' /\ AllBehindAudio' /\ CancelledAudioIsGone'
           /\ UNCHANGED cut =>
                /\ cut' \subseteq Controller!Gen \X (Nat \ {0}) /\ \A c \in cut' : c[1] <= Len(shape')
                /\ ReportedSpeechWasHeard'
                /\ \A c \in cut' : c[1] = currentGeneration' /\ ~Controller!IsCharacter(c[1])
                                     => call' = "submit"
<1>1. UNCHANGED <<lifecycle, call, utterance, silencedUpTo>>
  BY DEF callVars
<1>2. Revoked' <=> (lifecycle = "terminated" => player' = None)
  BY <1>1 DEF DInv, Revoked
<1>3. UNCHANGED buffer => AudioPast' /\ AllBehindAudio' /\ CancelledAudioIsGone'
  BY <1>1 DEF DInv, Sources, Heard, AudioPast, Proofs!Past, AllBehindAudio, BehindAudio,
     CancelledAudioIsGone, Controller!IsCharacter, Controller!Category
<1>4. UNCHANGED cut =>
        /\ cut' \subseteq Controller!Gen \X (Nat \ {0}) /\ \A c \in cut' : c[1] <= Len(shape')
        /\ ReportedSpeechWasHeard'
        /\ \A c \in cut' : c[1] = currentGeneration' /\ ~Controller!IsCharacter(c[1])
                             => call' = "submit"
  BY <1>1 DEF DInv, Sources, Heard, ReportedSpeechWasHeard, Controller!IsCharacter,
     Controller!Category
<1>5. QED
  BY <1>2, <1>3, <1>4

LEMMA LeavePlayStep ==
    ASSUME Proofs!IInv, DInv, Refuse \/ Accept \/ PlayerRaises PROVE DInv'
<1>1. /\ UNCHANGED <<shape, events, notified, activeGeneration, currentGeneration, stopping,
                     pending, characterPending, cancelledUpTo, callVars>>
      /\ UNCHANGED <<player, opened, buffer, cut, local, chunk>>
      /\ pc = "playing" /\ place' = "enter" /\ audioLock' = "free"
      /\ \/ pc' \in {"lastCheck", "failure"}
         \/ pc' = "indexes" /\ place = "verdict" /\ ~stopping
  BY DEF Refuse, Accept, PlayerRaises, At, Controller!Goto, Controller!Play,
     Controller!StartIndexes, Controller!IsCurrent, Controller!controllerVars,
     Controller!queueVars, Controller!mainVars, Controller!historyVars, audioVars, DInv, TypeOK
<1>2. TypeOK' /\ Places'
  BY <1>1 DEF DInv, TypeOK, Places, callVars
<1>3. Revoked'
  BY <1>1, PlayFrame DEF DInv, Revoked, callVars
<1>4. Sources'
  BY <1>1, PlayFrame DEF Sources
<1>5. Drained'
  BY <1>1 DEF DInv, Drained, NoAudioOf, BetweenPlays
<1>6. Heard'
  BY <1>1, PlayFrame DEF Heard, Controller!IsCharacter, Controller!Category
<1>7. QED
  BY <1>2, <1>3, <1>4, <1>5, <1>6 DEF DInv

(* The steps that touch neither the player nor the device. *)
LEMMA MoveStep ==
    ASSUME Proofs!IInv, DInv, Enter \/ CheckChunk \/ Drain PROVE DInv'
<1>1. /\ UNCHANGED <<shape, events, notified, activeGeneration, currentGeneration, stopping,
                     pending, characterPending, cancelledUpTo, callVars>>
      /\ UNCHANGED <<player, opened, buffer, cut, local, chunk, pc>>
      /\ pc = "playing"
  BY DEF Enter, CheckChunk, Drain, At, Move, controllerVars, audioVars
<1>2. /\ place = "enter" => place' = "open" /\ audioLock' = audioLock
      /\ place = "check" => place' = "feed" /\ audioLock' = "thread" /\ Controller!IsCurrent(request)
      /\ place = "drain" => /\ place' = "verdict" /\ audioLock' = audioLock
                            /\ buffer = <<>> \/ local # player
      /\ place \in {"enter", "check", "drain"}
  BY DEF Enter, CheckChunk, Drain, At, Move, audioVars
<1>3. TypeOK' /\ Places'
  BY <1>1, <1>2, CurrentFacts DEF DInv, TypeOK, Places, callVars
<1>4. Revoked'
  BY <1>1, PlayFrame DEF DInv, Revoked, callVars
<1>5. Sources'
  <2>1. Controller!IsCurrent(request) => request > silencedUpTo \/ Controller!IsCharacter(request)
    <3>1. SUFFICES ASSUME Controller!IsCurrent(request), ~Controller!IsCharacter(request)
                   PROVE  request > silencedUpTo
      OBVIOUS
    <3>2. currentGeneration = request
      BY <3>1, CurrentFacts
    <3>3. request # 0
      BY <1>1, ControllerFacts DEF Controller!Gen, request, Controller!request
    <3>4. QED
      BY <3>2, <3>3, ControllerFacts DEF DInv, TypeOK
  <2>2. UNCHANGED silencedUpTo /\ request' = request
        /\ Controller!IsCharacter(request)' = Controller!IsCharacter(request)
    BY <1>1 DEF callVars, request, Controller!request, Controller!IsCharacter, Controller!Category
  <2>3. QED
    BY <1>1, <1>2, <2>1, <2>2, PlayFrame DEF Sources
<1>6. Drained'
  BY <1>1, <1>2 DEF DInv, Drained, NoAudioOf, BetweenPlays, Places
<1>7. Heard'
  BY <1>1, PlayFrame DEF Heard, Controller!IsCharacter, Controller!Category
<1>8. QED
  BY <1>3, <1>4, <1>5, <1>6, <1>7 DEF DInv

(* A player is opened in place of one that may still play older requests; the one
   that is current is not among them. *)
LEMMA OpenStep == ASSUME Proofs!IInv, DInv, Open PROVE DInv'
<1>1. /\ UNCHANGED <<shape, events, notified, activeGeneration, currentGeneration, stopping,
                     pending, characterPending, cancelledUpTo, callVars>>
      /\ UNCHANGED <<audioLock, pc>>
      /\ pc = "playing" /\ place = "open" /\ place' = "check" /\ local' = player' /\ chunk' = 1
      /\ audioLock = "free" /\ Controller!IsCurrent(request)
      /\ \/ player # None /\ UNCHANGED <<player, opened, buffer, cut>>
         \/ opened < MaxPlayers /\ opened' = opened + 1 /\ player' = opened' /\ Discard
  BY DEF Open, At, Move, controllerVars
<1>2. /\ UNCHANGED <<lifecycle, call, utterance, silencedUpTo>>
      /\ opened \in Nat /\ player' # None /\ ~stopping /\ lifecycle # "terminated"
  BY <1>1, CurrentFacts, AudioAssumption DEF callVars, DInv, TypeOK, Revoked, None
<1>3. Places' /\ Drained'
  BY <1>1, <1>2, AudioAssumption DEF DInv, Places, Drained, BetweenPlays
<1>4. Revoked'
  BY <1>1, <1>2, PlayFrame
<1>5. CASE UNCHANGED <<player, opened, buffer, cut>>
  <2>1. TypeOK'
    BY <1>1, <1>2, <1>5, AudioAssumption DEF DInv, TypeOK
  <2>2. Sources'
    BY <1>1, <1>5, PlayFrame DEF Sources
  <2>3. Heard'
    BY <1>1, <1>5, PlayFrame DEF Heard, Controller!IsCharacter, Controller!Category
  <2>4. QED
    BY <1>3, <1>4, <2>1, <2>2, <2>3 DEF DInv
<1>6. CASE opened < MaxPlayers /\ opened' = opened + 1 /\ player' = opened' /\ Discard
  <2>1. /\ cut' \subseteq Audio /\ \A c \in cut' : c[1] <= Len(shape)
        /\ \A c \in cut' : c \in cut \/ \E i \in 1 .. Len(buffer) : c = buffer[i]
        /\ buffer' = <<>> /\ AllBehindAudio' /\ ReportedSpeechWasHeard'
    BY <1>1, <1>6, DiscardStep DEF Discard
  <2>2. TypeOK'
    BY <1>1, <1>2, <1>6, <2>1, AudioAssumption DEF DInv, TypeOK
  <2>3. Sources'
    BY <1>1, <2>1 DEF Sources, AudioPast, CancelledAudioIsGone, Audio
  <2>4. ASSUME NEW c \in cut', c[1] = currentGeneration', ~Controller!IsCharacter(c[1])
        PROVE  call = "submit"
    <3>1. currentGeneration = request
      BY <1>1, <2>4, CurrentFacts
    <3>2. c \in cut
      BY <1>1, <2>1, <2>4, <3>1 DEF DInv, Drained, NoAudioOf, request, Controller!request
    <3>3. QED
      BY <1>1, <2>4, <3>2 DEF DInv, Heard
  <2>5. Heard'
    BY <1>1, <1>2, <2>1, <2>4 DEF Heard, Controller!IsCharacter, Controller!Category
  <2>6. QED
    BY <1>3, <1>4, <2>2, <2>3, <2>5 DEF DInv
<1>7. QED
  BY <1>1, <1>5, <1>6

LEMMA FeedStep == ASSUME Proofs!IInv, DInv, Feed PROVE DInv'
<1>1. /\ UNCHANGED <<shape, events, notified, activeGeneration, currentGeneration, stopping,
                     pending, characterPending, cancelledUpTo, callVars>>
      /\ UNCHANGED <<pc, player, opened, cut, local, segment>>
      /\ pc = "playing" /\ place = "feed" /\ chunk' = chunk + 1 /\ audioLock' = "free"
      /\ place' = (IF chunk < Chunks THEN "check" ELSE "drain")
      /\ Len(buffer) < DeviceChunks
      /\ buffer' = Append(buffer, <<activeGeneration, segment>>)
  BY DEF Feed, At, Move, controllerVars, request, Controller!request
<1>2. /\ UNCHANGED <<lifecycle, call, utterance, silencedUpTo>>
      /\ activeGeneration \in Controller!Gen /\ activeGeneration \in Nat \ {0}
      /\ segment \in Nat \ {0}
      /\ buffer \in Seq(Audio)
  <2>1. activeGeneration \in Controller!Gen /\ segment \in Nat \ {0}
    BY <1>1, ControllerFacts
  <2>2. Controller!Gen \subseteq Nat \ {0}
    BY SameAssumptions DEF Controller!Gen
  <2>3. UNCHANGED <<lifecycle, call, utterance, silencedUpTo>> /\ buffer \in Seq(Audio)
    BY <1>1 DEF callVars, DInv, TypeOK, Audio
  <2>4. QED
    BY <2>1, <2>2, <2>3
<1>3. /\ Len(buffer') = Len(buffer) + 1 /\ buffer' \in Seq(Audio)
      /\ \A i \in 1 .. Len(buffer') :
            \/ buffer'[i] = <<activeGeneration, segment>>
            \/ i \in 1 .. Len(buffer) /\ buffer'[i] = buffer[i]
  BY <1>1, <1>2 DEF Audio
<1>4. TypeOK'
  BY <1>1, <1>2, <1>3, AudioAssumption DEF DInv, TypeOK, Places, Audio
<1>5. Places' /\ Drained'
  BY <1>1, <1>2, AudioAssumption DEF DInv, TypeOK, Places, Drained, BetweenPlays
<1>6. Revoked'
  BY <1>1, <1>2, PlayFrame DEF DInv, Revoked
<1>7. Sources'
  <2>1. Proofs!Past(activeGeneration)
    BY <1>2, ControllerFacts DEF Proofs!IInv, Proofs!QueueOrder, Proofs!Past, Proofs!NoGen
  <2>2. AudioPast'
    BY <1>1, <1>3, <2>1 DEF DInv, Sources, AudioPast, Proofs!Past
  <2>3. CancelledAudioIsGone'
    BY <1>1, <1>2, <1>3
       DEF DInv, Sources, CancelledAudioIsGone, request, Controller!request,
           Controller!IsCharacter, Controller!Category
  <2>4. QED
    BY <1>1, <2>2, <2>3, PlayFrame DEF Sources
<1>8. AllBehindAudio'
  <2>1. /\ \A i \in 1 .. Len(events) : events[i].gen = activeGeneration => segment > events[i].segment
        /\ \A i \in 1 .. Len(notified) :
              notified[i].gen = activeGeneration => segment > notified[i].segment
    <3>1. \A e \in Proofs!Event : e.segment \in Nat
      BY DEF Proofs!Event
    <3>2. /\ events \in Seq(Proofs!Event) /\ notified \in Seq(Proofs!Event)
          /\ \A i \in 1 .. Len(events) : Proofs!BehindThread(events[i])
          /\ \A i \in 1 .. Len(notified) : Proofs!BehindThread(notified[i])
      BY DEF Proofs!IInv, Proofs!TypeOK, Proofs!EventOrder
    <3>3. /\ \A i \in 1 .. Len(events) : events[i].segment \in Nat
          /\ \A i \in 1 .. Len(notified) : notified[i].segment \in Nat
      BY <3>1, <3>2
    <3>4. QED
      BY <1>1, <1>2, <3>2, <3>3 DEF Proofs!BehindThread, Proofs!InSegment
  <2>2. QED
    BY <1>1, <1>2, <1>3, <2>1 DEF DInv, Heard, AllBehindAudio, BehindAudio
<1>9. Heard'
  BY <1>1, <1>8, PlayFrame DEF Heard, Controller!IsCharacter, Controller!Category
<1>10. QED
  BY <1>4, <1>5, <1>6, <1>7, <1>9 DEF DInv

(* What was heard is no longer in the device. *)
LEMMA HearStep == ASSUME Proofs!IInv, DInv, Hear PROVE DInv'
<1>1. /\ UNCHANGED <<controllerVars, player, opened, audioLock, cut, callVars, playVars>>
      /\ UNCHANGED <<shape, events, notified, activeGeneration, currentGeneration, stopping,
                     pending, characterPending, cancelledUpTo, pc, segment, place, local, chunk,
                     lifecycle, call, utterance, silencedUpTo>>
      /\ buffer # <<>> /\ buffer' = Tail(buffer)
  BY DEF Hear, controllerVars, callVars, playVars
<1>2. buffer \in Seq(Audio)
  BY DEF DInv, TypeOK, Audio
<1>3. /\ Len(buffer') = Len(buffer) - 1 /\ buffer' \in Seq(Audio)
      /\ \A i \in 1 .. Len(buffer') : i + 1 \in 1 .. Len(buffer) /\ buffer'[i] = buffer[i + 1]
  BY <1>1, <1>2 DEF Audio
<1>4. TypeOK'
  BY <1>1, <1>2, <1>3, AudioAssumption DEF DInv, TypeOK, Audio
<1>5. Places' /\ Revoked'
  BY <1>1 DEF DInv, Places, Revoked
<1>6. Sources'
  <2>1. AudioPast'
    BY <1>1, <1>3 DEF DInv, Sources, AudioPast, Proofs!Past
  <2>2. CancelledAudioIsGone'
    BY <1>1, <1>3 DEF DInv, Sources, CancelledAudioIsGone, Controller!IsCharacter,
       Controller!Category
  <2>3. QED
    BY <1>1, <2>1, <2>2
       DEF DInv, Sources, request, Controller!request, Controller!IsCharacter, Controller!Category
<1>7. Drained'
  BY <1>1, <1>3 DEF DInv, Drained, NoAudioOf
<1>8. Heard'
  <2>1. AllBehindAudio'
    BY <1>1, <1>3 DEF DInv, Heard, AllBehindAudio, BehindAudio
  <2>2. QED
    BY <1>1, <2>1
       DEF DInv, Heard, ReportedSpeechWasHeard, Controller!IsCharacter, Controller!Category
<1>9. QED
  BY <1>4, <1>5, <1>6, <1>7, <1>8 DEF DInv

-----------------------------------------------------------------------------
(* The invariant, and what it says. *)

LEMMA DInvInit == Init => DInv
BY AudioAssumption
   DEF Init, Controller!Init, Controller!NoGen, DInv, TypeOK, Places, Revoked, Sources, AudioPast,
       CancelledAudioIsGone, Drained, BetweenPlays, Heard, AllBehindAudio, ReportedSpeechWasHeard,
       None

LEMMA DInvStep == Proofs!IInv /\ Utterances /\ DInv /\ [Next]_vars => DInv'
<1> SUFFICES ASSUME Proofs!IInv, Utterances, DInv, [Next]_vars PROVE DInv'
  OBVIOUS
<1>1. CASE UNCHANGED vars \/ Finished
  <2>1. UNCHANGED <<shape, events, notified, activeGeneration, currentGeneration, stopping,
                    pending, characterPending, cancelledUpTo, pc, segment>> /\ UNCHANGED driverVars
    BY <1>1 DEF vars, Finished, controllerVars
  <2>2. TypeOK' /\ Places' /\ Revoked' /\ Sources'
    <3>1. [Controller!Next]_(Controller!vars)
      BY RefinementStep
    <3>2. QED
      BY <2>1, <3>1, FrameStep
  <2>3. Drained' /\ Heard'
    BY <2>1 DEF DInv, Drained, NoAudioOf, Heard, AllBehindAudio, BehindAudio,
       ReportedSpeechWasHeard, Controller!IsCharacter, Controller!Category, driverVars, audioVars,
       callVars, playVars
  <2>4. QED
    BY <2>2, <2>3 DEF DInv
<1>2. CASE \E s \in Shapes : Speak(s)
  BY <1>2, SpeakStep
<1>3. CASE SpeakStop \/ Silence("cancelling", "idle") \/ Silence("terminating", "shutdown")
  <2>1. /\ StopPlayer /\ UNCHANGED <<controllerVars, playVars>> /\ UNCHANGED lifecycle
        /\ silencedUpTo' \in {silencedUpTo, cancelledUpTo}
        /\ \/ call = "stop" /\ call' = "submit"
           \/ call = "cancelling" /\ call' = "idle"
           \/ call = "terminating" /\ call' = "shutdown"
    BY <1>3 DEF SpeakStop, Silence
  <2>2. QED
    BY <2>1, StopPlayerStep, UtterancesStep
<1>4. CASE SpeakSubmit
  BY <1>4, SubmitStep
<1>5. CASE Revoke("cancelling") \/ Revoke("terminating") \/ Shutdown
  BY <1>5, RevokeStep
<1>6. CASE Close
  BY <1>6, CloseStep
<1>7. CASE ControllerCall
  BY <1>7, ControllerCallStep
<1>8. CASE pc # "playing" /\ Controller!ThreadStep /\ UNCHANGED driverVars
  BY <1>8, ThreadOutsideStep
<1>9. CASE PlayResult
  BY <1>9, LeavePlayStep, MoveStep, OpenStep, FeedStep DEF PlayResult
<1>10. CASE Hear
  BY <1>10, HearStep
<1>11. QED
  BY <1>1, <1>2, <1>3, <1>4, <1>5, <1>6, <1>7, <1>8, <1>9, <1>10
     DEF Next, MainStep, ThreadStep, Cancel, Terminate

LEMMA DriverInvariant == Spec => []DInv
BY DInvInit, DInvStep, ControllerInvariant, UtterancesInvariant, PTL DEF Spec

(* The player, its lock and the places of the two threads keep their types. *)
THEOREM TypeCorrect == Spec => []TypeOK
<1>1. DInv => TypeOK
  BY DEF DInv
<1>2. QED
  BY <1>1, DriverInvariant, PTL

(* When cancel() has returned, nothing of the ordered and navigation speech
   submitted before it is in the device, or gets there from playResult. *)
THEOREM CancelSilences == Spec => []CancelledAudioIsGone
<1>1. DInv => CancelledAudioIsGone
  BY DEF DInv, Sources
<1>2. QED
  BY <1>1, DriverInvariant, PTL

(* No index of ordered or navigation speech is reported whose audio was thrown
   away, whoever stopped or replaced the player. *)
THEOREM ReportedWasHeard == Spec => []ReportedSpeechWasHeard
<1>1. DInv => ReportedSpeechWasHeard
  BY DEF DInv, Heard
<1>2. QED
  BY <1>1, DriverInvariant, PTL

(* After terminate() there is no player, though shutdown() may have given up
   waiting for the thread that opens and feeds it. *)
THEOREM Terminated == Spec => []TerminatedIsQuiet
<1>1. DInv => TerminatedIsQuiet
  BY DEF DInv, Places, Revoked, TerminatedIsQuiet
<1>2. QED
  BY <1>1, DriverInvariant, PTL
=============================================================================
