---------------------- MODULE BackgroundControllerProofs ----------------------
(***************************************************************************)
(* Theorems about BackgroundController, for every number of requests, every *)
(* set of utterances, every queue limit and every combination of faults.    *)
(***************************************************************************)
EXTENDS BackgroundController, TLAPS

(* Where the thread holds a request, and where it is inside the segment loop. *)
InSegment == {"lookup", "synthesize", "synthesizing", "cachePut", "playCheck", "playing"}
Ending == {"lastCheck", "complete", "failure", "reportError", "dispatchError"}
Holding == {"taken", "readToken", "segment", "indexes", "finally"} \union InSegment \union Ending

(* Every request that is referred to exists, and the thread's place agrees with
   the active request and the segment it works on. *)
Linked ==
    /\ activeGeneration <= Len(shape)
    /\ currentGeneration <= Len(shape)
    /\ pending <= Len(shape)
    /\ \A i \in 1 .. Len(characterPending) : characterPending[i] <= Len(shape)
    /\ cancelledUpTo <= Len(shape)
    /\ activeGeneration # NoGen <=> pc \in Holding
    /\ pc = "segment" => segment \in 1 .. Len(Segments(request)) + 1
    /\ pc \in InSegment \union {"indexes"} => segment \in 1 .. Len(Segments(request))

(* What waits is newer than what runs and what has happened, in queue order. *)
QueueOrder ==
    /\ pending # NoGen => pending > activeGeneration
    /\ \A i \in 1 .. Len(characterPending) :
        /\ characterPending[i] > activeGeneration
        /\ characterPending[i] > pending
        /\ \A j \in 1 .. i - 1 : characterPending[j] < characterPending[i]

(* Everything that was posted, reported or played belongs to requests that no
   longer wait, and none is newer than the active one. *)
Past(g) ==
    /\ g <= Len(shape)
    /\ activeGeneration # NoGen => g <= activeGeneration
    /\ pending # NoGen => g < pending
    /\ \A i \in 1 .. Len(characterPending) : g < characterPending[i]

AllPast ==
    /\ \A i \in 1 .. Len(events) : Past(events[i].gen)
    /\ \A i \in 1 .. Len(notified) : Past(notified[i].gen)
    /\ \A p \in played : Past(p[1])

(* An event precedes whatever the thread will post next for its request. *)
BehindThread(e) ==
    e.gen = activeGeneration =>
        /\ pc \notin {"taken", "readToken"}
        /\ pc \in InSegment \union {"segment"} => e.segment < segment
        /\ pc = "indexes" => \/ e.segment < segment
                             \/ e.segment = segment /\ e.index < nextIndex
        /\ pc \in Ending => e.segment <= Len(Segments(request))

EventOrder ==
    /\ \A i, j \in 1 .. Len(events) : i < j => Before(events[i], events[j])
    /\ \A i \in 1 .. Len(notified), j \in 1 .. Len(events) : Before(notified[i], events[j])
    /\ \A i \in 1 .. Len(events) : BehindThread(events[i])
    /\ \A i \in 1 .. Len(notified) : BehindThread(notified[i])

(* All text of the first n segments of g was played. *)
PlayedUpTo(g, n) ==
    \A s \in 1 .. n : Segments(g)[s].text # "empty" => <<g, s>> \in played

(* An index lies in its request and behind its audio; the rest ends a request. *)
AudioFirst(e) ==
    /\ e.kind = "index" => e.segment <= Len(Segments(e.gen)) /\ PlayedUpTo(e.gen, e.segment)
    /\ e.kind # "index" => e.segment = Len(Segments(e.gen)) + 1

AllAudioFirst ==
    /\ \A i \in 1 .. Len(events) : AudioFirst(events[i])
    /\ \A i \in 1 .. Len(notified) : AudioFirst(notified[i])
    /\ pc \in InSegment \union {"segment"} => PlayedUpTo(request, segment - 1)
    /\ pc = "indexes" => PlayedUpTo(request, segment)

(* Index k of segment s of g was posted: it is in the queue or was reported. *)
Posted(g, s, k) ==
    \/ \E i \in 1 .. Len(events) : events[i] = IndexEvent(g, s, k)
    \/ \E i \in 1 .. Len(notified) : notified[i] = IndexEvent(g, s, k)

PostedUpTo(g, n) ==
    \A s \in 1 .. n : \A k \in 1 .. Segments(g)[s].indexes : Posted(g, s, k)

AllPosted(g) == PlayedUpTo(g, Len(Segments(g))) /\ PostedUpTo(g, Len(Segments(g)))

(* As long as the active request is current and no character, nothing of it
   was skipped or dropped. *)
NothingSkipped ==
    currentGeneration = activeGeneration /\ activeGeneration # NoGen /\ ~IsCharacter(request) =>
        /\ pc \in InSegment \union {"segment", "indexes"} => PostedUpTo(request, segment - 1)
        /\ pc = "indexes" => \A k \in 1 .. nextIndex - 1 :
                k <= Segments(request)[segment].indexes => Posted(request, segment, k)
        /\ pc \in {"lastCheck", "complete"} => AllPosted(request)

(* The same for a completion that waits for delivery. *)
CompletionsWhole ==
    \A i \in 1 .. Len(events) :
        events[i].kind = "done" /\ ~IsCharacter(events[i].gen) /\ events[i].gen = currentGeneration
            => AllPosted(events[i].gen)

(* Nothing that cancel() or shutdown() found is current again. *)
CurrentIsFresh ==
    /\ stopping => currentGeneration = NoGen
    /\ currentGeneration # NoGen => currentGeneration > cancelledUpTo

IInv ==
    /\ TypeOK /\ Linked /\ QueueOrder /\ AllPast /\ EventOrder /\ NotificationsInOrder
    /\ AllAudioFirst /\ NothingSkipped /\ CompletionsWhole /\ CompletedSpeechIsWhole
    /\ CurrentIsFresh

-----------------------------------------------------------------------------
(* Type correctness. *)

(* The requests' data, in the form the later steps use it. *)
LEMMA ShapeFacts ==
    ASSUME TypeOK, NEW g \in 1 .. Len(shape)
    PROVE  /\ shape[g] \in Shape
           /\ Segments(g) \in Seq(Segment)
           /\ Len(Segments(g)) \in Nat
           /\ \A s \in 1 .. Len(Segments(g)) : Segments(g)[s].indexes \in Nat
<1>1. shape[g] \in Shape
  BY ShapesAssumption DEF TypeOK
<1>2. Segments(g) \in Seq(Segment)
  BY <1>1 DEF Shape, Segments
<1>3. ASSUME NEW s \in 1 .. Len(Segments(g))
      PROVE  Segments(g)[s].indexes \in Nat
  <2>1. Segments(g)[s] \in Segment
    BY <1>2
  <2>2. QED
    BY <2>1 DEF Segment
<1>4. Len(Segments(g)) \in Nat
  BY <1>2
<1>5. QED
  BY <1>1, <1>2, <1>3, <1>4

(* Events are built from numbers that exist. *)
LEMMA EventTypes ==
    ASSUME TypeOK, activeGeneration # NoGen, activeGeneration <= Len(shape)
    PROVE  /\ EndEvent("done", request) \in Event
           /\ EndEvent("error", request) \in Event
           /\ IndexEvent(request, segment, nextIndex) \in Event
<1>1. request \in 1 .. Len(shape) /\ request \in Gen
  BY MaxGenAssumption DEF TypeOK, request, Gen, NoGen
<1>2. Len(Segments(request)) \in Nat
  BY <1>1, ShapeFacts
<1>3. QED
  BY <1>1, <1>2 DEF EndEvent, IndexEvent, Event, TypeOK

(* The initial state is well typed. *)
LEMMA TypeInit == Init => TypeOK
<1> SUFFICES ASSUME Init PROVE TypeOK
  OBVIOUS
<1>1. /\ characterPending \in Seq(Gen) /\ shape \in Seq(Shapes) /\ Len(shape) <= MaxGen
      /\ events \in Seq(Event) /\ notified \in Seq(Event)
  BY MaxGenAssumption DEF Init
<1>2. played \subseteq Gen \X Nat /\ dropped \subseteq Gen
  BY DEF Init
<1>3. cancelledUpTo \in 0 .. MaxGen /\ segment \in Nat /\ nextIndex \in Nat
  BY MaxGenAssumption DEF Init
<1>4. QED
  BY <1>1, <1>2, <1>3 DEF Init, TypeOK, Places

(* Every step keeps the types, given that none of the events is of an unknown request. *)
LEMMA TypeStep ==
    ASSUME TypeOK, Linked, [Next]_vars
    PROVE  TypeOK'
<1>0. Len(shape) \in Nat /\ NoGen \in Gen \union {NoGen}
  BY DEF TypeOK
<1>g. ASSUME NEW from, NEW to \in Places, Goto(from, to)
      PROVE  TypeOK'
  BY <1>g DEF TypeOK, Goto, controllerVars, queueVars, mainVars, localVars, historyVars
<1>c. ASSUME ClearQueue
      PROVE  /\ pending' \in Gen \union {NoGen}
             /\ characterPending' \in Seq(Gen)
             /\ dropped' \subseteq Gen
  BY <1>c DEF TypeOK, ClearQueue
<1>n. ASSUME Notify
      PROVE  pc' \in Places
  BY <1>n DEF TypeOK, Notify, Places
<1>1. ASSUME NEW s \in Shapes, Submit(s)
      PROVE  TypeOK'
  <2>1. /\ Len(shape) + 1 \in Gen
        /\ shape' \in Seq(Shapes)
        /\ Len(shape') = Len(shape) + 1
        /\ Len(shape') <= MaxGen
    BY <1>0, <1>1, MaxGenAssumption DEF TypeOK, Submit, Gen
  <2>2. /\ pending' \in Gen \union {NoGen}
        /\ characterPending' \in Seq(Gen)
        /\ dropped' \subseteq Gen
    <3>1. Enqueue(s, Len(shape) + 1)
      BY <1>1 DEF Submit
    <3>2. Append(characterPending, Len(shape) + 1) \in Seq(Gen) /\ <<>> \in Seq(Gen)
      BY <2>1 DEF TypeOK
    <3>3. QED
      BY <2>1, <3>1, <3>2 DEF TypeOK, Enqueue
  <2>3. caller' \in {"idle", "interrupt"}
    BY <1>1 DEF Submit
  <2>4. QED
    BY <1>1, <1>n, <2>1, <2>2, <2>3 DEF TypeOK, Submit, localVars, historyVars
<1>2. CASE Cancel
  BY <1>0, <1>2, <1>c, <1>n, MaxGenAssumption DEF TypeOK, Cancel, localVars
<1>3. CASE Shutdown
  BY <1>0, <1>3, <1>c, <1>n DEF TypeOK, Shutdown, localVars, historyVars
<1>4. CASE Interrupt \/ ShutdownStep
  BY <1>4 DEF TypeOK, Interrupt, ShutdownStep, CallBridge, Join, controllerVars, queueVars,
     localVars, historyVars
<1>5. CASE Deliver
  <2>1. /\ Tail(events) \in Seq(Event)
        /\ Append(notified, Head(events)) \in Seq(Event)
    BY <1>5 DEF TypeOK, Deliver
  <2>2. QED
    BY <1>5, <2>1 DEF TypeOK, Deliver, controllerVars, queueVars, mainVars, localVars
<1>6. CASE Boot \/ ReportError
  BY <1>6 DEF TypeOK, Boot, ReportError, Places, queueVars, mainVars, localVars, historyVars
<1>7. CASE Park \/ LeaveLoop
  BY <1>7, <1>g DEF Park, LeaveLoop, Places
<1>8. CASE Take
  <2>1. /\ activeGeneration' \in Gen \union {NoGen}
        /\ pending' \in Gen \union {NoGen}
        /\ characterPending' \in Seq(Gen)
    <3>1. CASE pending # NoGen
      BY <1>8, <3>1 DEF TypeOK, Take
    <3>2. CASE pending = NoGen
      <4>1. Head(characterPending) \in Gen /\ Tail(characterPending) \in Seq(Gen)
        BY <1>8, <3>2 DEF TypeOK, Take
      <4>2. QED
        BY <1>8, <3>2, <4>1 DEF TypeOK, Take
    <3>3. QED
      BY <3>1, <3>2
  <2>2. QED
    BY <1>8, <2>1 DEF TypeOK, Take, Places, mainVars, localVars, historyVars
<1>9. CASE FirstCheck \/ PlayCheck \/ LastCheck \/ FailureCheck
  BY <1>9, <1>g DEF FirstCheck, PlayCheck, LastCheck, FailureCheck, Check, Places
<1>10. CASE ReadToken
  BY <1>10 DEF TypeOK, ReadToken, Places, controllerVars, queueVars, mainVars, historyVars
<1>11. CASE LoopHead
  <2>1. CASE StartIndexes("segment") /\ UNCHANGED played
    BY <2>1 DEF TypeOK, StartIndexes, Places, controllerVars, queueVars, mainVars
  <2>2. QED
    BY <1>11, <1>g, <2>1 DEF LoopHead, Places
<1>12. CASE CacheLookup \/ Synthesize \/ CachePut \/ DispatchRaises
  BY <1>12, <1>g DEF CacheLookup, Synthesize, CachePut, DispatchRaises, Places
<1>13. CASE Play
  <2>1. ASSUME StartIndexes("playing"), played' = played \union {<<request, segment>>}
        PROVE  TypeOK'
    <3>1. request \in Gen
      BY <2>1 DEF TypeOK, Linked, StartIndexes, request, Holding, InSegment, NoGen
    <3>2. QED
      BY <2>1, <3>1 DEF TypeOK, StartIndexes, Places, controllerVars, queueVars, mainVars
  <2>2. QED
    BY <1>13, <1>g, <2>1 DEF Play, Places
<1>14. CASE DispatchIndex
  <2>1. activeGeneration # NoGen /\ activeGeneration <= Len(shape)
    BY <1>14 DEF DispatchIndex, Linked, Holding
  <2>2. events' \in Seq(Event)
    <3>1. IndexEvent(request, segment, nextIndex) \in Event
      BY <2>1, EventTypes
    <3>2. QED
      BY <1>14, <3>1 DEF DispatchIndex, TypeOK
  <2>3. nextIndex' \in Nat
    BY <1>14 DEF DispatchIndex, TypeOK
  <2>4. QED
    BY <1>14, <2>2, <2>3 DEF TypeOK, DispatchIndex, controllerVars, queueVars, mainVars, historyVars
<1>15. CASE NextSegment
  BY <1>15 DEF TypeOK, NextSegment, Places, controllerVars, queueVars, mainVars, historyVars
<1>16. CASE DispatchEnd("complete", "done") \/ DispatchEnd("dispatchError", "error")
  <2>1. activeGeneration # NoGen /\ activeGeneration <= Len(shape)
    BY <1>16 DEF DispatchEnd, Linked, Holding, Ending
  <2>2. events' \in Seq(Event)
    <3>1. EndEvent("done", request) \in Event /\ EndEvent("error", request) \in Event
      BY <2>1, EventTypes
    <3>2. CASE DispatchEnd("complete", "done")
      BY <3>1, <3>2 DEF DispatchEnd, TypeOK
    <3>3. CASE DispatchEnd("dispatchError", "error")
      BY <3>1, <3>3 DEF DispatchEnd, TypeOK
    <3>4. QED
      BY <1>16, <3>2, <3>3
  <2>3. QED
    BY <1>16, <2>2 DEF TypeOK, DispatchEnd, Places, controllerVars, queueVars, mainVars,
       localVars, historyVars
<1>17. CASE Finally
  BY <1>17 DEF TypeOK, Finally, Places, queueVars, mainVars, localVars, historyVars
<1>18. CASE Exit
  BY <1>18, <1>c DEF TypeOK, Exit, Places, mainVars, localVars, historyVars
<1>19. CASE UNCHANGED vars
  BY <1>19 DEF TypeOK, vars, controllerVars, queueVars, mainVars, localVars, historyVars
<1>20. QED
  BY <1>1, <1>2, <1>3, <1>4, <1>5, <1>6, <1>7, <1>8, <1>9, <1>10, <1>11, <1>12, <1>13, <1>14,
     <1>15, <1>16, <1>17, <1>18, <1>19 DEF Next, MainStep, ThreadStep

-----------------------------------------------------------------------------
(* Steps that only move a program counter, the token or the state name. *)

dataVars == <<pending, characterPending, activeGeneration, currentGeneration, stopping, shape,
              segment, nextIndex, events, notified, played, cancelledUpTo>>

(* The moves of the controller thread that need no change of its data. *)
SafeMove(to) ==
    \/ to = pc
    \/ pc \notin Holding /\ to \notin Holding
    \/ pc = "taken" /\ to = "readToken"
    \/ /\ pc \in InSegment \union {"segment"}
       /\ to \in InSegment
       /\ segment <= Len(Segments(request))
    \/ /\ pc \in Holding \ {"finally"}
       /\ to \in Ending
       /\ (to \in {"lastCheck", "complete"} /\ currentGeneration = activeGeneration
              /\ ~IsCharacter(request)) => AllPosted(request)
    \/ pc \in Holding /\ to = "finally"

(* What may change the data of the invariant. *)
BusyStep ==
    \/ \E s \in Shapes : Submit(s)
    \/ Cancel \/ Shutdown \/ Deliver \/ Take \/ ReadToken
    \/ StartIndexes("segment") /\ UNCHANGED played
          /\ Segments(request)[segment].text = "empty" /\ segment <= Len(Segments(request))
    \/ StartIndexes("playing") /\ played' = played \union {<<request, segment>>}
    \/ DispatchIndex \/ NextSegment
    \/ DispatchEnd("complete", "done") \/ DispatchEnd("dispatchError", "error")
    \/ Finally \/ Exit

(* A request that is not current has lost the current generation, and only a
   character can be current without having it. *)
LEMMA StaleFacts ==
    ASSUME TypeOK, CurrentIsFresh, NEW g \in Gen
    PROVE  /\ ~IsCurrent(g) => currentGeneration # g
           /\ IsCurrent(g) /\ ~IsCharacter(g) => currentGeneration = g
<1>1. g # NoGen
  BY DEF Gen, NoGen
<1>2. QED
  BY <1>1 DEF CurrentIsFresh, IsCurrent, IsCharacter, activeRequestCategory

(* What the invariant says of the request the thread works on. *)
LEMMA ActiveFacts ==
    ASSUME TypeOK, Linked, pc \in Holding
    PROVE  /\ request \in Gen /\ request \in 1 .. Len(shape)
           /\ Len(Segments(request)) \in Nat
           /\ segment \in Nat /\ nextIndex \in Nat
<1>1. request \in Gen /\ request \in 1 .. Len(shape)
  BY MaxGenAssumption DEF TypeOK, Linked, request, Gen, NoGen
<1>2. QED
  BY <1>1, ShapeFacts DEF TypeOK

(* Every step changes data or is a safe move. *)
LEMMA WhichStep ==
    ASSUME IInv, [Next]_vars
    PROVE  BusyStep \/ (UNCHANGED dataVars /\ SafeMove(pc'))
<1>0. TypeOK /\ Linked /\ CurrentIsFresh /\ NothingSkipped /\ AllAudioFirst
  BY DEF IInv
<1>q. ASSUME NEW from, NEW to, Goto(from, to)
      PROVE  UNCHANGED dataVars /\ pc = from /\ pc' = to
  BY <1>q DEF Goto, dataVars, controllerVars, queueVars, mainVars, localVars, historyVars
<1>s. ASSUME pc \in Holding, ~IsCurrent(request)
      PROVE  currentGeneration # activeGeneration
  BY <1>0, <1>s, ActiveFacts, StaleFacts DEF request
<1>1. CASE Interrupt \/ ShutdownStep
  BY <1>1 DEF Interrupt, ShutdownStep, CallBridge, Join, controllerVars, queueVars, localVars,
     historyVars, dataVars, SafeMove
<1>2. CASE Boot \/ ReportError
  BY <1>2 DEF Boot, ReportError, queueVars, mainVars, localVars, historyVars, dataVars, SafeMove,
     Holding, InSegment, Ending
<1>3. CASE Park \/ LeaveLoop
  BY <1>3, <1>q DEF Park, LeaveLoop, SafeMove, Holding, InSegment, Ending
<1>4. CASE FirstCheck
  <2>1. CASE pc' = "complete"
    <3>1. Segments(request) = <<>> /\ pc = "taken" /\ UNCHANGED dataVars
      BY <1>4, <1>q, <2>1 DEF FirstCheck, Check
    <3>2. AllPosted(request)
      BY <3>1 DEF AllPosted, PlayedUpTo, PostedUpTo
    <3>3. QED
      BY <2>1, <3>1, <3>2 DEF SafeMove, Holding, Ending
  <2>2. CASE pc' # "complete"
    BY <1>4, <1>q, <2>2 DEF FirstCheck, Check, SafeMove, Holding
  <2>3. QED
    BY <2>1, <2>2
<1>5. CASE LoopHead
  <2>1. CASE Goto("segment", "lastCheck") /\ segment > Len(Segments(request))
    <3>1. pc \in Holding /\ pc = "segment"
      BY <1>q, <2>1 DEF Holding
    <3>2. segment - 1 = Len(Segments(request))
      BY <1>0, <2>1, <3>1, ActiveFacts DEF Linked
    <3>3. ASSUME currentGeneration = activeGeneration, ~IsCharacter(request)
          PROVE  AllPosted(request)
      BY <1>0, <3>1, <3>2, <3>3 DEF NothingSkipped, AllAudioFirst, AllPosted, Linked
    <3>4. QED
      BY <1>q, <2>1, <3>1, <3>3 DEF SafeMove, Ending
  <2>2. CASE Goto("segment", "lastCheck") /\ ~IsCurrent(request)
    BY <1>q, <1>s, <2>2 DEF SafeMove, Ending, Holding
  <2>3. CASE Goto("segment", "lookup") /\ segment <= Len(Segments(request))
    BY <1>q, <2>3 DEF SafeMove, InSegment
  <2>4. QED
    BY <1>5, <2>1, <2>2, <2>3 DEF LoopHead, BusyStep
<1>6. CASE CacheLookup \/ Synthesize \/ CachePut
  <2>1. UNCHANGED dataVars /\ pc \in InSegment /\ pc' \in InSegment \union {"finally", "failure"}
    BY <1>6, <1>q DEF CacheLookup, Synthesize, CachePut, InSegment
  <2>2. segment <= Len(Segments(request))
    BY <1>0, <2>1, ActiveFacts DEF Linked, Holding
  <2>3. QED
    BY <2>1, <2>2 DEF SafeMove, Holding, Ending, InSegment
<1>7. CASE PlayCheck \/ Play
  <2>1. CASE Goto("playCheck", "playing")
    <3>1. UNCHANGED dataVars /\ pc \in InSegment /\ pc' \in InSegment
      BY <2>1, <1>q DEF InSegment
    <3>2. segment <= Len(Segments(request))
      BY <1>0, <3>1, ActiveFacts DEF Linked, Holding
    <3>3. QED
      BY <3>1, <3>2 DEF SafeMove
  <2>2. ASSUME NEW from \in {"playCheck", "playing"}, Goto(from, "lastCheck"), ~IsCurrent(request)
        PROVE  UNCHANGED dataVars /\ SafeMove(pc')
    <3>1. UNCHANGED dataVars /\ pc \in Holding \ {"finally"} /\ pc' = "lastCheck"
      BY <2>2, <1>q DEF Holding, InSegment
    <3>2. QED
      BY <1>s, <2>2, <3>1 DEF SafeMove, Ending
  <2>3. CASE Goto("playing", "failure")
    BY <1>q, <2>3 DEF SafeMove, Holding, InSegment, Ending
  <2>4. QED
    BY <1>7, <2>1, <2>2, <2>3 DEF PlayCheck, Play, Check, BusyStep
<1>8. CASE LastCheck
  BY <1>0, <1>8, <1>q, ActiveFacts DEF LastCheck, Check, SafeMove, Holding, Ending, NothingSkipped, Linked
<1>9. CASE DispatchRaises \/ FailureCheck
  BY <1>9, <1>q DEF DispatchRaises, FailureCheck, Check, SafeMove, Holding, Ending
<1>10. CASE UNCHANGED vars
  BY <1>10 DEF vars, controllerVars, queueVars, mainVars, localVars, historyVars, dataVars, SafeMove
<1>11. QED
  BY <1>1, <1>2, <1>3, <1>4, <1>5, <1>6, <1>7, <1>8, <1>9, <1>10
     DEF Next, MainStep, ThreadStep, BusyStep

(* The invariant without its type part. *)
Relations ==
    /\ Linked /\ QueueOrder /\ AllPast /\ EventOrder /\ NotificationsInOrder
    /\ AllAudioFirst /\ NothingSkipped /\ CompletionsWhole /\ CompletedSpeechIsWhole
    /\ CurrentIsFresh

(* A safe move preserves every relation. *)
LEMMA SafeMoveStep ==
    ASSUME IInv, UNCHANGED dataVars, SafeMove(pc')
    PROVE  Relations'
<1>0. TypeOK /\ Relations
  BY DEF IInv, Relations
<1>2. /\ activeGeneration' = activeGeneration /\ request' = request /\ segment' = segment
      /\ Segments(request)' = Segments(request)
      /\ IsCharacter(request)' = IsCharacter(request)
  BY DEF dataVars, request, Segments, IsCharacter, Category
<1>3. (activeGeneration # NoGen)' <=> pc' \in Holding
  BY <1>0, <1>2 DEF Relations, Linked, SafeMove, Holding, InSegment, Ending
<1>4. Linked'
  BY <1>0, <1>2, <1>3 DEF Relations, Linked, SafeMove, dataVars, Holding, InSegment, Ending
<1>5. QueueOrder' /\ AllPast' /\ NotificationsInOrder' /\ CurrentIsFresh'
  BY <1>0 DEF Relations, QueueOrder, AllPast, Past, NotificationsInOrder, Before, CurrentIsFresh, dataVars
<1>6. EventOrder'
  <2>1. ASSUME NEW e \in Event, BehindThread(e)
        PROVE  BehindThread(e)'
    <3>1. CASE pc \in Holding
      <4>1. Len(Segments(request)) \in Nat /\ segment \in Nat /\ e.segment \in Nat
        BY <1>0, <3>1, ActiveFacts DEF Relations, Event
      <4>2. QED
        BY <1>0, <1>2, <2>1, <3>1, <4>1
           DEF BehindThread, SafeMove, Relations, Linked, dataVars, Holding, InSegment, Ending
    <3>2. CASE pc \notin Holding
      BY <1>2, <1>0, <2>1, <3>2 DEF BehindThread, Relations, Linked, SafeMove, Holding, Event, Gen, NoGen
    <3>3. QED
      BY <3>1, <3>2
  <2>2. /\ \A i \in 1 .. Len(events) : events[i] \in Event
        /\ \A i \in 1 .. Len(notified) : notified[i] \in Event
    BY <1>0 DEF TypeOK
  <2>3. QED
    BY <1>0, <2>1, <2>2 DEF Relations, EventOrder, Before, dataVars
<1>7. AllAudioFirst'
  <2>1. \A g : \A n : PlayedUpTo(g, n)' <=> PlayedUpTo(g, n)
    BY DEF PlayedUpTo, Segments, dataVars
  <2>2. \A e : AudioFirst(e)' <=> AudioFirst(e)
    BY <2>1 DEF AudioFirst, Segments, dataVars
  <2>3. /\ PlayedUpTo(request, segment - 1)' <=> PlayedUpTo(request, segment - 1)
        /\ PlayedUpTo(request, segment)' <=> PlayedUpTo(request, segment)
    BY DEF PlayedUpTo, Segments, dataVars, request
  <2>4. /\ pc' \in InSegment \union {"segment"} => pc \in InSegment \union {"segment"}
        /\ pc' = "indexes" => pc = "indexes"
    BY DEF SafeMove, Holding, InSegment, Ending
  <2>5. /\ \A i \in 1 .. Len(events) : AudioFirst(events[i])'
        /\ \A i \in 1 .. Len(notified) : AudioFirst(notified[i])'
    BY <1>0, <2>2 DEF Relations, AllAudioFirst, dataVars
  <2>6. QED
    BY <1>0, <2>3, <2>4, <2>5 DEF Relations, AllAudioFirst, dataVars
<1>8. NothingSkipped'
  <2>1. PostedUpTo(request, segment - 1)' <=> PostedUpTo(request, segment - 1)
    BY DEF PostedUpTo, Posted, IndexEvent, Segments, dataVars, request
  <2>2. AllPosted(request)' <=> AllPosted(request)
    BY DEF AllPosted, PlayedUpTo, PostedUpTo, Posted, IndexEvent, Segments, dataVars, request
  <2>3. CASE pc' = pc
    BY <1>0, <2>3 DEF Relations, NothingSkipped, AllPosted, PlayedUpTo, PostedUpTo, Posted, IndexEvent,
       Segments, IsCharacter, Category, dataVars, request
  <2>4. CASE pc' # pc
    BY <1>0, <1>2, <1>3, <2>1, <2>2, <2>4
       DEF Relations, NothingSkipped, SafeMove, dataVars, Holding, InSegment, Ending
  <2>5. QED
    BY <2>3, <2>4
<1>9. CompletionsWhole' /\ CompletedSpeechIsWhole'
  BY <1>0 DEF Relations, CompletionsWhole, CompletedSpeechIsWhole, WholeBefore, AllPosted, PlayedUpTo,
     PostedUpTo, Posted, IndexEvent, Segments, IsCharacter, Category, dataVars
<1>10. QED
  BY <1>4, <1>5, <1>6, <1>7, <1>8, <1>9 DEF Relations

-----------------------------------------------------------------------------
(* Steps of the main thread that change data. *)

(* A new request leaves those that exist alone. *)
LEMMA ShapeGrows ==
    ASSUME TypeOK, NEW s \in Shapes, shape' = Append(shape, s)
    PROVE  /\ Len(shape') = Len(shape) + 1
           /\ \A g \in 1 .. Len(shape) : /\ Segments(g)' = Segments(g)
                                         /\ IsCharacter(g)' = IsCharacter(g)
<1>1. Len(shape') = Len(shape) + 1 /\ \A g \in 1 .. Len(shape) : shape'[g] = shape[g]
  BY DEF TypeOK
<1>2. QED
  BY <1>1 DEF Segments, IsCharacter, Category

(* The requests behind events exist. *)
LEMMA EventFacts ==
    ASSUME TypeOK, AllPast
    PROVE  /\ \A i \in 1 .. Len(events) :
                events[i] \in Event /\ events[i].gen \in Gen /\ events[i].gen \in 1 .. Len(shape)
           /\ \A i \in 1 .. Len(notified) :
                notified[i] \in Event /\ notified[i].gen \in Gen /\ notified[i].gen \in 1 .. Len(shape)
<1>1. /\ \A i \in 1 .. Len(events) : events[i] \in Event
      /\ \A i \in 1 .. Len(notified) : notified[i] \in Event
  BY DEF TypeOK
<1>2. \A e \in Event : e.gen \in Gen
  BY DEF Event
<1>3. \A g \in Gen : g \in Nat /\ g >= 1
  BY MaxGenAssumption DEF Gen
<1>4. Len(shape) \in Nat
  BY DEF TypeOK
<1>5. QED
  BY <1>1, <1>2, <1>3, <1>4 DEF AllPast, Past

(* Only the controller thread moves from one of the places of _run at which it
   holds a request to another. *)
LEMMA NotifyFacts ==
    ASSUME Notify
    PROVE  /\ pc' \in Holding <=> pc \in Holding
           /\ pc \in Holding => pc' = pc
           /\ pc' \in Holding => pc' = pc
BY DEF Notify, Holding, InSegment, Ending

(* submit() preserves the invariant: the newcomer has the highest number. *)
LEMMA SubmitStep ==
    ASSUME IInv, NEW s \in Shapes, Submit(s)
    PROVE  Relations'
<1>0. TypeOK /\ Relations
  BY DEF IInv, Relations
<1>1. /\ shape' = Append(shape, s)
      /\ currentGeneration' = Len(shape) + 1
      /\ Enqueue(s, Len(shape) + 1)
      /\ Notify
      /\ ~stopping
      /\ UNCHANGED <<activeGeneration, stopping, segment, nextIndex, events, notified, played, cancelledUpTo>>
      /\ request' = request
  BY DEF Submit, localVars, historyVars, request
<1>2. /\ Len(shape') = Len(shape) + 1
      /\ \A g \in 1 .. Len(shape) : Segments(g)' = Segments(g) /\ IsCharacter(g)' = IsCharacter(g)
  BY <1>0, <1>1, ShapeGrows
<1>3. /\ Len(shape) \in Nat /\ activeGeneration \in Nat /\ pending \in Nat /\ cancelledUpTo \in Nat
      /\ activeGeneration <= Len(shape) /\ pending <= Len(shape) /\ cancelledUpTo <= Len(shape)
      /\ \A i \in 1 .. Len(characterPending) : characterPending[i] \in Nat /\ characterPending[i] <= Len(shape)
  BY <1>0, MaxGenAssumption DEF TypeOK, Relations, Linked, Gen, NoGen
<1>4. activeGeneration # NoGen =>
        activeGeneration \in 1 .. Len(shape) /\ Segments(request)' = Segments(request)
  BY <1>1, <1>2, <1>3 DEF NoGen, request, Segments
<1>5. \/ pending' = pending /\ characterPending' = characterPending
      \/ pending' = pending /\ characterPending' = Append(characterPending, Len(shape) + 1)
      \/ pending' = Len(shape) + 1 /\ characterPending' = <<>>
  BY <1>1 DEF Enqueue
<1>6. \A i \in 1 .. Len(characterPending') :
        \/ characterPending'[i] = Len(shape) + 1
        \/ i \in 1 .. Len(characterPending) /\ characterPending'[i] = characterPending[i]
  <2>1. CASE characterPending' = Append(characterPending, Len(shape) + 1)
    <3>1. /\ Len(characterPending') = Len(characterPending) + 1
          /\ Len(characterPending) \in Nat
          /\ characterPending'[Len(characterPending) + 1] = Len(shape) + 1
          /\ \A i \in 1 .. Len(characterPending) : characterPending'[i] = characterPending[i]
      BY <1>0, <2>1 DEF TypeOK
    <3>2. QED
      BY <3>1
  <2>2. QED
    BY <1>5, <2>1
<1>7. Linked'
  BY <1>0, <1>1, <1>2, <1>3, <1>4, <1>5, <1>6, NotifyFacts
     DEF Relations, Linked, Holding, InSegment, NoGen
<1>8. QueueOrder'
  <2>1. CASE pending' = pending /\ characterPending' = characterPending
    BY <1>0, <1>1, <2>1 DEF Relations, QueueOrder
  <2>2. CASE pending' = pending /\ characterPending' = Append(characterPending, Len(shape) + 1)
    <3>1. /\ Len(characterPending') = Len(characterPending) + 1
          /\ Len(characterPending) \in Nat
          /\ characterPending'[Len(characterPending) + 1] = Len(shape) + 1
          /\ \A i \in 1 .. Len(characterPending) : characterPending'[i] = characterPending[i]
      BY <1>0, <2>2 DEF TypeOK
    <3>2. QED
      BY <1>0, <1>1, <1>3, <2>2, <3>1 DEF Relations, QueueOrder
  <2>3. CASE pending' = Len(shape) + 1 /\ characterPending' = <<>>
    BY <1>1, <1>3, <2>3 DEF QueueOrder
  <2>4. QED
    BY <1>5, <2>1, <2>2, <2>3
<1>9. AllPast'
  <2>1. ASSUME NEW g \in Gen, Past(g)
        PROVE  Past(g)'
    <3>1. g \in Nat /\ g <= Len(shape)
      BY <2>1, MaxGenAssumption DEF Past, Gen
    <3>2. QED
      <4>1. g <= Len(shape') /\ (activeGeneration' # NoGen => g <= activeGeneration')
        BY <1>1, <1>2, <1>3, <2>1, <3>1 DEF Past
      <4>2. pending' # NoGen => g < pending'
        BY <1>3, <1>5, <2>1, <3>1 DEF Past
      <4>3. \A i \in 1 .. Len(characterPending') : g < characterPending'[i]
        BY <1>3, <1>6, <2>1, <3>1 DEF Past
      <4>4. QED
        BY <4>1, <4>2, <4>3 DEF Past
  <2>2. \A p \in played : p[1] \in Gen
    BY <1>0 DEF TypeOK
  <2>3. QED
    BY <1>0, <1>1, <2>1, <2>2, EventFacts DEF Relations, AllPast
<1>10. EventOrder'
  <2>1. ASSUME NEW e \in Event, BehindThread(e)
        PROVE  BehindThread(e)'
    <3>1. e.gen # NoGen
      BY DEF Event, Gen, NoGen
    <3>2. CASE activeGeneration # NoGen
      <4>1. pc' = pc
        BY <1>0, <1>1, <3>2, NotifyFacts DEF Relations, Linked
      <4>2. QED
        BY <1>1, <1>4, <2>1, <3>2, <4>1 DEF BehindThread
    <3>3. CASE activeGeneration = NoGen
      BY <1>1, <3>1, <3>3 DEF BehindThread
    <3>4. QED
      BY <3>2, <3>3
  <2>2. QED
    BY <1>0, <1>1, <2>1, EventFacts DEF Relations, EventOrder, Before
<1>11. AllAudioFirst'
  <2>1. \A g \in 1 .. Len(shape) : \A n : PlayedUpTo(g, n)' <=> PlayedUpTo(g, n)
    BY <1>1, <1>2 DEF PlayedUpTo
  <2>2. \A e \in Event : e.gen \in 1 .. Len(shape) => (AudioFirst(e)' <=> AudioFirst(e))
    BY <1>2, <2>1 DEF AudioFirst
  <2>3. /\ \A i \in 1 .. Len(events) : AudioFirst(events[i])'
        /\ \A i \in 1 .. Len(notified) : AudioFirst(notified[i])'
    BY <1>0, <1>1, <2>2, EventFacts DEF Relations, AllAudioFirst
  <2>4. CASE activeGeneration # NoGen
    <3>1. pc' = pc
      BY <1>0, <1>1, <2>4, NotifyFacts DEF Relations, Linked
    <3>2. /\ PlayedUpTo(request, segment - 1)' <=> PlayedUpTo(request, segment - 1)
          /\ PlayedUpTo(request, segment)' <=> PlayedUpTo(request, segment)
      BY <1>1, <1>4, <2>4 DEF PlayedUpTo
    <3>3. /\ pc' \in InSegment \union {"segment"} => PlayedUpTo(request, segment - 1)'
          /\ pc' = "indexes" => PlayedUpTo(request, segment)'
      BY <1>0, <3>1, <3>2 DEF Relations, AllAudioFirst
    <3>4. QED
      BY <1>1, <2>3, <3>3 DEF AllAudioFirst
  <2>5. CASE activeGeneration = NoGen
    <3>1. pc' \notin Holding
      BY <1>0, <1>1, <2>5, NotifyFacts DEF Relations, Linked
    <3>2. QED
      BY <1>1, <2>3, <3>1 DEF AllAudioFirst, Holding
  <2>6. QED
    BY <2>4, <2>5
<1>12. NothingSkipped'
  BY <1>1, <1>3 DEF NothingSkipped
<1>13. CompletionsWhole'
  BY <1>0, <1>1, EventFacts DEF Relations, CompletionsWhole
<1>14. CompletedSpeechIsWhole'
  <2>1. ASSUME NEW g \in 1 .. Len(shape), NEW i, WholeBefore(g, i)
        PROVE  WholeBefore(g, i)'
    BY <1>1, <1>2, <2>1 DEF WholeBefore, IndexEvent
  <2>2. QED
    BY <1>0, <1>1, <1>2, <2>1, EventFacts DEF Relations, CompletedSpeechIsWhole
<1>15. NotificationsInOrder' /\ CurrentIsFresh'
  BY <1>0, <1>1, <1>3 DEF Relations, NotificationsInOrder, Before, CurrentIsFresh
<1>16. QED
  BY <1>7, <1>8, <1>9, <1>10, <1>11, <1>12, <1>13, <1>14, <1>15 DEF Relations

(* What the relations say of requests, as long as shape and the histories stay. *)
LEMMA HistoryFrame ==
    ASSUME UNCHANGED <<shape, events, notified, played>>
    PROVE  /\ \A g : Segments(g)' = Segments(g) /\ (IsCharacter(g)' <=> IsCharacter(g))
           /\ \A g, n : PlayedUpTo(g, n)' <=> PlayedUpTo(g, n)
           /\ \A e : AudioFirst(e)' <=> AudioFirst(e)
           /\ \A g, s, k : Posted(g, s, k)' <=> Posted(g, s, k)
           /\ \A g, n : PostedUpTo(g, n)' <=> PostedUpTo(g, n)
           /\ \A g : AllPosted(g)' <=> AllPosted(g)
           /\ NotificationsInOrder => NotificationsInOrder'
           /\ CompletedSpeechIsWhole => CompletedSpeechIsWhole'
<1>1. \A g : Segments(g)' = Segments(g) /\ (IsCharacter(g)' <=> IsCharacter(g))
  BY DEF Segments, IsCharacter, Category
<1>2. \A g, n : PlayedUpTo(g, n)' <=> PlayedUpTo(g, n)
  BY <1>1 DEF PlayedUpTo
<1>3. \A e : AudioFirst(e)' <=> AudioFirst(e)
  BY <1>1, <1>2 DEF AudioFirst
<1>4. \A g, s, k : Posted(g, s, k)' <=> Posted(g, s, k)
  BY DEF Posted, IndexEvent
<1>5. \A g, n : PostedUpTo(g, n)' <=> PostedUpTo(g, n)
  BY <1>1, <1>4 DEF PostedUpTo
<1>6. \A g : AllPosted(g)' <=> AllPosted(g)
  BY <1>1, <1>2, <1>5 DEF AllPosted
<1>7. NotificationsInOrder => NotificationsInOrder'
  BY DEF NotificationsInOrder, Before
<1>8. CompletedSpeechIsWhole => CompletedSpeechIsWhole'
  BY DEF CompletedSpeechIsWhole, WholeBefore, IndexEvent, Segments, IsCharacter, Category
<1>9. QED
  BY <1>1, <1>2, <1>3, <1>4, <1>5, <1>6, <1>7, <1>8

(* cancel(), shutdown() and the end of _run empty the queue. *)
LEMMA ClearStep ==
    ASSUME IInv, ClearQueue, CurrentIsFresh',
           UNCHANGED <<activeGeneration, shape, segment, nextIndex, events, notified, played>>,
           currentGeneration' \in {NoGen, currentGeneration},
           cancelledUpTo' \in {cancelledUpTo, Len(shape)},
           pc' \in Holding \/ pc \in Holding => pc' = pc
    PROVE  Relations'
<1>0. TypeOK /\ Relations
  BY DEF IInv, Relations
<1>1. /\ pending' = NoGen /\ characterPending' = <<>>
      /\ request' = request /\ Segments(request)' = Segments(request)
      /\ Len(shape) \in Nat
  BY <1>0 DEF TypeOK, ClearQueue, request, Segments
<1>2. Linked'
  BY <1>0, <1>1 DEF Relations, Linked, NoGen, Holding, InSegment
<1>3. QueueOrder'
  BY <1>1 DEF QueueOrder
<1>4. AllPast'
  BY <1>0, <1>1 DEF Relations, AllPast, Past
<1>5. EventOrder'
  <2>1. ASSUME NEW e \in Event, BehindThread(e)
        PROVE  BehindThread(e)'
    <3>1. CASE activeGeneration = NoGen
      BY <3>1 DEF BehindThread, Event, Gen, NoGen
    <3>2. CASE activeGeneration # NoGen
      BY <1>0, <1>1, <2>1, <3>2 DEF BehindThread, Relations, Linked
    <3>3. QED
      BY <3>1, <3>2
  <2>2. QED
    BY <1>0, <2>1, EventFacts DEF Relations, EventOrder, Before
<1>6. AllAudioFirst'
  <2>1. /\ \A i \in 1 .. Len(events') : AudioFirst(events[i])'
        /\ \A i \in 1 .. Len(notified') : AudioFirst(notified[i])'
    BY <1>0, HistoryFrame DEF Relations, AllAudioFirst
  <2>2. /\ PlayedUpTo(request, segment - 1)' <=> PlayedUpTo(request, segment - 1)
        /\ PlayedUpTo(request, segment)' <=> PlayedUpTo(request, segment)
    BY <1>1 DEF PlayedUpTo
  <2>3. pc' \in InSegment \union {"segment", "indexes"} => pc' = pc
    BY DEF Holding
  <2>4. QED
    BY <1>0, <2>1, <2>2, <2>3 DEF Relations, AllAudioFirst
<1>7. NothingSkipped'
  <2>1. CASE currentGeneration' = NoGen
    BY <2>1 DEF NothingSkipped
  <2>2. CASE currentGeneration' = currentGeneration /\ pc' = pc
    BY <1>0, <2>2 DEF Relations, NothingSkipped, AllPosted, PlayedUpTo, PostedUpTo, Posted, IndexEvent,
       Segments, IsCharacter, Category, request
  <2>3. CASE pc' # pc
    BY <1>0, <2>3 DEF Relations, Linked, NothingSkipped
  <2>4. QED
    BY <2>1, <2>2, <2>3
<1>8. CompletionsWhole'
  <2>1. CASE currentGeneration' = NoGen
    BY <1>0, <2>1, EventFacts DEF CompletionsWhole, Relations, Gen, NoGen
  <2>2. CASE currentGeneration' = currentGeneration
    <3>1. \A g : (AllPosted(g)' <=> AllPosted(g)) /\ (IsCharacter(g)' <=> IsCharacter(g))
      BY HistoryFrame
    <3>2. QED
      BY <1>0, <2>2, <3>1 DEF Relations, CompletionsWhole
  <2>3. QED
    BY <2>1, <2>2
<1>9. QED
  BY <1>0, <1>2, <1>3, <1>4, <1>5, <1>6, <1>7, <1>8, HistoryFrame DEF Relations

(* cancel() preserves the invariant: it clears the queue and the current generation. *)
LEMMA CancelStep ==
    ASSUME IInv, Cancel \/ Shutdown
    PROVE  Relations'
<1>0. TypeOK /\ Relations
  BY DEF IInv, Relations
<1>1. /\ ClearQueue /\ currentGeneration' = NoGen /\ Notify
      /\ UNCHANGED <<activeGeneration, shape, segment, nextIndex, events, notified, played>>
      /\ cancelledUpTo' \in {cancelledUpTo, Len(shape)}
  BY DEF Cancel, Shutdown, localVars, historyVars
<1>2. CurrentIsFresh'
  BY <1>1 DEF CurrentIsFresh
<1>3. QED
  BY <1>1, <1>2, ClearStep, NotifyFacts

(* The end of the thread preserves the invariant. *)
LEMMA ExitStep ==
    ASSUME IInv, Exit
    PROVE  Relations'
<1>0. TypeOK /\ Relations
  BY DEF IInv, Relations
<1>1. pc \notin Holding /\ pc' \notin Holding
  BY DEF Exit, Holding, InSegment, Ending
<1>2. /\ ClearQueue
      /\ UNCHANGED <<activeGeneration, currentGeneration, stopping, shape, segment, nextIndex, events,
                     notified, played, cancelledUpTo>>
  BY <1>0, <1>1 DEF Relations, Linked, Exit, mainVars, localVars, historyVars
<1>3. CurrentIsFresh'
  BY <1>0, <1>2 DEF Relations, CurrentIsFresh
<1>4. QED
  BY <1>1, <1>2, <1>3, ClearStep

-----------------------------------------------------------------------------
(* Steps of the controller thread that change data. *)

(* Taking a request preserves the invariant: it is later than all that was taken before. *)
LEMMA TakeStep ==
    ASSUME IInv, Take
    PROVE  Relations'
<1>0. TypeOK /\ Relations
  BY DEF IInv, Relations
<1>1. /\ UNCHANGED <<currentGeneration, stopping, shape, segment, nextIndex, events, notified, played,
                     cancelledUpTo>>
      /\ pc' = "taken" /\ activeGeneration = NoGen
      /\ Len(shape) \in Nat
  BY <1>0 DEF Take, mainVars, localVars, historyVars, Relations, Linked, TypeOK, Holding, InSegment, Ending
<1>2. /\ activeGeneration' \in Nat /\ activeGeneration' # NoGen /\ activeGeneration' <= Len(shape)
      /\ pending' \in Nat /\ pending' <= Len(shape)
      /\ pending' # NoGen => pending' > activeGeneration'
      /\ \A i \in 1 .. Len(characterPending') :
            /\ characterPending'[i] <= Len(shape)
            /\ characterPending'[i] > activeGeneration' /\ characterPending'[i] > pending'
            /\ \A j \in 1 .. i - 1 : characterPending'[j] < characterPending'[i]
      /\ \A g \in Nat : Past(g) => /\ g < activeGeneration'
                                   /\ pending' # NoGen => g < pending'
                                   /\ \A i \in 1 .. Len(characterPending') : g < characterPending'[i]
  <2>1. \A g \in Gen : g \in Nat /\ g # NoGen
    BY MaxGenAssumption DEF Gen, NoGen
  <2>2. CASE pending # NoGen
    <3>1. /\ activeGeneration' = pending /\ pending' = NoGen /\ characterPending' = characterPending
          /\ pending \in Gen
      BY <1>0, <2>2 DEF Take, TypeOK
    <3>2. \A i \in 1 .. Len(characterPending) : characterPending[i] \in Nat
      BY <1>0, <2>1 DEF TypeOK
    <3>3. QED
      BY <1>0, <1>1, <2>1, <2>2, <3>1, <3>2 DEF Relations, Linked, QueueOrder, Past, NoGen
  <2>3. CASE pending = NoGen
    <3>1. /\ characterPending # <<>> /\ pending' = NoGen
          /\ activeGeneration' = Head(characterPending) /\ characterPending' = Tail(characterPending)
      BY <2>3 DEF Take
    <3>2. /\ Len(characterPending) \in Nat /\ Len(characterPending) >= 1
          /\ activeGeneration' = characterPending[1]
          /\ Len(characterPending') = Len(characterPending) - 1
          /\ \A i \in 1 .. Len(characterPending') : characterPending'[i] = characterPending[i + 1]
          /\ \A i \in 1 .. Len(characterPending) : characterPending[i] \in Gen
      BY <1>0, <3>1 DEF TypeOK
    <3>3. \A i \in 1 .. Len(characterPending) : characterPending[i] \in Nat /\ characterPending[i] # NoGen
      BY <2>1, <3>2
    <3>4. \A i \in 1 .. Len(characterPending') :
            /\ characterPending'[i] <= Len(shape)
            /\ characterPending'[i] > activeGeneration'
            /\ \A j \in 1 .. i - 1 : characterPending'[j] < characterPending'[i]
      BY <1>0, <3>2, <3>3 DEF Relations, Linked, QueueOrder
    <3>5. \A g \in Nat : Past(g) => /\ g < activeGeneration'
                                    /\ \A i \in 1 .. Len(characterPending') : g < characterPending'[i]
      BY <3>2, <3>3 DEF Past
    <3>6. activeGeneration' \in Nat /\ activeGeneration' # NoGen /\ activeGeneration' <= Len(shape)
      BY <1>0, <3>2, <3>3 DEF Relations, Linked
    <3>7. \A i \in 1 .. Len(characterPending') : characterPending'[i] > pending'
      BY <3>1, <3>2, <3>3 DEF NoGen
    <3>8. QED
      BY <1>1, <3>1, <3>4, <3>5, <3>6, <3>7 DEF NoGen
  <2>4. QED
    BY <2>2, <2>3
<1>3. Linked'
  BY <1>0, <1>1, <1>2 DEF Relations, Linked, Holding, InSegment
<1>4. QueueOrder'
  BY <1>2 DEF QueueOrder
<1>5. \A g \in Gen : g \in Nat
  BY MaxGenAssumption DEF Gen
<1>6. ASSUME NEW g \in Gen, Past(g)
      PROVE  Past(g)' /\ g # activeGeneration'
  BY <1>1, <1>2, <1>5, <1>6 DEF Past
<1>7. AllPast'
  <2>1. \A p \in played : p[1] \in Gen
    BY <1>0 DEF TypeOK
  <2>2. QED
    BY <1>0, <1>1, <1>6, <2>1, EventFacts DEF Relations, AllPast
<1>8. EventOrder'
  <2>1. \A e \in Event : Past(e.gen) => BehindThread(e)'
    <3>1. \A e \in Event : e.gen \in Gen
      BY DEF Event
    <3>2. QED
      BY <1>6, <3>1 DEF BehindThread
  <2>2. QED
    BY <1>0, <1>1, <2>1, EventFacts DEF Relations, EventOrder, AllPast, Before
<1>9. AllAudioFirst'
  <2>1. /\ \A i \in 1 .. Len(events') : AudioFirst(events[i])'
        /\ \A i \in 1 .. Len(notified') : AudioFirst(notified[i])'
    BY <1>0, <1>1, HistoryFrame DEF Relations, AllAudioFirst
  <2>2. QED
    BY <1>1, <2>1 DEF AllAudioFirst, InSegment
<1>10. NothingSkipped'
  BY <1>1 DEF NothingSkipped, InSegment
<1>11. CompletionsWhole'
  <2>1. \A g : (AllPosted(g)' <=> AllPosted(g)) /\ (IsCharacter(g)' <=> IsCharacter(g))
    BY <1>1, HistoryFrame
  <2>2. QED
    BY <1>0, <1>1, <2>1 DEF Relations, CompletionsWhole
<1>12. CurrentIsFresh'
  BY <1>0, <1>1 DEF Relations, CurrentIsFresh
<1>13. QED
  BY <1>0, <1>1, <1>3, <1>4, <1>7, <1>8, <1>9, <1>10, <1>11, <1>12, HistoryFrame DEF Relations

(* The thread's moves inside a request: the histories stay, the place in the
   request changes. *)
LEMMA WithinRequest ==
    ASSUME IInv, pc \in Holding, pc' \in Holding,
           UNCHANGED <<pending, characterPending, activeGeneration, currentGeneration, stopping, shape,
                       events, notified, played, cancelledUpTo>>,
           \A e \in Event : BehindThread(e) => BehindThread(e)'
    PROVE  /\ QueueOrder' /\ AllPast' /\ EventOrder' /\ NotificationsInOrder'
           /\ CompletionsWhole' /\ CompletedSpeechIsWhole' /\ CurrentIsFresh'
           /\ \A i \in 1 .. Len(events') : AudioFirst(events[i])'
           /\ \A i \in 1 .. Len(notified') : AudioFirst(notified[i])'
<1>0. TypeOK /\ Relations
  BY DEF IInv, Relations
<1>1. QueueOrder' /\ AllPast' /\ CurrentIsFresh'
  BY <1>0 DEF Relations, QueueOrder, AllPast, Past, CurrentIsFresh
<1>2. EventOrder'
  BY <1>0, EventFacts DEF Relations, EventOrder, Before
<1>3. CompletionsWhole'
  <2>1. \A g : (AllPosted(g)' <=> AllPosted(g)) /\ (IsCharacter(g)' <=> IsCharacter(g))
    BY HistoryFrame
  <2>2. QED
    BY <1>0, <2>1 DEF Relations, CompletionsWhole
<1>4. /\ \A i \in 1 .. Len(events') : AudioFirst(events[i])'
      /\ \A i \in 1 .. Len(notified') : AudioFirst(notified[i])'
  BY <1>0, HistoryFrame DEF Relations, AllAudioFirst
<1>5. QED
  BY <1>0, <1>1, <1>2, <1>3, <1>4, HistoryFrame DEF Relations

(* Reading the token, where the loop starts, preserves the invariant. *)
LEMMA ReadTokenStep ==
    ASSUME IInv, ReadToken
    PROVE  Relations'
<1>0. TypeOK /\ Relations
  BY DEF IInv, Relations
<1>1. /\ pc = "readToken" /\ pc' = "segment" /\ segment' = 1
      /\ pc \in Holding /\ pc' \in Holding
      /\ UNCHANGED <<pending, characterPending, activeGeneration, currentGeneration, stopping, shape,
                     events, notified, played, cancelledUpTo>>
      /\ request' = request /\ Segments(request)' = Segments(request)
  BY DEF ReadToken, controllerVars, queueVars, mainVars, historyVars, Holding, request, Segments
<1>2. \A e \in Event : BehindThread(e) => BehindThread(e)'
  BY <1>1 DEF BehindThread, InSegment, Ending
<1>3. Len(Segments(request)) \in Nat
  BY <1>0, <1>1, ActiveFacts DEF Relations
<1>4. Linked'
  BY <1>0, <1>1, <1>3 DEF Relations, Linked, InSegment
<1>5. AllAudioFirst'
  <2>1. PlayedUpTo(request, segment - 1)'
    BY <1>1 DEF PlayedUpTo
  <2>2. QED
    BY <1>1, <1>2, <2>1, WithinRequest DEF AllAudioFirst
<1>6. NothingSkipped'
  <2>1. PostedUpTo(request, segment - 1)'
    BY <1>1 DEF PostedUpTo
  <2>2. QED
    BY <1>1, <2>1 DEF NothingSkipped
<1>7. QED
  BY <1>1, <1>2, <1>4, <1>5, <1>6, WithinRequest DEF Relations

(* Going to the next segment preserves the invariant. *)
LEMMA NextSegmentStep ==
    ASSUME IInv, NextSegment
    PROVE  Relations'
<1>0. TypeOK /\ Relations
  BY DEF IInv, Relations
<1>1. /\ pc = "indexes" /\ pc' = "segment" /\ segment' = segment + 1
      /\ nextIndex > Segments(request)[segment].indexes
      /\ pc \in Holding /\ pc' \in Holding
      /\ UNCHANGED <<pending, characterPending, activeGeneration, currentGeneration, stopping, shape,
                     events, notified, played, cancelledUpTo>>
      /\ request' = request /\ Segments(request)' = Segments(request)
  BY DEF NextSegment, controllerVars, queueVars, mainVars, historyVars, Holding, request, Segments
<1>2. /\ Len(Segments(request)) \in Nat /\ segment \in 1 .. Len(Segments(request)) /\ nextIndex \in Nat
      /\ request \in 1 .. Len(shape)
  BY <1>0, <1>1, ActiveFacts DEF Relations, Linked
<1>3. \A e \in Event : BehindThread(e) => BehindThread(e)'
  <2>1. \A e \in Event : e.segment \in Nat
    BY DEF Event
  <2>2. QED
    BY <1>1, <1>2, <2>1 DEF BehindThread, InSegment, Ending
<1>4. Linked'
  BY <1>0, <1>1, <1>2 DEF Relations, Linked, InSegment
<1>5. segment' - 1 = segment
  BY <1>1, <1>2
<1>6. AllAudioFirst'
  <2>1. PlayedUpTo(request, segment - 1)'
    BY <1>0, <1>1, <1>5 DEF PlayedUpTo, Relations, AllAudioFirst
  <2>2. QED
    BY <1>1, <1>3, <2>1, WithinRequest DEF AllAudioFirst
<1>7. NothingSkipped'
  <2>1. ASSUME currentGeneration = activeGeneration, activeGeneration # NoGen, ~IsCharacter(request)
        PROVE  PostedUpTo(request, segment)
    <3>1. PostedUpTo(request, segment - 1)
      BY <1>0, <1>1, <2>1 DEF Relations, NothingSkipped
    <3>2. Segments(request)[segment].indexes \in Nat
      BY <1>0, <1>2, ShapeFacts
    <3>3. \A k \in 1 .. Segments(request)[segment].indexes : Posted(request, segment, k)
      BY <1>0, <1>1, <1>2, <2>1, <3>2 DEF Relations, NothingSkipped
    <3>4. QED
      BY <1>2, <3>1, <3>3 DEF PostedUpTo
  <2>2. PostedUpTo(request, segment) => PostedUpTo(request, segment - 1)'
    BY <1>1, <1>5 DEF PostedUpTo, Posted, IndexEvent
  <2>3. IsCharacter(request)' <=> IsCharacter(request)
    BY <1>1 DEF IsCharacter, Category
  <2>4. QED
    BY <1>1, <2>1, <2>2, <2>3 DEF NothingSkipped
<1>8. QED
  BY <1>1, <1>3, <1>4, <1>6, <1>7, WithinRequest DEF Relations

(* The finally block preserves the invariant. *)
LEMMA FinallyStep ==
    ASSUME IInv, Finally
    PROVE  Relations'
<1>0. TypeOK /\ Relations
  BY DEF IInv, Relations
<1>1. /\ pc = "finally" /\ pc' = "waiting" /\ activeGeneration' = NoGen
      /\ UNCHANGED <<pending, characterPending, currentGeneration, stopping, shape, segment, nextIndex,
                     events, notified, played, cancelledUpTo>>
  BY DEF Finally, queueVars, mainVars, localVars, historyVars
<1>2. /\ activeGeneration \in Nat /\ pending \in Nat /\ Len(shape) \in Nat
      /\ \A i \in 1 .. Len(characterPending) : characterPending[i] \in Nat
      /\ \A g \in Gen : g \in Nat /\ g # NoGen
  BY <1>0, MaxGenAssumption DEF TypeOK, Gen, NoGen
<1>3. Linked'
  BY <1>0, <1>1, <1>2 DEF Relations, Linked, Holding, InSegment, Ending, NoGen
<1>4. QueueOrder'
  BY <1>0, <1>1, <1>2 DEF Relations, QueueOrder, NoGen
<1>5. AllPast' /\ CurrentIsFresh'
  BY <1>0, <1>1 DEF Relations, AllPast, Past, CurrentIsFresh
<1>6. EventOrder'
  <2>1. \A e \in Event : BehindThread(e)'
    BY <1>1, <1>2 DEF BehindThread, Event
  <2>2. QED
    BY <1>0, <1>1, <2>1, EventFacts DEF Relations, EventOrder, Before
<1>7. AllAudioFirst'
  <2>1. /\ \A i \in 1 .. Len(events') : AudioFirst(events[i])'
        /\ \A i \in 1 .. Len(notified') : AudioFirst(notified[i])'
    BY <1>0, <1>1, HistoryFrame DEF Relations, AllAudioFirst
  <2>2. QED
    BY <1>1, <2>1 DEF AllAudioFirst, InSegment
<1>8. NothingSkipped'
  BY <1>1 DEF NothingSkipped
<1>9. CompletionsWhole'
  <2>1. \A g : (AllPosted(g)' <=> AllPosted(g)) /\ (IsCharacter(g)' <=> IsCharacter(g))
    BY <1>1, HistoryFrame
  <2>2. QED
    BY <1>0, <1>1, <2>1 DEF Relations, CompletionsWhole
<1>10. QED
  BY <1>0, <1>1, <1>3, <1>4, <1>5, <1>6, <1>7, <1>8, <1>9, HistoryFrame DEF Relations

(* The active request belongs to the past in the sense of AllPast. *)
LEMMA ActiveIsPast ==
    ASSUME TypeOK, Linked, QueueOrder, activeGeneration # NoGen
    PROVE  Past(activeGeneration)
<1>1. /\ activeGeneration \in Nat /\ pending \in Nat
      /\ \A i \in 1 .. Len(characterPending) : characterPending[i] \in Nat
  BY MaxGenAssumption DEF TypeOK, Gen, NoGen
<1>2. QED
  BY <1>1 DEF Past, Linked, QueueOrder

(* Reaching the end of a segment, played or empty, preserves the invariant. *)
LEMMA StartIndexesStep ==
    ASSUME IInv, NEW from \in {"segment", "playing"}, StartIndexes(from),
           segment <= Len(Segments(request)),
           played \subseteq played', played' \subseteq played \union {<<request, segment>>},
           Segments(request)[segment].text = "empty" \/ <<request, segment>> \in played'
    PROVE  Relations'
<1>0. TypeOK /\ Relations
  BY DEF IInv, Relations
<1>1. /\ pc = from /\ pc' = "indexes" /\ nextIndex' = 1
      /\ pc \in Holding /\ pc' \in Holding /\ pc \in InSegment \union {"segment"}
      /\ UNCHANGED <<pending, characterPending, activeGeneration, currentGeneration, stopping, shape,
                     segment, events, notified, cancelledUpTo>>
      /\ request' = request
  BY DEF StartIndexes, controllerVars, queueVars, mainVars, Holding, InSegment, request
<1>2. /\ Len(Segments(request)) \in Nat /\ segment \in 1 .. Len(Segments(request))
      /\ activeGeneration # NoGen
  BY <1>0, <1>1, ActiveFacts DEF Relations, Linked
<1>3. \A g : Segments(g)' = Segments(g) /\ (IsCharacter(g)' <=> IsCharacter(g))
  BY <1>1 DEF Segments, IsCharacter, Category
<1>4. Linked'
  BY <1>0, <1>1, <1>2 DEF Relations, Linked, Segments, request, InSegment
<1>5. QueueOrder' /\ NotificationsInOrder' /\ CurrentIsFresh'
  BY <1>0, <1>1 DEF Relations, QueueOrder, NotificationsInOrder, Before, CurrentIsFresh
<1>6. AllPast'
  <2>1. Past(request)
    BY <1>0, <1>2, ActiveIsPast DEF Relations, request
  <2>2. \A p \in played' : Past(p[1])
    BY <1>0, <2>1 DEF Relations, AllPast
  <2>3. QED
    BY <1>0, <1>1, <2>2 DEF Relations, AllPast, Past
<1>7. EventOrder'
  <2>1. \A e \in Event : BehindThread(e) => BehindThread(e)'
    BY <1>1 DEF BehindThread, InSegment, Ending
  <2>2. QED
    BY <1>0, <1>1, <2>1, EventFacts DEF Relations, EventOrder, Before
<1>8. \A g, n : PlayedUpTo(g, n) => PlayedUpTo(g, n)'
  BY <1>3 DEF PlayedUpTo
<1>9. AllAudioFirst'
  <2>1. \A e : AudioFirst(e) => AudioFirst(e)'
    BY <1>3, <1>8 DEF AudioFirst
  <2>2. /\ \A i \in 1 .. Len(events') : AudioFirst(events[i])'
        /\ \A i \in 1 .. Len(notified') : AudioFirst(notified[i])'
    BY <1>0, <1>1, <2>1 DEF Relations, AllAudioFirst
  <2>3. PlayedUpTo(request, segment - 1)
    BY <1>0, <1>1 DEF Relations, AllAudioFirst
  <2>4. PlayedUpTo(request, segment)'
    BY <1>1, <1>2, <1>3, <2>3 DEF PlayedUpTo
  <2>5. QED
    BY <1>1, <2>2, <2>4 DEF AllAudioFirst, InSegment
<1>10. \A g, s, k : Posted(g, s, k)' <=> Posted(g, s, k)
  BY <1>1 DEF Posted, IndexEvent
<1>11. NothingSkipped'
  <2>1. PostedUpTo(request, segment - 1) => PostedUpTo(request, segment - 1)'
    BY <1>1, <1>3, <1>10 DEF PostedUpTo
  <2>2. IsCharacter(request)' <=> IsCharacter(request)
    BY <1>1, <1>3
  <2>3. QED
    BY <1>0, <1>1, <2>1, <2>2 DEF Relations, NothingSkipped, InSegment
<1>12. CompletionsWhole'
  <2>1. \A g : AllPosted(g) => AllPosted(g)'
    BY <1>3, <1>8, <1>10 DEF AllPosted, PostedUpTo
  <2>2. QED
    BY <1>0, <1>1, <1>3, <2>1 DEF Relations, CompletionsWhole
<1>13. CompletedSpeechIsWhole'
  <2>1. \A g, i : WholeBefore(g, i) => WholeBefore(g, i)'
    BY <1>1, <1>3 DEF WholeBefore, IndexEvent
  <2>2. QED
    BY <1>0, <1>1, <1>3, <2>1 DEF Relations, CompletedSpeechIsWhole
<1>14. QED
  BY <1>4, <1>5, <1>6, <1>7, <1>9, <1>11, <1>12, <1>13 DEF Relations

(* What holds after the active request's next event is posted. *)
LEMMA AppendFacts ==
    ASSUME IInv, activeGeneration # NoGen, NEW e \in Event, e.gen = activeGeneration,
           events' = Append(events, e), AudioFirst(e),
           UNCHANGED <<pending, characterPending, activeGeneration, currentGeneration, stopping, shape,
                       notified, played, cancelledUpTo>>,
           \A d \in Event : BehindThread(d) /\ d.gen <= activeGeneration => Before(d, e),
           \A d \in Event : BehindThread(d) => BehindThread(d)',
           BehindThread(e)',
           e.kind = "done" /\ ~IsCharacter(e.gen) /\ e.gen = currentGeneration => AllPosted(e.gen)
    PROVE  /\ QueueOrder' /\ AllPast' /\ EventOrder' /\ NotificationsInOrder'
           /\ CompletionsWhole' /\ CompletedSpeechIsWhole' /\ CurrentIsFresh'
           /\ \A i \in 1 .. Len(events') : AudioFirst(events[i])'
           /\ \A i \in 1 .. Len(notified') : AudioFirst(notified[i])'
           /\ \A g, s, k : Posted(g, s, k) => Posted(g, s, k)'
<1>0. TypeOK /\ Relations
  BY DEF IInv, Relations
<1>1. /\ Len(events') = Len(events) + 1 /\ Len(events) \in Nat
      /\ events'[Len(events) + 1] = e
      /\ \A i \in 1 .. Len(events) : events'[i] = events[i]
      /\ \A i \in 1 .. Len(events') : i = Len(events) + 1 \/ i \in 1 .. Len(events)
  BY <1>0 DEF TypeOK
<1>2. \A g : Segments(g)' = Segments(g) /\ (IsCharacter(g)' <=> IsCharacter(g))
  BY DEF Segments, IsCharacter, Category
<1>3. \A g, n : PlayedUpTo(g, n)' <=> PlayedUpTo(g, n)
  BY <1>2 DEF PlayedUpTo
<1>4. QueueOrder' /\ NotificationsInOrder' /\ CurrentIsFresh'
  BY <1>0 DEF Relations, QueueOrder, NotificationsInOrder, Before, CurrentIsFresh
<1>5. AllPast'
  <2>1. \A g : Past(g)' <=> Past(g)
    BY DEF Past
  <2>2. Past(e.gen)
    BY <1>0, ActiveIsPast DEF Relations
  <2>3. QED
    BY <1>0, <1>1, <2>1, <2>2 DEF Relations, AllPast
<1>6. /\ \A i \in 1 .. Len(events) : events[i].gen <= activeGeneration
      /\ \A i \in 1 .. Len(notified) : notified[i].gen <= activeGeneration
  BY <1>0 DEF Relations, AllPast, Past
<1>7. EventOrder'
  <2>1. /\ \A i \in 1 .. Len(events) : Before(events[i], e)
        /\ \A i \in 1 .. Len(notified) : Before(notified[i], e)
    BY <1>0, <1>6, EventFacts DEF Relations, EventOrder
  <2>2. \A i, j \in 1 .. Len(events') : i < j => Before(events'[i], events'[j])
    BY <1>0, <1>1, <2>1 DEF Relations, EventOrder
  <2>3. \A i \in 1 .. Len(notified), j \in 1 .. Len(events') : Before(notified[i], events'[j])
    BY <1>0, <1>1, <2>1 DEF Relations, EventOrder
  <2>4. \A i \in 1 .. Len(events') : BehindThread(events[i])'
    BY <1>0, <1>1, EventFacts DEF Relations, EventOrder
  <2>5. \A i \in 1 .. Len(notified) : BehindThread(notified[i])'
    BY <1>0, EventFacts DEF Relations, EventOrder
  <2>6. QED
    BY <2>2, <2>3, <2>4, <2>5 DEF EventOrder, Before
<1>8. /\ \A i \in 1 .. Len(events') : AudioFirst(events[i])'
      /\ \A i \in 1 .. Len(notified') : AudioFirst(notified[i])'
  <2>1. \A d : AudioFirst(d)' <=> AudioFirst(d)
    BY <1>2, <1>3 DEF AudioFirst
  <2>2. QED
    BY <1>0, <1>1, <2>1 DEF Relations, AllAudioFirst
<1>9. \A g, s, k : Posted(g, s, k) => Posted(g, s, k)'
  BY <1>1 DEF Posted, IndexEvent
<1>10. CompletionsWhole'
  <2>1. \A g : AllPosted(g) => AllPosted(g)'
    BY <1>2, <1>3, <1>9 DEF AllPosted, PostedUpTo
  <2>2. QED
    BY <1>0, <1>1, <1>2, <2>1 DEF Relations, CompletionsWhole
<1>11. CompletedSpeechIsWhole'
  <2>1. \A g, i : WholeBefore(g, i) <=> WholeBefore(g, i)'
    BY <1>2 DEF WholeBefore, IndexEvent
  <2>2. QED
    BY <1>0, <1>2, <2>1 DEF Relations, CompletedSpeechIsWhole
<1>12. QED
  BY <1>4, <1>5, <1>7, <1>8, <1>9, <1>10, <1>11

(* Posting an index preserves the invariant: it is the latest event. *)
LEMMA DispatchIndexStep ==
    ASSUME IInv, DispatchIndex
    PROVE  Relations'
<1>0. TypeOK /\ Relations
  BY DEF IInv, Relations
(* The event posted and its index, as values that priming leaves alone. *)
<1>a. PICK e, k : e = IndexEvent(request, segment, nextIndex) /\ k = nextIndex
  OBVIOUS
<1>1. /\ pc = "indexes" /\ pc' = "indexes" /\ nextIndex' = k + 1
      /\ k <= Segments(request)[segment].indexes
      /\ events' = Append(events, e)
      /\ pc \in Holding
      /\ UNCHANGED <<pending, characterPending, activeGeneration, currentGeneration, stopping, shape,
                     segment, notified, played, cancelledUpTo>>
      /\ request' = request
  BY <1>a DEF DispatchIndex, controllerVars, queueVars, mainVars, historyVars, Holding, request
<1>2. /\ Len(Segments(request)) \in Nat /\ segment \in 1 .. Len(Segments(request)) /\ k \in Nat
      /\ activeGeneration # NoGen /\ activeGeneration <= Len(shape) /\ activeGeneration \in Nat
  BY <1>0, <1>1, <1>a, ActiveFacts, MaxGenAssumption DEF Relations, Linked, TypeOK, Gen, NoGen
<1>3. /\ e \in Event
      /\ e.kind = "index" /\ e.gen = activeGeneration /\ e.segment = segment /\ e.index = k
      /\ e = IndexEvent(request, segment, k)
  BY <1>0, <1>2, <1>a, EventTypes DEF IndexEvent, request
<1>4. \A g : Segments(g)' = Segments(g) /\ (IsCharacter(g)' <=> IsCharacter(g))
  BY <1>1 DEF Segments, IsCharacter, Category
<1>5. AudioFirst(e)
  BY <1>0, <1>1, <1>2, <1>3 DEF AudioFirst, Relations, AllAudioFirst, request
<1>6. \A d \in Event : d.gen \in Nat /\ d.segment \in Nat /\ d.index \in Nat
  BY MaxGenAssumption DEF Event, Gen
<1>7. \A d \in Event : BehindThread(d) /\ d.gen <= activeGeneration => Before(d, e)
  BY <1>1, <1>2, <1>3, <1>6, <1>a DEF BehindThread, Before
<1>8. \A d \in Event : BehindThread(d) => BehindThread(d)'
  BY <1>1, <1>2, <1>6, <1>a DEF BehindThread, InSegment, Ending
<1>9. BehindThread(e)'
  BY <1>1, <1>2, <1>3 DEF BehindThread, InSegment, Ending
<1>10. /\ QueueOrder' /\ AllPast' /\ EventOrder' /\ NotificationsInOrder'
       /\ CompletionsWhole' /\ CompletedSpeechIsWhole' /\ CurrentIsFresh'
       /\ \A i \in 1 .. Len(events') : AudioFirst(events[i])'
       /\ \A i \in 1 .. Len(notified') : AudioFirst(notified[i])'
       /\ \A g, s, n : Posted(g, s, n) => Posted(g, s, n)'
  BY <1>1, <1>2, <1>3, <1>5, <1>7, <1>8, <1>9, AppendFacts
<1>11. Linked'
  BY <1>0, <1>1, <1>2, <1>4 DEF Relations, Linked, InSegment
<1>12. AllAudioFirst'
  <2>1. PlayedUpTo(request, segment)'
    BY <1>0, <1>1, <1>4 DEF PlayedUpTo, Relations, AllAudioFirst
  <2>2. QED
    BY <1>1, <1>10, <2>1 DEF AllAudioFirst, InSegment
<1>13. NothingSkipped'
  <2>1. Posted(request, segment, k)'
    <3>1. /\ Len(events) + 1 \in 1 .. Len(events') /\ events'[Len(events) + 1] = e
      BY <1>0, <1>1, <1>3 DEF TypeOK
    <3>2. e = IndexEvent(request', segment', k)
      BY <1>1, <1>3
    <3>3. QED
      BY <3>1, <3>2 DEF Posted, IndexEvent
  <2>2. CASE currentGeneration = activeGeneration /\ ~IsCharacter(request)
    <3>1. PostedUpTo(request, segment - 1)'
      BY <1>0, <1>1, <1>2, <1>4, <1>10, <2>2 DEF Relations, NothingSkipped, PostedUpTo
    <3>2. \A n \in 1 .. k - 1 : n <= Segments(request)[segment].indexes => Posted(request, segment, n)
      BY <1>0, <1>1, <1>2, <1>a, <2>2 DEF Relations, NothingSkipped
    <3>3. \A n \in 1 .. nextIndex' - 1 :
            n <= Segments(request)'[segment'].indexes => Posted(request, segment, n)'
      BY <1>1, <1>2, <1>4, <1>10, <2>1, <3>2
    <3>4. QED
      BY <1>1, <3>1, <3>3 DEF NothingSkipped, InSegment
  <2>3. CASE ~(currentGeneration = activeGeneration /\ ~IsCharacter(request))
    <3>1. IsCharacter(request)' <=> IsCharacter(request)
      BY <1>1, <1>4
    <3>2. QED
      BY <1>1, <2>3, <3>1 DEF NothingSkipped
  <2>4. QED
    BY <2>2, <2>3
<1>14. QED
  BY <1>10, <1>11, <1>12, <1>13 DEF Relations

(* Posting a completion or an error preserves the invariant. *)
LEMMA DispatchEndStep ==
    ASSUME IInv, NEW from, NEW kind, DispatchEnd(from, kind),
           \/ from = "complete" /\ kind = "done"
           \/ from = "dispatchError" /\ kind = "error"
    PROVE  Relations'
<1>0. TypeOK /\ Relations
  BY DEF IInv, Relations
<1>1. /\ pc = from /\ pc \in Ending /\ pc \in Holding /\ pc' = "finally" /\ pc' \in Holding
      /\ events' = Append(events, EndEvent(kind, request))
      /\ UNCHANGED <<pending, characterPending, activeGeneration, currentGeneration, stopping, shape,
                     segment, nextIndex, notified, played, cancelledUpTo>>
  BY DEF DispatchEnd, controllerVars, queueVars, mainVars, localVars, historyVars, Holding, Ending
<1>2. /\ Len(Segments(request)) \in Nat
      /\ activeGeneration # NoGen /\ activeGeneration <= Len(shape) /\ activeGeneration \in Nat
  BY <1>0, <1>1, ActiveFacts, MaxGenAssumption DEF Relations, Linked, TypeOK, Gen, NoGen
<1> DEFINE e == EndEvent(kind, request)
<1>3. /\ e \in Event
      /\ e.kind = kind /\ e.gen = activeGeneration /\ e.segment = Len(Segments(request)) + 1
  BY <1>0, <1>2, EventTypes DEF EndEvent, request
<1>4. AudioFirst(e)
  BY <1>3 DEF AudioFirst, request
<1>5. \A d \in Event : d.gen \in Nat /\ d.segment \in Nat
  BY MaxGenAssumption DEF Event, Gen
<1>6. \A d \in Event : BehindThread(d) /\ d.gen <= activeGeneration => Before(d, e)
  BY <1>1, <1>2, <1>3, <1>5 DEF BehindThread, Before
<1>7. \A d : BehindThread(d)'
  BY <1>1 DEF BehindThread, InSegment, Ending
<1>8. e.kind = "done" /\ ~IsCharacter(e.gen) /\ e.gen = currentGeneration => AllPosted(e.gen)
  BY <1>0, <1>1, <1>2, <1>3 DEF Relations, NothingSkipped, request
<1>9. /\ QueueOrder' /\ AllPast' /\ EventOrder' /\ NotificationsInOrder'
      /\ CompletionsWhole' /\ CompletedSpeechIsWhole' /\ CurrentIsFresh'
      /\ \A i \in 1 .. Len(events') : AudioFirst(events[i])'
      /\ \A i \in 1 .. Len(notified') : AudioFirst(notified[i])'
  <2>1. BehindThread(e)'
    BY <1>1 DEF BehindThread, InSegment, Ending
  <2>2. QED
    BY <1>1, <1>2, <1>3, <1>4, <1>6, <1>7, <1>8, <2>1, AppendFacts
<1>10. Linked' /\ AllAudioFirst' /\ NothingSkipped'
  BY <1>0, <1>1, <1>9 DEF Relations, Linked, AllAudioFirst, NothingSkipped, InSegment
<1>11. QED
  BY <1>9, <1>10 DEF Relations

(* Running the oldest callback preserves the invariant. *)
LEMMA DeliverStep ==
    ASSUME IInv, Deliver
    PROVE  Relations'
<1>0. TypeOK /\ Relations
  BY DEF IInv, Relations
<1>a. PICK h, n : h = Head(events) /\ n = Len(notified)
  OBVIOUS
<1>1. /\ events # <<>> /\ events' = Tail(events)
      /\ notified' = IF h.kind = "error" \/ IsCurrent(h.gen) THEN Append(notified, h) ELSE notified
      /\ UNCHANGED <<pending, characterPending, activeGeneration, currentGeneration, stopping, shape,
                     pc, segment, nextIndex, played, cancelledUpTo>>
      /\ request' = request
  BY <1>a DEF Deliver, controllerVars, queueVars, mainVars, localVars, request
<1>2. /\ Len(events) \in Nat \ {0} /\ h = events[1] /\ 1 \in 1 .. Len(events)
      /\ Len(events') = Len(events) - 1
      /\ \A i \in 1 .. Len(events') : i + 1 \in 1 .. Len(events) /\ events'[i] = events[i + 1]
      /\ \A i \in 1 .. Len(events) : i = 1 \/ (i - 1 \in 1 .. Len(events') /\ events'[i - 1] = events[i])
  BY <1>0, <1>1, <1>a DEF TypeOK
<1>3. h \in Event /\ h.gen \in Gen /\ h.gen \in 1 .. Len(shape)
  BY <1>0, <1>2, EventFacts DEF Relations
<1>4. /\ Len(notified) \in Nat
      /\ 1 .. Len(notified) \subseteq 1 .. Len(notified')
      /\ \A i \in 1 .. Len(notified) : notified'[i] = notified[i]
      /\ \A i \in 1 .. Len(notified') : \/ i \in 1 .. Len(notified)
                                        \/ /\ i = Len(notified) + 1 /\ notified'[i] = h
                                           /\ h.kind = "error" \/ IsCurrent(h.gen)
      /\ h.kind = "error" \/ IsCurrent(h.gen) =>
            Len(notified) + 1 \in 1 .. Len(notified') /\ notified'[Len(notified) + 1] = h
  <2>1. CASE h.kind = "error" \/ IsCurrent(h.gen)
    <3>1. /\ notified' = Append(notified, h) /\ Len(notified) \in Nat
          /\ Len(notified') = Len(notified) + 1
          /\ notified'[Len(notified) + 1] = h
          /\ \A i \in 1 .. Len(notified) : notified'[i] = notified[i]
      BY <1>0, <1>1, <1>3, <2>1 DEF TypeOK
    <3>2. QED
      BY <2>1, <3>1
  <2>2. CASE ~(h.kind = "error" \/ IsCurrent(h.gen))
    BY <1>0, <1>1, <2>2 DEF TypeOK
  <2>3. QED
    BY <2>1, <2>2
<1>5. \A g : Segments(g)' = Segments(g) /\ (IsCharacter(g)' <=> IsCharacter(g))
  BY <1>1 DEF Segments, IsCharacter, Category
<1>6. \A g, m : PlayedUpTo(g, m)' <=> PlayedUpTo(g, m)
  BY <1>1, <1>5 DEF PlayedUpTo
<1>7. Linked' /\ QueueOrder' /\ CurrentIsFresh'
  BY <1>0, <1>1, <1>5 DEF Relations, Linked, QueueOrder, CurrentIsFresh
<1>8. AllPast'
  <2>1. \A g : Past(g)' <=> Past(g)
    BY <1>1 DEF Past
  <2>2. /\ \A i \in 1 .. Len(events') : Past(events'[i].gen)
        /\ \A i \in 1 .. Len(notified') : Past(notified'[i].gen)
    BY <1>0, <1>2, <1>4 DEF Relations, AllPast
  <2>3. QED
    BY <1>0, <1>1, <2>1, <2>2 DEF Relations, AllPast
<1>9. EventOrder'
  <2>1. \A e : BehindThread(e) => BehindThread(e)'
    BY <1>1, <1>5 DEF BehindThread
  <2>2. \A i, j \in 1 .. Len(events') : i < j => Before(events'[i], events'[j])
    BY <1>0, <1>2 DEF Relations, EventOrder
  <2>3. \A j \in 1 .. Len(events') : Before(h, events'[j])
    BY <1>0, <1>2 DEF Relations, EventOrder
  <2>4. \A i \in 1 .. Len(notified'), j \in 1 .. Len(events') : Before(notified'[i], events'[j])
    BY <1>0, <1>2, <1>4, <2>3 DEF Relations, EventOrder
  <2>5. /\ \A i \in 1 .. Len(events') : BehindThread(events[i])'
        /\ \A i \in 1 .. Len(notified') : BehindThread(notified[i])'
    BY <1>0, <1>2, <1>4, <2>1 DEF Relations, EventOrder
  <2>6. QED
    BY <2>2, <2>4, <2>5 DEF EventOrder, Before
<1>10. NotificationsInOrder'
  <2>1. \A i \in 1 .. Len(notified) : Before(notified[i], h)
    BY <1>0, <1>2 DEF Relations, EventOrder
  <2>2. \A i, j \in 1 .. Len(notified') : i < j => Before(notified'[i], notified'[j])
    BY <1>0, <1>4, <2>1 DEF Relations, NotificationsInOrder
  <2>3. QED
    BY <2>2 DEF NotificationsInOrder, Before
<1>11. AllAudioFirst'
  <2>1. \A e : AudioFirst(e)' <=> AudioFirst(e)
    BY <1>5, <1>6 DEF AudioFirst
  <2>2. /\ \A i \in 1 .. Len(events') : AudioFirst(events[i])'
        /\ \A i \in 1 .. Len(notified') : AudioFirst(notified[i])'
    BY <1>0, <1>2, <1>4, <2>1 DEF Relations, AllAudioFirst
  <2>3. /\ PlayedUpTo(request, segment - 1)' <=> PlayedUpTo(request, segment - 1)
        /\ PlayedUpTo(request, segment)' <=> PlayedUpTo(request, segment)
    BY <1>1, <1>5 DEF PlayedUpTo
  <2>4. QED
    BY <1>0, <1>1, <2>2, <2>3 DEF Relations, AllAudioFirst
<1>12. \A s, k : currentGeneration # NoGen /\ Posted(currentGeneration, s, k)
                  => Posted(currentGeneration, s, k)'
  <2> SUFFICES ASSUME NEW g, g = currentGeneration, g # NoGen, NEW s, NEW k, Posted(g, s, k)
               PROVE  Posted(g, s, k)'
    BY <1>1 DEF Posted, IndexEvent
  <2>1. h.gen = g => IsCurrent(h.gen)
    BY <1>0 DEF Relations, CurrentIsFresh, IsCurrent
  <2>2. CASE \E i \in 1 .. Len(notified) : notified[i] = IndexEvent(g, s, k)
    BY <1>4, <2>2 DEF Posted, IndexEvent
  <2>3. CASE \E i \in 1 .. Len(events) : events[i] = IndexEvent(g, s, k)
    <3>1. PICK i \in 1 .. Len(events) : events[i] = IndexEvent(g, s, k)
      BY <2>3
    <3>2. CASE i = 1
      <4>1. h = IndexEvent(g, s, k) /\ h.gen = g
        BY <1>2, <3>1, <3>2 DEF IndexEvent
      <4>2. QED
        BY <1>4, <2>1, <4>1 DEF Posted, IndexEvent
    <3>3. CASE i # 1
      BY <1>2, <3>1, <3>3 DEF Posted, IndexEvent
    <3>4. QED
      BY <3>2, <3>3
  <2>4. QED
    BY <2>2, <2>3 DEF Posted
<1>13. NothingSkipped'
  <2> SUFFICES ASSUME currentGeneration = activeGeneration, activeGeneration # NoGen,
                      ~IsCharacter(request), NothingSkipped
               PROVE  NothingSkipped'
    BY <1>0, <1>1, <1>5 DEF NothingSkipped, Relations
  <2>1. \A s, k : Posted(request, s, k) => Posted(request, s, k)'
    BY <1>1, <1>12 DEF request, Posted, IndexEvent
  <2>2. /\ PostedUpTo(request, segment - 1) => PostedUpTo(request, segment - 1)'
        /\ AllPosted(request) => AllPosted(request)'
    BY <1>1, <1>5, <1>6, <2>1 DEF PostedUpTo, AllPosted, PlayedUpTo
  <2>3. QED
    BY <1>1, <1>5, <2>1, <2>2 DEF NothingSkipped
<1>14. CompletionsWhole'
  <2>1. currentGeneration # NoGen /\ AllPosted(currentGeneration) => AllPosted(currentGeneration)'
    BY <1>1, <1>5, <1>6, <1>12 DEF AllPosted, PostedUpTo, PlayedUpTo
  <2>2. ASSUME NEW i \in 1 .. Len(events'), events'[i].kind = "done",
               ~IsCharacter(events'[i].gen), events'[i].gen = currentGeneration
        PROVE  AllPosted(currentGeneration)'
    <3>1. AllPosted(currentGeneration)
      BY <1>0, <1>2, <2>2 DEF Relations, CompletionsWhole
    <3>2. currentGeneration # NoGen
      BY <1>0, <1>2, <2>2, EventFacts DEF Relations, Gen, NoGen
    <3>3. QED
      BY <2>1, <3>1, <3>2
  <2>3. QED
    BY <1>1, <1>5, <2>2 DEF CompletionsWhole
<1>15. CompletedSpeechIsWhole'
  <2>1. ASSUME NEW i \in 1 .. Len(notified), NEW g, WholeBefore(g, i)
        PROVE  WholeBefore(g, i)'
    BY <1>1, <1>4, <1>5, <2>1 DEF WholeBefore, IndexEvent
  <2>2. ASSUME h.kind = "done", ~IsCharacter(h.gen), IsCurrent(h.gen)
        PROVE  WholeBefore(h.gen, n + 1)'
    <3>1. h.gen = currentGeneration
      BY <1>0, <1>3, <2>2, StaleFacts DEF Relations
    <3>2. AllPosted(h.gen)
      BY <1>0, <1>2, <2>2, <3>1 DEF Relations, CompletionsWhole
    <3>3. h.segment = Len(Segments(h.gen)) + 1 /\ Len(Segments(h.gen)) \in Nat
      BY <1>0, <1>2, <1>3, <2>2, ShapeFacts DEF Relations, AllAudioFirst, AudioFirst
    <3>4. ASSUME NEW s \in 1 .. Len(Segments(h.gen)), NEW k, Posted(h.gen, s, k)
          PROVE  \E j \in 1 .. Len(notified) : notified[j] = IndexEvent(h.gen, s, k)
      <4>1. ASSUME NEW j \in 1 .. Len(events)
            PROVE  events[j] # IndexEvent(h.gen, s, k)
        <5>1. CASE j = 1
          BY <1>2, <2>2, <5>1 DEF IndexEvent
        <5>2. CASE j # 1
          <6>1. Before(h, events[j])
            BY <1>0, <1>2, <5>2 DEF Relations, EventOrder
          <6>2. h.gen \in Nat
            BY <1>3 DEF Gen
          <6>3. QED
            BY <3>3, <6>1, <6>2 DEF Before, IndexEvent
        <5>3. QED
          BY <5>1, <5>2
      <4>2. QED
        BY <3>4, <4>1 DEF Posted
    <3>5. /\ \A s \in 1 .. Len(Segments(h.gen)) :
                Segments(h.gen)[s].text # "empty" => <<h.gen, s>> \in played
          /\ \A s \in 1 .. Len(Segments(h.gen)) : \A k \in 1 .. Segments(h.gen)[s].indexes :
                \E j \in 1 .. Len(notified) : notified[j] = IndexEvent(h.gen, s, k)
      BY <3>2, <3>4 DEF AllPosted, PlayedUpTo, PostedUpTo
    <3>6. n \in Nat /\ n + 1 - 1 = Len(notified)
      BY <1>4, <1>a
    <3>7. QED
      BY <1>1, <1>4, <1>5, <3>5, <3>6 DEF WholeBefore, IndexEvent
  <2>3. ASSUME NEW i \in 1 .. Len(notified'), NEW e, e = notified'[i], e.kind = "done",
               ~IsCharacter(e.gen)
        PROVE  WholeBefore(e.gen, i)'
    <3>1. CASE i \in 1 .. Len(notified)
      <4>1. e = notified[i]
        BY <1>4, <2>3, <3>1
      <4>2. WholeBefore(e.gen, i)
        BY <1>0, <2>3, <3>1, <4>1 DEF Relations, CompletedSpeechIsWhole
      <4>3. QED
        BY <2>1, <3>1, <4>2
    <3>2. CASE i = Len(notified) + 1 /\ notified'[i] = h /\ (h.kind = "error" \/ IsCurrent(h.gen))
      <4>1. i = n + 1 /\ e = h /\ IsCurrent(h.gen)
        BY <1>a, <2>3, <3>2
      <4>2. QED
        BY <2>2, <2>3, <4>1
    <3>3. QED
      BY <1>4, <3>1, <3>2
  <2>4. QED
    BY <1>5, <2>3 DEF CompletedSpeechIsWhole
<1>16. QED
  BY <1>7, <1>8, <1>9, <1>10, <1>11, <1>13, <1>14, <1>15 DEF Relations

-----------------------------------------------------------------------------
(* The invariant, and what follows from it. *)

(* The initial state satisfies the invariant. *)
LEMMA InvInit == Init => IInv
<1> SUFFICES ASSUME Init PROVE IInv
  OBVIOUS
<1>1. TypeOK
  BY TypeInit
<1>2. /\ Len(shape) = 0 /\ Len(characterPending) = 0 /\ Len(events) = 0 /\ Len(notified) = 0
      /\ played = {} /\ pc \notin Holding /\ pc = "boot"
      /\ activeGeneration = NoGen /\ currentGeneration = NoGen /\ pending = NoGen /\ cancelledUpTo = 0
  BY DEF Init, Holding, InSegment, Ending
<1>3. Linked /\ QueueOrder /\ AllPast /\ EventOrder /\ CurrentIsFresh
  BY <1>2 DEF Linked, QueueOrder, AllPast, EventOrder, CurrentIsFresh, Holding, InSegment, NoGen
<1>4. NotificationsInOrder /\ AllAudioFirst /\ NothingSkipped /\ CompletionsWhole /\ CompletedSpeechIsWhole
  BY <1>2 DEF NotificationsInOrder, AllAudioFirst, NothingSkipped, CompletionsWhole,
     CompletedSpeechIsWhole, InSegment
<1>5. QED
  BY <1>1, <1>3, <1>4 DEF IInv

(* Every step preserves the invariant: one case per action. *)
LEMMA InvStep == IInv /\ [Next]_vars => IInv'
<1> SUFFICES ASSUME IInv, [Next]_vars PROVE IInv'
  OBVIOUS
<1>1. TypeOK'
  BY TypeStep DEF IInv
<1>2. Relations'
  <2>1. CASE UNCHANGED dataVars /\ SafeMove(pc')
    BY <2>1, SafeMoveStep
  <2>2. CASE \E s \in Shapes : Submit(s)
    BY <2>2, SubmitStep
  <2>3. CASE Cancel \/ Shutdown
    BY <2>3, CancelStep
  <2>4. CASE Deliver
    BY <2>4, DeliverStep
  <2>5. CASE Take
    BY <2>5, TakeStep
  <2>6. CASE ReadToken
    BY <2>6, ReadTokenStep
  <2>7. CASE /\ StartIndexes("segment") /\ UNCHANGED played
             /\ Segments(request)[segment].text = "empty" /\ segment <= Len(Segments(request))
    BY <2>7, StartIndexesStep
  <2>8. CASE StartIndexes("playing") /\ played' = played \union {<<request, segment>>}
    <3>1. segment <= Len(Segments(request))
      BY <2>8, ActiveFacts DEF IInv, Linked, StartIndexes, Holding, InSegment
    <3>2. QED
      BY <2>8, <3>1, StartIndexesStep
  <2>9. CASE DispatchIndex
    BY <2>9, DispatchIndexStep
  <2>10. CASE NextSegment
    BY <2>10, NextSegmentStep
  <2>11. CASE DispatchEnd("complete", "done") \/ DispatchEnd("dispatchError", "error")
    BY <2>11, DispatchEndStep
  <2>12. CASE Finally
    BY <2>12, FinallyStep
  <2>13. CASE Exit
    BY <2>13, ExitStep
  <2>14. QED
    BY WhichStep, <2>1, <2>2, <2>3, <2>4, <2>5, <2>6, <2>7, <2>8, <2>9, <2>10, <2>11, <2>12, <2>13
       DEF BusyStep
<1>3. QED
  BY <1>1, <1>2 DEF IInv, Relations

(* The invariant holds throughout. *)
LEMMA Invariant == Spec => []IInv
BY InvInit, InvStep, PTL DEF Spec

(* Every field of the controller and every local of _run keeps its type. *)
THEOREM TypeCorrect == Spec => []TypeOK
<1>1. IInv => TypeOK
  BY DEF IInv
<1>2. QED
  BY <1>1, Invariant, PTL

(* However submissions, cancellations, failures and the draining of NVDA's
   event queue interleave, NVDA is told of indexes, completions and errors in
   the order of the speech they belong to, and of each at most once. *)
THEOREM NotificationOrder == Spec => []NotificationsInOrder
<1>1. IInv => NotificationsInOrder
  BY DEF IInv
<1>2. QED
  BY <1>1, Invariant, PTL

(* No index is reported before the text of its segment and of every earlier
   segment of its request was played to the end. *)
THEOREM AudioBeforeIndex == Spec => []IndexAfterItsAudio
<1>1. IInv => IndexAfterItsAudio
  BY DEF IInv, AllAudioFirst, AudioFirst, PlayedUpTo, IndexAfterItsAudio
<1>2. QED
  BY <1>1, Invariant, PTL

(* A completion that NVDA hears of an ordered or navigation request comes after
   all its audio and all its indexes. *)
THEOREM CompletionIsWhole == Spec => []CompletedSpeechIsWhole
<1>1. IInv => CompletedSpeechIsWhole
  BY DEF IInv
<1>2. QED
  BY <1>1, Invariant, PTL

(* Only Deliver tells NVDA anything, and only of what is current. *)
LEMMA OnlyDeliverNotifies ==
    ASSUME [Next]_vars, notified' # notified
    PROVE  /\ Head(events).kind = "error" \/ IsCurrent(Head(events).gen)
           /\ events # <<>> /\ UNCHANGED cancelledUpTo
<1>1. CASE Deliver
  BY <1>1 DEF Deliver
<1>2. CASE ~Deliver
  <2>1. UNCHANGED notified
    BY <1>2 DEF Next, MainStep, ThreadStep, vars, Submit, Cancel, Interrupt, Shutdown, ShutdownStep,
       CallBridge, Join, Boot, Park, LeaveLoop, Take, FirstCheck, ReadToken, LoopHead, CacheLookup,
       Synthesize, CachePut, PlayCheck, Play, DispatchIndex, NextSegment, LastCheck, DispatchEnd,
       DispatchRaises, FailureCheck, ReportError, Finally, Exit, Goto, Check, StartIndexes, historyVars
  <2>2. QED
    BY <2>1
<1>3. QED
  BY <1>1, <1>2

(* After cancel() NVDA hears no index and no completion of an ordered or
   navigation request submitted before it, even of those already posted. *)
THEOREM CancelSilences == Spec => CancelledSpeechIsSilent
<1>1. ASSUME IInv, [Next]_vars
      PROVE  [notified' # notified /\ Head(events).kind # "error" /\ ~IsCharacter(Head(events).gen)
                => Head(events).gen > cancelledUpTo]_vars
  <2> SUFFICES ASSUME notified' # notified, Head(events).kind # "error", ~IsCharacter(Head(events).gen)
               PROVE  Head(events).gen > cancelledUpTo
    OBVIOUS
  <2>1. events # <<>> /\ IsCurrent(Head(events).gen)
    BY <1>1, OnlyDeliverNotifies
  <2>2. Head(events).gen \in Gen
    <3>1. Head(events) \in Event
      BY <1>1, <2>1 DEF IInv, TypeOK
    <3>2. QED
      BY <3>1 DEF Event
  <2>3. currentGeneration = Head(events).gen
    BY <1>1, <2>1, <2>2, StaleFacts DEF IInv
  <2>4. Head(events).gen # NoGen
    BY <2>2 DEF Gen, NoGen
  <2>5. QED
    BY <1>1, <2>3, <2>4 DEF IInv, CurrentIsFresh
<1>2. QED
  BY <1>1, Invariant, PTL DEF Spec, CancelledSpeechIsSilent

(* Only Take makes a request active. *)
LEMMA OnlyTakeActivates ==
    ASSUME [Next]_vars, activeGeneration' # activeGeneration, activeGeneration' # NoGen
    PROVE  Take
BY DEF Next, MainStep, ThreadStep, vars, controllerVars, Submit, Cancel, Interrupt, Shutdown,
   ShutdownStep, CallBridge, Join, Deliver, Boot, Park, LeaveLoop, FirstCheck, ReadToken, LoopHead,
   CacheLookup, Synthesize, CachePut, PlayCheck, Play, DispatchIndex, NextSegment, LastCheck,
   DispatchEnd, DispatchRaises, FailureCheck, ReportError, Finally, Exit, Goto, Check, StartIndexes

(* The one pending slot and the queue of characters together hand out requests
   in the order in which they were submitted, each at most once. *)
THEOREM OrderOfService == Spec => TakenInOrder
<1>1. ASSUME IInv, [Next]_vars
      PROVE  [activeGeneration' # activeGeneration /\ activeGeneration' # NoGen
                => /\ \A i \in 1 .. Len(notified) : notified[i].gen < activeGeneration'
                   /\ \A p \in played : p[1] < activeGeneration'
                   /\ \A i \in 1 .. Len(events) : events[i].gen < activeGeneration']_vars
  <2> SUFFICES ASSUME activeGeneration' # activeGeneration, activeGeneration' # NoGen
               PROVE  /\ \A i \in 1 .. Len(notified) : notified[i].gen < activeGeneration'
                      /\ \A p \in played : p[1] < activeGeneration'
                      /\ \A i \in 1 .. Len(events) : events[i].gen < activeGeneration'
    OBVIOUS
  <2>1. Take
    BY <1>1, OnlyTakeActivates
  <2>2. \A g : Past(g) => g < activeGeneration'
    <3>1. CASE pending # NoGen
      BY <2>1, <3>1 DEF Take, Past
    <3>2. CASE pending = NoGen
      <4>1. /\ 1 \in 1 .. Len(characterPending)
            /\ activeGeneration' = characterPending[1]
        BY <1>1, <2>1, <3>2 DEF Take, IInv, TypeOK
      <4>2. QED
        BY <4>1 DEF Past
    <3>3. QED
      BY <3>1, <3>2
  <2>3. QED
    BY <1>1, <2>2 DEF IInv, AllPast
<1>2. QED
  BY <1>1, Invariant, PTL DEF Spec, TakenInOrder
=============================================================================
