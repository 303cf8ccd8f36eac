------------------------- MODULE BackgroundController -------------------------
(***************************************************************************)
(* The background controller of the synthesizer driver                     *)
(* (_nvdaPiperDriver/backgroundController.py): NVDA's main thread submits, *)
(* cancels and shuts down; one controller thread takes one request at a    *)
(* time, has it synthesized by the runtime bridge and played by the        *)
(* driver's playResult callback, and posts index and completion callbacks  *)
(* on NVDA's event queue, which the main thread drains.                    *)
(*                                                                         *)
(* A step is what a thread does between two moments at which the other can *)
(* observe or disturb it: a critical section of self._condition, a call    *)
(* into the bridge, a call to dispatch.                                    *)
(***************************************************************************)
EXTENDS Integers, Sequences

CONSTANTS
    MaxGen,               \* bound: how many requests the main thread submits
    Shapes,               \* the utterances a request may carry
    CharacterQueueLimit,  \* CHARACTER_QUEUE_LIMIT
    Faults                \* the calls that may fail: "synthesis", "playback", "dispatch"

Gen == 1 .. MaxGen
NoGen == 0                \* None

(* A segment's text matters by its kind: empty; a character, the only kind the
   cache holds; plain; or longer than SHORT_REQUEST_CODE_POINTS.  indexesAfter
   is its length, an index its place in the utterance. *)
TextKinds == {"empty", "character", "plain", "long"}
Segment == [text: TextKinds, indexes: Nat]
Shape == [category: {"ordered", "navigation", "character"}, segments: Seq(Segment)]

ASSUME MaxGenAssumption == MaxGen \in Nat
ASSUME ShapesAssumption == Shapes \subseteq Shape
ASSUME LimitAssumption == CharacterQueueLimit \in Nat \ {0}

VARIABLES
    (* the controller's fields, guarded by self._condition *)
    pending, characterPending, dropped, activeGeneration, currentGeneration,
    stopping, state,
    (* main thread: its place in a controller call, the requests built so far *)
    caller, shape,
    (* controller thread: its place in _run, the locals of the segment loop *)
    pc, segment, nextIndex,
    tokenStale,  \* the bridge's cancellation token moved on since _run read it
    events,      \* NVDA's event queue
    (* history: what NVDA was told, which segments were played to the end, the
       newest request at the last cancel() *)
    notified, played, cancelledUpTo

queueVars == <<pending, characterPending, dropped>>
controllerVars == <<queueVars, activeGeneration, currentGeneration, stopping, state>>
mainVars == <<caller, shape>>
localVars == <<segment, nextIndex>>
historyVars == <<notified, played, cancelledUpTo>>
vars == <<controllerVars, mainVars, pc, localVars, tokenStale, events, historyVars>>

-----------------------------------------------------------------------------

Segments(g) == shape[g].segments
Category(g) == IF g = NoGen THEN "none" ELSE shape[g].category
IsCharacter(g) == Category(g) = "character"
IsShort(g) == Len(Segments(g)) = 1 /\ Segments(g)[1].text # "long"

(* The code keeps the categories of the current and the active request, and
   whether the latter is short, in fields of their own, written together with
   the generations they belong to. *)
currentRequestCategory == Category(currentGeneration)
activeRequestCategory == Category(activeGeneration)
activeShortRequest == activeGeneration # NoGen /\ IsShort(activeGeneration)

(* _run's local: what was taken is active until the finally block. *)
request == activeGeneration

(* Faulty variant: held-key characters do not keep one another valid. *)
IsCurrentNewestOnly(g) == ~stopping /\ currentGeneration = g

IsCurrent(g) ==
    /\ ~stopping
    /\ \/ /\ currentRequestCategory = "character"
          /\ activeRequestCategory = "character"
          /\ activeGeneration = g
       \/ currentGeneration = g

IndexEvent(g, s, i) == [kind |-> "index", gen |-> g, segment |-> s, index |-> i]
(* Faulty variant: the callback looks the generation up when it runs and finds
   none. *)
EndEventLateBound(kind, g) ==
    [kind |-> kind, gen |-> NoGen, segment |-> Len(Segments(g)) + 1, index |-> 0]
(* Completion and errors come after the last segment. *)
EndEvent(kind, g) == [kind |-> kind, gen |-> g, segment |-> Len(Segments(g)) + 1, index |-> 0]

(* Faulty variant: no notify(). *)
NotifyNobody == UNCHANGED pc

(* Condition.notify(): the only waiter is the controller thread. *)
Notify == pc' = IF pc = "parked" THEN "waiting" ELSE pc

Init ==
    /\ pending = NoGen /\ characterPending = <<>> /\ dropped = {}
    /\ activeGeneration = NoGen /\ currentGeneration = NoGen
    /\ stopping = FALSE /\ state = "starting"
    /\ caller = "idle" /\ shape = <<>>
    /\ pc = "boot" /\ segment = 1 /\ nextIndex = 1
    /\ tokenStale = FALSE /\ events = <<>>
    /\ notified = <<>> /\ played = {} /\ cancelledUpTo = 0

-----------------------------------------------------------------------------
(* The main thread. *)

(* Whether submit() ends with bridge.interrupt(); the new generation is never
   the active one. *)
SubmitInterrupts(s) ==
    /\ activeGeneration # NoGen
    /\ s.category # "character"
    /\ s.category = "navigation" \/ ~activeShortRequest

(* Faulty variant: ordered and navigation speech leaves the queued characters. *)
EnqueueBehindCharacters(s, g) ==
    \/ /\ s.category = "character" /\ Len(characterPending) >= CharacterQueueLimit
       /\ dropped' = dropped \union {g}
       /\ UNCHANGED <<pending, characterPending>>
    \/ /\ s.category = "character" /\ Len(characterPending) < CharacterQueueLimit
       /\ characterPending' = Append(characterPending, g)
       /\ UNCHANGED <<pending, dropped>>
    \/ /\ s.category # "character"
       /\ pending' = g
       /\ UNCHANGED <<characterPending, dropped>>

Enqueue(s, g) ==
    \/ /\ s.category = "character" /\ Len(characterPending) >= CharacterQueueLimit
       /\ dropped' = dropped \union {g}
       /\ UNCHANGED <<pending, characterPending>>
    \/ /\ s.category = "character" /\ Len(characterPending) < CharacterQueueLimit
       /\ characterPending' = Append(characterPending, g)
       /\ UNCHANGED <<pending, dropped>>
    \/ /\ s.category # "character"
       /\ characterPending' = <<>>
       /\ pending' = g
       /\ UNCHANGED dropped

(* submit() up to the release of the lock, of a request the driver has just
   numbered. *)
Submit(s) ==
    /\ caller = "idle" /\ ~stopping /\ Len(shape) < MaxGen
    /\ shape' = Append(shape, s)
    /\ currentGeneration' = Len(shape) + 1
    /\ Enqueue(s, Len(shape) + 1)
    /\ Notify
    /\ caller' = IF SubmitInterrupts(s) THEN "interrupt" ELSE "idle"
    /\ UNCHANGED <<activeGeneration, stopping, state, localVars, tokenStale, events, historyVars>>

ClearQueue == pending' = NoGen /\ characterPending' = <<>> /\ UNCHANGED dropped

(* cancel() up to the release of the lock. *)
Cancel ==
    /\ caller = "idle"
    /\ currentGeneration' = NoGen
    /\ ClearQueue
    /\ Notify
    /\ caller' = IF activeGeneration # NoGen THEN "interrupt" ELSE "idle"
    /\ cancelledUpTo' = Len(shape)
    /\ UNCHANGED <<activeGeneration, stopping, state, shape, localVars, tokenStale,
                   events, notified, played>>

(* Faulty variant: a parked thread is not woken. *)
ShutdownSilently ==
    /\ caller = "idle" /\ state # "stopped"
    /\ stopping' = TRUE /\ state' = "stopping"
    /\ currentGeneration' = NoGen
    /\ ClearQueue
    /\ caller' = "shutdownInterrupt"
    /\ UNCHANGED <<activeGeneration, shape, pc, localVars, tokenStale, events, historyVars>>

(* shutdown() up to the release of the lock. *)
Shutdown ==
    /\ caller = "idle" /\ state # "stopped"
    /\ stopping' = TRUE /\ state' = "stopping"
    /\ currentGeneration' = NoGen
    /\ ClearQueue
    /\ Notify
    /\ caller' = "shutdownInterrupt"
    /\ UNCHANGED <<activeGeneration, shape, localVars, tokenStale, events, historyVars>>

(* A call outside the lock; interrupt(), forceStop() and stop() all advance
   the bridge's token. *)
CallBridge(from, to) ==
    /\ caller = from /\ caller' = to
    /\ tokenStale' = TRUE
    /\ UNCHANGED <<controllerVars, shape, pc, localVars, events, historyVars>>

Join(from, to) ==
    /\ caller = from /\ caller' = to
    /\ UNCHANGED <<controllerVars, shape, pc, localVars, tokenStale, events, historyVars>>

Interrupt == CallBridge("interrupt", "idle")

(* The rest of shutdown(): the first join may time out, which makes it call
   forceStop and join again. *)
ShutdownStep ==
    \/ CallBridge("shutdownInterrupt", "join")
    \/ Join("join", "stop") /\ pc = "dead"
    \/ CallBridge("join", "forcedJoin") /\ pc # "dead"
    \/ Join("forcedJoin", "stop")
    \/ CallBridge("stop", "idle")

(* Faulty variants: delivery trusts the checks made when the event was posted,
   or reports only what still runs. *)
DeliverUnchecked ==
    /\ caller = "idle" /\ events # <<>>
    /\ events' = Tail(events)
    /\ notified' = Append(notified, Head(events))
    /\ UNCHANGED <<controllerVars, mainVars, pc, localVars, tokenStale, played, cancelledUpTo>>

DeliverOnlyActive ==
    /\ caller = "idle" /\ events # <<>>
    /\ events' = Tail(events)
    /\ notified' = IF Head(events).gen = activeGeneration THEN Append(notified, Head(events))
                     ELSE notified
    /\ UNCHANGED <<controllerVars, mainVars, pc, localVars, tokenStale, played, cancelledUpTo>>

(* NVDA runs the oldest callback: _deliverIndex and _deliverCompletion ask
   isCurrent again, an error is reported whatever is current. *)
Deliver ==
    /\ caller = "idle" /\ events # <<>>
    /\ events' = Tail(events)
    /\ notified' = IF Head(events).kind = "error" \/ IsCurrent(Head(events).gen)
                     THEN Append(notified, Head(events))
                     ELSE notified
    /\ UNCHANGED <<controllerVars, mainVars, pc, localVars, tokenStale, played, cancelledUpTo>>

-----------------------------------------------------------------------------
(* The controller thread. *)

(* The thread moves on and touches nothing. *)
Goto(from, to) ==
    /\ pc = from /\ pc' = to
    /\ UNCHANGED <<controllerVars, mainVars, localVars, tokenStale, events, historyVars>>

(* It asks _isRequestCurrent and branches. *)
Check(from, current, stale) ==
    \/ Goto(from, current) /\ IsCurrent(request)
    \/ Goto(from, stale) /\ ~IsCurrent(request)

Boot ==
    /\ pc = "boot" /\ pc' = "waiting"
    /\ state' = "ready"
    /\ UNCHANGED <<queueVars, activeGeneration, currentGeneration, stopping, mainVars,
                   localVars, tokenStale, events, historyVars>>

Park == Goto("waiting", "parked") /\ ~stopping /\ pending = NoGen /\ characterPending = <<>>
LeaveLoop == Goto("waiting", "leaving") /\ stopping

(* Faulty variant: characters first. *)
TakeCharacterFirst ==
    /\ pc = "waiting" /\ ~stopping
    /\ \/ /\ characterPending # <<>>
          /\ activeGeneration' = Head(characterPending)
          /\ characterPending' = Tail(characterPending)
          /\ UNCHANGED pending
       \/ /\ characterPending = <<>> /\ pending # NoGen
          /\ activeGeneration' = pending
          /\ pending' = NoGen
          /\ UNCHANGED characterPending
    /\ state' = "active"
    /\ pc' = "taken"
    /\ UNCHANGED <<dropped, currentGeneration, stopping, mainVars, localVars,
                   tokenStale, events, historyVars>>

(* The pending request goes before the queued characters. *)
Take ==
    /\ pc = "waiting" /\ ~stopping
    /\ \/ /\ pending # NoGen
          /\ activeGeneration' = pending
          /\ pending' = NoGen
          /\ UNCHANGED characterPending
       \/ /\ pending = NoGen /\ characterPending # <<>>
          /\ activeGeneration' = Head(characterPending)
          /\ characterPending' = Tail(characterPending)
          /\ UNCHANGED pending
    /\ state' = "active"
    /\ pc' = "taken"
    /\ UNCHANGED <<dropped, currentGeneration, stopping, mainVars, localVars,
                   tokenStale, events, historyVars>>

(* A request without segments completes at once. *)
FirstCheck ==
    pc = "taken" /\ Check("taken", IF Segments(request) = <<>> THEN "complete" ELSE "readToken",
                          "finally")

ReadToken ==
    /\ pc = "readToken" /\ pc' = "segment"
    /\ tokenStale' = FALSE
    /\ segment' = 1
    /\ UNCHANGED <<controllerVars, mainVars, nextIndex, events, historyVars>>

StartIndexes(from) ==
    /\ pc = from /\ pc' = "indexes"
    /\ nextIndex' = 1
    /\ UNCHANGED <<controllerVars, mainVars, segment, tokenStale, events, notified, cancelledUpTo>>

(* The head of the segment loop; only a segment with text is synthesized. *)
LoopHead ==
    \/ Goto("segment", "lastCheck") /\ (segment > Len(Segments(request)) \/ ~IsCurrent(request))
    \/ /\ pc = "segment" /\ segment <= Len(Segments(request)) /\ IsCurrent(request)
       /\ \/ Segments(request)[segment].text # "empty" /\ Goto("segment", "lookup")
          \/ Segments(request)[segment].text = "empty" /\ StartIndexes("segment") /\ UNCHANGED played

(* cacheGet answers only for characters; a hit bypasses the bridge. *)
CacheLookup ==
    \/ Goto("lookup", "playCheck") /\ Segments(request)[segment].text = "character"
    \/ Goto("lookup", "synthesize")

(* bridge.synthesize compares the token when it is called and again when the
   worker has answered: RuntimeBridgeCancelled ends the request in silence.  An
   interrupt that meets the worker's start-up surfaces as a worker error, so
   an error may come under a stale token too. *)
Synthesize ==
    \/ Goto("synthesize", "synthesizing") /\ ~tokenStale
    \/ Goto("synthesize", "finally") /\ tokenStale
    \/ Goto("synthesizing", "cachePut") /\ ~tokenStale
    \/ Goto("synthesizing", "finally") /\ tokenStale
    \/ Goto("synthesizing", "failure") /\ "synthesis" \in Faults

(* cachePut, skipped for a stale request, changes nothing modelled here. *)
CachePut == Goto("cachePut", "playCheck")

PlayCheck == Check("playCheck", "playing", "lastCheck")

(* Faulty variant: the verdict is that of the check before playback. *)
PlayTrustsFirstCheck ==
    \/ Goto("playing", "failure") /\ "playback" \in Faults
    \/ /\ StartIndexes("playing")
       /\ played' = IF IsCurrent(request) THEN played \union {<<request, segment>>} ELSE played

(* playResult returns the verdict of the last isCurrent it asks: False as soon
   as one fails, True when the one after the drain succeeds. *)
Play ==
    \/ Goto("playing", "lastCheck") /\ ~IsCurrent(request)
    \/ Goto("playing", "failure") /\ "playback" \in Faults
    \/ /\ StartIndexes("playing")
       /\ IsCurrent(request)
       /\ played' = played \union {<<request, segment>>}

DispatchIndex ==
    /\ pc = "indexes" /\ nextIndex <= Segments(request)[segment].indexes
    /\ events' = Append(events, IndexEvent(request, segment, nextIndex))
    /\ nextIndex' = nextIndex + 1
    /\ UNCHANGED <<controllerVars, mainVars, pc, segment, tokenStale, historyVars>>

NextSegment ==
    /\ pc = "indexes" /\ nextIndex > Segments(request)[segment].indexes
    /\ pc' = "segment"
    /\ segment' = segment + 1
    /\ UNCHANGED <<controllerVars, mainVars, nextIndex, tokenStale, events, historyVars>>

(* After the loop, however it ended. *)
LastCheck == Check("lastCheck", "complete", "finally")

DispatchEnd(from, kind) ==
    /\ pc = from /\ pc' = "finally"
    /\ events' = Append(events, EndEvent(kind, request))
    /\ UNCHANGED <<controllerVars, mainVars, localVars, tokenStale, historyVars>>

(* dispatch itself raises: an internal error, or nothing when what it should
   have posted was an error. *)
DispatchRaises ==
    /\ "dispatch" \in Faults
    /\ \/ Goto("indexes", "failure") /\ nextIndex <= Segments(request)[segment].indexes
       \/ Goto("complete", "failure")
       \/ Goto("dispatchError", "finally")

(* Faulty variant: a failed request completes. *)
FailureCompletes == Check("failure", "complete", "finally")

FailureCheck == Check("failure", "reportError", "finally")

(* The critical section of _reportError; the error code is left out. *)
ReportError ==
    /\ pc = "reportError" /\ pc' = "dispatchError"
    /\ state' = "failed"
    /\ UNCHANGED <<queueVars, activeGeneration, currentGeneration, stopping, mainVars,
                   localVars, tokenStale, events, historyVars>>

Finally ==
    /\ pc = "finally" /\ pc' = "waiting"
    /\ activeGeneration' = NoGen
    /\ state' = IF stopping THEN state ELSE "ready"
    /\ UNCHANGED <<queueVars, currentGeneration, stopping, mainVars, localVars,
                   tokenStale, events, historyVars>>

Exit ==
    /\ pc = "leaving" /\ pc' = "dead"
    /\ activeGeneration' = NoGen
    /\ ClearQueue
    /\ state' = "stopped"
    /\ UNCHANGED <<currentGeneration, stopping, mainVars, localVars, tokenStale,
                   events, historyVars>>

-----------------------------------------------------------------------------

MainStep ==
    \/ \E s \in Shapes : Submit(s)
    \/ Cancel \/ Interrupt \/ Shutdown \/ ShutdownStep \/ Deliver

ThreadStep ==
    \/ Boot \/ Park \/ LeaveLoop \/ Take \/ FirstCheck \/ ReadToken \/ LoopHead
    \/ CacheLookup \/ Synthesize \/ CachePut \/ PlayCheck \/ Play
    \/ DispatchIndex \/ NextSegment \/ LastCheck \/ DispatchEnd("complete", "done")
    \/ DispatchRaises \/ FailureCheck \/ ReportError \/ DispatchEnd("dispatchError", "error")
    \/ Finally \/ Exit

Next == MainStep \/ ThreadStep

Spec == Init /\ [][Next]_vars

(* The operating system runs both threads; the worker answers, playback drains,
   the main thread returns from the calls it is in and drains its queue.  Nobody
   is obliged to submit, cancel or shut down. *)
FairSpec ==
    /\ Spec
    /\ WF_vars(ThreadStep)
    /\ WF_vars(Interrupt \/ ShutdownStep)
    /\ WF_vars(Deliver)

-----------------------------------------------------------------------------
(* Properties. *)

Places == {"boot", "waiting", "parked", "taken", "readToken", "segment", "lookup",
           "synthesize", "synthesizing", "cachePut", "playCheck", "playing",
           "indexes", "lastCheck", "complete", "failure", "reportError",
           "dispatchError", "finally", "leaving", "dead"}

Event == [kind: {"index", "done", "error"}, gen: Gen, segment: Nat, index: Nat]

(* Every field of the controller and every local of _run keeps its type. *)
TypeOK ==
    /\ pending \in Gen \union {NoGen}
    /\ characterPending \in Seq(Gen)
    /\ dropped \subseteq Gen
    /\ activeGeneration \in Gen \union {NoGen}
    /\ currentGeneration \in Gen \union {NoGen}
    /\ stopping \in BOOLEAN
    /\ state \in {"starting", "ready", "active", "failed", "stopping", "stopped"}
    /\ caller \in {"idle", "interrupt", "shutdownInterrupt", "join", "forcedJoin", "stop"}
    /\ shape \in Seq(Shapes)
    /\ Len(shape) <= MaxGen
    /\ pc \in Places
    /\ segment \in Nat
    /\ nextIndex \in Nat
    /\ tokenStale \in BOOLEAN
    /\ events \in Seq(Event)
    /\ notified \in Seq(Event)
    /\ played \subseteq Gen \X Nat
    /\ cancelledUpTo \in 0 .. MaxGen

(* The order in which an utterance's notifications belong, requests being
   numbered in the order NVDA spoke them. *)
Before(d, e) ==
    \/ d.gen < e.gen
    \/ d.gen = e.gen /\ d.segment < e.segment
    \/ d.gen = e.gen /\ d.segment = e.segment /\ d.index < e.index

(* NVDA is told of indexes, completions and errors in the order of the speech
   they belong to: no index twice or before an earlier one, nothing of a
   request after its completion or error, at most one of these two, and
   nothing of a request after something of a later one. *)
NotificationsInOrder ==
    \A i, j \in 1 .. Len(notified) : i < j => Before(notified[i], notified[j])

(* "It emits no callback before the preceding audio boundary": an index is
   reported only when the text of its segment and of every segment before it
   has been played to the end, whatever was submitted or cancelled since. *)
IndexAfterItsAudio ==
    \A i \in 1 .. Len(notified) :
        LET e == notified[i] IN
        e.kind = "index" =>
            \A s \in 1 .. e.segment :
                Segments(e.gen)[s].text # "empty" => <<e.gen, s>> \in played

(* Everything of request g was played and reported before position i. *)
WholeBefore(g, i) ==
    \A s \in 1 .. Len(Segments(g)) :
        /\ Segments(g)[s].text # "empty" => <<g, s>> \in played
        /\ \A k \in 1 .. Segments(g)[s].indexes :
            \E j \in 1 .. i - 1 : notified[j] = IndexEvent(g, s, k)

(* When NVDA is told that an ordered or navigation request is done, all its
   text was played and all its indexes were reported before. *)
CompletedSpeechIsWhole ==
    \A i \in 1 .. Len(notified) :
        notified[i].kind = "done" /\ ~IsCharacter(notified[i].gen)
            => WholeBefore(notified[i].gen, i)

(* After cancel() NVDA hears no index and no completion of an ordered or
   navigation request submitted before it. *)
CancelledSpeechIsSilent ==
    [][notified' # notified /\ Head(events).kind # "error" /\ ~IsCharacter(Head(events).gen)
        => Head(events).gen > cancelledUpTo]_vars

(* The same for every request, characters included. *)
CancelledIsSilent ==
    [][notified' # notified /\ Head(events).kind # "error"
        => Head(events).gen > cancelledUpTo]_vars

(* Requests are taken in the order they were submitted, whatever slot they
   waited in, and each at most once. *)
TakenInOrder ==
    [][activeGeneration' # activeGeneration /\ activeGeneration' # NoGen
        => /\ \A i \in 1 .. Len(notified) : notified[i].gen < activeGeneration'
           /\ \A p \in played : p[1] < activeGeneration'
           /\ \A i \in 1 .. Len(events) : events[i].gen < activeGeneration']_vars

Waiting(g) == pending = g \/ \E i \in 1 .. Len(characterPending) : characterPending[i] = g

(* No request waits or runs for ever: it is replaced, cleared or taken, and
   the thread gets rid of what it has taken (finally always runs). *)
RequestsAreRetired ==
    \A g \in Gen : Waiting(g) \/ activeGeneration = g ~> ~Waiting(g) /\ activeGeneration # g

(* shutdown() ends the controller thread, also when it waits on its condition,
   has not run yet or is inside the bridge. *)
ShutdownStopsThread == stopping ~> pc = "dead"

(* A request that is being synthesized or played under a fresh token, with no
   interrupt on its way, is completed unless it fails or stops being current. *)
StartedSpeechFinishes ==
    \A g \in Gen :
        /\ request = g
        /\ pc \in {"segment", "lookup", "synthesize", "synthesizing", "cachePut",
                   "playCheck", "playing", "indexes"}
        /\ currentGeneration = g
        /\ ~tokenStale
        /\ caller = "idle"
        ~> \/ currentGeneration # g \/ state = "failed"
           \/ \E i \in 1 .. Len(notified) : notified[i] = EndEvent("done", g)

(* Held-key typing: a character that was accepted into the queue is played,
   unless it or one before it fails, or something that is not a character takes
   over. *)
QueuedCharactersArePlayed ==
    \A g \in Gen :
        (\E i \in 1 .. Len(characterPending) : characterPending[i] = g)
        ~> <<g, 1>> \in played \/ state = "failed" \/ currentRequestCategory # "character"

(* The newest request is not lost: it completes, or fails, or is superseded. *)
NewestIsNotLost ==
    \A g \in Gen :
        currentGeneration = g /\ g \notin dropped
        ~> \/ currentGeneration # g
           \/ \E i \in 1 .. Len(notified) : notified[i].gen = g /\ notified[i].kind # "index"
=============================================================================
