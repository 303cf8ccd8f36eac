------------------------------ MODULE SpeechDriver ------------------------------
(***************************************************************************)
(* The audio half of the synthesizer driver (synthDrivers/nvdaPiperDriver.py) *)
(* around its background controller: speak, cancel and terminate on NVDA's  *)
(* main thread stop and close the wave player that playResult, on the       *)
(* controller thread, opens, feeds and drains.  self._audioLock guards the  *)
(* player; whether a result may still be heard is for the controller to say. *)
(*                                                                         *)
(* BackgroundController has playResult as one step, Play; here it is done   *)
(* chunk by chunk.                                                          *)
(***************************************************************************)
EXTENDS Integers, Sequences, Functions

CONSTANTS
    MaxGen, Shapes, CharacterQueueLimit, Faults,   \* of the controller
    Chunks,         \* how many 50 ms chunks a result has
    DeviceChunks,   \* how many of them the device buffers before feed() blocks
    MaxPlayers      \* bound: how often a player is opened

ASSUME AudioAssumption == {Chunks, DeviceChunks, MaxPlayers} \subseteq Nat \ {0}

VARIABLES
    pending, characterPending, dropped, activeGeneration, currentGeneration,
    stopping, state, caller, shape, pc, segment, nextIndex, tokenStale, events,
    notified, played, cancelledUpTo

Controller == INSTANCE BackgroundController

ASSUME ControllerAssumption ==
    MaxGen \in Nat /\ Shapes \subseteq Controller!Shape /\ CharacterQueueLimit \in Nat \ {0}

VARIABLES
    lifecycle,     \* _state
    player,        \* _player: the number of the open one, the last of those opened
    opened,        \* how many were
    audioLock,     \* who holds _audioLock between two steps
    buffer,        \* chunks fed and not heard yet, as <<generation, segment>>
    (* main thread: its place in speak, cancel or terminate; the utterance to submit *)
    call, utterance,
    (* controller thread: its place in playResult, its local player, the next chunk *)
    place, local, chunk,
    (* history: segments of which a chunk was thrown away unheard, the newest
       request when cancel() last returned *)
    cut, silencedUpTo

controllerVars ==
    <<pending, characterPending, dropped, activeGeneration, currentGeneration, stopping, state,
      caller, shape, pc, segment, nextIndex, tokenStale, events, notified, played, cancelledUpTo>>
audioVars == <<player, opened, audioLock, buffer, cut>>
callVars == <<lifecycle, call, utterance, silencedUpTo>>
playVars == <<place, local, chunk>>
driverVars == <<audioVars, callVars, playVars>>
vars == <<controllerVars, driverVars>>

None == 0
request == Controller!request

Init ==
    /\ Controller!Init
    /\ lifecycle = "ready"
    /\ player = None /\ opened = 0 /\ audioLock = "free" /\ buffer = <<>>
    /\ call = "idle" /\ utterance = <<>>
    /\ place = "enter" /\ local = None /\ chunk = 1
    /\ cut = {} /\ silencedUpTo = 0

-----------------------------------------------------------------------------
(* The player.  Stopping and closing throw away what has not been heard. *)

Discard == buffer' = <<>> /\ cut' = cut \union Range(buffer)

StopPlayer ==
    /\ audioLock = "free"
    /\ IF player = None THEN UNCHANGED <<buffer, cut>> ELSE Discard
    /\ UNCHANGED <<player, opened, audioLock>>

ClosePlayer ==
    /\ audioLock = "free"
    /\ player' = None
    /\ Discard
    /\ UNCHANGED <<opened, audioLock>>

(* The device plays the oldest chunk. *)
Hear ==
    /\ buffer # <<>> /\ buffer' = Tail(buffer)
    /\ UNCHANGED <<controllerVars, player, opened, audioLock, cut, callVars, playVars>>

-----------------------------------------------------------------------------
(* The main thread. *)

Idle == call = "idle" /\ caller = "idle"

(* speak(), of an utterance that converts: one that may wait for nothing stops
   what is being played. *)
Speak(s) ==
    /\ Idle /\ lifecycle = "ready" /\ Len(shape) < MaxGen
    /\ call' = IF s.category # "character" /\ activeGeneration # None THEN "stop" ELSE "submit"
    /\ utterance' = <<s>>
    /\ UNCHANGED <<controllerVars, audioVars, playVars, lifecycle, silencedUpTo>>

SpeakStop ==
    /\ call = "stop" /\ call' = "submit"
    /\ StopPlayer
    /\ UNCHANGED <<controllerVars, playVars, lifecycle, utterance, silencedUpTo>>

SpeakSubmit ==
    /\ call = "submit" /\ call' = "idle"
    /\ \E s \in Range(utterance) : Controller!Submit(s)
    /\ utterance' = <<>>
    /\ UNCHANGED <<audioVars, playVars, lifecycle, silencedUpTo>>

(* cancel() revokes first and stops then; terminate() begins with it. *)
Revoke(next) ==
    /\ Idle /\ lifecycle = "ready"
    /\ Controller!Cancel
    /\ call' = next
    /\ UNCHANGED <<audioVars, playVars, lifecycle, utterance, silencedUpTo>>

Silence(from, to) ==
    /\ call = from /\ caller = "idle" /\ call' = to
    /\ StopPlayer
    /\ silencedUpTo' = cancelledUpTo
    /\ UNCHANGED <<controllerVars, playVars, lifecycle, utterance>>

Cancel == Revoke("cancelling") \/ Silence("cancelling", "idle")

Shutdown ==
    /\ call = "shutdown" /\ call' = "close"
    /\ Controller!Shutdown
    /\ UNCHANGED <<audioVars, playVars, lifecycle, utterance, silencedUpTo>>

Close ==
    /\ call = "close" /\ caller = "idle" /\ call' = "idle"
    /\ ClosePlayer
    /\ lifecycle' = "terminated"
    /\ UNCHANGED <<controllerVars, playVars, utterance, silencedUpTo>>

Terminate == Revoke("terminating") \/ Silence("terminating", "shutdown") \/ Shutdown \/ Close

(* The rest of the controller's calls, and NVDA's queue when no call is on. *)
ControllerCall ==
    /\ Controller!Interrupt \/ Controller!ShutdownStep \/ (call = "idle" /\ Controller!Deliver)
    /\ UNCHANGED driverVars

-----------------------------------------------------------------------------
(* The controller thread in playResult. *)

At(p) == pc = "playing" /\ place = p

Move(to) == place' = to /\ UNCHANGED <<controllerVars, callVars>>

(* Every check of isCurrent that fails ends it. *)
Refuse ==
    /\ \/ At("enter") \/ At("verdict")
       \/ (At("open") \/ At("check")) /\ audioLock = "free"
    /\ ~Controller!IsCurrent(request)
    /\ Controller!Goto("playing", "lastCheck")
    /\ place' = "enter"
    /\ UNCHANGED <<audioVars, callVars, local, chunk>>

Enter ==
    /\ At("enter") /\ Controller!IsCurrent(request)
    /\ Move("open")
    /\ UNCHANGED <<audioVars, local, chunk>>

(* Faulty variant: no second check under the lock. *)
OpenUnchecked ==
    /\ At("open") /\ audioLock = "free"
    /\ \/ player # None /\ UNCHANGED <<player, opened, buffer, cut>>
       \/ /\ opened < MaxPlayers
          /\ opened' = opened + 1 /\ player' = opened'
          /\ Discard
    /\ local' = player' /\ chunk' = 1
    /\ Move("check")
    /\ UNCHANGED audioLock

(* The player there is will do, or one is opened in its place. *)
Open ==
    /\ At("open") /\ audioLock = "free" /\ Controller!IsCurrent(request)
    /\ \/ player # None /\ UNCHANGED <<player, opened, buffer, cut>>
       \/ /\ opened < MaxPlayers
          /\ opened' = opened + 1 /\ player' = opened'
          /\ Discard
    /\ local' = player' /\ chunk' = 1
    /\ Move("check")
    /\ UNCHANGED audioLock

(* Faulty variant: the lock is not kept from the check to the feed. *)
CheckChunkUnlocked ==
    /\ At("check") /\ audioLock = "free" /\ Controller!IsCurrent(request)
    /\ Move("feed")
    /\ UNCHANGED <<audioVars, local, chunk>>

CheckChunk ==
    /\ At("check") /\ audioLock = "free" /\ Controller!IsCurrent(request)
    /\ audioLock' = "thread"
    /\ Move("feed")
    /\ UNCHANGED <<player, opened, buffer, cut, local, chunk>>

(* player.feed() returns when the device has room. *)
Feed ==
    /\ At("feed") /\ Len(buffer) < DeviceChunks
    /\ buffer' = Append(buffer, <<request, segment>>)
    /\ audioLock' = "free"
    /\ chunk' = chunk + 1
    /\ Move(IF chunk < Chunks THEN "check" ELSE "drain")
    /\ UNCHANGED <<player, opened, cut, local>>

(* Faulty variant: playback is not drained. *)
DrainAtOnce ==
    /\ At("drain")
    /\ Move("verdict")
    /\ UNCHANGED <<audioVars, local, chunk>>

(* player.idle() returns when everything was heard or thrown away. *)
Drain ==
    /\ At("drain") /\ (buffer = <<>> \/ local # player)
    /\ Move("verdict")
    /\ UNCHANGED <<audioVars, local, chunk>>

(* Faulty variant: what was fed counts as played. *)
AcceptUnchecked ==
    /\ At("verdict")
    /\ Controller!StartIndexes("playing")
    /\ played' = played \union {<<request, segment>>}
    /\ place' = "enter"
    /\ UNCHANGED <<audioVars, callVars, local, chunk>>

(* The result was played: the controller goes on to its indexes. *)
Accept ==
    /\ At("verdict")
    /\ Controller!Play /\ pc' = "indexes"
    /\ place' = "enter"
    /\ UNCHANGED <<audioVars, callVars, local, chunk>>

(* Faulty variant: the lock is not released. *)
PlayerRaisesLocked ==
    /\ "playback" \in Faults
    /\ At("feed") \/ At("drain") \/ (At("open") /\ audioLock = "free" /\ opened < MaxPlayers)
    /\ Controller!Goto("playing", "failure")
    /\ place' = "enter"
    /\ UNCHANGED <<audioVars, callVars, local, chunk>>

(* The player raises while it is opened, fed or drained; with releases the lock. *)
PlayerRaises ==
    /\ "playback" \in Faults
    /\ At("feed") \/ At("drain") \/ (At("open") /\ audioLock = "free" /\ opened < MaxPlayers)
    /\ Controller!Goto("playing", "failure")
    /\ place' = "enter"
    /\ audioLock' = "free"
    /\ UNCHANGED <<player, opened, buffer, cut, callVars, local, chunk>>

PlayResult ==
    \/ Refuse \/ Enter \/ Open \/ CheckChunk \/ Feed \/ Drain \/ Accept \/ PlayerRaises

-----------------------------------------------------------------------------

MainStep == SpeakStop \/ SpeakSubmit \/ Cancel \/ Terminate \/ ControllerCall
            \/ \E s \in Shapes : Speak(s)

ThreadStep == PlayResult \/ (pc # "playing" /\ Controller!ThreadStep /\ UNCHANGED driverVars)

(* Nothing is left to do. *)
Finished ==
    /\ lifecycle = "terminated" /\ pc = "dead" /\ events = <<>> /\ buffer = <<>>
    /\ UNCHANGED vars

Next == MainStep \/ ThreadStep \/ Hear \/ Finished

Spec == Init /\ [][Next]_vars

-----------------------------------------------------------------------------
(* Properties. *)

(* The player, its lock and the places of the two threads keep their types. *)
TypeOK ==
    /\ lifecycle \in {"ready", "terminated"}
    /\ opened \in 0 .. MaxPlayers /\ player \in {None, opened} /\ local \in 0 .. opened
    /\ audioLock = IF place = "feed" THEN "thread" ELSE "free"
    /\ buffer \in Seq(Controller!Gen \X (Nat \ {0})) /\ Len(buffer) <= DeviceChunks
    /\ call \in {"idle", "stop", "submit", "cancelling", "terminating", "shutdown", "close"}
    /\ utterance \in {<<>>} \union {<<s>> : s \in Shapes}
    /\ place \in {"enter", "open", "check", "feed", "drain", "verdict"}
    /\ chunk \in 1 .. Chunks + 1
    /\ silencedUpTo \in 0 .. cancelledUpTo

(* playResult, chunk by chunk, against a main thread that stops and closes its
   player, is to the controller the one step Play. *)
ImplementsController == Controller!Spec

(* When cancel() has returned nothing of ordered or navigation speech submitted
   before it is or gets into the device. *)
CancelledAudioIsGone ==
    \A i \in 1 .. Len(buffer) :
        buffer[i][1] > silencedUpTo \/ Controller!IsCharacter(buffer[i][1])

(* An index of ordered or navigation speech is reported only if no audio of its
   request up to there was thrown away: neither by speech that came later, which
   stops the player, nor by speech that came before. *)
ReportedSpeechWasHeard ==
    \A i \in 1 .. Len(notified) :
        LET e == notified[i] IN
        e.kind = "index" /\ ~Controller!IsCharacter(e.gen)
            => \A s \in 1 .. e.segment : <<e.gen, s>> \notin cut

(* After terminate() no player is open, and none is opened or fed by a thread
   that shutdown() gave up waiting for. *)
TerminatedIsQuiet == lifecycle = "terminated" => player = None /\ buffer = <<>>
=================================================================================
