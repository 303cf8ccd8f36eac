# Formal verification of the NVDA Piper driver

TLA+ specifications of the speech driver in `src/addon/synthDrivers`: what runs concurrently in it, what
it promises NVDA, and how it treats its worker process.  TLC checks the specifications on small instances;
of the controller, both bridges, the driver, the cache, the conversion and the fake worker TLAPS proves the
safety properties named in section 5 for every value of the constants.

`src/addon/synthDrivers/_nvdaPiperDriver/` is abbreviated `_nvda/` below, `nvdaPiperDriver.py` is the driver.

## 1. The system

NVDA's main thread calls the driver (`speak`, `cancel`, `terminate`, the settings).  The driver converts an
utterance to a job, splits it into segments at its indexes and character-mode changes, classifies it
(`character`, `navigation`, `ordered`) and hands it to the background controller.  The controller's only thread
takes one request at a time, has each segment synthesized by a worker process through the runtime bridge, plays
the audio through the driver's `playResult` callback, and posts index and completion callbacks on NVDA's
event queue, which the main thread runs when it is idle.

| component | source | state | operations | correct when |
|---|---|---|---|---|
| background controller | `_nvda/backgroundController.py` | pending slot, character queue, current and active generation with their categories, `stopping`, `state` | `submit`, `cancel`, `shutdown`, `isCurrent`, delivery callbacks, the thread `_run` | NVDA is told of indexes and completions in order, after their audio, whole, never of cancelled speech; nothing waits for ever |
| persistent runtime bridge | `_nvda/runtimeBridge.py` 252-490 | `_process`, `_cancellationToken`, `_restartCount` | `synthesize` (`_start`, handshake, framing, discard), `interrupt`, `forceStop`, `stop` | no worker leaked, no call reads another call's answer, interrupted calls end, restarts bounded by real failures |
| runtime worker | `_nvda/runtimeWorker.py` | none between requests | ready frame, one validated request and one answer at a time | answers whatever the bridge lets through |
| one-shot bridge | `_nvda/runtimeBridge.py` 84-249 | `_process`, `_cancellationToken` | `synthesize`, `interrupt`, `forceStop`, `stop` | an interrupt reaches the process wherever in its start it comes, no process is left behind |
| driver: playback | driver 264-427 | `_player`, `_audioLock`, `_state` | `speak`, `cancel`, `terminate`, `_playResult` | cancelled audio is silenced, reported audio was heard, nothing is played after termination |
| driver: settings, cache callbacks | driver 181-254 | `_voice`, `_rate`, `_cacheWorkerId` | setters, `_cacheGet`, `_cachePut`, `_invalidateCache` | what is found is what the worker would say now |
| short-speech cache | `_nvda/shortSpeechCache.py` | LRU map, byte count | `get`, `put`, `invalidate`, trimming | limits kept, count exact, nothing recent evicted, no sound trimmed |
| conversion and segments | `_nvda/conversion.py`, `jobs.py`, driver 264-307 | three counters | `convert`, `_buildSegments` | text and indexes keep their order |
| fake worker | `_nvda/fakeWorker.py` | session, sequence number, ids, generations, jobs, results | `handleFrame` | collections bounded and consistent, results accepted only for current jobs |
| protocol codec | `_nvda/protocol.py` | none | `encodeMessage`, `decodeMessage` | total, what is encoded decodes to itself |
| latency metrics | `_nvda/latencyMetrics.py` | bounded traces | `mark`, `record` | written for the log, never read back |

The behaviours that are hard to test: the main thread and the controller thread interleave at every lock, call
and queued callback; the worker may fail to start, crash, hang or answer garbage at any moment; an interrupt may
meet a call at any of its steps; callbacks run later than the checks that posted them; several characters
are valid at once while a key is held; the cache is read, stamped and written in steps between which settings,
the worker and the model's file change; encoder and decoder, bridge and worker validate the same values in two
places.
`PROJECT.json` lists the hazards at their lines.

Outside the model: the experiments and the portable-NVDA harness (measurement and file I/O), the build scripts,
the synthesis itself, and NVDA, which appears only as the caller of the driver and the owner of the event queue
and the wave player.

## 2. Modules

| module | models | composes |
|---|---|---|
| `BackgroundController` | the controller and its thread | - |
| `BridgeContract` | what a controller may expect of a bridge | - |
| `RuntimeBridge` | the persistent bridge, its workers and pipes | implements `BridgeContract` |
| `OneShotBridge` | the one-shot bridge and its processes | implements `BridgeContract` |
| `SpeechDriver` | the driver's `speak`, `cancel`, `terminate`, `_playResult` and the wave player | instantiates `BackgroundController` and implements its `Spec` |
| `CharacterCache` | the cache, the driver's cache callbacks and setters, against workers and the model's file | - |
| `Values`, `SpeechJobs` | conversion, segmentation and rejection of speech | - |
| `ProtocolCodec` | `encodeMessage` and `decodeMessage` | `Values` |
| `WorkerFrames` | requests to the runtime worker and its answers in both modes; trimming of audio | `Values` |
| `SegmentTransfer` | the audio path: speech converted, its segments sent to the runtime worker, answered, damaged, received, trimmed for the cache | `SpeechJobs`, `WorkerFrames` |
| `JobTransfer` | the messages of the protocol, jobs among them, on the same wires: encoded, damaged in one place, decoded | `SegmentTransfer`, `ProtocolCodec` |
| `FakeWorker` | `handleFrame` after decoding | - |
| `...Proofs` | the theorems about `BackgroundController`, `RuntimeBridge`, `OneShotBridge`, `SpeechDriver`, `CharacterCache`, `FakeWorker`; in `JobTransferProofs` about `SpeechJobs`, `SegmentTransfer`, `ProtocolCodec` and `JobTransfer` | extends the module |
| `Induction` | lemmas: induction over numbers and sequences, recursive functions, removal and suffixes | used by `CharacterCacheProofs` and `JobTransferProofs` |
| `MC...` | constant values for TLC | one for each run's specification |

The controller is the core: everything else in the add-on either feeds it or is called by it.  Its `Synthesize`
step takes any outcome that `BridgeContract` allows, and its `Play` step is what `SpeechDriver` refines into
opening, checking, feeding and draining.  So the three are checked apart and hold together: the bridges
implement the contract, the driver implements the controller's specification.  The controller also relies on
generations that increase, which `SpeechJobs` shows of the converter (`GenerationsIncrease`).

## 3. How the state and the actions correspond to the code

**BackgroundController.**  Variables carry the field names without the underscore.  A request is its
generation: requests are numbered in the order of `submit`, as the converter numbers them, and `shape[g]` is
what was said.  The categories of the current and the active request are derived from the generations, since
the code always writes both together.  An action is a stretch of code during which the other thread cannot
interfere: `Submit`, `Cancel` and `Shutdown` are the critical sections of `self._condition`; `Interrupt` and
`ShutdownStep` are the calls into the bridge that follow outside the lock; the thread's actions follow `_run`
line by line (`Take`, `ReadToken`, `Lookup`, `Synthesize`, `Play`, `StartIndexes`, `LastCheck`, `FailureCheck`,
`Finally`, ...), with `pc` its place.  `Deliver` runs one callback of NVDA's event queue, including the check of
currency made at that time.  `notified`, `played` and `cancelledUpTo` are history.

**RuntimeBridge.**  `process`, `cancellationToken` and `restartCount` are the fields; `cpc`, `handle`, `frame` the
controller thread's place and locals in `synthesize` and `_start`; `mpc`, `victim` the main thread's in `interrupt`,
`forceStop` and `stop`.  Every unlocked read of `self._process` is a step of its own.  A worker is loading, serving,
dying (terminated, not yet ended: it passes `poll()`) or dead, and has an inbox and an outbox.  A frame is the call
it answers, the ready frame, or garbage, which is whatever `Read` and `Verify` refuse.  `shutdown` waits for the
thread for fixed times, so its `ForceStop` and its `stop` (`Snapshot`, `Reap`, `Close`) come wherever the thread is,
also in `Popen`.  `terminated`, `failedStarts` and `overtaken` (`stop` looked while a call was starting a worker) are
history.

**OneShotBridge.**  The same way, with one process per call: `Call` compares the token, `Spawn` is `Popen`,
`Publish` the critical section that stores the process and compares the token again, `TerminateOwn` what follows
if it was revoked meanwhile, `Communicate`, `ReapOwn` and `ClearProcess` the waiting, the timeout and the
`finally`, `Judge` the checks of token, exit status and response in their order.  An interrupt is `Revoke`, under
the lock, then `Kill`.

**SpeechDriver.**  It takes the controller's variables as they are and splits `Play`: `Enter`, `Open`,
`CheckChunk`, `Feed`, `Drain`, `Accept`, `Refuse`, `PlayerRaises`, under `audioLock`.  The device is a buffer that
plays its oldest chunk (`Hear`), and that `stop` and `close` empty; `cut` remembers what was thrown away unheard.
`speak`, `cancel` and `terminate` are sequences of steps of the main thread, as long as their locks and calls are
separate.

**CharacterCache.**  A step is a critical section of `ShortSpeechCache` or one read or write of a field outside it:
`_cacheGet` is `Lookup` (reads the worker), `IsStamped` and `Compare` (the two reads of the stamp), `Unstamp`,
`Find`; `_cachePut` is `Stamp`, `MakeKey`, `Store`; a setter or `terminate` is the write of its field, `Invalidate`,
`Invalidated`.  `entries` has the least recently used entry first, as the `OrderedDict` has; a key is the text, the
rate, the model's identity and the format, the other parts being the same for all.  The model's file and the worker
may change between any two steps.  `recent` and `replacedInUse` are history.

**SpeechJobs, ProtocolCodec, JobTransfer.**  Python values are tagged with their type, because the code checks types
first and exactly (`True` is not an integer).  A text is a name and a length.  The codec is table-driven where the
code is a cascade of ifs: a schema lists the fields in the order of their checks, and the first check that fails
(`FirstFailure`) gives the error.  A message has its class and, in its envelope, the type, which the encoder
compares.  The frame is the JSON document; bytes that are none are one of `Unreadable`.  The code's recursions over a
document are sets of its layers: `Layer(v, n)` has what is `n` containers deep in it, `TooDeep` looks for a container
in the layer that may have none, and `Inside` is all of them, where the code looks for infinite floats and the
encoding meets lone surrogates.  `IsMessageObject` says what can be in an object of the message classes, whose
attributes are not checked before they are encoded, and `IsDocument` what `json.loads` can return.  How long a frame
is (`FrameLength`) and what a document may become on its way (`Damaged`) are constant operators: `MCJobTransfer`
counts code points, and has `Damage` remove, add or replace any one part of a frame; the proofs hold for any length
and any damage.

**SegmentTransfer.**  `SendSegment` is the controller's call of the bridge for one segment of the job that was
submitted, to the persistent or the one-shot worker, with the worker's answer; `ReceiveAudio` what the bridge makes
of it; `CacheAudio` is `_cachePut`.  `Garble` replaces an answer by anything at all.  `JobTransfer` adds the
messages of the codec: its `Send` and `Receive` are `Exchange` here, and its `Damage` is `Garble` with a
choice of what the frame becomes, so that each of its steps is one of `NextSegments`, and what is proved of
`SpecSegments` holds in its behaviours.

**WorkerFrames.**  A request and the header of an answer are functions from the names of their fields.  `Ask` is
what a bridge checks before it writes, `Serves` and `Answer` what the worker checks and writes, `Take` what the
bridge makes of it, with Python's `==`, by which `True` and `1.0` are 1.  Audio is a sequence of samples, quiet or
loud.  `Trim` is `trimConservative` with Python's slices, a negative start included; its three lengths are
constants.

**FakeWorker.**  One action for each type of request, one for rejection; `StateRejection` gives the first
check that fails.  `journal` is history: the answers given.

## 4. What is checked

| run | instance | question and result |
|---|---|---|
| `controller_safety` | 3 requests of Read All, focus or typed character; queue limit 1 | order, audio before index, silence after cancel, order of service: hold |
| `controller_faults` | 2 requests: typed characters, ordered speech with its index first; synthesis, playback and dispatch may fail; fairness | what is completed was played whole, also after failures, requests are retired, shutdown ends the thread, started speech finishes, queued characters are played: hold |
| `controller_cancelled`, `controller_newest_lost` | 2 requests | disagreements with the documentation, section 6 |
| `bridge_safety` | 3 calls, 1 interrupt, restart limit 2; failing starts, crashes, garbage, hanging workers; fairness | workers are owned, answers match, the restart limit is earned, the contract is implemented, shutdown releases the thread and leaves no worker, unless a start outlasts it: hold |
| `bridge_hung_start` | 2 calls, 1 interrupt | disagreement, section 6 |
| `one_shot_bridge` | 3 calls, 2 interrupts; failing starts, hanging and failing workers; fairness | no process is left behind, a revoked call waits only for a process that is being ended, the contract is implemented: hold |
| `speech_driver` | 2 requests, 2 chunks for a segment, a device that buffers 2, 2 players, playback may fail | cancelled audio is gone, reported speech was heard, silence after terminate, the controller is implemented: hold |
| `character_cache` | 3 texts, 2 rates, 2 models (one not at 16 kHz), 2 workers, 2 entries of 4 bytes together | limits and the byte count are kept, the most recent entries stay, a hit is what the model says: hold |
| `job_transfer` | about 1500 sequences of up to 4 items; 3 identifiers; audio of up to 8 samples; frames damaged in one place | segments say the speech, indexes answered once, generations increase, round trip, decoder accepts only what the encoder writes, converted jobs travel, segments are heard from either worker, sustained sound survives trimming: hold |
| `audio_trimmed` | as `job_transfer` | disagreement, section 6 |
| `fake_worker` | limits of 1, 2 and 7; up to five requests before the limit holds one back | bounds, agreement of the collections, currency of results, finality of refusals: hold |

**Bounds and why they are enough.**  Two requests show every race of a new request with the one before it; the
third adds one that is dropped, replaced or queued between two others (a queue limit of 1 makes the queue full
with the second waiting character).  Faults are checked with two requests, because with three the instance is too
large and a fault concerns the request it hits and the next.  An utterance of two segments with an index each has
all transitions of the segment loop.  Three calls of the bridge are a failing one, a restart and a use of the
restarted worker, and as many as the restart limit of 2 needs to refuse; one interrupt meets any of them, and the
three of `shutdown` follow.  (Of the properties but liveness the proofs cover any number of calls and interrupts.)
Two chunks separate the first from the last, and a device of two chunks can hold a whole segment unheard; the two
openings of the player stand for a change of format between results.  In the cache a text of 1, one of 3 and one
of 5 bytes, with room for 4, fit together, evict one another or are too large, and both limits bind; two workers
are one and its successor.  `FakeWorker.cfg` follows only behaviours that use request and job ids in the order 1,
2, ... (`CONSTRAINT InOrder`): ids are only compared for equality, so renaming them gives the others.
`MaxIdentifier = 3` lets the identifiers run out; the limits of the codec and of the worker (`MCLimits`,
`MCWorkerLimits`) are small enough that every one of them is met and exceeded.  Sustained sound is 2 samples, the
padding 1 before and 2 after, the code's 160, 80 and 160 divided by 80; audio of up to 7 samples has sound and
silence before, between and after, and 8 samples are too long to answer.  `RecordedLength = 2` tries all audio
only for speech of up to two items, since what is said does not change how its audio is sent. `DamagedLength = 1`
bounds damage to jobs of one item: items are decoded independently.

**Fairness.**  The operating system schedules both threads (`WF` of the thread's step); the main thread returns from
the calls it is in and drains its event queue; a worker killed or without its stdin ends.  No fairness is assumed of
`Submit`, `Cancel`, `Shutdown`, of interrupts or of crashes: nobody has to call the driver.  Nor do workers have to
answer: `ShutdownLeavesNothing` holds for workers that hang, and that every call of the persistent bridge returns is
stated under the hypothesis `WorkersAnswer`.  Nor is a start assumed to be shorter than the waits of `shutdown` (3
and 2 seconds): `Popen` has no bound, and `ShutdownLeavesNothing` excepts the worker of a call that is still starting
one when `stop` looks (`overtaken`), a defect of the code that section 6 describes.  The one-shot bridge needs no
hypothesis, because `communicate` gives up.  Deadlock is checked in every run.

## 5. What is proved

TLAPS checks the theorems for every value of the constants, from these assumptions: the number of requests, of
calls and of interrupts is a natural number and shapes are requests of any segments (`MaxGenAssumption`,
`ShapesAssumption`, `ControllerAssumption`, `BoundsAssumption`, `OneShotAssumption`); limits and amounts of audio,
entries and identifiers are positive (`LimitAssumption`, `RestartsAssumption`, `AudioAssumption`,
`CacheLimitsAssumption`, `IdentifierAssumption`, `LimitsAssumption`, `WorkerLimitsAssumption`, `TrimAssumption`),
and `None` is no session (`NoneAssumption`).  Strings have a length, and they, languages and fallback texts are no
containers (`SpeechAssumption`); audio is a sequence of samples (`RecordingsAssumption`); and the converter's
identifiers are no larger than the worker's (`IdentifiersFit`) and the protocol's (`JobsFit`): all of these bounds are
2^63 - 1 (`conversion.py:19`, `protocol.py:23`, `runtimeBridge.py:410`, `runtimeWorker.py:118`).  The limits of the
codec are numbers; a message is five containers deep, and `protocol.py:25` allows 8; an error message and a rate
have room (`CodecAssumption`, `JobsFit`); messages are objects of the message classes (`MessagesAssumption`).  TLC
evaluates all of them in the runs.

*Controller.*  `TypeCorrect`, `NotificationOrder`, `AudioBeforeIndex`, `CompletionIsWhole`, `CancelSilences`,
`OrderOfService`.  None of these is inductive: that what NVDA heard is in order says nothing about
what is still queued or not yet posted.  `IInv` adds
- `Linked`: places of the thread agree with the active request, the segment and the next index;
- `QueueOrder`: pending and queued requests come after the active one, in order, and all after whatever was heard;
- `AllPast`, `EventOrder`: queued callbacks are of requests already taken, in order, after what was heard and
  before what the thread will post;
- `AllAudioFirst`: every posted or reported index has its audio before it;
- `NothingSkipped`, `CompletionsWhole`: while a request is current, all segments behind the thread were played and
  their indexes posted, and so for a queued completion;
- `CurrentIsFresh`: the current generation is later than the last cancellation.

The proof has one lemma for each action that changes data and one for all the moves that only advance the thread
(`SafeMoveStep`), and the theorems follow from `IInv` by PTL.

*Fake worker.*  `TypeCorrect`, `Bounded`, `Agreement`, `CurrentResults`, `FinalRefusals`, from `Inv`: the
collections agree with each other (`Collections`) and with the journal of answers (`JournalAgrees`), which ties a
generation's cancellation and its jobs to the entries that made them.

*Persistent bridge.*  `TypeCorrect`, `Ownership`, `OwnAnswers`, `EarnedLimit`, and `Refinement`: every step is one
of the contract's or changes nothing of it.  That a call reads its own answer depends on what earlier calls left
in the pipes; `IInv` says, besides the types, what the places of the threads say of their locals (`Places`), which
workers the field and the local may still hold (`Owned`), that a worker that is or may be used again has empty
pipes, and what the pipes hold in the middle of a call (`Pipes`), and which failed starts are counted already
(`Restarts`).

*One-shot bridge.*  `Ownership`, `RevocationReaches` and `Refinement`, from `CallOwns`: where in a call its
process exists, is published and has ended.  `RevocationReaches` is inductive with it, and says that comparing the
token again at the publication is enough; the persistent bridge, which compares it elsewhere, has no such theorem
(`bridge_hung_start`).

*Driver.*  `Refinement` first: the driver implements the controller's `Spec`, so every invariant of the controller
is one of the driver, and `SpeechDriverProofs` takes `IInv` through an instance of `BackgroundControllerProofs`
and does not prove it again.  On top of it `DInv` has the places of `_playResult` (`Places`), what `cancel` and
`terminate` have revoked by each of their steps (`Revoked`), that the device holds audio of requests that were
taken and not silenced (`Sources`), that nothing of a request is left in the device between its segments
(`Drained`), and that an index is behind whatever is still to be heard (`Heard`).  From it `TypeCorrect`,
`CancelSilences`, `ReportedWasHeard` and `Terminated`.

*Traversals.*  The cache counts the bytes of its entries, and the driver and the converter go through sequences in
loops.  The models have these loops as recursive functions of a position.  The provers cannot use an induction
theorem that takes a predicate as an operator; in `Induction` a predicate is a set instead, and induction is proved
from the least element of a set of numbers.  From it come the existence of recursive functions
(`Recursion`) and, for a loop over a sequence, `TraversalExists`, `TraversalOfEmpty` and `TraversalOfAppend`: the
function is its start on the empty sequence, and one step more on a sequence with one element more.
`SequenceInduction` proves a fact of all sequences from these two.  So the theorems about speech hold for sequences
of any length.

*Cache.*  `HitsSpeak`: as long as the model's file is not replaced in use, a hit is the audio of the character by
that model.  The key is computed after the synthesis and from fields that may have changed since; the invariant
shows why that does no harm: audio on its way into the cache is the model's (`Fresh`), and entries are the audio
of their keys (`Faithful`).  `CacheIsBounded`: the count of bytes is the sum over the entries (the sum of a sequence
without one of its elements is that much less), and eviction stops only within both limits.  `CacheIsLRU`: the
entries are the end of the sequence of the keys in the order of their last use, since a use moves a key to the end
of both, a replaced entry is used, and eviction takes the front.

*Conversion.*  `GenerationsAreFresh`: generations increase strictly also across refused speech and up to the
exhaustion of the identifiers (`Numbered`: the counter is ahead of whatever was given out).  `SpeechIsSaid`
and `EveryIndexIsAnswered`: the segments say the strings and indexes of the sequence in their order, in the
character mode set for them, and an index is in a segment or answered at the refusal.  The state is
`Answered`: what was submitted has the segments of its items, what was rejected has none and all its indexes
answered.  The work is in the loop of `_buildSegments`, an induction over the items: the segments so far, and the
strings joined so far in the present mode, say what the items so far say.  An index first of all opens a
segment without text in mode off, which says nothing else, so the mode that was set does not matter there.

*Audio path.*  `AudioPathConverts` carries these three to `SegmentTransfer`: what becomes of the segments takes no
step of the conversion.  `SegmentAudioIsHeard` is inductive in `Fresh` and `Transferring`: an answer on its way is
the worker's answer to the request that was sent (`Asked`) unless it was damaged, and what was heard is what `Take`
made of it, or the refusal of either side.  It needs that segments make proper requests (`SegmentsAreRequests`: the
length of a text is the sum of its strings', which is positive when there is a text; `JobIsNumbered`: the identifier
is in range), that whatever `Ask` or the worker refuses is `BeyondTheWorker`, that the worker's own answer is taken
and its audio whole (`AnswerIsTaken`), and that nothing else is taken but an answer with the same identifiers,
segment and indexes at a rate that can be played (`TakenIsAnAnswer`).  Here the answer may be damaged to anything,
not in one place only as in the run.  The proof found an exception that no run had reached, a segment whose number
is beyond the identifiers, and `BeyondTheWorker` names it now.  `SustainedSoundsStay`: the slice that `Trim` cuts
begins before the first sustained sound and ends after the last, whatever the lengths of audio, sound and padding,
the negative slice of section 6 included.

`TransferIsAnAudioPath`: every step of `JobTransfer` is one of the audio path, so all of this holds there, where
the run checks it (`SpeechIsSafe`).

*Codec.*  `MessagesRoundTrip`: what is encoded and arrives undamaged is decoded to what it was.  `DecoderIsExact`:
whatever a frame was damaged to, a message that the decoder makes of it is encoded to that frame.  The encoder
validates objects and the decoder documents, in different orders and partly with different checks, so both are
proved of each item, each job, each payload and each message, in both directions: what the one accepts, the other
accepts and turns back.  A cascade of checks is taken apart by `FirstFailureIs`: it gives "ok" exactly if each of its
checks does.  Beside the fields, the decoder first looks through the whole document for depth and for infinite floats,
and the encoder meets lone surrogates wherever they are.  That these looks find the same is in no one check; it
follows from what the layers of an accepted document can hold: it is at most five containers deep, and what is in
them was checked field by field.  The invariant is `JobIsConverted` with
`Exchanged`, which says what each stage of an exchange has in its variables; TLC checked it first.

`SpeechTravels`: the encoder refuses a job of the converter only for its length or for an item that `BeyondTheWire`
names.  The converter makes its items one class at a time, and none of its classes gives a type that the protocol
does not know (`ConvertedJob`); conflicts and defaults of prosody are decided by the same comparison on both sides.
Two exceptions came up in the proof that the run did not reach: a break of more than 2^63 - 1 milliseconds, and a lone
surrogate in the language or the fallback text of a command, which is refused like one in a string.  Both are in
`ConvertedJobsTravel` now.

*Only model-checked*: liveness, and what is said with ENABLED: the progress of `controller_faults`, `bridge_safety`
and `one_shot_bridge`, `ShutdownLeavesNothing` and the termination in `BridgeContract` among it.  Every invariant
and every action property of the runs that must hold is a theorem.

## 6. Where code and documentation disagree

With a run each:
- `controller_cancelled` (`backgroundController.py:121`): a cancelled character that is still active becomes current
  again when the next character is submitted, and is reported.
- `controller_newest_lost` (`backgroundController.py:152`): the interrupt of a submission may hit the request just
  submitted, which then ends in silence.
- `bridge_hung_start` (`runtimeBridge.py:312`): an interrupt between `Popen` and the publication of the process
  terminates nobody; a worker that hangs then holds the call.
- `audio_trimmed` (`shortSpeechCache.py:46`): audio of 320 to 639 samples without sustained sound is cut to 319,
  because the search from the end asks for a slice with a negative start, which is empty, and `all()` of nothing
  is true; `docs/piper-character-silence-trimming.md:6` promises the original audio "whenever" the trimming is
  uncertain.

Seen while modelling, without a run:
- `backgroundController.py:192`: the index of a character that was played is lost when a later character has become
  current before the callback runs and the first is no longer active.
- `backgroundController.py:263`: a character whose playback was cut short by its revocation and that becomes
  current again (above) may still be completed; this is why `CompletedSpeechIsWhole` speaks of ordered and
  navigation requests.
- `backgroundController.py:177`, `runtimeBridge.py:312`: a start that outlasts both waits of `shutdown` is published
  after `stop()` has looked, because `_start` does not compare the token again (as in `bridge_hung_start`).  Nobody
  terminates that worker, and one that hangs keeps the thread.  `docs/driver-state-machine.md:57` has "cancel startup,
  close/kill child" on NVDA shutdown during startup.  Without its exception, `ShutdownLeavesNothing` is violated.
- `runtimeBridge.py:416`: a worker that is terminated but has not ended passes `poll()` and is used again; the call
  then fails, which `AnswersMatchCalls` and the contract allow.
- `runtimeBridge.py:327`: a handshake cut off by an interrupt is reported as a crash, not as a cancellation,
  although it consumes no restart; `docs/phase-2l-workercrash-stabilization.md:9` treats interruption as expected.
- `runtimeBridge.py:166`: an `OSError` of `communicate` leaves the one-shot call without a look at the child, which is
  forgotten; the model's `communicate` ends or gives up.
- `backgroundController.py:207`: the thread sets `READY` without looking whether `shutdown` has set `STOPPING`
  before it first ran; nothing reads the state to decide, so only what is reported is wrong.
- driver 246-254: `docs/selected-voice-character-cache.md:10-11` has the cache cleared with the worker and the
  rate; but `_cachePut` takes whatever worker it finds for that of the audio, and may store after a setter or
  `terminate` has cleared the cache.  Entries outlive their worker; `HitsSpeakTheModel` shows that nothing wrong
  is spoken for it, since the key names the model and the audio does not depend on the rate.
- driver 226: `_cacheGet` looks under 16 kHz, `_cachePut` stores under the format of the audio: a model of another
  rate fills the cache and never finds anything.
- `runtimeWorker.py:119`, `81`: the worker ends on an index that is negative or beyond 63 bits, on indexes that do not
  fit its header of 4096 bytes, and on a text of which no audio comes; the bridge lets all of them through, the
  driver reports a crash, and the exceptions are listed in `BeyondTheWorker`.
- driver 353: `speak` stops the player before it submits, so the old request is still current in between and may
  feed the device again; at most what the device buffers is heard late.
- driver 345: the indexes of rejected speech are reported at once, ahead of speech that is still queued.
- `conversion.py:119`: `OverflowError` is not among the errors `speak` expects (after 2^63 utterances).
- `protocol.py:390`: an integer multiplier too large for a float raises `OverflowError`, and a lone surrogate
  `UnicodeEncodeError` (line 562), instead of a `ProtocolException`; so does, from Python 3.11 on, `json.loads` with
  an integer of more than 4300 digits (line 714, `ValueError`).  The model has the result `raises` for all three.
- `protocol.py:448`: `Capabilities(protocolVersion=True)` compares equal to the fixed set and is encoded, but not
  decoded; no program path builds it, and the run does not send it.

## 7. What is not modelled

- Latency metrics: timestamps in a bounded deque, written to the log and never read back.
- The experiments (`src/experiments`, the runtime adapter and the audio diagnostics among them): benchmarks and
  numerical post-processing outside the add-on.  The portable-NVDA harness and the build: file and process I/O in
  sequence.
- Warm-up and synthesis in the worker (any audio may come out), its stderr, and the contents of audio beyond quiet
  and loud.
- Of the driver: the availability check, the property getters and the error log, which change no state of the above.
- Failures of `WavePlayer.stop` and `close`, and a device that stalls for ever while the audio lock is held: both
  belong to the player, and the driver has no code for either.
- A speech item that lacks an attribute of its class: NVDA's classes define them.
- `ShortSpeechCache.analyzePcm` and `snapshot`, which only report.
