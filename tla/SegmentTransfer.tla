--------------------------- MODULE SegmentTransfer ---------------------------
(***************************************************************************)
(* From NVDA's sequence to the cache: the audio path.  The sequence is     *)
(* converted to a job and its segments; each segment that has text goes to *)
(* the runtime worker in a request, whose answer is its audio, and the     *)
(* audio of a character is cached.  The answer may be damaged, or come     *)
(* from a peer that is mistaken.                                           *)
(***************************************************************************)
EXTENDS SpeechJobs, WorkerFrames

CONSTANTS
    Recordings,       \* the audio the runtime worker may make of a text
    SampleRates,      \* the sample rates a model may have
    RecordedLength    \* bound: how long speech may be for all of them to be tried

ASSUME RecordingsAssumption == Recordings \subseteq Seq({"quiet", "loud"})

(* MAX_IDENTIFIER of the converter is the worker's. *)
ASSUME IdentifiersFit == MaxIdentifier <= WorkerLimits["id"]

VARIABLES
    stage,     \* idle, spoken, receiving (a frame), answering, received, heard, cached
    message,   \* the message or the request sent
    frame,     \* the result of its encoding or the answer, or what became of it on the way
    audio,     \* the audio after the header of the answer, or in the cache
    damaged,   \* whether something did
    received   \* the result of the decoding

transferVars == <<stage, message, frame, audio, damaged, received>>
vars == <<jobVars, transferVars>>

Nothing == <<"none">>

Init ==
    /\ InitJobs
    /\ stage = "idle"
    /\ message = Nothing /\ frame = Nothing /\ audio = <<>>
    /\ damaged = FALSE /\ received = Nothing

(* Other messages than the converter's are sent without speech. *)
SpeakSequence ==
    /\ stage = "idle" /\ stage' = "spoken"
    /\ \E s \in Speech : Speak(s)
    /\ UNCHANGED <<message, frame, audio, damaged, received>>

(* Nobody keeps anything of it but the identifiers. *)
Forget ==
    /\ stage \in {"spoken", "received", "heard", "cached"} /\ stage' = "idle"
    /\ ForgetSpeech
    /\ message' = Nothing /\ frame' = Nothing /\ audio' = <<>>
    /\ damaged' = FALSE /\ received' = Nothing

(* The controller asks for the audio of a segment that has text. *)
SegmentRequest(k) ==
    LET length == TextLength(segments[k].text)
    IN {PersistentRequest(segments[k], length, job.generationId[2], k),
        OneShotRequest(segments[k], length, job.generationId[2])}

SendSegment ==
    /\ stage = "spoken" /\ outcome = "submitted"
    /\ \E k \in DOMAIN segments :
          segments[k].text # <<>> /\ message' \in SegmentRequest(k)
    /\ IF Ask(message')[1] = "ok"
         THEN /\ audio' \in IF Len(speech) <= RecordedLength THEN Recordings ELSE {<<"loud">>}
              /\ \E rate \in SampleRates : frame' = Answer(message', audio', rate)
         ELSE audio' = <<>> /\ frame' = Nothing
    /\ \/ frame'[1] = "ok" /\ stage' = "answering" /\ received' = Nothing
       \/ frame'[1] = "error" /\ stage' = "heard" /\ received' = <<"error", "workerCrash">>
       \/ frame' = Nothing /\ stage' = "heard" /\ received' = Ask(message')
    /\ UNCHANGED <<jobVars, damaged>>

(* The answer becomes another on its way: which one is for the action that
   damages it to say. *)
Garble ==
    /\ ~damaged /\ damaged' = TRUE
    /\ stage \in {"receiving", "answering"}
    /\ UNCHANGED <<jobVars, stage, message, audio, received>>

(* The messages of the protocol, whose frames are the codec's, come between. *)
Exchange ==
    /\ stage \in {"idle", "spoken", "receiving"} /\ stage' \in {"receiving", "received"}
    /\ UNCHANGED <<jobVars, audio, damaged>>

ReceiveAudio ==
    /\ stage = "answering"
    /\ received' = Take(message, frame[2], audio)
    /\ stage' = "heard"
    /\ UNCHANGED <<jobVars, message, frame, audio, damaged>>

(* _cachePut, with the trimming switched on. *)
CacheAudio ==
    /\ stage = "heard" /\ received[1] = "ok" /\ ~damaged
    /\ ~IsOneShot(message) /\ message.characterMode = Bool(TRUE) /\ message.text[3] <= ShortText
    /\ audio' = Trim(received[2].pcm)
    /\ stage' = "cached"
    /\ UNCHANGED <<jobVars, message, frame, damaged, received>>

(* The audio path alone: whatever a frame becomes on its way, and whatever the
   messages in between are. *)
NextSegments ==
    \/ SpeakSequence \/ Forget \/ SendSegment \/ ReceiveAudio \/ CacheAudio
    \/ Garble \/ Exchange
SpecSegments == Init /\ [][NextSegments]_vars

-----------------------------------------------------------------------------
(* Properties. *)

(* What the converter lets through, and the runtime worker does not answer: an
   index it cannot have, more indexes than its answer can hold, more segments
   than it can number, a text that is too long or cannot be encoded, or one of
   which the model makes no audio, too much of it or audio at a rate that is not
   played. *)
BeyondTheWorker ==
    \/ message.text[3] > WorkerLimits.text \/ RequestBytes(message) > WorkerLimits.request
    \/ \E k \in DOMAIN message.text[2] : message.text[2][k] = LoneSurrogate
    \/ \E k \in 1 .. IndexCount(message) : message.indexesAfter[2][k][2] \notin 0 .. WorkerLimits.id
    \/ IndexCount(message) > WorkerLimits.header
    \/ ~IsOneShot(message) /\ message.segmentNumber[2] > WorkerLimits.id
    \/ frame # Nothing /\ (audio = <<>> \/ 2 * Len(audio) > WorkerLimits.pcm)
    \/ frame[1] = "ok" /\ frame[2][2][2].sampleRate[2] \notin PlayableRates

(* The bridge, the worker and the converter agree on what may be said: but for
   what is BeyondTheWorker, the audio of a segment arrives whole, from either
   worker.  An answer that was damaged or is another's is refused, unless its
   audio is announced shorter than it is. *)
SegmentsAreHeard ==
    stage = "heard" =>
        /\ ~damaged =>
              \/ BeyondTheWorker
              \/ received[1] = "ok" /\ received[2].pcm = audio
        /\ received[1] = "ok" =>
              LET header == frame[2][2][2]
              IN /\ header.sampleRate[2] \in PlayableRates
                 /\ \A n \in DOMAIN message \ {"text", "characterMode"} : Same(header[n], message[n])
                 /\ received[2].pcm # audio => header.pcmBytes[2] < 2 * Len(audio)

(* Trimming takes nothing of a sound that is sustained: the last cached sample
   of each of them is still there, with what lies between them. *)
Sounds(s) == {i \in 0 .. Len(s) - sustainedFrames : AllLoud(SubSeq(s, i + 1, i + sustainedFrames))}
SustainedSpeechIsKept ==
    stage = "cached" /\ Sounds(received[2].pcm) # {} =>
        LET pcm == received[2].pcm
            first == Min(Sounds(pcm))
            last == Max(Sounds(pcm)) + sustainedFrames
        IN \E from \in 0 .. first : \E to \in last .. Len(pcm) : audio = SubSeq(pcm, from + 1, to)

(* "falls back to original PCM whenever uncertain": audio in which nothing is
   sustained is cached as it is. *)
UncertainAudioIsKept ==
    stage = "cached" /\ Sounds(received[2].pcm) = {} => audio = received[2].pcm
=============================================================================
