---------------------------- MODULE WorkerFrames ----------------------------
(***************************************************************************)
(* The requests of the two bridges to the runtime worker and its answers    *)
(* (runtimeBridge.py, runtimeWorker.py), and the trimming of character      *)
(* audio (shortSpeechCache.py): what either side accepts, and what it makes *)
(* of it.                                                                  *)
(*                                                                         *)
(* A request and the header of an answer are functions from the names of    *)
(* their fields; text is a string whose name is the sequence of the strings *)
(* it was joined from; audio is a sequence of samples, "quiet" or "loud",   *)
(* of two bytes each.  A result is <<"ok", x>> or <<"error", code>>.        *)
(***************************************************************************)
EXTENDS Values, FiniteSets, SequencesExt

CONSTANTS
    WorkerLimits,    \* of text (code points), request, header and pcm (bytes), id
    PlayableRates    \* the sample rates from 8 to 192 kHz

(* trimConservative's padding and the length of sustained sound; in samples. *)
CONSTANTS sustainedFrames, preRoll, postRoll

ASSUME WorkerLimitsAssumption ==
    \A l \in {"text", "request", "header", "pcm", "id"} : WorkerLimits[l] \in Nat \ {0}
ASSUME TrimAssumption == {sustainedFrames, preRoll, postRoll} \subseteq Nat \ {0}

-----------------------------------------------------------------------------
(* Requests. *)

Identifiers(r) == {r[n] : n \in DOMAIN r \intersect {"generationId", "jobId", "segmentNumber"}}
IsIdentifier(v) == IsA("int", v) /\ v[2] \in 1 .. WorkerLimits.id
IsText(v) == IsA("str", v) /\ v[3] \in 1 .. WorkerLimits.text

PersistentRequest(segment, length, id, number) ==
    [text |-> Str(segment.text, length), characterMode |-> Bool(segment.characterMode),
     indexesAfter |-> List([k \in DOMAIN segment.indexesAfter |-> Num(segment.indexesAfter[k])]),
     generationId |-> Num(id), jobId |-> Num(id), segmentNumber |-> Num(number)]

OneShotRequest(segment, length, id) ==
    [text |-> Str(segment.text, length), generationId |-> Num(id), jobId |-> Num(id)]

IsOneShot(r) == "segmentNumber" \notin DOMAIN r

IndexCount(f) == IF "indexesAfter" \in DOMAIN f THEN Len(f.indexesAfter[2]) ELSE 0

(* The bytes of a request that vary: "wide" characters take two, indexes one. *)
StringBytes(t) == IF t[2] = "wide" THEN 2 * t[3] ELSE t[3]
TextBytes(text) ==
    LET bytes[n \in 0 .. Len(text)] == IF n = 0 THEN 0 ELSE bytes[n - 1] + StringBytes(text[n])
    IN bytes[Len(text)]
RequestBytes(r) == IndexCount(r) + TextBytes(r.text[2])

(* synthesize, before it touches the worker.  The one-shot bridge leaves the
   size of the request to the worker. *)
Ask(r) ==
    IF ~IsText(r.text) \/ \E v \in Identifiers(r) : ~IsIdentifier(v) THEN <<"error", "invalidRequest">>
    ELSE IF \E k \in DOMAIN r.text[2] : r.text[2][k] = LoneSurrogate THEN <<"raises">>  \* UnicodeEncodeError
    ELSE IF ~IsOneShot(r) /\ RequestBytes(r) > WorkerLimits.request THEN <<"error", "invalidRequest">>
    ELSE <<"ok", r>>

-----------------------------------------------------------------------------
(* The worker; when it refuses, it ends with a message for stderr. *)

Serves(r) ==
    /\ RequestBytes(r) <= WorkerLimits.request
    /\ IsText(r.text)
    /\ \A v \in Identifiers(r) : IsIdentifier(v)
    /\ ~IsOneShot(r) => \A k \in 1 .. IndexCount(r) : r.indexesAfter[2][k][2] \in 0 .. WorkerLimits.id

AnswerHeader(r, audio, rate) ==
    LET common == [channels |-> Num(1), sampleWidth |-> Num(2), sampleRate |-> Num(rate)]
        names == {"generationId", "jobId"}
                 \union (IF IsOneShot(r) THEN {} ELSE {"pcmBytes", "segmentNumber", "indexesAfter"})
    IN [n \in DOMAIN common \union names |->
            CASE n \in DOMAIN common -> common[n]
              [] n = "pcmBytes" -> Num(2 * Len(audio))
              [] OTHER -> r[n]]

Answer(r, audio, rate) ==
    IF ~Serves(r) THEN <<"error", "invalid request">>
    ELSE IF 2 * Len(audio) > WorkerLimits.pcm THEN <<"error", "audio limit exceeded">>
    ELSE IF audio = <<>> THEN <<"error", "invalid audio">>
    ELSE IF ~IsOneShot(r) /\ IndexCount(r) > WorkerLimits.header THEN <<"error", "protocol failure">>
    ELSE <<"ok", <<"json", Dict(AnswerHeader(r, audio, rate))>>>>

-----------------------------------------------------------------------------
(* What the bridges make of an answer. *)

Field(header, n) == IF n \in DOMAIN header THEN header[n] ELSE None

(* Python's ==, by which True and 1.0 are 1. *)
AsNumber(v) ==
    CASE v \in {Bool(TRUE), Float("one")} -> Num(1)
      [] v = Bool(FALSE) -> Num(0)
      [] OTHER -> v
Same(v, w) ==
    IF IsA("list", v) /\ IsA("list", w)
    THEN /\ Len(v[2]) = Len(w[2])
         /\ \A k \in DOMAIN v[2] : AsNumber(v[2][k]) = AsNumber(w[2][k])
    ELSE AsNumber(v) = AsNumber(w)

Playable(header) ==
    /\ Field(header, "channels") = Num(1) /\ Field(header, "sampleWidth") = Num(2)
    /\ IsA("int", Field(header, "sampleRate")) /\ header.sampleRate[2] \in PlayableRates

PcmResult(r, header, audio) ==
    <<"ok", [generationId |-> r.generationId, jobId |-> r.jobId, sampleRate |-> header.sampleRate,
             pcm |-> audio]>>

(* Faulty variant: the segment is not compared. *)
TakePersistentOfJob(r, header, audio) ==
    LET pcmBytes == Field(header, "pcmBytes")
    IN IF ~(IsA("int", pcmBytes) /\ pcmBytes[2] \in 1 .. WorkerLimits.pcm /\ pcmBytes[2] % 2 = 0)
       THEN <<"error", "invalidPcm">>
       ELSE IF pcmBytes[2] > 2 * Len(audio) THEN <<"waits">>
       ELSE IF \E n \in {"generationId", "jobId"} : ~Same(Field(header, n), r[n]) THEN <<"error", "staleResult">>
       ELSE IF ~Same(Field(header, "indexesAfter"), r.indexesAfter) THEN <<"error", "protocolFailure">>
       ELSE IF ~Playable(header) THEN <<"error", "invalidPcm">>
       ELSE PcmResult(r, header, SubSeq(audio, 1, pcmBytes[2] \div 2))

(* _readFrame and the end of synthesize.  The audio is read to its announced
   length, which may be to wait for more than there is. *)
TakePersistent(r, header, audio) ==
    LET pcmBytes == Field(header, "pcmBytes")
    IN IF ~(IsA("int", pcmBytes) /\ pcmBytes[2] \in 1 .. WorkerLimits.pcm /\ pcmBytes[2] % 2 = 0)
       THEN <<"error", "invalidPcm">>
       ELSE IF pcmBytes[2] > 2 * Len(audio) THEN <<"waits">>
       ELSE IF \E n \in {"generationId", "jobId", "segmentNumber"} : ~Same(Field(header, n), r[n])
       THEN <<"error", "staleResult">>
       ELSE IF ~Same(Field(header, "indexesAfter"), r.indexesAfter) THEN <<"error", "protocolFailure">>
       ELSE IF ~Playable(header) THEN <<"error", "invalidPcm">>
       ELSE PcmResult(r, header, SubSeq(audio, 1, pcmBytes[2] \div 2))

(* _decodeResponse of the one-shot bridge. *)
TakeOneShot(r, header, audio) ==
    IF \/ DOMAIN header # {"channels", "generationId", "jobId", "sampleRate", "sampleWidth"}
       \/ \E n \in DOMAIN header : ~IsA("int", header[n])
    THEN <<"error", "protocolFailure">>
    ELSE IF header.generationId # r.generationId \/ header.jobId # r.jobId THEN <<"error", "staleResult">>
    ELSE IF ~Playable(header) THEN <<"error", "invalidPcm">>
    ELSE PcmResult(r, header, audio)

Take(r, frame, audio) ==
    IF frame[1] # "json" \/ ~IsA("dict", frame[2]) THEN <<"error", "protocolFailure">>
    ELSE IF IsOneShot(r) THEN TakeOneShot(r, frame[2][2], audio)
    ELSE TakePersistent(r, frame[2][2], audio)

-----------------------------------------------------------------------------
(* trimConservative.  Indexes are Python's, from 0. *)

(* samples[from : to], where a negative index counts from the end. *)
Slice(s, from, to) ==
    LET Position(i) == IF i < 0 THEN Max({0, Len(s) + i}) ELSE Min({i, Len(s)})
    IN SubSeq(s, Position(from) + 1, Position(to))

AllLoud(s) == \A k \in DOMAIN s : s[k] = "loud"

Sustained(s, from) ==
    /\ from + sustainedFrames <= Len(s)
    /\ AllLoud(Slice(s, from, from + sustainedFrames))

(* The first of the indexes found, or 0. *)
FirstOf(found) == IF found = {} THEN 0 ELSE Min(found)

Bounds(s) ==
    LET indexes == 0 .. Len(s) - 1
        first == FirstOf({i \in indexes : Sustained(s, i)})
        fromEnd == FirstOf({i \in indexes : Sustained(s, Len(s) - i - sustainedFrames)})
    IN <<Max({0, first - preRoll}), Min({Len(s), Len(s) - fromEnd + postRoll})>>

(* Faulty variant: the end of the first sustained sound instead of the last. *)
TrimAfterFirst(s) ==
    LET first == FirstOf({i \in 0 .. Len(s) - 1 : Sustained(s, i)})
        end == Min({Len(s), first + sustainedFrames + postRoll})
    IN SubSeq(s, Max({0, first - preRoll}) + 1, end)

Trim(s) ==
    LET from == Bounds(s)[1]
        to == Bounds(s)[2]
    IN IF \/ ~(\A k \in 1 .. Min({Len(s), preRoll}) : s[k] = "quiet")
          \/ to <= from \/ to - from < Len(s) \div 2
       THEN s
       ELSE SubSeq(s, from + 1, to)
=============================================================================
