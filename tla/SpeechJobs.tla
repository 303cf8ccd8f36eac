----------------------------- MODULE SpeechJobs -----------------------------
(***************************************************************************)
(* From an NVDA speech sequence to a request: the conversion to an          *)
(* immutable job (conversion.py), its division into segments and the        *)
(* rejection of what cannot be spoken (speak and buildSegments of the       *)
(* driver).                                                                *)
(*                                                                         *)
(* An item of a sequence is the record of its class and its attributes.     *)
(***************************************************************************)
EXTENDS Values, FiniteSets, SequencesExt

CONSTANTS
    Speech,          \* the speech sequences NVDA may ask for
    MaxIdentifier,   \* MAX_IDENTIFIER, 2^63 - 1
    ShortText        \* how long the text of a character may be, 64

ASSUME IdentifierAssumption == MaxIdentifier \in Nat \ {0} /\ ShortText \in Nat
ASSUME SpeechAssumption ==
    \A s \in Speech :
        /\ s \in Seq(ToSet(s))
        /\ \A k \in DOMAIN s :
              /\ s[k].class = "str" => IsA("str", s[k].text) /\ IsScalar(s[k].text)
              /\ s[k].class = "LangChangeCommand" => IsScalar(s[k].lang)
              /\ s[k].class = "PhonemeCommand" => IsScalar(s[k].text)

VARIABLES
    speech,     \* the sequence spoken last
    outcome,    \* what became of it: submitted, rejected, or speak raised
    nextId,     \* _nextJobId, _nextGenerationId and _nextRequestNumber of the converter
    job,        \* the job made of it, if one was
    submitted,  \* the generations submitted so far
    segments,   \* the segments of the last request, and its category
    category,
    answered    \* the indexes reported at its rejection

jobVars == <<speech, outcome, nextId, job, submitted, segments, category, answered>>

NoJob == [items |-> <<>>]

InitJobs ==
    /\ speech = <<>> /\ outcome = "none" /\ job = NoJob
    /\ segments = <<>> /\ category = "none" /\ answered = <<>>
    /\ nextId = 1 /\ submitted = <<>>

ForgetSpeech ==
    /\ speech' = <<>> /\ outcome' = "none" /\ job' = NoJob
    /\ segments' = <<>> /\ category' = "none" /\ answered' = <<>>
    /\ UNCHANGED <<nextId, submitted>>

-----------------------------------------------------------------------------
(* Conversion. *)

Prosody == {"RateCommand", "PitchCommand", "VolumeCommand"}
Ignored == {"SuppressUnicodeNormalizationCommand", "BeepCommand"}

Truthy(v) == v # None /\ v # Str("empty", 0)

(* Faulty variant: the default is not compared with the values. *)
ProsodyTyped(i) ==
    /\ IsA("int", i.offset) /\ i.multiplier[1] \in {"int", "float"} /\ IsA("bool", i.isDefault)

(* An offset or a multiplier, never both, and the default if neither. *)
ProsodyAgrees(i) ==
    /\ IsA("int", i.offset) /\ i.multiplier[1] \in {"int", "float"} /\ IsA("bool", i.isDefault)
    /\ i.offset = Num(0) \/ IsOne(i.multiplier)
    /\ i.isDefault = Bool(i.offset = Num(0) /\ IsOne(i.multiplier))

WellFormed(i) ==
    \/ i.class \in {"str"} \union Ignored
    \/ i.class = "IndexCommand" /\ IsA("int", i.index)
    \/ i.class = "CharacterModeCommand" /\ IsA("bool", i.state) /\ i.isDefault = Bool(~i.state[2])
    \/ i.class = "LangChangeCommand" /\ i.lang[1] \in {"str", "none"}
                                     /\ i.isDefault = Bool(~Truthy(i.lang))
    \/ i.class = "BreakCommand" /\ IsA("int", i.time)
    \/ i.class \in Prosody /\ ProsodyAgrees(i)
    \/ i.class = "PhonemeCommand" /\ IsA("str", i.ipa) /\ i.text[1] \in {"str", "none"}

ProsodyType == [RateCommand |-> "rate", PitchCommand |-> "pitch", VolumeCommand |-> "volume"]

ConvertItem(i) ==
    CASE i.class = "str" -> [type |-> "text", text |-> i.text]
      [] i.class = "IndexCommand" -> [type |-> "index", index |-> i.index]
      [] i.class = "CharacterModeCommand" -> [type |-> "characterMode", state |-> i.state]
      [] i.class = "LangChangeCommand" -> [type |-> "language", language |-> i.lang]
      [] i.class = "BreakCommand" -> [type |-> "break", durationMs |-> i.time]
      [] i.class \in Prosody ->
            [type |-> ProsodyType[i.class], offset |-> i.offset,
             multiplier |-> i.multiplier, isDefault |-> i.isDefault]
      [] i.class = "PhonemeCommand" ->
            [type |-> "phoneme", ipa |-> i.ipa, fallbackText |-> i.text]

Items(s) ==
    LET items[n \in 0 .. Len(s)] ==
            IF n = 0 THEN <<>>
            ELSE IF s[n].class \in Ignored THEN items[n - 1]
            ELSE Append(items[n - 1], ConvertItem(s[n]))
    IN items[Len(s)]

(* Faulty variant: the check comes one identifier late. *)
ExhaustedLate == nextId > MaxIdentifier + 1

Exhausted == nextId > MaxIdentifier

NewJob(s) ==
    [jobId |-> Num(nextId), generationId |-> Num(nextId), requestNumber |-> Num(nextId),
     items |-> Items(s), voiceId |-> Word("voice"), rate |-> Num(1)]

-----------------------------------------------------------------------------
(* Segments.  A text is the sequence of the strings it was joined from. *)

(* Empty strings leave nothing in it. *)
Join(parts) ==
    LET text[n \in 0 .. Len(parts)] ==
            IF n = 0 THEN <<>>
            ELSE IF parts[n][3] > 0 THEN Append(text[n - 1], parts[n]) ELSE text[n - 1]
    IN text[Len(parts)]

Segment(text, mode, indexes) == [text |-> text, characterMode |-> mode, indexesAfter |-> indexes]

Flush(b) ==
    IF b.parts = <<>> THEN b
    ELSE [b EXCEPT !.parts = <<>>, !.segments = Append(@, Segment(Join(b.parts), b.mode, <<>>))]

(* Faulty variant: the index is put before the text that is still collected. *)
AddIndexEarly(b, n) ==
    LET c == b
        last == Len(c.segments)
    IN IF last = 0
       THEN [c EXCEPT !.segments = <<Segment(<<>>, FALSE, <<n>>)>>]
       ELSE [c EXCEPT !.segments[last].indexesAfter = Append(@, n)]

AddIndex(b, n) ==
    LET c == Flush(b)
        last == Len(c.segments)
    IN IF last = 0
       THEN [c EXCEPT !.segments = <<Segment(<<>>, FALSE, <<n>>)>>]
       ELSE [c EXCEPT !.segments[last].indexesAfter = Append(@, n)]

BuildItem(b, i) ==
    CASE i.type = "text" -> [b EXCEPT !.parts = Append(@, i.text)]
      [] i.type = "characterMode" ->
            IF i.state[2] = b.mode THEN b ELSE [Flush(b) EXCEPT !.mode = i.state[2]]
      [] i.type = "index" -> AddIndex(b, i.index[2])
      [] OTHER -> b

Built(items) ==
    LET built[n \in 0 .. Len(items)] ==
            IF n = 0 THEN [segments |-> <<>>, parts |-> <<>>, mode |-> FALSE]
            ELSE BuildItem(built[n - 1], items[n])
    IN built[Len(items)]

BuildSegments(items) == Flush(Built(items)).segments

(* buildSegments raises: a phoneme, or nothing to say. *)
Unspeakable(items) ==
    \/ \E k \in DOMAIN items : items[k].type = "phoneme"
    \/ \A k \in DOMAIN BuildSegments(items) : BuildSegments(items)[k].text = <<>>

-----------------------------------------------------------------------------
(* speak() *)

TextLength(text) ==
    LET length[n \in 0 .. Len(text)] == IF n = 0 THEN 0 ELSE length[n - 1] + text[n][3]
    IN length[Len(text)]

SpeechCategory(segs) ==
    IF Len(segs) = 1 /\ TextLength(segs[1].text) <= ShortText
    THEN IF segs[1].characterMode THEN "character" ELSE "navigation"
    ELSE "ordered"

Indexes(s) ==
    LET found[n \in 0 .. Len(s)] ==
            IF n = 0 THEN <<>>
            ELSE IF s[n].class = "IndexCommand" THEN Append(found[n - 1], s[n].index[2])
            ELSE found[n - 1]
    IN found[Len(s)]

(* Faulty variant: only speech with text is answered for. *)
CompleteRejectedTexts(s) ==
    answered' = IF \E k \in DOMAIN s : s[k].class = "str" THEN Indexes(s) ELSE <<>>

(* The indexes of what is rejected are reported at once. *)
CompleteRejectedIndexes(s) == answered' = Indexes(s)

NothingSubmitted == UNCHANGED submitted /\ segments' = <<>> /\ category' = "none"

(* The conversion refuses it. *)
RejectConversion(s) ==
    /\ \E k \in DOMAIN s : ~WellFormed(s[k])
    /\ CompleteRejectedIndexes(s)
    /\ outcome' = "rejected" /\ job' = NoJob
    /\ NothingSubmitted
    /\ UNCHANGED nextId

(* OverflowError is none of the errors that speak expects. *)
RaiseExhausted(s) ==
    /\ \A k \in DOMAIN s : WellFormed(s[k])
    /\ Exhausted
    /\ outcome' = "raised" /\ job' = NoJob /\ answered' = <<>>
    /\ NothingSubmitted
    /\ UNCHANGED nextId

Converts(s) ==
    /\ \A k \in DOMAIN s : WellFormed(s[k])
    /\ ~Exhausted
    /\ job' = NewJob(s)
    /\ nextId' = nextId + 1

(* The job is made, and its identifiers are used up, before it is refused. *)
RejectSegments(s) ==
    /\ Converts(s)
    /\ Unspeakable(Items(s))
    /\ CompleteRejectedIndexes(s)
    /\ outcome' = "rejected"
    /\ NothingSubmitted

SubmitSpeech(s) ==
    /\ Converts(s)
    /\ ~Unspeakable(Items(s))
    /\ segments' = BuildSegments(Items(s))
    /\ category' = SpeechCategory(segments')
    /\ submitted' = Append(submitted, nextId)
    /\ outcome' = "submitted" /\ answered' = <<>>

Speak(s) ==
    /\ speech' = s
    /\ RejectConversion(s) \/ RaiseExhausted(s) \/ RejectSegments(s) \/ SubmitSpeech(s)

(* The conversion alone, without what the jobs are sent to. *)
NextJobs == ForgetSpeech \/ \E s \in Speech : Speak(s)
SpecJobs == InitJobs /\ [][NextJobs]_jobVars

-----------------------------------------------------------------------------
(* Properties. *)

(* What a sequence says, string by string in its mode, and the indexes between. *)
Mark(n) == <<"index", n>>
Saying(t, mode) == <<"text", t, mode>>

SayItem(acc, i) ==
    CASE i.class = "CharacterModeCommand" -> [acc EXCEPT !.mode = i.state[2]]
      [] i.class = "IndexCommand" -> [acc EXCEPT !.said = Append(@, Mark(i.index[2]))]
      [] i.class = "str" /\ i.text[3] > 0 -> [acc EXCEPT !.said = Append(@, Saying(i.text, acc.mode))]
      [] OTHER -> acc

SaidBy(s) ==
    LET said[n \in 0 .. Len(s)] ==
            IF n = 0 THEN [said |-> <<>>, mode |-> FALSE] ELSE SayItem(said[n - 1], s[n])
    IN said[Len(s)]

Said(s) == SaidBy(s).said

(* What segments say, and the indexes they answer for. *)
Sayings(text, mode) == [k \in 1 .. Len(text) |-> Saying(text[k], mode)]
Marks(indexes) == [k \in 1 .. Len(indexes) |-> Mark(indexes[k])]

Spoken(segs) ==
    LET spoken[n \in 0 .. Len(segs)] ==
            IF n = 0 THEN <<>>
            ELSE spoken[n - 1] \o Sayings(segs[n].text, segs[n].characterMode) \o Marks(segs[n].indexesAfter)
    IN spoken[Len(segs)]

SegmentIndexes(segs) ==
    LET all[n \in 0 .. Len(segs)] == IF n = 0 THEN <<>> ELSE all[n - 1] \o segs[n].indexesAfter
    IN all[Len(segs)]

(* The segments of a request say what its sequence said: every string in its
   character mode, every index after the same text, in the same order. *)
SegmentsSayTheSpeech == outcome = "submitted" => Spoken(segments) = Said(speech)

(* Unless speak raises, NVDA gets an answer for every index of the sequence:
   through the request's segments or at once at its rejection, not both. *)
IndexesAreAnswered ==
    outcome \in {"submitted", "rejected"} =>
        Indexes(speech) = SegmentIndexes(segments) \o answered

(* Every request gets a generation of its own, later than all before it and
   within the range of the identifiers, rejected speech in between or not. *)
GenerationsIncrease ==
    \A i \in 1 .. Len(submitted) :
        submitted[i] <= MaxIdentifier /\ \A j \in 1 .. i - 1 : submitted[j] < submitted[i]
=============================================================================
