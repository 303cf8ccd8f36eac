---- MODULE MCJobTransfer ----
EXTENDS JobTransfer, TLC

MCLimits ==
    [text |-> 4, total |-> 6, ipa |-> 1, fallback |-> 1, language |-> 1, voice |-> 1, error |-> 1,
     items |-> 3, depth |-> 6, frame |-> 20, rate |-> 2]

String(s, n) == [class |-> "str", text |-> Str(s, n)]
Index(n) == [class |-> "IndexCommand", index |-> Num(n)]
CharacterMode(on) == [class |-> "CharacterModeCommand", state |-> Bool(on), isDefault |-> Bool(~on)]
Break(t) == [class |-> "BreakCommand", time |-> Num(t)]
Change(class, offset, multiplier, default) ==
    [class |-> class, offset |-> Num(offset), multiplier |-> multiplier, isDefault |-> Bool(default)]
Language(lang, default) == [class |-> "LangChangeCommand", lang |-> lang, isDefault |-> Bool(default)]

(* What segments are made of, in sequences of up to four. *)
Spoken4 == {String("a", 1), Index(1), Index(2), CharacterMode(TRUE), CharacterMode(FALSE)}

Others ==
    {String("empty", 0), String("sentence", 4), String("wide", 4), String("loneSurrogate", 1),
     Index(9), Break(0), Break(-1), Break(99),
     Change("PitchCommand", 0, Num(1), TRUE), Change("RateCommand", 2, Float("one"), FALSE),
     Change("VolumeCommand", 0, Float("half"), FALSE), Change("VolumeCommand", 0, Float("infinite"), FALSE),
     Change("PitchCommand", 0, Num(99), FALSE),
     Change("PitchCommand", 0, Num(1), FALSE), Change("RateCommand", 1, Float("half"), FALSE),
     Language(LoneSurrogate, FALSE), Language(None, TRUE), Language(Word("fa"), FALSE), Language(Word("fa"), TRUE),
     [class |-> "PhonemeCommand", ipa |-> Word("ipa"), text |-> None],
     [class |-> "PhonemeCommand", ipa |-> Word("ipa"), text |-> Word("b")],
     [class |-> "BeepCommand"], [class |-> "CallbackCommand"]}

MCSpeech ==
    BoundedSeq(Spoken4, 4) \union {<<x>> : x \in Others}
    \union {<<x, y>> : x \in Others, y \in Spoken4 \union Others}
    \union {<<String("a", 1), x, Index(1)>> : x \in Others}

MCWorkerLimits == [text |-> 4, request |-> 6, header |-> 2, pcm |-> 14, id |-> 3]

(* Audio that is trimmed, that is too long, and none. *)
MCRecordings ==
    BoundedSeq({"quiet", "loud"}, 7) \union {[k \in 1 .. 8 |-> "loud"]}

Envelope(type, sequence) ==
    [messageType |-> type, protocolVersion |-> Num(1), sessionId |-> Num(1),
     sequenceNumber |-> Num(sequence), requestId |-> Num(1)]
Message(type, sequence, p) == Envelope(type, sequence) @@ [class |-> type, payload |-> p]
None3 == [generationId |-> Num(1), jobId |-> Num(2), resultId |-> Num(3)]
Only(names) == [n \in names |-> None3[n]]
Status(s) == None3 @@ [status |-> Word(s)]
Error(text) == [error |-> Object([code |-> Word("invalidSequence"), message |-> text])]

MCMessages ==
    {Message(t, 1, <<>>) : t \in {"helloRequest", "shutdownRequest", "shutdownResponse"}}
    \* a message in the envelope of another
    \union {Envelope("helloRequest", 1) @@ [class |-> "shutdownResponse", payload |-> <<>>]}
    \union {Message("cancelGenerationRequest", n, Only({"generationId"})) : n \in {0, 1, 4}}
    \union {Message("helloResponse", 1, [capabilities |-> Object(Abilities)]),
            Message("jobAcceptedResponse", 1, Only({"generationId", "jobId"})),
            Message("cancelGenerationResponse", 1, Only({"generationId"}) @@ [changedState |-> Bool(TRUE)]),
            Message("fakeResultRequest", 1, None3)}
    \union {Message("fakeResultResponse", 1, Status(s)) : s \in ResultStatuses}
    \union {Message("errorResponse", 1, Error(text)) : text \in {Word("message"), Str("message", 2)}}

MCJunk ==
    {Num(0), Num(1), Num(2), Num(4), Num(-1), Num(99), Bool(TRUE), Bool(FALSE), None,
     Word("a"), Str("long", 2), Str("longer", 5), LoneSurrogate, Word("helloRequest"), Word("pitch"),
     Str("empty", 0), Float("one"), Float("half"), Float("infinite"),
     List(<<>>), Dict(<<>>), Dict([type |-> Word("text")]), Dict([type |-> Word("index"), index |-> Num(0)]),
     List(<<List(<<List(<<List(<<>>)>>)>>)>>)}

(* Every way to lose, add or replace one part of a document, and junk for all of it. *)
RECURSIVE Variants(_)
Variants(v) ==
    CASE IsA("dict", v) ->
            LET f == v[2]
            IN {Dict([n \in DOMAIN f \ {m} |-> f[n]]) : m \in DOMAIN f}
               \union {Dict(f @@ "extra" :> None)}
               \union UNION {{Dict([f EXCEPT ![m] = w]) : w \in MCJunk \union Variants(f[m])} : m \in DOMAIN f}
      [] IsA("list", v) ->
            LET s == v[2]
            IN {List(Append(s, w)) : w \in MCJunk}
               \union UNION {{List([s EXCEPT ![k] = w]) : w \in Variants(s[k])} : k \in DOMAIN s}
      [] OTHER -> {}

MCDamaged(v) == Variants(v) \union MCJunk

(* The code points of a document's texts and the number of its other values. *)
RECURSIVE MCFrameLength(_)
MCFrameLength(v) ==
    CASE IsA("str", v) -> v[3]
      [] IsContainer(v) -> MapThenSumSet(LAMBDA n : MCFrameLength(v[2][n]), DOMAIN v[2])
      [] OTHER -> 1
====
