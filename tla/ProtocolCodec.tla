---------------------------- MODULE ProtocolCodec ----------------------------
(***************************************************************************)
(* The worker protocol's messages and their JSON frames (protocol.py): what *)
(* encodeMessage and decodeMessage accept, what they make of it, and with   *)
(* which code they refuse the rest.                                        *)
(*                                                                         *)
(* A message is its class, its envelope and its payload; the frame says the *)
(* type that is in the envelope, messageType, and not the class.  A frame   *)
(* is a JSON document, <<"json", v>>, or one of the Unreadable byte strings.*)
(* A result is <<"ok", x>> or <<"error", code>>; "raises" stands for an     *)
(* exception that is not a ProtocolException.                               *)
(***************************************************************************)
EXTENDS Values, FiniteSets, SequencesExt

CONSTANTS
    MaxId,       \* MAX_IDENTIFIER
    MaxFloat,    \* the largest integer that a float can hold
    Limits,      \* the MAX_... of text, total, ipa, fallback, language, voice, error
                 \* (code points), items, depth and frame; 100 for rate
    FrameLength(_)   \* the length of a document's frame

(* Messages are nested five deep, of the 8 that MAX_NESTING_DEPTH allows. *)
ASSUME CodecAssumption ==
    /\ {MaxId, MaxFloat} \subseteq Nat \ {0} /\ MaxId < MaxFloat
    /\ \A l \in {"text", "total", "ipa", "fallback", "language", "voice", "error", "items",
                 "depth", "frame", "rate"} : Limits[l] \in Nat
    /\ Limits["depth"] >= 5 /\ Limits["error"] >= 1 /\ Limits["rate"] <= MaxId

ErrorCodes ==
    {"malformedFrame", "oversizedFrame", "invalidEncoding", "invalidJson", "duplicateJsonKey",
     "unknownMessageType", "unsupportedProtocolVersion", "missingField", "unknownField",
     "invalidFieldType", "invalidFieldValue", "wrongSession", "handshakeRequired",
     "duplicateHandshake", "invalidSequence", "duplicateRequest", "duplicateJob",
     "generationStale", "generationCancelled", "generationUnknown", "generationOutOfOrder",
     "trackingLimitExceeded", "workerShutDown", "unsupportedJobItem", "jobSizeLimitExceeded",
     "internalFakeWorkerError"}

ResultStatuses ==
    {"acceptedCurrent", "staleGeneration", "cancelledGeneration", "unknownJob", "duplicate"}

-----------------------------------------------------------------------------
(* The checks of one value. *)

Require(condition, code) == IF condition THEN "ok" ELSE code

Typed(type, v, inRange) ==
    IF IsA(type, v) THEN Require(inRange, "invalidFieldValue") ELSE "invalidFieldType"

RequireString(v, limit) ==
    IF IsA("str", v) THEN Require(v[3] <= limit, "jobSizeLimitExceeded") ELSE "invalidFieldType"

RequireStringOrNone(v, limit) == IF v = None THEN "ok" ELSE RequireString(v, limit)

RequireMultiplier(v) ==
    CASE ~(v[1] \in {"int", "float"}) -> "invalidFieldType"
      [] v = Float("infinite") -> "invalidFieldValue"
      [] IsA("int", v) /\ v[2] > MaxFloat -> "raises"      \* OverflowError of math.isfinite
      [] OTHER -> "ok"

RequireField(kind, v) ==
    CASE kind = "id" -> Typed("int", v, v[2] \in 1 .. MaxId)
      [] kind = "natural" -> Typed("int", v, v[2] \in 0 .. MaxId)
      [] kind = "signed" -> Typed("int", v, v[2] \in -MaxId .. MaxId)
      [] kind = "boolean" -> Typed("bool", v, TRUE)
      [] kind \in {"text", "ipa", "voice", "error"} -> RequireString(v, Limits[kind])
      [] kind \in {"fallback", "language"} -> RequireStringOrNone(v, Limits[kind])
      [] kind = "multiplier" -> RequireMultiplier(v)

(* A schema is a sequence of fields and their kinds, in the order of the checks. *)
RequireFields(f, schema) ==
    FirstFailure([k \in 1 .. Len(schema) |-> RequireField(schema[k][2], f[schema[k][1]])])

RequireExactFields(v, names) ==
    IF ~IsA("dict", v) THEN "invalidFieldType"
    ELSE IF ~(names \subseteq DOMAIN v[2]) THEN "missingField"
    ELSE Require(DOMAIN v[2] \subseteq names, "unknownField")

Names(schema) == {schema[k][1] : k \in 1 .. Len(schema)}

-----------------------------------------------------------------------------
(* Items and jobs.  An item of the wire has the fields of the program's, which
   says its type with its class. *)

ProsodySchema == <<<<"offset", "signed">>, <<"multiplier", "multiplier">>>>

ItemSchema ==
    [text |-> <<<<"text", "text">>>>,
     index |-> <<<<"index", "signed">>>>,
     characterMode |-> <<<<"state", "boolean">>>>,
     language |-> <<<<"language", "language">>>>,
     break |-> <<<<"durationMs", "natural">>>>,
     phoneme |-> <<<<"ipa", "ipa">>, <<"fallbackText", "fallback">>>>,
     rate |-> ProsodySchema, pitch |-> ProsodySchema, volume |-> ProsodySchema]

IsProsody(type) == type \in {"rate", "pitch", "volume"}

ItemFields(type) == {"type"} \union Names(ItemSchema[type])
                    \union (IF IsProsody(type) THEN {"isDefault"} ELSE {})

ProsodyConflict(f) ==
    Require(f.offset = Num(0) \/ IsOne(f.multiplier), "invalidFieldValue")

ProsodyDefault(f) ==
    Require(f.isDefault = Bool(f.offset = Num(0) /\ IsOne(f.multiplier)), "invalidFieldValue")

(* The program's item, of the type the class has on the wire. *)
CheckItem(f) ==
    LET fields == RequireFields(f, ItemSchema[f.type])
    IN IF IsProsody(f.type)
       THEN FirstFailure(<<fields, ProsodyConflict(f), ProsodyDefault(f)>>)
       ELSE fields

(* Faulty variant: no fallback text becomes an empty one. *)
ItemToWireOrEmpty(f) ==
    Dict([n \in DOMAIN f |-> IF n = "type" THEN Word(f[n])
                             ELSE IF f[n] = None THEN Str("empty", 0) ELSE f[n]])

ItemToWire(f) == Dict([f EXCEPT !.type = Word(@)])

CheckWireItem(v) ==
    IF ~IsA("dict", v) THEN "invalidFieldType"
    ELSE IF "type" \notin DOMAIN v[2] THEN "missingField"
    ELSE IF ~IsA("str", v[2].type) THEN "invalidFieldType"
    ELSE IF v[2].type[2] \notin DOMAIN ItemSchema THEN "unsupportedJobItem"
    ELSE LET f == v[2]
             type == f.type[2]
             exact == RequireExactFields(v, ItemFields(type))
         IN IF exact # "ok" THEN exact
            ELSE IF IsProsody(type)
            THEN FirstFailure(<<RequireFields(f, ItemSchema[type]), RequireField("boolean", f.isDefault),
                                ProsodyConflict(f), ProsodyDefault(f)>>)
            ELSE RequireFields(f, ItemSchema[type])

WireToItem(v) == [v[2] EXCEPT !.type = @[2]]

JobSchema ==
    <<<<"jobId", "id">>, <<"generationId", "id">>, <<"requestNumber", "id">>, <<"voiceId", "voice">>>>
JobFields == Names(JobSchema) \union {"rate", "items"}

TextSize(f) ==
    CASE f.type = "text" -> f.text[3]
      [] f.type = "phoneme" -> IF f.fallbackText = None THEN 0 ELSE f.fallbackText[3]
      [] OTHER -> 0

TotalText(items) ==
    LET total[n \in 0 .. Len(items)] == IF n = 0 THEN 0 ELSE total[n - 1] + TextSize(items[n])
    IN total[Len(items)]

CheckJob(f) ==
    FirstFailure(
        <<RequireFields(f, JobSchema),
          Require(f.voiceId # Str("empty", 0), "invalidFieldValue"),
          Typed("int", f.rate, f.rate[2] \in 0 .. Limits.rate),
          Require(Len(f.items) <= Limits.items, "jobSizeLimitExceeded"),
          FirstFailure([k \in 1 .. Len(f.items) |-> CheckItem(f.items[k])]),
          Require(TotalText(f.items) <= Limits.total, "jobSizeLimitExceeded")>>)

JobToWire(f) ==
    Dict([f EXCEPT !.items = List([k \in 1 .. Len(f.items) |-> ItemToWire(f.items[k])])])

WireToJob(v) ==
    LET items == v[2].items[2]
    IN [v[2] EXCEPT !.items = [k \in 1 .. Len(items) |-> WireToItem(items[k])]]

(* The fields one by one, and then all that is asked of the program's job. *)
CheckWireJob(v) ==
    LET exact == RequireExactFields(v, JobFields)
        f == v[2]
        items == f.items[2]
        count == IF IsA("list", f.items) THEN Require(Len(items) <= Limits.items, "jobSizeLimitExceeded")
                 ELSE "invalidFieldType"
        inside == IF count # "ok" THEN count
                  ELSE FirstFailure(<<FirstFailure([k \in 1 .. Len(items) |-> CheckWireItem(items[k])]),
                                      RequireFields(f, JobSchema), RequireField("natural", f.rate)>>)
    IN IF exact # "ok" THEN exact
       ELSE IF inside # "ok" THEN inside
       ELSE CheckJob(WireToJob(v))

-----------------------------------------------------------------------------
(* Capabilities: one fixed set, compared as Python compares (TRUE = 1). *)

Abilities ==
    [protocolVersion |-> Num(1), workerIdentity |-> Word("fakeWorker"),
     acceptsSpeechJobs |-> Bool(TRUE), synthesis |-> Bool(FALSE), audio |-> Bool(FALSE),
     cancellation |-> Bool(TRUE), pause |-> Bool(FALSE), models |-> Bool(FALSE),
     streaming |-> Bool(FALSE), notifications |-> Bool(FALSE)]

Flags == DOMAIN Abilities \ {"protocolVersion", "workerIdentity"}

Number(v) ==
    CASE v = Bool(TRUE) \/ v = Float("one") -> Num(1)
      [] v = Bool(FALSE) -> Num(0)
      [] OTHER -> v

PythonEqual(v, w) == Number(v) = Number(w)

CheckCapabilities(f) ==
    FirstFailure(
        <<Require(\A n \in DOMAIN Abilities : PythonEqual(f[n], Abilities[n]), "invalidFieldValue"),
          Require(\A n \in Flags : IsA("bool", f[n]), "invalidFieldType")>>)

CheckWireCapabilities(v) ==
    LET exact == RequireExactFields(v, DOMAIN Abilities)
        f == v[2]
    IN IF exact # "ok" THEN exact
       ELSE FirstFailure(
                <<RequireField("id", f.protocolVersion), RequireString(f.workerIdentity, Limits.error),
                  Require(\A n \in Flags : IsA("bool", f[n]), "invalidFieldType"),
                  CheckCapabilities(f)>>)

-----------------------------------------------------------------------------
(* Messages. *)

Ids(names) == [k \in 1 .. Len(names) |-> <<names[k], "id">>]

Payload ==
    [helloRequest |-> <<>>, shutdownRequest |-> <<>>, shutdownResponse |-> <<>>,
     helloResponse |-> <<<<"capabilities", "capabilities">>>>,
     submitJobRequest |-> Ids(<<"generationId", "jobId">>) \o <<<<"job", "job">>>>,
     jobAcceptedResponse |-> Ids(<<"generationId", "jobId">>),
     cancelGenerationRequest |-> Ids(<<"generationId">>),
     cancelGenerationResponse |-> Ids(<<"generationId">>) \o <<<<"changedState", "boolean">>>>,
     fakeResultRequest |-> Ids(<<"generationId", "jobId", "resultId">>),
     fakeResultResponse |-> <<<<"status", "status">>>> \o Ids(<<"generationId", "jobId", "resultId">>),
     errorResponse |-> <<<<"error", "error">>>>]

EnvelopeIds == Ids(<<"sessionId", "sequenceNumber", "requestId">>)

RootFields == {"protocolVersion", "messageType", "sessionId", "sequenceNumber", "requestId", "payload"}

MessageFields == RootFields \union {"class"}

MatchingIds(p) ==
    Require("job" \in DOMAIN p => p.generationId = p.job[2].generationId /\ p.jobId = p.job[2].jobId,
            "invalidFieldValue")

CheckEnvelope(e) ==
    FirstFailure(
        <<Typed("int", e.protocolVersion, TRUE),
          Require(e.protocolVersion = Num(1), "unsupportedProtocolVersion"),
          Require(e.messageType = e.class, "invalidFieldValue"),
          RequireFields(e, EnvelopeIds)>>)

(* The program's payload: a job, capabilities or an error are objects in it. *)
CheckPart(kind, v) ==
    CASE kind = "capabilities" -> CheckCapabilities(v[2])
      [] kind = "job" -> CheckJob(v[2])
      [] kind = "status" -> Require(v[2] \in ResultStatuses, "invalidFieldType")
      [] kind = "error" ->
            FirstFailure(<<Require(v[2].code[2] \in ErrorCodes, "invalidFieldType"),
                           Require(RequireField("error", v[2].message) = "ok", "invalidFieldValue")>>)
      [] OTHER -> RequireField(kind, v)

CheckMessage(m) ==
    LET schema == Payload[m.class]
    IN FirstFailure(
            <<CheckEnvelope(m),
              FirstFailure([k \in 1 .. Len(schema) |->
                                CheckPart(schema[k][2], m.payload[schema[k][1]])]),
              MatchingIds(m.payload)>>)

PartToWire(name, v) ==
    CASE name = "job" -> JobToWire(v[2])
      [] name \in {"capabilities", "error"} -> Dict(v[2])
      [] OTHER -> v

MessageToWire(m) ==
    LET payload == Dict([n \in DOMAIN m.payload |-> PartToWire(n, m.payload[n])])
    IN Dict([n \in RootFields |-> CASE n = "messageType" -> Word(m[n])
                                    [] n = "payload" -> payload
                                    [] OTHER -> m[n]])

-----------------------------------------------------------------------------
(* Documents as a whole. *)

Children(v) ==
    CASE IsA("dict", v) -> {v[2][n] : n \in DOMAIN v[2]}
      [] IsA("list", v) -> Range(v[2])
      [] OTHER -> {}

IsContainer(v) == v[1] \in {"dict", "list"}

(* What lies n containers deep. *)
Layer(v, n) ==
    LET layer[k \in 0 .. n] ==
            IF k = 0 THEN {v} ELSE UNION {Children(c) : c \in layer[k - 1]}
    IN layer[n]

(* A container in as many others as may be nested is one too many. *)
TooDeep(v) == \E c \in Layer(v, Limits.depth) : IsContainer(c)

(* All of a document that is not too deep. *)
Inside(v) == UNION {Layer(v, n) : n \in 0 .. Limits.depth}

Refusal(code) == IF code = "raises" THEN <<"raises">> ELSE <<"error", code>>

EncodeMessage(m) ==
    LET wire == MessageToWire(m)
    IN IF CheckMessage(m) # "ok" THEN Refusal(CheckMessage(m))
       ELSE IF LoneSurrogate \in Inside(wire) THEN <<"raises">>     \* UnicodeEncodeError
       ELSE IF FrameLength(wire) > Limits.frame THEN <<"error", "oversizedFrame">>
       ELSE <<"ok", <<"json", wire>>>>

-----------------------------------------------------------------------------
(* Decoding. *)

CheckWireEnvelope(root) ==
    LET exact == RequireExactFields(root, RootFields)
        f == root[2]
    IN IF exact # "ok" THEN exact
       ELSE FirstFailure(
                <<Typed("int", f.protocolVersion, TRUE),
                  Require(f.protocolVersion = Num(1), "unsupportedProtocolVersion"),
                  Require(IsA("str", f.messageType), "invalidFieldType"),
                  Require(IsA("str", f.messageType) => f.messageType[2] \in DOMAIN Payload,
                          "unknownMessageType"),
                  RequireFields(f, EnvelopeIds),
                  Require(IsA("dict", f.payload), "invalidFieldType")>>)

OneOf(v, names) ==
    IF IsA("str", v) THEN Require(v[2] \in names, "invalidFieldValue") ELSE "invalidFieldType"

CheckWireError(v) ==
    LET exact == RequireExactFields(v, {"code", "message"})
    IN IF exact # "ok" THEN exact
       ELSE FirstFailure(<<OneOf(v[2].code, ErrorCodes), RequireField("error", v[2].message)>>)

CheckWirePart(kind, v) ==
    CASE kind = "capabilities" -> CheckWireCapabilities(v)
      [] kind = "job" -> CheckWireJob(v)
      [] kind = "status" -> OneOf(v, ResultStatuses)
      [] kind = "error" -> CheckWireError(v)
      [] OTHER -> RequireField(kind, v)

(* Faulty variant: the request's ids are not compared with its job's. *)
CheckWireMessageTrusting(root) ==
    LET f == root[2]
        p == f.payload[2]
        schema == Payload[f.messageType[2]]
        exact == RequireExactFields(f.payload, Names(schema))
        parts == FirstFailure([k \in 1 .. Len(schema) |->
                                    CheckWirePart(schema[k][2], p[schema[k][1]])])
    IN IF CheckWireEnvelope(root) # "ok" THEN CheckWireEnvelope(root)
       ELSE IF exact # "ok" THEN exact
       ELSE parts

CheckWireMessage(root) ==
    LET f == root[2]
        p == f.payload[2]
        schema == Payload[f.messageType[2]]
        exact == RequireExactFields(f.payload, Names(schema))
        parts == FirstFailure([k \in 1 .. Len(schema) |->
                                    CheckWirePart(schema[k][2], p[schema[k][1]])])
    IN IF CheckWireEnvelope(root) # "ok" THEN CheckWireEnvelope(root)
       ELSE IF exact # "ok" THEN exact
       ELSE IF parts # "ok" THEN parts
       ELSE MatchingIds(p)

WireToPart(name, v) ==
    CASE name = "job" -> Object(WireToJob(v))
      [] name \in {"capabilities", "error"} -> Object(v[2])
      [] OTHER -> v

WireToMessage(root) ==
    LET f == root[2]
        p == f.payload[2]
    IN [n \in MessageFields |-> CASE n \in {"class", "messageType"} -> f.messageType[2]
                                  [] n = "payload" -> [k \in DOMAIN p |-> WireToPart(k, p[k])]
                                  [] OTHER -> f[n]]

Unreadable ==
    [notBytes |-> "malformedFrame", empty |-> "malformedFrame", oversized |-> "oversizedFrame",
     byteOrderMark |-> "invalidEncoding", notUtf8 |-> "invalidEncoding",
     notJson |-> "invalidJson", nan |-> "invalidJson", duplicateKey |-> "duplicateJsonKey",
     longInteger |-> "raises"]      \* ValueError of int: more than 4300 digits

(* Depth, numbers and type of the document, and then its message. *)
CheckDocument(v) ==
    IF TooDeep(v) THEN "malformedFrame"
    ELSE IF Float("infinite") \in Inside(v) THEN "invalidJson"
    ELSE IF ~IsA("dict", v) THEN "malformedFrame"
    ELSE CheckWireMessage(v)

DecodeMessage(frame) ==
    IF frame[1] # "json" THEN Refusal(Unreadable[frame[1]])
    ELSE IF FrameLength(frame[2]) > Limits.frame THEN <<"error", "oversizedFrame">>
    ELSE IF CheckDocument(frame[2]) # "ok" THEN Refusal(CheckDocument(frame[2]))
    ELSE <<"ok", WireToMessage(frame[2])>>

-----------------------------------------------------------------------------
(* What the two may be given.  The encoder gets the program's objects, whose
   classes declare their fields; the types of most are checked, these are not. *)

IsItemObject(i) == i.type \in DOMAIN ItemSchema /\ HasFields(i, ItemFields(i.type))

IsJobObject(j) ==
    /\ HasFields(j, JobFields)
    /\ j.items \in Seq(Range(j.items))
    /\ \A k \in DOMAIN j.items : IsItemObject(j.items[k])

IsPartObject(kind, v) ==
    CASE kind = "job" -> v = Object(v[2]) /\ IsJobObject(v[2])
      [] kind = "capabilities" -> /\ v = Object(v[2]) /\ HasFields(v[2], DOMAIN Abilities)
                                  /\ IsA("int", v[2].protocolVersion)
      [] kind = "error" -> /\ v = Object(v[2]) /\ HasFields(v[2], {"code", "message"})
                           /\ IsA("str", v[2].code)
      [] kind = "status" -> IsA("str", v)
      [] OTHER -> TRUE

IsMessageObject(m) ==
    /\ HasFields(m, MessageFields)
    /\ {m.class, m.messageType} \subseteq DOMAIN Payload
    /\ LET schema == Payload[m.class]
       IN /\ HasFields(m.payload, Names(schema))
          /\ \A k \in 1 .. Len(schema) : IsPartObject(schema[k][2], m.payload[schema[k][1]])

(* The decoder gets what the JSON parser makes of a frame.  A keyword has one
   length, as any text has. *)
Keywords == DOMAIN Payload \union DOMAIN ItemSchema

IsJson(v) ==
    \/ IsScalar(v) /\ (IsA("str", v) /\ v[2] \in Keywords => v = Word(v[2]))
    \/ IsA("dict", v) /\ v = Dict(v[2]) /\ HasFields(v[2], DOMAIN v[2])
    \/ IsA("list", v) /\ v = List(v[2]) /\ v[2] \in Seq(Range(v[2]))

IsDocument(v) == \A c \in Inside(v) : IsJson(c)
==============================================================================
