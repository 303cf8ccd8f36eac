----------------------------- MODULE JobTransfer -----------------------------
(***************************************************************************)
(* Speech on its way to a worker.  The job made of NVDA's sequence travels *)
(* to the fake worker in a SubmitJobRequest, as other messages do, or each *)
(* of its segments to the runtime worker in a request of its own.  The     *)
(* frame that is received may be damaged, or come from a peer that is      *)
(* mistaken.                                                               *)
(***************************************************************************)
EXTENDS SegmentTransfer, ProtocolCodec

CONSTANTS
    Messages,         \* messages other than the converter's jobs
    Damaged(_),       \* what a document may become on its way
    DamagedLength     \* bound: how long speech may be for its frame to be damaged

ASSUME MessagesAssumption == \A m \in Messages : IsMessageObject(m)

(* MAX_IDENTIFIER of the converter is the protocol's. *)
ASSUME JobsFit == MaxIdentifier <= MaxId /\ MaxId >= 2 /\ Limits["rate"] >= 1

JobMessage ==
    [class |-> "submitJobRequest", messageType |-> "submitJobRequest",
     protocolVersion |-> Num(1),
     sessionId |-> Num(1), sequenceNumber |-> Num(2), requestId |-> Num(2),
     payload |-> [generationId |-> job.generationId, jobId |-> job.jobId, job |-> Object(job)]]

Send ==
    /\ Exchange
    /\ \/ stage = "spoken" /\ job # NoJob /\ message' = JobMessage
       \/ stage = "idle" /\ message' \in Messages
    /\ frame' = EncodeMessage(message')
    /\ stage' = IF frame'[1] = "ok" THEN "receiving" ELSE "received"
    /\ UNCHANGED received

Damage ==
    /\ Garble
    /\ \/ stage = "receiving" /\ Len(speech) <= DamagedLength
       \/ stage = "answering" /\ Len(speech) <= RecordedLength /\ Len(audio) <= DamagedLength
    /\ \/ \E w \in Damaged(frame[2][2]) : IsDocument(w) /\ frame' = <<"ok", <<"json", w>>>>
       \/ \E u \in DOMAIN Unreadable : frame' = <<"ok", <<u>>>>

Receive ==
    /\ Exchange
    /\ stage = "receiving"
    /\ received' = DecodeMessage(frame[2])
    /\ stage' = "received"
    /\ UNCHANGED <<message, frame>>

Next ==
    SpeakSequence \/ Forget \/ Send \/ SendSegment \/ Damage \/ Receive \/ ReceiveAudio \/ CacheAudio

Spec == Init /\ [][Next]_vars

-----------------------------------------------------------------------------
(* Properties. *)

(* Every message that is encoded is decoded to what it was. *)
RoundTrip ==
    stage = "received" /\ frame[1] = "ok" /\ ~damaged => received = <<"ok", message>>

(* The decoder accepts nothing that the encoder would not have written: the two
   validations, written apart, agree.  A lone surrogate, which JSON can escape
   and UTF-8 cannot hold, is the exception. *)
DecodedIsEncodable ==
    stage = "received" /\ received[1] = "ok" =>
        \/ EncodeMessage(received[2]) = frame
        \/ LoneSurrogate \in Inside(frame[2][2]) /\ EncodeMessage(received[2]) = <<"raises">>

(* What the converter lets through and the encoder does not. *)
BeyondTheWire(i) ==
    \/ i.type = "break" /\ i.durationMs[2] \notin 0 .. MaxId
    \/ i.type = "index" /\ ~(i.index[2] \in -MaxId .. MaxId)
    \/ IsProsody(i.type) /\ RequireFields(i, ProsodySchema) # "ok"

(* A job of the converter can be sent, unless it is too long or has one of the
   items BeyondTheWire: its identifiers, its prosody and its types are always
   what the protocol asks for. *)
ConvertedJobsTravel ==
    stage = "received" /\ job # NoJob /\ frame[1] \in {"error", "raises"} =>
        \/ frame[1] = "error" /\ frame[2] \in {"jobSizeLimitExceeded", "oversizedFrame"}
        \/ \E k \in DOMAIN job.items :
              LoneSurrogate \in {job.items[k][n] : n \in DOMAIN job.items[k] \ {"type"}}
        \/ \E k \in DOMAIN job.items : BeyondTheWire(job.items[k])

=============================================================================
