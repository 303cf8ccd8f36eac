------------------------------ MODULE FakeWorker ------------------------------
(***************************************************************************)
(* The fake worker (_nvdaPiperDriver/fakeWorker.py), the state machine of   *)
(* the worker protocol: one client sends it frames, one at a time, with     *)
(* whatever identifiers and sequence numbers it likes, and the worker       *)
(* accepts or rejects each.  Frames that do not decode never get here.      *)
(***************************************************************************)
EXTENDS Integers, FiniteSets, Sequences

CONSTANTS
    MAX_TRACKED_REQUESTS, MAX_TRACKED_GENERATIONS, MAX_TRACKED_JOBS,
    MAX_TRACKED_RESULTS, MAX_CANCELLED_GENERATIONS,
    SessionIds, RequestIds, JobIds, ResultIds,   \* what a frame may carry
    MaxGeneration, MaxSequence,                  \* bounds of the numbers in a frame
    None                                         \* Python's None

GenerationIds == 1 .. MaxGeneration
NoGeneration == 0     \* _activeGenerationId is None

ASSUME LimitsAssumption ==
    /\ {MAX_TRACKED_REQUESTS, MAX_TRACKED_GENERATIONS, MAX_TRACKED_JOBS,
        MAX_TRACKED_RESULTS, MAX_CANCELLED_GENERATIONS} \subseteq Nat \ {0}
    /\ MaxGeneration \in Nat /\ MaxSequence \in Nat
ASSUME NoneAssumption == None \notin SessionIds

(* The envelope of a decoded message; its payload is given to the handler.  A
   message that is no request at all has the type "response". *)
Envelope ==
    [type: {"hello", "submit", "cancel", "result", "shutdown", "response"},
     session: SessionIds, sequence: 1 .. MaxSequence, id: RequestIds]

VARIABLES
    sessionId, nextSequenceNumber, acceptedRequestIds, activeGenerationId,
    trackedGenerations, acceptedJobs, acceptedResults, cancelledGenerations, isShutDown,
    reply,     \* the last response: an error code, or what was accepted
    journal    \* history: jobs, cancellations and results of known jobs, with their answers

ledgerVars == <<sessionId, activeGenerationId, trackedGenerations, acceptedJobs, acceptedResults,
                cancelledGenerations, isShutDown>>
vars == <<ledgerVars, nextSequenceNumber, acceptedRequestIds, reply, journal>>

Init ==
    /\ sessionId = None /\ nextSequenceNumber = 1 /\ acceptedRequestIds = {}
    /\ activeGenerationId = NoGeneration /\ trackedGenerations = {}
    /\ acceptedJobs = [j \in {} |-> NoGeneration]
    /\ acceptedResults = {} /\ cancelledGenerations = {}
    /\ isShutDown = FALSE
    /\ reply = "none" /\ journal = <<>>

-----------------------------------------------------------------------------
(* The checks, each in the order of the code: the first that fails answers. *)

(* Faulty variant: every generation seen is as good as the active one. *)
ActiveOnce(g) == g \in trackedGenerations

Active(g) == g = activeGenerationId

(* Faulty variant: generations may be skipped. *)
OutOfOrderNever(g) == FALSE

(* The first generation must be one, every other the next. *)
OutOfOrder(g) == g > activeGenerationId + 1

JobRejection(g, j) ==
    IF g \in cancelledGenerations THEN "generationCancelled"
    ELSE IF g < activeGenerationId THEN "generationStale"
    ELSE IF OutOfOrder(g) THEN "generationOutOfOrder"
    ELSE IF j \in DOMAIN acceptedJobs THEN "duplicateJob"
    ELSE IF Cardinality(DOMAIN acceptedJobs) >= MAX_TRACKED_JOBS THEN "trackingLimitExceeded"
    ELSE IF ~Active(g) /\ Cardinality(trackedGenerations) >= MAX_TRACKED_GENERATIONS
      THEN "trackingLimitExceeded"
    ELSE "accepted"

(* Faulty variant: an old generation can be cancelled too. *)
ChangesStateOfAny(g) == g \notin cancelledGenerations

(* Whether a cancellation is the first of the active generation. *)
ChangesState(g) == Active(g) /\ g \notin cancelledGenerations

CancelRejection(g) ==
    IF g > activeGenerationId THEN "generationUnknown"
    ELSE IF ChangesState(g) /\ Cardinality(cancelledGenerations) >= MAX_CANCELLED_GENERATIONS
      THEN "trackingLimitExceeded"
    ELSE "accepted"

FakeResultStatus(g, j, result) ==
    IF j \notin DOMAIN acceptedJobs THEN "unknownJob"
    ELSE IF acceptedJobs[j] # g THEN "unknownJob"
    ELSE IF g \in cancelledGenerations THEN "cancelledGeneration"
    ELSE IF ~Active(g) THEN "staleGeneration"
    ELSE IF <<j, result>> \in acceptedResults THEN "duplicate"
    ELSE "acceptedCurrent"

ResultRejection(status) ==
    IF status = "acceptedCurrent" /\ Cardinality(acceptedResults) >= MAX_TRACKED_RESULTS
      THEN "trackingLimitExceeded"
    ELSE "accepted"

(* Faulty variant: no slot is kept. *)
NoSlotAtAll(type) ==
    type # "shutdown" /\ Cardinality(acceptedRequestIds) >= MAX_TRACKED_REQUESTS

(* The last slot for request ids is kept for the shutdown. *)
NoSlot(type) ==
    type # "shutdown" /\ Cardinality(acceptedRequestIds) >= MAX_TRACKED_REQUESTS - 1

(* _stateRejection up to the checks of the payload. *)
StateRejection(e) ==
    IF isShutDown THEN "workerShutDown"
    ELSE IF e.type = "response" THEN "unknownMessageType"
    ELSE IF sessionId = None /\ e.type # "hello" THEN "handshakeRequired"
    ELSE IF sessionId # None /\ e.type = "hello" THEN "duplicateHandshake"
    ELSE IF sessionId # None /\ e.session # sessionId THEN "wrongSession"
    ELSE IF e.id \in acceptedRequestIds THEN "duplicateRequest"
    ELSE IF e.sequence # nextSequenceNumber THEN "invalidSequence"
    ELSE IF NoSlot(e.type) THEN "trackingLimitExceeded"
    ELSE "accepted"

-----------------------------------------------------------------------------
(* handleFrame: of a frame that is rejected, and of one of each type. *)

Reject(code) ==
    /\ code # "accepted"
    /\ reply' = code
    /\ UNCHANGED <<ledgerVars, nextSequenceNumber, acceptedRequestIds, journal>>

Accept(e, answer) ==
    /\ StateRejection(e) = "accepted"
    /\ acceptedRequestIds' = acceptedRequestIds \union {e.id}
    /\ nextSequenceNumber' = nextSequenceNumber + 1
    /\ reply' = answer

Write(event, g, j, result, answer) ==
    journal' = Append(journal, [event |-> event, generation |-> g, job |-> j, result |-> result,
                                answer |-> answer])

(* Faulty variant: the wrong field of the envelope is kept. *)
HelloKeepsRequestId(e) ==
    /\ e.type = "hello" /\ Accept(e, "helloResponse")
    /\ sessionId' = e.id
    /\ UNCHANGED <<activeGenerationId, trackedGenerations, acceptedJobs, acceptedResults,
                   cancelledGenerations, isShutDown, journal>>

Hello(e) ==
    /\ e.type = "hello" /\ Accept(e, "helloResponse")
    /\ sessionId' = e.session
    /\ UNCHANGED <<activeGenerationId, trackedGenerations, acceptedJobs, acceptedResults,
                   cancelledGenerations, isShutDown, journal>>

SubmitJob(e, g, j) ==
    /\ e.type = "submit" /\ JobRejection(g, j) = "accepted" /\ Accept(e, "jobAccepted")
    /\ trackedGenerations' = trackedGenerations \union {g}
    /\ activeGenerationId' = g
    /\ acceptedJobs' = [k \in DOMAIN acceptedJobs \union {j} |->
                           IF k = j THEN g ELSE acceptedJobs[k]]
    /\ Write("job", g, j, None, "jobAccepted")
    /\ UNCHANGED <<sessionId, acceptedResults, cancelledGenerations, isShutDown>>

CancelGeneration(e, g) ==
    /\ e.type = "cancel" /\ CancelRejection(g) = "accepted"
    /\ LET answer == IF ChangesState(g) THEN "cancelled" ELSE "unchanged" IN
       Accept(e, answer) /\ Write("cancel", g, None, None, answer)
    /\ cancelledGenerations' = cancelledGenerations \union {h \in {g} : ChangesState(h)}
    /\ UNCHANGED <<sessionId, activeGenerationId, trackedGenerations, acceptedJobs,
                   acceptedResults, isShutDown>>

FakeResult(e, g, j, result) ==
    LET status == FakeResultStatus(g, j, result) IN
    /\ e.type = "result" /\ ResultRejection(status) = "accepted" /\ Accept(e, status)
    /\ IF status = "unknownJob" THEN UNCHANGED journal ELSE Write("result", g, j, result, status)
    /\ acceptedResults' = IF status = "acceptedCurrent" THEN acceptedResults \union {<<j, result>>}
                            ELSE acceptedResults
    /\ UNCHANGED <<sessionId, activeGenerationId, trackedGenerations, acceptedJobs,
                   cancelledGenerations, isShutDown>>

Shutdown(e) ==
    /\ e.type = "shutdown" /\ Accept(e, "shutdownResponse")
    /\ isShutDown' = TRUE
    /\ UNCHANGED <<sessionId, activeGenerationId, trackedGenerations, acceptedJobs,
                   acceptedResults, cancelledGenerations, journal>>

(* The payload is looked at only when the envelope passes. *)
RejectPayload(e) ==
    /\ StateRejection(e) = "accepted"
    /\ \E g \in GenerationIds :
        \/ e.type = "submit" /\ \E j \in JobIds : Reject(JobRejection(g, j))
        \/ e.type = "cancel" /\ Reject(CancelRejection(g))
        \/ e.type = "result" /\ \E j \in JobIds, result \in ResultIds :
                                    Reject(ResultRejection(FakeResultStatus(g, j, result)))

Next ==
    \E e \in Envelope :
        \/ Reject(StateRejection(e)) \/ RejectPayload(e)
        \/ Hello(e) \/ Shutdown(e)
        \/ \E g \in GenerationIds :
            \/ CancelGeneration(e, g)
            \/ \E j \in JobIds : SubmitJob(e, g, j)
            \/ \E j \in JobIds, result \in ResultIds : FakeResult(e, g, j, result)

Spec == Init /\ [][Next]_vars

-----------------------------------------------------------------------------
(* Properties. *)

Entry ==
    [event: {"job", "cancel", "result"}, generation: GenerationIds,
     job: JobIds \union {None}, result: ResultIds \union {None},
     answer: {"jobAccepted", "cancelled", "unchanged", "acceptedCurrent", "staleGeneration",
              "cancelledGeneration", "duplicate"}]

(* Every field of the worker keeps its type. *)
TypeOK ==
    /\ sessionId \in SessionIds \union {None}
    /\ nextSequenceNumber \in Nat \ {0}
    /\ acceptedRequestIds \subseteq RequestIds /\ IsFiniteSet(acceptedRequestIds)
    /\ activeGenerationId \in GenerationIds \union {NoGeneration}
    /\ trackedGenerations \subseteq GenerationIds
    /\ DOMAIN acceptedJobs \subseteq JobIds /\ IsFiniteSet(DOMAIN acceptedJobs)
    /\ acceptedJobs \in [DOMAIN acceptedJobs -> GenerationIds]
    /\ acceptedResults \subseteq JobIds \X ResultIds /\ IsFiniteSet(acceptedResults)
    /\ cancelledGenerations \subseteq GenerationIds
    /\ isShutDown \in BOOLEAN
    /\ journal \in Seq(Entry)

(* "All retained collections are bounded": none ever passes its limit, and the
   shutdown, which is not checked against the limit, still finds a free slot
   for its id. *)
CollectionsAreBounded ==
    /\ Cardinality(acceptedRequestIds) <= MAX_TRACKED_REQUESTS
    /\ sessionId # None /\ ~isShutDown => Cardinality(acceptedRequestIds) < MAX_TRACKED_REQUESTS
    /\ Cardinality(trackedGenerations) <= MAX_TRACKED_GENERATIONS
    /\ Cardinality(DOMAIN acceptedJobs) <= MAX_TRACKED_JOBS
    /\ Cardinality(acceptedResults) <= MAX_TRACKED_RESULTS
    /\ Cardinality(cancelledGenerations) <= MAX_CANCELLED_GENERATIONS

(* The worker's collections tell one story: one id for every sequence number
   spent, generations without a gap up to the active one, each opened by a job,
   only these cancelled, and results only of accepted jobs. *)
CollectionsAgree ==
    /\ nextSequenceNumber = Cardinality(acceptedRequestIds) + 1
    /\ trackedGenerations = 1 .. activeGenerationId
    /\ trackedGenerations = {acceptedJobs[j] : j \in DOMAIN acceptedJobs}
    /\ cancelledGenerations \subseteq trackedGenerations
    /\ \A p \in acceptedResults : p[1] \in DOMAIN acceptedJobs

(* What revokes generation g: its cancellation, or a job of a later one. *)
Revokes(e, g) ==
    \/ e.event = "cancel" /\ e.answer = "cancelled" /\ e.generation = g
    \/ e.event = "job" /\ e.generation > g

(* A result is accepted only for a job of its generation, before anything has
   revoked that generation, and once. *)
ResultsAreCurrent ==
    \A k \in 1 .. Len(journal) :
        journal[k].answer = "acceptedCurrent" =>
            /\ \E i \in 1 .. k - 1 :
                  /\ journal[i].event = "job"
                  /\ journal[i].generation = journal[k].generation
                  /\ journal[i].job = journal[k].job
            /\ \A i \in 1 .. k - 1 :
                  /\ ~Revokes(journal[i], journal[k].generation)
                  /\ journal[i].answer = "acceptedCurrent"
                        => journal[i].job # journal[k].job \/ journal[i].result # journal[k].result

(* "Repeated stale/cancelled/unknown deliveries remain classified": once a job
   is reported cancelled or stale, every later result of it is answered the
   same, whatever is cancelled or submitted in between. *)
RefusalsAreFinal ==
    \A i, k \in 1 .. Len(journal) :
        /\ i < k
        /\ journal[i].answer \in {"staleGeneration", "cancelledGeneration"}
        /\ journal[k].event = "result"
        /\ journal[k].generation = journal[i].generation /\ journal[k].job = journal[i].job
        => journal[k].answer = journal[i].answer
===============================================================================
