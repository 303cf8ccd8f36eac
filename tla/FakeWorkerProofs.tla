--------------------------- MODULE FakeWorkerProofs ---------------------------
(***************************************************************************)
(* Proofs about FakeWorker, for every limit and every set of identifiers.   *)
(* The properties of the journal are not inductive: the worker decides from *)
(* its collections, so the invariant says what the journal has to do with   *)
(* them (JournalAgrees).                                                    *)
(***************************************************************************)
EXTENDS FakeWorker, FiniteSetTheorems, TLAPS

(* What an entry of the journal says about the collections. *)
EntryAgrees(e) ==
    /\ e.event = "job" =>
          /\ e.answer = "jobAccepted"
          /\ e.generation <= activeGenerationId
    /\ e.event = "cancel" =>
          /\ e.answer \in {"cancelled", "unchanged"}
          /\ e.answer = "cancelled" => e.generation \in cancelledGenerations
    /\ e.event = "result" =>
          /\ e.job \in DOMAIN acceptedJobs /\ acceptedJobs[e.job] = e.generation
          /\ e.answer \notin {"jobAccepted", "cancelled", "unchanged"}
          /\ e.answer = "acceptedCurrent" => <<e.job, e.result>> \in acceptedResults
          /\ e.answer = "cancelledGeneration" => e.generation \in cancelledGenerations
          /\ e.answer = "staleGeneration" =>
                e.generation < activeGenerationId /\ e.generation \notin cancelledGenerations

JournalAgrees ==
    /\ \A i \in 1 .. Len(journal) : EntryAgrees(journal[i])
    /\ \A j \in DOMAIN acceptedJobs :
          \E i \in 1 .. Len(journal) :
              /\ journal[i].event = "job" /\ journal[i].job = j
              /\ journal[i].generation = acceptedJobs[j]

Collections == CollectionsAreBounded /\ CollectionsAgree

Inv == TypeOK /\ Collections /\ JournalAgrees /\ ResultsAreCurrent /\ RefusalsAreFinal

-----------------------------------------------------------------------------

(* The initial state satisfies the invariant. *)
LEMMA InvInit == Init => Inv
<1> SUFFICES ASSUME Init PROVE Inv
  OBVIOUS
<1> USE DEF Init, NoGeneration
<1>1. /\ IsFiniteSet({}) /\ Cardinality({}) = 0
      /\ IsFiniteSet(DOMAIN acceptedJobs) /\ DOMAIN acceptedJobs = {}
  BY FS_EmptySet
<1>2. TypeOK
  <2>1. acceptedJobs \in [DOMAIN acceptedJobs -> GenerationIds]
    BY <1>1
  <2>2. journal \in Seq(Entry)
    OBVIOUS
  <2>3. /\ IsFiniteSet(acceptedRequestIds) /\ IsFiniteSet(acceptedResults)
        /\ DOMAIN acceptedJobs \subseteq JobIds
        /\ acceptedResults \subseteq JobIds \X ResultIds
    BY <1>1
  <2>4. /\ sessionId \in SessionIds \union {None} /\ nextSequenceNumber \in Nat \ {0}
        /\ acceptedRequestIds \subseteq RequestIds
        /\ activeGenerationId \in GenerationIds \union {NoGeneration}
        /\ trackedGenerations \subseteq GenerationIds /\ cancelledGenerations \subseteq GenerationIds
    OBVIOUS
  <2>5. isShutDown \in BOOLEAN
    OBVIOUS
  <2>6. QED
    BY ONLY <1>1, <2>1, <2>2, <2>3, <2>4, <2>5 DEF TypeOK
<1>3. Collections
  BY <1>1, LimitsAssumption DEF Collections, CollectionsAreBounded, CollectionsAgree
<1>4. JournalAgrees /\ ResultsAreCurrent /\ RefusalsAreFinal
  BY <1>1 DEF JournalAgrees, ResultsAreCurrent, RefusalsAreFinal
<1>5. QED
  BY <1>2, <1>3, <1>4 DEF Inv

-----------------------------------------------------------------------------

(* An accepted envelope spends one id and one sequence number, and all but the
   shutdown leave an id for it. *)
LEMMA AcceptStep ==
    ASSUME TypeOK, Collections, NEW e \in Envelope, NEW answer, Accept(e, answer)
    PROVE  /\ acceptedRequestIds' \subseteq RequestIds /\ IsFiniteSet(acceptedRequestIds')
           /\ nextSequenceNumber' = Cardinality(acceptedRequestIds') + 1
           /\ nextSequenceNumber' \in Nat \ {0}
           /\ Cardinality(acceptedRequestIds') <= MAX_TRACKED_REQUESTS
           /\ e.type # "shutdown" => Cardinality(acceptedRequestIds') < MAX_TRACKED_REQUESTS
           /\ ~isShutDown
           /\ e.type # "hello" => sessionId # None
<1>1. Cardinality(acceptedRequestIds) \in Nat
  BY FS_CardinalityType DEF TypeOK
<1>2. e.id \in RequestIds
  BY DEF Envelope
<1>3. /\ ~isShutDown /\ e.id \notin acceptedRequestIds /\ ~NoSlot(e.type)
      /\ e.type # "hello" => sessionId # None
  BY DEF Accept, StateRejection
<1>4. /\ IsFiniteSet(acceptedRequestIds')
      /\ Cardinality(acceptedRequestIds') = Cardinality(acceptedRequestIds) + 1
  BY <1>3, FS_AddElement DEF Accept, TypeOK
<1>5. /\ Cardinality(acceptedRequestIds') <= MAX_TRACKED_REQUESTS
      /\ e.type # "shutdown" => Cardinality(acceptedRequestIds') < MAX_TRACKED_REQUESTS
  <2>1. CASE e.type = "shutdown"
    BY <1>1, <1>3, <1>4, <2>1, LimitsAssumption DEF Collections, CollectionsAreBounded
  <2>2. CASE e.type # "shutdown"
    BY <1>1, <1>3, <1>4, <2>2, LimitsAssumption DEF NoSlot
  <2>3. QED
    BY <2>1, <2>2
<1>6. QED
  BY <1>1, <1>2, <1>3, <1>4, <1>5 DEF Accept, TypeOK, Collections, CollectionsAgree

(* The journal is extended by an entry or left alone. *)
LEMMA WriteFacts ==
    ASSUME journal \in Seq(Entry), NEW x \in Entry, journal' = Append(journal, x)
    PROVE  /\ journal' \in Seq(Entry)
           /\ Len(journal') = Len(journal) + 1 /\ Len(journal) \in Nat
           /\ \A i \in 1 .. Len(journal) : journal'[i] = journal[i]
           /\ journal'[Len(journal')] = x
           /\ \A i \in 1 .. Len(journal') : i \in 1 .. Len(journal) \/ i = Len(journal')
  OBVIOUS

(* Extending the journal keeps what it says of earlier entries; what is left to
   show is about the new one. *)
LEMMA JournalStep ==
    ASSUME TypeOK, ResultsAreCurrent, RefusalsAreFinal,
           NEW x \in Entry, journal' = Append(journal, x),
           x.answer = "acceptedCurrent" =>
               /\ \E i \in 1 .. Len(journal) :
                     /\ journal[i].event = "job" /\ journal[i].generation = x.generation
                     /\ journal[i].job = x.job
               /\ \A i \in 1 .. Len(journal) :
                     /\ ~Revokes(journal[i], x.generation)
                     /\ journal[i].answer = "acceptedCurrent"
                           => journal[i].job # x.job \/ journal[i].result # x.result,
           x.event = "result" =>
               \A i \in 1 .. Len(journal) :
                  /\ journal[i].answer \in {"staleGeneration", "cancelledGeneration"}
                  /\ journal[i].generation = x.generation /\ journal[i].job = x.job
                  => x.answer = journal[i].answer
    PROVE  ResultsAreCurrent' /\ RefusalsAreFinal'
<1>1. /\ Len(journal') = Len(journal) + 1 /\ Len(journal) \in Nat
      /\ \A i \in 1 .. Len(journal) : journal'[i] = journal[i]
      /\ journal'[Len(journal')] = x
      /\ \A i \in 1 .. Len(journal') : i \in 1 .. Len(journal) \/ i = Len(journal')
  BY WriteFacts DEF TypeOK
<1>2. ResultsAreCurrent'
  <2> SUFFICES ASSUME NEW k \in 1 .. Len(journal'), journal'[k].answer = "acceptedCurrent"
               PROVE  /\ \E i \in 1 .. k - 1 :
                            /\ journal'[i].event = "job"
                            /\ journal'[i].generation = journal'[k].generation
                            /\ journal'[i].job = journal'[k].job
                      /\ \A i \in 1 .. k - 1 :
                            /\ ~Revokes(journal'[i], journal'[k].generation)
                            /\ journal'[i].answer = "acceptedCurrent"
                                  => \/ journal'[i].job # journal'[k].job
                                     \/ journal'[i].result # journal'[k].result
    BY DEF ResultsAreCurrent, Revokes
  <2>1. \A i \in 1 .. k - 1 : i \in 1 .. Len(journal) /\ journal'[i] = journal[i]
    BY <1>1
  <2>2. CASE k \in 1 .. Len(journal)
    <3>1. journal'[k] = journal[k]
      BY <1>1, <2>2
    <3>2. QED
      BY <2>1, <2>2, <3>1 DEF ResultsAreCurrent
  <2>3. CASE k = Len(journal')
    <3>1. 1 .. k - 1 = 1 .. Len(journal)
      BY <1>1, <2>3
    <3>2. QED
      BY <1>1, <2>1, <2>3, <3>1
  <2>4. QED
    BY <1>1, <2>2, <2>3
<1>3. RefusalsAreFinal'
  <2> SUFFICES ASSUME NEW i \in 1 .. Len(journal'), NEW k \in 1 .. Len(journal'), i < k,
                      journal'[i].answer \in {"staleGeneration", "cancelledGeneration"},
                      journal'[k].event = "result",
                      journal'[k].generation = journal'[i].generation,
                      journal'[k].job = journal'[i].job
               PROVE  journal'[k].answer = journal'[i].answer
    BY DEF RefusalsAreFinal
  <2>1. i \in 1 .. Len(journal) /\ journal'[i] = journal[i]
    BY <1>1
  <2>2. CASE k \in 1 .. Len(journal)
    <3>1. journal'[k] = journal[k]
      BY <1>1, <2>2
    <3>2. QED
      BY <2>1, <2>2, <3>1 DEF RefusalsAreFinal
  <2>3. CASE k = Len(journal')
    BY <1>1, <2>1, <2>3
  <2>4. QED
    BY <1>1, <2>2, <2>3
<1>4. QED
  BY <1>2, <1>3

-----------------------------------------------------------------------------

(* The handshake preserves the invariant: it only opens the session. *)
LEMMA HelloStep ==
    ASSUME Inv, NEW e \in Envelope, Hello(e)
    PROVE  Inv'
<1> USE DEF Hello
<1>1. /\ acceptedRequestIds' \subseteq RequestIds /\ IsFiniteSet(acceptedRequestIds')
      /\ nextSequenceNumber' = Cardinality(acceptedRequestIds') + 1
      /\ nextSequenceNumber' \in Nat \ {0}
      /\ Cardinality(acceptedRequestIds') <= MAX_TRACKED_REQUESTS
      /\ Cardinality(acceptedRequestIds') < MAX_TRACKED_REQUESTS
  BY AcceptStep DEF Inv
<1>2. TypeOK'
  BY <1>1 DEF Inv, TypeOK, Envelope
<1>3. Collections'
  BY <1>1 DEF Inv, Collections, CollectionsAreBounded, CollectionsAgree
<1>4. (JournalAgrees /\ ResultsAreCurrent /\ RefusalsAreFinal)'
  BY DEF Inv, JournalAgrees, EntryAgrees, ResultsAreCurrent, RefusalsAreFinal, Revokes
<1>5. QED
  BY <1>2, <1>3, <1>4 DEF Inv

(* The shutdown preserves the invariant: it takes the slot kept for it. *)
LEMMA ShutdownStep ==
    ASSUME Inv, NEW e \in Envelope, Shutdown(e)
    PROVE  Inv'
<1> USE DEF Shutdown
<1>1. /\ acceptedRequestIds' \subseteq RequestIds /\ IsFiniteSet(acceptedRequestIds')
      /\ nextSequenceNumber' = Cardinality(acceptedRequestIds') + 1
      /\ nextSequenceNumber' \in Nat \ {0}
      /\ Cardinality(acceptedRequestIds') <= MAX_TRACKED_REQUESTS
  BY AcceptStep DEF Inv
<1>2. TypeOK'
  BY <1>1 DEF Inv, TypeOK
<1>3. Collections'
  BY <1>1 DEF Inv, Collections, CollectionsAreBounded, CollectionsAgree
<1>4. (JournalAgrees /\ ResultsAreCurrent /\ RefusalsAreFinal)'
  BY DEF Inv, JournalAgrees, EntryAgrees, ResultsAreCurrent, RefusalsAreFinal, Revokes
<1>5. QED
  BY <1>2, <1>3, <1>4 DEF Inv

(* A rejected frame changes nothing but the reply, which the invariant ignores. *)
LEMMA RejectStep ==
    ASSUME Inv, NEW code, Reject(code)
    PROVE  Inv'
  BY DEF Inv, Reject, ledgerVars, TypeOK, Collections, CollectionsAreBounded, CollectionsAgree,
         JournalAgrees, EntryAgrees, ResultsAreCurrent, RefusalsAreFinal, Revokes

-----------------------------------------------------------------------------

(* What an accepted job finds: its generation is the active one, uncancelled,
   or the next; its id is new; there is room for both. *)
LEMMA JobAccepted ==
    ASSUME Inv, NEW g \in GenerationIds, NEW j \in JobIds, JobRejection(g, j) = "accepted"
    PROVE  /\ g \notin cancelledGenerations
           /\ g = activeGenerationId \/ g = activeGenerationId + 1
           /\ j \notin DOMAIN acceptedJobs
           /\ Cardinality(DOMAIN acceptedJobs) < MAX_TRACKED_JOBS
           /\ g # activeGenerationId => Cardinality(trackedGenerations) < MAX_TRACKED_GENERATIONS
<1>1. /\ g \in Nat \ {0} /\ activeGenerationId \in Nat
  BY LimitsAssumption DEF Inv, TypeOK, GenerationIds, NoGeneration
<1>2. /\ Cardinality(DOMAIN acceptedJobs) \in Nat
      /\ IsFiniteSet(trackedGenerations) /\ Cardinality(trackedGenerations) \in Nat
  <2>1. IsFiniteSet(DOMAIN acceptedJobs) /\ trackedGenerations = 1 .. activeGenerationId
    BY DEF Inv, TypeOK, Collections, CollectionsAgree
  <2>2. IsFiniteSet(1 .. activeGenerationId)
    BY <1>1, FS_Interval
  <2>3. QED
    BY <2>1, <2>2, FS_CardinalityType
<1>3. /\ g \notin cancelledGenerations /\ ~(g < activeGenerationId) /\ ~OutOfOrder(g)
      /\ j \notin DOMAIN acceptedJobs
      /\ ~(Cardinality(DOMAIN acceptedJobs) >= MAX_TRACKED_JOBS)
      /\ Active(g) \/ ~(Cardinality(trackedGenerations) >= MAX_TRACKED_GENERATIONS)
  BY DEF JobRejection
<1>4. QED
  BY <1>1, <1>2, <1>3, LimitsAssumption DEF Active, OutOfOrder

(* A job preserves the invariant: it may open the next generation, which makes
   every older one stale. *)
LEMMA SubmitStep ==
    ASSUME Inv, NEW e \in Envelope, NEW g \in GenerationIds, NEW j \in JobIds, SubmitJob(e, g, j)
    PROVE  Inv'
<1> USE DEF SubmitJob
<1>0. /\ g \in Nat \ {0} /\ activeGenerationId \in Nat
  BY LimitsAssumption DEF Inv, TypeOK, GenerationIds, NoGeneration
<1>1. /\ acceptedRequestIds' \subseteq RequestIds /\ IsFiniteSet(acceptedRequestIds')
      /\ nextSequenceNumber' = Cardinality(acceptedRequestIds') + 1
      /\ nextSequenceNumber' \in Nat \ {0}
      /\ Cardinality(acceptedRequestIds') <= MAX_TRACKED_REQUESTS
      /\ Cardinality(acceptedRequestIds') < MAX_TRACKED_REQUESTS
  BY AcceptStep DEF Inv
<1>2. /\ g \notin cancelledGenerations
      /\ g = activeGenerationId \/ g = activeGenerationId + 1
      /\ j \notin DOMAIN acceptedJobs
      /\ Cardinality(DOMAIN acceptedJobs) < MAX_TRACKED_JOBS
      /\ g # activeGenerationId => Cardinality(trackedGenerations) < MAX_TRACKED_GENERATIONS
  BY JobAccepted
<1>3. PICK x \in Entry : /\ journal' = Append(journal, x)
                         /\ x.event = "job" /\ x.answer = "jobAccepted"
                         /\ x.generation = g /\ x.job = j
  BY DEF Write, Entry
<1>4. /\ DOMAIN acceptedJobs' = DOMAIN acceptedJobs \union {j}
      /\ \A k \in DOMAIN acceptedJobs : acceptedJobs'[k] = acceptedJobs[k]
      /\ acceptedJobs'[j] = g
      /\ acceptedJobs' \in [DOMAIN acceptedJobs' -> GenerationIds]
  BY <1>2 DEF Inv, TypeOK
<1>5. /\ Len(journal') = Len(journal) + 1 /\ Len(journal) \in Nat
      /\ \A i \in 1 .. Len(journal) : journal'[i] = journal[i]
      /\ journal'[Len(journal')] = x
      /\ \A i \in 1 .. Len(journal') : i \in 1 .. Len(journal) \/ i = Len(journal')
      /\ journal' \in Seq(Entry)
  BY <1>3, WriteFacts DEF Inv, TypeOK
<1>6. /\ IsFiniteSet(DOMAIN acceptedJobs')
      /\ Cardinality(DOMAIN acceptedJobs') = Cardinality(DOMAIN acceptedJobs) + 1
      /\ Cardinality(DOMAIN acceptedJobs) \in Nat
  BY <1>2, <1>4, FS_AddElement, FS_CardinalityType DEF Inv, TypeOK
<1>7. trackedGenerations' = 1 .. g
  BY <1>0, <1>2 DEF Inv, Collections, CollectionsAgree
<1>8. Cardinality(trackedGenerations') <= MAX_TRACKED_GENERATIONS
  <2>1. Cardinality(trackedGenerations') = g /\ Cardinality(trackedGenerations) = activeGenerationId
    <3>1. \A n \in Nat : Cardinality(1 .. n) = n
      BY FS_Interval
    <3>2. trackedGenerations = 1 .. activeGenerationId
      BY DEF Inv, Collections, CollectionsAgree
    <3>3. QED
      BY <1>0, <1>7, <3>1, <3>2
  <2>2. QED
    BY <1>0, <1>2, <2>1, LimitsAssumption DEF Inv, Collections, CollectionsAreBounded
<1>9. trackedGenerations' = {acceptedJobs'[k] : k \in DOMAIN acceptedJobs'}
  BY <1>2, <1>4 DEF Inv, Collections, CollectionsAgree
<1>10. TypeOK'
  BY <1>1, <1>4, <1>5, <1>6 DEF Inv, TypeOK
<1>11. Collections'
  <2>1. CollectionsAreBounded'
    BY <1>1, <1>2, <1>6, <1>8, LimitsAssumption DEF Inv, Collections, CollectionsAreBounded
  <2>2. CollectionsAgree'
    BY <1>1, <1>4, <1>7, <1>9 DEF Inv, Collections, CollectionsAgree
  <2>3. QED
    BY <2>1, <2>2 DEF Collections
<1>12. JournalAgrees'
  <2>1. ASSUME NEW i \in 1 .. Len(journal') PROVE EntryAgrees(journal[i])'
    <3>1. CASE i \in 1 .. Len(journal)
      <4>1. EntryAgrees(journal[i]) /\ journal[i] \in Entry
        BY <3>1 DEF Inv, JournalAgrees, TypeOK
      <4>2. PICK y \in Entry : y = journal[i] /\ y = journal'[i]
        BY <1>5, <3>1, <4>1
      <4>3. y.generation \in Nat /\ EntryAgrees(y)
        BY <4>1, <4>2, LimitsAssumption DEF Entry, GenerationIds
      <4>4. activeGenerationId <= activeGenerationId' /\ activeGenerationId' \in Nat
            /\ activeGenerationId \in Nat /\ UNCHANGED <<acceptedResults, cancelledGenerations>>
        BY <1>0, <1>2
      <4>5. y.event = "job" => y.generation <= activeGenerationId'
        BY <4>3, <4>4 DEF EntryAgrees
      <4>6. y.event = "result" =>
               /\ y.job \in DOMAIN acceptedJobs' /\ acceptedJobs'[y.job] = y.generation
               /\ y.answer = "staleGeneration" => y.generation < activeGenerationId'
        BY <1>4, <4>3, <4>4 DEF EntryAgrees
      <4>7. EntryAgrees(y)'
        BY <4>3, <4>4, <4>5, <4>6 DEF EntryAgrees
      <4>8. QED
        BY <4>2, <4>7
    <3>2. CASE i = Len(journal')
      BY <1>0, <1>3, <1>5, <3>2 DEF EntryAgrees
    <3>3. QED
      BY <1>5, <3>1, <3>2
  <2>2. ASSUME NEW k \in DOMAIN acceptedJobs'
        PROVE  \E i \in 1 .. Len(journal') :
                  /\ journal'[i].event = "job" /\ journal'[i].job = k
                  /\ journal'[i].generation = acceptedJobs'[k]
    <3>1. CASE k \in DOMAIN acceptedJobs
      BY <1>4, <1>5, <3>1 DEF Inv, JournalAgrees
    <3>2. CASE k = j
      <4>1. Len(journal') \in 1 .. Len(journal')
        BY <1>5
      <4>2. QED
        BY <1>3, <1>4, <1>5, <3>2, <4>1
    <3>3. QED
      BY <1>4, <3>1, <3>2
  <2>3. QED
    BY <2>1, <2>2 DEF JournalAgrees
<1>13. ResultsAreCurrent' /\ RefusalsAreFinal'
  BY <1>3, JournalStep DEF Inv
<1>14. QED
  BY <1>10, <1>11, <1>12, <1>13 DEF Inv

-----------------------------------------------------------------------------

(* A cancellation preserves the invariant: only the active generation can
   become cancelled, and results of older ones stay stale. *)
LEMMA CancelStep ==
    ASSUME Inv, NEW e \in Envelope, NEW g \in GenerationIds, CancelGeneration(e, g)
    PROVE  Inv'
<1> USE DEF CancelGeneration
<1>0. /\ g \in Nat \ {0} /\ activeGenerationId \in Nat
  BY LimitsAssumption DEF Inv, TypeOK, GenerationIds, NoGeneration
<1>1. /\ acceptedRequestIds' \subseteq RequestIds /\ IsFiniteSet(acceptedRequestIds')
      /\ nextSequenceNumber' = Cardinality(acceptedRequestIds') + 1
      /\ nextSequenceNumber' \in Nat \ {0}
      /\ Cardinality(acceptedRequestIds') <= MAX_TRACKED_REQUESTS
      /\ Cardinality(acceptedRequestIds') < MAX_TRACKED_REQUESTS
  BY AcceptStep DEF Inv
<1>2. PICK x \in Entry : /\ journal' = Append(journal, x)
                         /\ x.event = "cancel" /\ x.generation = g
                         /\ x.answer = IF ChangesState(g) THEN "cancelled" ELSE "unchanged"
  BY DEF Write, Entry
<1>3. /\ Len(journal') = Len(journal) + 1 /\ Len(journal) \in Nat
      /\ \A i \in 1 .. Len(journal) : journal'[i] = journal[i]
      /\ journal'[Len(journal')] = x
      /\ \A i \in 1 .. Len(journal') : i \in 1 .. Len(journal) \/ i = Len(journal')
      /\ journal' \in Seq(Entry)
  BY <1>2, WriteFacts DEF Inv, TypeOK
<1>4. /\ IsFiniteSet(trackedGenerations) /\ IsFiniteSet(cancelledGenerations)
      /\ Cardinality(cancelledGenerations) \in Nat
  <2>1. IsFiniteSet(1 .. activeGenerationId)
    BY <1>0, FS_Interval
  <2>2. QED
    BY <2>1, FS_Subset, FS_CardinalityType DEF Inv, Collections, CollectionsAgree
<1>5. /\ cancelledGenerations' \subseteq cancelledGenerations \union {activeGenerationId}
      /\ cancelledGenerations \subseteq cancelledGenerations'
      /\ ChangesState(g) => g \in cancelledGenerations'
      /\ cancelledGenerations' \subseteq trackedGenerations
  <2>1. CASE ChangesState(g)
    <3>1. g = activeGenerationId /\ g \in trackedGenerations
      BY <1>0, <2>1 DEF Inv, Collections, CollectionsAgree, ChangesState, Active
    <3>2. cancelledGenerations' = cancelledGenerations \union {g}
      BY <2>1
    <3>3. QED
      BY <3>1, <3>2 DEF Inv, Collections, CollectionsAgree
  <2>2. CASE ~ChangesState(g)
    BY <2>2 DEF Inv, Collections, CollectionsAgree
  <2>3. QED
    BY <2>1, <2>2
<1>6. Cardinality(cancelledGenerations') <= MAX_CANCELLED_GENERATIONS
  <2>1. CASE ChangesState(g)
    <3>1. ~(Cardinality(cancelledGenerations) >= MAX_CANCELLED_GENERATIONS)
      BY <2>1 DEF CancelRejection, Accept
    <3>2. cancelledGenerations' = cancelledGenerations \union {g} /\ g \notin cancelledGenerations
      BY <2>1 DEF ChangesState
    <3>3. Cardinality(cancelledGenerations') = Cardinality(cancelledGenerations) + 1
      BY <1>4, <3>2, FS_AddElement
    <3>4. QED
      BY <1>4, <3>1, <3>3, LimitsAssumption
  <2>2. CASE ~ChangesState(g)
    BY <2>2 DEF Inv, Collections, CollectionsAreBounded
  <2>3. QED
    BY <2>1, <2>2
<1>7. TypeOK'
  BY <1>1, <1>3, <1>5 DEF Inv, TypeOK, Collections, CollectionsAgree
<1>8. Collections'
  BY <1>1, <1>5, <1>6 DEF Inv, Collections, CollectionsAreBounded, CollectionsAgree
<1>9. JournalAgrees'
  <2>1. ASSUME NEW i \in 1 .. Len(journal') PROVE EntryAgrees(journal[i])'
    <3>1. CASE i \in 1 .. Len(journal)
      <4>1. EntryAgrees(journal[i])
        BY <3>1 DEF Inv, JournalAgrees
      <4>2. journal[i] \in Entry
        BY <3>1 DEF Inv, TypeOK
      <4>3. journal[i].generation \in Nat
        BY <4>2, LimitsAssumption DEF Entry, GenerationIds
      <4>4. journal[i].generation < activeGenerationId
               => journal[i].generation # activeGenerationId
        BY <1>0, <4>3
      <4>5. QED
        BY <1>3, <1>5, <3>1, <4>1, <4>4 DEF EntryAgrees
    <3>2. CASE i = Len(journal')
      BY <1>2, <1>3, <1>5, <3>2 DEF EntryAgrees
    <3>3. QED
      BY <1>3, <3>1, <3>2
  <2>2. ASSUME NEW k \in DOMAIN acceptedJobs'
        PROVE  \E i \in 1 .. Len(journal') :
                  /\ journal'[i].event = "job" /\ journal'[i].job = k
                  /\ journal'[i].generation = acceptedJobs'[k]
    BY <1>3 DEF Inv, JournalAgrees
  <2>3. QED
    BY <2>1, <2>2 DEF JournalAgrees
<1>10. ResultsAreCurrent' /\ RefusalsAreFinal'
  BY <1>2, JournalStep DEF Inv
<1>11. QED
  BY <1>7, <1>8, <1>9, <1>10 DEF Inv

-----------------------------------------------------------------------------

(* What the answer to a result of a known job says about the collections. *)
LEMMA StatusFacts ==
    ASSUME NEW g \in GenerationIds, NEW j \in JobIds, NEW result \in ResultIds,
           NEW status, status = FakeResultStatus(g, j, result), status # "unknownJob"
    PROVE  /\ j \in DOMAIN acceptedJobs /\ acceptedJobs[j] = g
           /\ status \in {"cancelledGeneration", "staleGeneration", "duplicate", "acceptedCurrent"}
           /\ status = "cancelledGeneration" <=> g \in cancelledGenerations
           /\ status = "staleGeneration" <=> g \notin cancelledGenerations /\ g # activeGenerationId
           /\ status = "acceptedCurrent" => <<j, result>> \notin acceptedResults
  BY DEF FakeResultStatus, Active

(* A result preserves the invariant.  What refused a result of its job before is
   still so: a cancelled generation stays cancelled, and a stale one can no
   longer be cancelled. *)
LEMMA ResultStep ==
    ASSUME Inv, NEW e \in Envelope, NEW g \in GenerationIds, NEW j \in JobIds,
           NEW result \in ResultIds, FakeResult(e, g, j, result)
    PROVE  Inv'
<1> DEFINE status == FakeResultStatus(g, j, result)
<1>0. /\ g \in Nat \ {0} /\ activeGenerationId \in Nat
  BY LimitsAssumption DEF Inv, TypeOK, GenerationIds, NoGeneration
<1>1. /\ acceptedRequestIds' \subseteq RequestIds /\ IsFiniteSet(acceptedRequestIds')
      /\ nextSequenceNumber' = Cardinality(acceptedRequestIds') + 1
      /\ nextSequenceNumber' \in Nat \ {0}
      /\ Cardinality(acceptedRequestIds') <= MAX_TRACKED_REQUESTS
      /\ Cardinality(acceptedRequestIds') < MAX_TRACKED_REQUESTS
  BY AcceptStep DEF Inv, FakeResult
<1>2. CASE status = "unknownJob"
  <2>1. UNCHANGED <<ledgerVars, journal>>
    BY <1>2 DEF FakeResult, ledgerVars
  <2>2. TypeOK'
    BY <1>1, <2>1 DEF Inv, TypeOK, ledgerVars
  <2>3. Collections'
    BY <1>1, <2>1 DEF Inv, Collections, CollectionsAreBounded, CollectionsAgree, ledgerVars
  <2>4. (JournalAgrees /\ ResultsAreCurrent /\ RefusalsAreFinal)'
    <3>1. /\ journal' = journal /\ activeGenerationId' = activeGenerationId
          /\ acceptedJobs' = acceptedJobs /\ acceptedResults' = acceptedResults
          /\ cancelledGenerations' = cancelledGenerations
      BY <2>1 DEF ledgerVars
    <3>2. JournalAgrees'
      BY <3>1 DEF Inv, JournalAgrees, EntryAgrees
    <3>3. ResultsAreCurrent' /\ RefusalsAreFinal'
      BY <3>1 DEF Inv, ResultsAreCurrent, RefusalsAreFinal, Revokes
    <3>4. QED
      BY <3>2, <3>3
  <2>5. QED
    BY <2>2, <2>3, <2>4 DEF Inv
<1>3. CASE status # "unknownJob"
  <2>1. /\ j \in DOMAIN acceptedJobs /\ acceptedJobs[j] = g
        /\ status \in {"cancelledGeneration", "staleGeneration", "duplicate", "acceptedCurrent"}
        /\ status = "cancelledGeneration" <=> g \in cancelledGenerations
        /\ status = "staleGeneration" <=> g \notin cancelledGenerations /\ g # activeGenerationId
        /\ status = "acceptedCurrent" => <<j, result>> \notin acceptedResults
    BY <1>3, StatusFacts
  <2>2. PICK x \in Entry : /\ journal' = Append(journal, x)
                           /\ x.event = "result" /\ x.generation = g /\ x.job = j
                           /\ x.result = result /\ x.answer = status
    BY <1>3, <2>1 DEF FakeResult, Write, Entry
  <2>3. /\ acceptedResults' = IF status = "acceptedCurrent"
                                 THEN acceptedResults \union {<<j, result>>} ELSE acceptedResults
        /\ UNCHANGED <<sessionId, activeGenerationId, trackedGenerations, acceptedJobs,
                       cancelledGenerations, isShutDown>>
        /\ ResultRejection(status) = "accepted"
    BY DEF FakeResult
  <2> HIDE DEF status
  <2>4. /\ Len(journal') = Len(journal) + 1 /\ Len(journal) \in Nat
        /\ \A i \in 1 .. Len(journal) : journal'[i] = journal[i]
        /\ journal'[Len(journal')] = x
        /\ \A i \in 1 .. Len(journal') : i \in 1 .. Len(journal) \/ i = Len(journal')
        /\ journal' \in Seq(Entry)
    BY <2>2, WriteFacts DEF Inv, TypeOK
  <2>5. /\ IsFiniteSet(acceptedResults')
        /\ Cardinality(acceptedResults') <= MAX_TRACKED_RESULTS
    <3>1. IsFiniteSet(acceptedResults) /\ Cardinality(acceptedResults) \in Nat
      BY FS_CardinalityType DEF Inv, TypeOK
    <3>2. CASE status = "acceptedCurrent"
      <4>1. ~(Cardinality(acceptedResults) >= MAX_TRACKED_RESULTS)
        BY <2>3, <3>2 DEF ResultRejection
      <4>2. /\ IsFiniteSet(acceptedResults')
            /\ Cardinality(acceptedResults') = Cardinality(acceptedResults) + 1
        BY <2>1, <2>3, <3>1, <3>2, FS_AddElement
      <4>3. QED
        BY <3>1, <4>1, <4>2, LimitsAssumption
    <3>3. CASE status # "acceptedCurrent"
      BY <2>3, <3>1, <3>3 DEF Inv, Collections, CollectionsAreBounded
    <3>4. QED
      BY <3>2, <3>3
  <2>6. TypeOK'
    BY <1>1, <2>3, <2>4, <2>5 DEF Inv, TypeOK
  <2>7. Collections'
    BY <1>1, <2>1, <2>3, <2>5 DEF Inv, Collections, CollectionsAreBounded, CollectionsAgree
  <2>8. g <= activeGenerationId
    BY <1>0, <2>1 DEF Inv, Collections, CollectionsAgree
  <2>9. JournalAgrees'
    <3>1. ASSUME NEW i \in 1 .. Len(journal') PROVE EntryAgrees(journal[i])'
      <4>1. CASE i \in 1 .. Len(journal)
        BY <2>3, <2>4, <4>1 DEF Inv, JournalAgrees, EntryAgrees
      <4>2. CASE i = Len(journal')
        BY <1>0, <2>1, <2>2, <2>3, <2>4, <2>8, <4>2 DEF EntryAgrees
      <4>3. QED
        BY <2>4, <4>1, <4>2
    <3>2. ASSUME NEW k \in DOMAIN acceptedJobs'
          PROVE  \E i \in 1 .. Len(journal') :
                    /\ journal'[i].event = "job" /\ journal'[i].job = k
                    /\ journal'[i].generation = acceptedJobs'[k]
      BY <2>3, <2>4 DEF Inv, JournalAgrees
    <3>3. QED
      BY <3>1, <3>2 DEF JournalAgrees
  <2>10. ASSUME x.answer = "acceptedCurrent"
         PROVE  /\ \E i \in 1 .. Len(journal) :
                      /\ journal[i].event = "job" /\ journal[i].generation = x.generation
                      /\ journal[i].job = x.job
                /\ \A i \in 1 .. Len(journal) :
                      /\ ~Revokes(journal[i], x.generation)
                      /\ journal[i].answer = "acceptedCurrent"
                            => journal[i].job # x.job \/ journal[i].result # x.result
    <3>1. g \notin cancelledGenerations /\ g = activeGenerationId
      BY <2>1, <2>2, <2>10
    <3>2. \E i \in 1 .. Len(journal) :
             /\ journal[i].event = "job" /\ journal[i].generation = x.generation
             /\ journal[i].job = x.job
      BY <2>1, <2>2 DEF Inv, JournalAgrees
    <3>3. ASSUME NEW i \in 1 .. Len(journal)
          PROVE  /\ ~Revokes(journal[i], x.generation)
                 /\ journal[i].answer = "acceptedCurrent"
                       => journal[i].job # x.job \/ journal[i].result # x.result
      <4>1. EntryAgrees(journal[i])
        BY DEF Inv, JournalAgrees
      <4>2. journal[i] \in Entry
        BY DEF Inv, TypeOK
      <4>3. journal[i].generation \in Nat
        BY <4>2, LimitsAssumption DEF Entry, GenerationIds
      <4>4. ~Revokes(journal[i], g)
        BY <1>0, <3>1, <4>1, <4>3 DEF Revokes, EntryAgrees
      <4>5. journal[i].answer = "acceptedCurrent"
               => <<journal[i].job, journal[i].result>> \in acceptedResults
        BY <4>1, <4>2 DEF EntryAgrees, Entry
      <4>6. QED
        BY <2>1, <2>2, <2>10, <4>4, <4>5
    <3>4. QED
      BY <3>2, <3>3
  <2>11. ASSUME NEW i \in 1 .. Len(journal),
                journal[i].answer \in {"staleGeneration", "cancelledGeneration"},
                journal[i].generation = x.generation, journal[i].job = x.job
         PROVE  x.answer = journal[i].answer
    <3>1. EntryAgrees(journal[i])
      BY DEF Inv, JournalAgrees
    <3>2. journal[i] \in Entry
      BY DEF Inv, TypeOK
    <3>3. journal[i].event = "result"
      BY <2>11, <3>1, <3>2 DEF EntryAgrees, Entry
    <3>4. CASE journal[i].answer = "cancelledGeneration"
      BY <2>1, <2>2, <2>11, <3>1, <3>3, <3>4 DEF EntryAgrees
    <3>5. CASE journal[i].answer = "staleGeneration"
      BY <1>0, <2>1, <2>2, <2>11, <3>1, <3>3, <3>5 DEF EntryAgrees
    <3>6. QED
      BY <2>11, <3>4, <3>5
  <2>12. ResultsAreCurrent' /\ RefusalsAreFinal'
    BY <2>2, <2>10, <2>11, JournalStep DEF Inv
  <2>13. QED
    BY <2>6, <2>7, <2>9, <2>12 DEF Inv
<1>4. QED
  BY <1>2, <1>3

-----------------------------------------------------------------------------

(* Every step preserves the invariant. *)
LEMMA InvStep == Inv /\ [Next]_vars => Inv'
<1> SUFFICES ASSUME Inv, [Next]_vars PROVE Inv'
  OBVIOUS
<1>1. CASE Next
  <2> PICK e \in Envelope :
        \/ Reject(StateRejection(e)) \/ RejectPayload(e)
        \/ Hello(e) \/ Shutdown(e)
        \/ \E g \in GenerationIds :
            \/ CancelGeneration(e, g)
            \/ \E j \in JobIds : SubmitJob(e, g, j)
            \/ \E j \in JobIds, result \in ResultIds : FakeResult(e, g, j, result)
    BY <1>1 DEF Next
  <2>1. CASE Reject(StateRejection(e))
    BY <2>1, RejectStep
  <2>2. CASE RejectPayload(e)
    BY <2>2, RejectStep DEF RejectPayload
  <2>3. CASE Hello(e)
    BY <2>3, HelloStep
  <2>4. CASE Shutdown(e)
    BY <2>4, ShutdownStep
  <2>5. ASSUME NEW g \in GenerationIds, CancelGeneration(e, g) PROVE Inv'
    BY <2>5, CancelStep
  <2>6. ASSUME NEW g \in GenerationIds, NEW j \in JobIds, SubmitJob(e, g, j) PROVE Inv'
    BY <2>6, SubmitStep
  <2>7. ASSUME NEW g \in GenerationIds, NEW j \in JobIds, NEW result \in ResultIds,
               FakeResult(e, g, j, result)
        PROVE  Inv'
    BY <2>7, ResultStep
  <2>8. QED
    BY <2>1, <2>2, <2>3, <2>4, <2>5, <2>6, <2>7
<1>2. CASE UNCHANGED vars
  BY <1>2 DEF Inv, vars, ledgerVars, TypeOK, Collections, CollectionsAreBounded, CollectionsAgree,
              JournalAgrees, EntryAgrees, ResultsAreCurrent, RefusalsAreFinal, Revokes
<1>3. QED
  BY <1>1, <1>2

(* Every reachable state satisfies the invariant. *)
THEOREM Invariant == Spec => []Inv
  BY InvInit, InvStep, PTL DEF Spec

(* Every field of the worker keeps its type. *)
THEOREM TypeCorrect == Spec => []TypeOK
<1>1. Inv => TypeOK
  BY DEF Inv
<1>2. QED
  BY <1>1, Invariant, PTL

(* No collection of the worker passes its limit, and a shutdown always finds a
   slot for its id. *)
THEOREM Bounded == Spec => []CollectionsAreBounded
<1>1. Inv => CollectionsAreBounded
  BY DEF Inv, Collections
<1>2. QED
  BY <1>1, Invariant, PTL

(* The ids, sequence numbers, generations, jobs and results of the worker agree. *)
THEOREM Agreement == Spec => []CollectionsAgree
<1>1. Inv => CollectionsAgree
  BY DEF Inv, Collections
<1>2. QED
  BY <1>1, Invariant, PTL

(* A result is accepted only for a job of its generation, before that generation
   is cancelled or superseded, and once. *)
THEOREM CurrentResults == Spec => []ResultsAreCurrent
<1>1. Inv => ResultsAreCurrent
  BY DEF Inv
<1>2. QED
  BY <1>1, Invariant, PTL

(* A result refused as stale or cancelled is refused the same ever after. *)
THEOREM FinalRefusals == Spec => []RefusalsAreFinal
<1>1. Inv => RefusalsAreFinal
  BY DEF Inv
<1>2. QED
  BY <1>1, Invariant, PTL
===============================================================================
