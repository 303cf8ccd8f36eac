---------------------------- MODULE CharacterCache ----------------------------
(***************************************************************************)
(* The cache of spoken characters: ShortSpeechCache (shortSpeechCache.py)   *)
(* and the driver's cacheGet, cachePut, setters and terminate around it.    *)
(* The controller thread looks a character up, has it synthesized when it   *)
(* is not there, and stores it; NVDA's main thread changes settings, which  *)
(* clears the cache; the worker dies and is started again; the model's file *)
(* is replaced.                                                             *)
(*                                                                         *)
(* A step is a critical section of the cache, or a read or write of a field *)
(* outside it.  Only what the cache takes is spoken here: the text of a     *)
(* segment in character mode, of 1 to 64 code points.                       *)
(***************************************************************************)
EXTENDS Integers, SequencesExt

CONSTANTS
    Texts,             \* the characters
    Rates,             \* the rates NVDA may set
    Models,            \* the identities the model's file may have
    AtAssumedFormat,   \* the models whose audio is 16 kHz, mono, 16 bit
    Size,              \* the bytes of the audio of a text, after trimming
    MaxEntries, MaxBytes, MaxEntryBytes,
    MaxWorkers         \* bound: workers started

None == 0

ASSUME CacheLimitsAssumption ==
    /\ {MaxEntries, MaxBytes, MaxEntryBytes} \subseteq Nat \ {0}
    /\ Size \in [Texts -> Nat \ {0}]
    /\ AtAssumedFormat \subseteq Models

VARIABLES
    (* the fields of the driver *)
    rate, cacheWorkerId, state,
    (* the cache: its entries, the least recently used one first, and _totalBytes *)
    entries, totalBytes,
    (* the model's file, the newest worker, whether it lives, the model it loaded *)
    model, worker, alive, loaded,
    (* controller thread: its place, the character, the worker it saw, the audio it
       has got, the key it is going to store it under *)
    pc, text, seen, audio, key,
    (* main thread: its place in _invalidateCache *)
    mpc,
    (* history: the MaxEntries keys used last (found or stored) since the cache was
       cleared, in the order of their last use; whether the model was replaced in use *)
    recent, replacedInUse

driverVars == <<rate, state, mpc>>
cacheVars == <<entries, totalBytes, recent>>
workerVars == <<worker, alive, loaded>>
modelVars == <<model, replacedInUse>>
localVars == <<text, seen, audio, key>>
vars == <<driverVars, cacheWorkerId, cacheVars, workerVars, modelVars, pc, localVars>>

Format(m) == IF m \in AtAssumedFormat THEN "assumed" ELSE "other"

NoText == [text |-> None]
Forget == text' = None /\ seen' = None /\ audio' = NoText /\ key' = NoText

Init ==
    /\ rate \in Rates /\ cacheWorkerId = None /\ state = "ready"
    /\ entries = <<>> /\ totalBytes = 0
    /\ model \in Models /\ worker = None /\ alive = FALSE /\ loaded = model
    /\ pc = "idle" /\ text = None /\ seen = None /\ audio = NoText /\ key = NoText
    /\ mpc = "idle"
    /\ recent = <<>> /\ replacedInUse = FALSE

processId == IF alive THEN worker ELSE None

-----------------------------------------------------------------------------
(* ShortSpeechCache. *)

Keys == [i \in 1 .. Len(entries) |-> entries[i].key]

(* Both the cache and, as its reference, the keys by their last use. *)
Used(k) ==
    LET used == Append(RemoveFirst(recent, k), k)
    IN recent' = SubSeq(used, Max({1, Len(used) - MaxEntries + 1}), Len(used))

(* Faulty variant: what was found stays where it was. *)
GetInPlace(i) == UNCHANGED <<entries, totalBytes>> /\ Used(entries[i].key)

Get(i) ==
    /\ entries' = Append(RemoveAt(entries, i), entries[i])
    /\ UNCHANGED totalBytes
    /\ Used(entries[i].key)

Bytes(s) ==
    LET sum[n \in 0 .. Len(s)] == IF n = 0 THEN 0 ELSE sum[n - 1] + Size[s[n].audio.text]
    IN sum[Len(s)]

(* Where the cache has the key; 0 if it does not. *)
PlaceOf(k) ==
    LET places == {i \in 1 .. Len(entries) : entries[i].key = k}
    IN IF places = {} THEN 0 ELSE CHOOSE i \in places : TRUE

(* What is kept when it is popped. *)
Others(k) == IF PlaceOf(k) = 0 THEN entries ELSE RemoveAt(entries, PlaceOf(k))

(* Faulty variant: the bytes of an entry that is replaced stay in the count. *)
ReplacedKept(k) == 0

Replaced(k) == IF PlaceOf(k) = 0 THEN 0 ELSE Size[entries[PlaceOf(k)].audio.text]

(* Evicts until both bounds are kept. *)
Evict(all, total) ==
    LET Excess(n) == Len(all) - n > MaxEntries \/ total - Bytes(SubSeq(all, 1, n)) > MaxBytes
    IN \E n \in 0 .. Len(all) :
          /\ ~Excess(n) /\ \A m \in 0 .. n - 1 : Excess(m)
          /\ entries' = SubSeq(all, n + 1, Len(all))
          /\ totalBytes' = total - Bytes(SubSeq(all, 1, n))

Put(k, a) ==
    IF Size[a.text] > MaxEntryBytes \/ Size[a.text] > MaxBytes
    THEN UNCHANGED cacheVars
    ELSE /\ Evict(Append(Others(k), [key |-> k, audio |-> a]),
                  totalBytes - Replaced(k) + Size[a.text])
         /\ Used(k)

Clear == entries' = <<>> /\ totalBytes' = 0 /\ recent' = <<>>

-----------------------------------------------------------------------------
(* The controller thread. *)

(* Faulty variant: the key says nothing of the model. *)
CacheKeyWithoutModel(t, format) == [text |-> t, rate |-> rate, model |-> None, format |-> format]

(* What is the same for all keys is left out. *)
CacheKey(t, format) == [text |-> t, rate |-> rate, model |-> model, format |-> format]

(* _cacheGet *)
Lookup ==
    /\ pc = "idle" /\ state # "terminated" /\ pc' = "stamped"
    /\ text' \in Texts /\ seen' = processId
    /\ UNCHANGED <<audio, key, driverVars, cacheWorkerId, cacheVars, workerVars, modelVars>>

(* The condition reads _cacheWorkerId twice. *)
IsStamped ==
    /\ pc = "stamped"
    /\ pc' = IF cacheWorkerId = None THEN "find" ELSE "compare"
    /\ UNCHANGED <<driverVars, cacheWorkerId, cacheVars, workerVars, modelVars, localVars>>

Compare ==
    /\ pc = "compare"
    /\ \/ seen # cacheWorkerId /\ Clear /\ pc' = "unstamp"
       \/ seen = cacheWorkerId /\ UNCHANGED cacheVars /\ pc' = "find"
    /\ UNCHANGED <<driverVars, cacheWorkerId, workerVars, modelVars, localVars>>

Unstamp ==
    /\ pc = "unstamp" /\ pc' = "find"
    /\ cacheWorkerId' = None
    /\ UNCHANGED <<driverVars, cacheVars, workerVars, modelVars, localVars>>

Find ==
    /\ pc = "find"
    /\ LET place == PlaceOf(CacheKey(text, "assumed"))
       IN \/ place # 0 /\ Get(place) /\ pc' = "idle" /\ Forget
          \/ place = 0 /\ pc' = "synthesize" /\ UNCHANGED <<cacheVars, localVars>>
    /\ UNCHANGED <<driverVars, cacheWorkerId, workerVars, modelVars>>

(* By the worker that lives or by a new one. *)
Synthesize ==
    /\ pc = "synthesize"
    /\ \/ alive /\ UNCHANGED workerVars
       \/ /\ ~alive /\ worker < MaxWorkers
          /\ worker' = worker + 1 /\ alive' = TRUE /\ loaded' = model
    /\ audio' = [text |-> text, model |-> loaded']
    /\ pc' = "stamp"
    /\ UNCHANGED <<driverVars, cacheWorkerId, cacheVars, modelVars, text, seen, key>>

SynthesisFails ==
    /\ pc = "synthesize" /\ pc' = "idle" /\ Forget
    /\ UNCHANGED <<driverVars, cacheWorkerId, cacheVars, workerVars, modelVars>>

(* _cachePut *)
Stamp ==
    /\ pc = "stamp" /\ pc' = "key"
    /\ cacheWorkerId' = processId
    /\ UNCHANGED <<driverVars, cacheVars, workerVars, modelVars, localVars>>

MakeKey ==
    /\ pc = "key" /\ pc' = "put"
    /\ key' = CacheKey(text, Format(audio.model))
    /\ UNCHANGED <<driverVars, cacheWorkerId, cacheVars, workerVars, modelVars, text, seen, audio>>

Store ==
    /\ pc = "put" /\ pc' = "idle" /\ Forget
    /\ Put(key, audio)
    /\ UNCHANGED <<driverVars, cacheWorkerId, workerVars, modelVars>>

-----------------------------------------------------------------------------
(* The main thread. *)

(* The only voice is set again, or the rate is. *)
SetVoice == rate' = rate
SetRate == rate' \in Rates

Set ==
    /\ mpc = "idle" /\ state = "ready" /\ mpc' = "clear"
    /\ SetVoice \/ SetRate
    /\ UNCHANGED <<state, cacheWorkerId, cacheVars, workerVars, modelVars, pc, localVars>>

Terminate ==
    /\ mpc = "idle" /\ state = "ready" /\ mpc' = "clear"
    /\ state' = "terminating"
    /\ UNCHANGED <<rate, cacheWorkerId, cacheVars, workerVars, modelVars, pc, localVars>>

Invalidate ==
    /\ mpc = "clear" /\ mpc' = "unstamp"
    /\ Clear
    /\ UNCHANGED <<rate, state, cacheWorkerId, workerVars, modelVars, pc, localVars>>

Invalidated ==
    /\ mpc = "unstamp" /\ mpc' = "idle"
    /\ cacheWorkerId' = None
    /\ UNCHANGED <<rate, state, cacheVars, workerVars, modelVars, pc, localVars>>

(* The rest of terminate, which may give up waiting for the thread. *)
Terminated ==
    /\ mpc = "idle" /\ state = "terminating" /\ state' = "terminated"
    /\ UNCHANGED <<rate, mpc, cacheWorkerId, cacheVars, workerVars, modelVars, pc, localVars>>

-----------------------------------------------------------------------------
(* It crashes, or the bridge is interrupted. *)
WorkerDies ==
    /\ alive /\ alive' = FALSE
    /\ UNCHANGED <<driverVars, cacheWorkerId, cacheVars, worker, loaded, modelVars, pc, localVars>>

ReplaceModel ==
    /\ model' \in Models \ {model}
    /\ replacedInUse' = (replacedInUse \/ alive \/ pc # "idle")
    /\ UNCHANGED <<driverVars, cacheWorkerId, cacheVars, workerVars, pc, localVars>>

Next ==
    \/ Lookup \/ IsStamped \/ Compare \/ Unstamp \/ Find \/ Synthesize \/ SynthesisFails
    \/ Stamp \/ MakeKey \/ Store
    \/ Set \/ Terminate \/ Invalidate \/ Invalidated \/ Terminated
    \/ WorkerDies \/ ReplaceModel

Spec == Init /\ [][Next]_vars

-----------------------------------------------------------------------------
(* Properties. *)

(* "A deterministic LRU bounded to 32 entries, 256 KiB total, and 32 KiB per
   entry": the count of bytes that the bound is enforced with never drifts from the
   entries, through replacement, eviction and clearing, and the limits are kept. *)
BoundedByTheRealSize ==
    /\ totalBytes = Bytes(entries) /\ totalBytes <= MaxBytes
    /\ Len(entries) <= MaxEntries
    /\ \A i \in 1 .. Len(entries) : Size[entries[i].audio.text] <= MaxEntryBytes

(* What the cache keeps is what was used most recently: it has the last so many of
   the keys found or stored since it was cleared, in that order, so nothing is
   evicted before what was used earlier, and nothing by its own insertion. *)
MostRecentAreKept == IsSuffix(Keys, recent)

(* A hit is what the worker would say if it were asked: the audio of the
   character looked up, by the model whose file is there, as long as the file is not
   replaced under a worker or a character in progress.  Entries do outlive the worker
   that made them: cachePut takes whatever worker it finds for theirs. *)
HitsSpeakTheModel ==
    [][pc = "find" /\ pc' = "idle" /\ ~replacedInUse
        => Last(entries').audio = [text |-> text, model |-> model]]_vars

=============================================================================
