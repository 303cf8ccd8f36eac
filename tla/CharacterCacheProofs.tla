------------------------- MODULE CharacterCacheProofs -------------------------
(***************************************************************************)
(* That a hit speaks the model, that the cache stays within its limits at  *)
(* the audio's real size, and that it keeps the most recently used         *)
(* entries: proved for any characters, rates, models, sizes, limits and    *)
(* number of workers.                                                      *)
(***************************************************************************)
EXTENDS CharacterCache, Induction

(* The audio a worker makes of a text, and an entry of the cache. *)
Audio == [text : Texts, model : Models]
Key == [text : Texts, rate : Rates, model : Models, format : {"assumed", "other"}]
Entry == [key : Key, audio : Audio]

Types ==
    /\ rate \in Rates /\ model \in Models /\ loaded \in Models
    /\ worker \in Nat /\ alive \in BOOLEAN /\ replacedInUse \in BOOLEAN
    /\ entries \in Seq(Entry)
    /\ pc # "idle" => text \in Texts
    /\ pc \in {"stamp", "key", "put"} => audio \in Audio
    /\ pc = "put" => key \in Key

(* The worker speaks the model that is there, and so does the audio on its way
   into the cache, under a key that says so. *)
Fresh ==
    ~replacedInUse =>
        /\ alive => loaded = model
        /\ pc \in {"stamp", "key", "put"} => audio = [text |-> text, model |-> model]
        /\ pc = "put" => key.text = text /\ key.model = model

(* Whatever is there now, an entry is the audio of its key: of its text by its model. *)
Faithful ==
    ~replacedInUse =>
        \A i \in 1 .. Len(entries) :
            /\ entries[i].audio.text = entries[i].key.text
            /\ entries[i].audio.model = entries[i].key.model

HInv == Types /\ Fresh /\ Faithful

-----------------------------------------------------------------------------
(* The cache. *)

LEMMA NoEntries == <<>> \in Seq(Entry)
OBVIOUS

LEMMA PlaceFacts ==
    ASSUME NEW k, PlaceOf(k) # 0
    PROVE  PlaceOf(k) \in 1 .. Len(entries) /\ entries[PlaceOf(k)].key = k
BY DEF PlaceOf

(* Nothing new comes in by removing. *)
LEMMA RemoveAtFacts ==
    ASSUME NEW S, NEW s \in Seq(S), NEW n \in 1 .. Len(s)
    PROVE  /\ RemoveAt(s, n) \in Seq(S)
           /\ \A i \in 1 .. Len(RemoveAt(s, n)) :
                 \E j \in 1 .. Len(s) : RemoveAt(s, n)[i] = s[j]
<1>1. ASSUME NEW i \in 1 .. Len(RemoveAt(s, n))
      PROVE  \E j \in 1 .. Len(s) : RemoveAt(s, n)[i] = s[j]
  <2>1. i \in 1 .. Len(s) - 1 /\ i \in 1 .. Len(s) /\ i + 1 \in 1 .. Len(s)
    BY RemovedAt
  <2>2. RemoveAt(s, n)[i] \in {s[i], s[i + 1]}
    BY <2>1, RemovedAt
  <2>3. QED
    BY <2>1, <2>2
<1>2. QED
  BY <1>1, RemovedAt

LEMMA StoreFacts ==
    ASSUME Types, Faithful, NEW k \in Key, NEW a \in Audio, Put(k, a),
           ~replacedInUse => a.text = k.text /\ a.model = k.model
    PROVE  /\ entries' \in Seq(Entry)
           /\ ~replacedInUse => \A i \in 1 .. Len(entries') :
                 entries'[i].audio.text = entries'[i].key.text
                 /\ entries'[i].audio.model = entries'[i].key.model
<1> DEFINE new == [key |-> k, audio |-> a]
           all == Append(Others(k), new)
           Good(e) == ~replacedInUse => e.audio.text = e.key.text /\ e.audio.model = e.key.model
<1>1. entries \in Seq(Entry) /\ \A i \in 1 .. Len(entries) : Good(entries[i])
  BY DEF Types, Faithful
<1>2. new \in Entry /\ Good(new)
  BY DEF Entry
<1> HIDE DEF new, Good
<1>3. Others(k) \in Seq(Entry) /\ \A i \in 1 .. Len(Others(k)) : Good(Others(k)[i])
  <2>1. CASE PlaceOf(k) = 0
    BY <1>1, <2>1 DEF Others
  <2>2. CASE PlaceOf(k) # 0
    BY <1>1, <2>2, PlaceFacts, RemoveAtFacts DEF Others
  <2>3. QED
    BY <2>1, <2>2
<1>4. all \in Seq(Entry) /\ \A i \in 1 .. Len(all) : Good(all[i])
  BY <1>2, <1>3
<1> HIDE DEF all
<1>5. CASE UNCHANGED entries
  BY <1>1, <1>5 DEF Good
<1>6. CASE \E n \in 0 .. Len(all) : entries' = SubSeq(all, n + 1, Len(all))
  <2>1. PICK n \in 0 .. Len(all) : entries' = SubSeq(all, n + 1, Len(all))
    BY <1>6
  <2>2. /\ entries' \in Seq(Entry) /\ Len(entries') = Len(all) - n
        /\ \A i \in 1 .. Len(entries') : entries'[i] = all[n + i] /\ n + i \in 1 .. Len(all)
    BY <1>4, <2>1
  <2>3. QED
    BY <1>4, <2>2 DEF Good
<1>7. QED
  BY <1>5, <1>6 DEF Put, Evict, cacheVars, all, new

LEMMA GetFacts ==
    ASSUME Types, Faithful, NEW n \in 1 .. Len(entries), Get(n)
    PROVE  /\ entries' \in Seq(Entry)
           /\ ~replacedInUse => \A i \in 1 .. Len(entries') :
                 entries'[i].audio.text = entries'[i].key.text
                 /\ entries'[i].audio.model = entries'[i].key.model
           /\ entries'[Len(entries')] = entries[n]
<1> DEFINE Good(e) == ~replacedInUse => e.audio.text = e.key.text /\ e.audio.model = e.key.model
           kept == RemoveAt(entries, n)
<1>1. entries \in Seq(Entry) /\ \A i \in 1 .. Len(entries) : Good(entries[i])
  BY DEF Types, Faithful
<1>2. entries' = Append(kept, entries[n])
  BY DEF Get
<1> HIDE DEF Good
<1>3. kept \in Seq(Entry) /\ \A i \in 1 .. Len(kept) : Good(kept[i])
  BY <1>1, RemoveAtFacts
<1> HIDE DEF kept
<1>4. /\ entries' \in Seq(Entry) /\ \A i \in 1 .. Len(entries') : Good(entries'[i])
      /\ entries'[Len(entries')] = entries[n]
  BY <1>1, <1>2, <1>3
<1>5. QED
  BY <1>4 DEF Good

-----------------------------------------------------------------------------
(* The invariant. *)

LEMMA HInvInit == Init => HInv
<1> SUFFICES ASSUME Init PROVE HInv
  OBVIOUS
<1>1. Types
  BY NoEntries DEF Init, Types, None
<1>2. Fresh /\ Faithful
  BY DEF Init, Fresh, Faithful
<1>3. QED
  BY <1>1, <1>2 DEF HInv

LEMMA HInvStep == HInv /\ [Next]_vars => HInv'
<1> SUFFICES ASSUME HInv, [Next]_vars PROVE HInv'
  OBVIOUS
<1> USE DEF HInv, driverVars, workerVars, modelVars, localVars
<1>1. CASE UNCHANGED vars
  BY <1>1 DEF vars, Types, Fresh, Faithful, cacheVars
<1>2. CASE Lookup \/ IsStamped \/ Unstamp \/ Stamp \/ Set \/ Terminate \/ Invalidated \/ Terminated
           \/ SynthesisFails \/ WorkerDies
  <2> USE <1>2 DEF Lookup, IsStamped, Unstamp, Stamp, Set, SetVoice, SetRate, Terminate,
                   Invalidated, Terminated, SynthesisFails, WorkerDies, Forget, cacheVars
  <2>1. Types'
    BY DEF Types
  <2>2. Fresh'
    BY DEF Fresh, Types
  <2>3. Faithful'
    BY DEF Faithful
  <2>4. QED
    BY <2>1, <2>2, <2>3
<1>3. CASE Compare \/ Invalidate
  <2> USE <1>3 DEF Compare, Invalidate, Clear, cacheVars
  <2>1. Types'
    BY NoEntries DEF Types
  <2>2. Fresh'
    BY DEF Fresh
  <2>3. Faithful'
    BY DEF Faithful
  <2>4. QED
    BY <2>1, <2>2, <2>3
<1>4. CASE Find
  <2>1. CASE UNCHANGED cacheVars /\ UNCHANGED localVars /\ pc' = "synthesize"
    BY <1>4, <2>1 DEF Find, Types, Fresh, Faithful, cacheVars
  <2>2. ASSUME NEW n \in 1 .. Len(entries), Get(n), pc' = "idle"
        PROVE  HInv'
    BY <1>4, <2>2, GetFacts DEF Find, Types, Fresh, Faithful
  <2>3. QED
    BY <1>4, <2>1, <2>2, PlaceFacts DEF Find
<1>5. CASE Synthesize
  <2>1. loaded' \in Models /\ worker' \in Nat /\ alive' \in BOOLEAN /\ text \in Texts
    <3>1. CASE alive /\ UNCHANGED workerVars
      BY <1>5, <3>1 DEF Synthesize, Types
    <3>2. CASE worker' = worker + 1 /\ alive' = TRUE /\ loaded' = model
      BY <1>5, <3>2 DEF Synthesize, Types
    <3>3. QED
      BY <1>5, <3>1, <3>2 DEF Synthesize
  <2>2. audio' \in Audio
    BY <1>5, <2>1 DEF Synthesize, Audio
  <2>3. Types'
    BY <1>5, <2>1, <2>2 DEF Synthesize, Types, cacheVars
  <2>4. Fresh'
    BY <1>5 DEF Synthesize, Fresh
  <2>5. Faithful'
    BY <1>5 DEF Synthesize, Faithful, cacheVars
  <2>6. QED
    BY <2>3, <2>4, <2>5
<1>6. CASE MakeKey
  <2>1. CacheKey(text, Format(audio.model)) \in Key
    BY <1>6 DEF MakeKey, Types, CacheKey, Format, Key
  <2>2. /\ CacheKey(text, Format(audio.model)).text = text
        /\ CacheKey(text, Format(audio.model)).model = model
    BY DEF CacheKey
  <2>3. QED
    BY <1>6, <2>1, <2>2 DEF MakeKey, Types, Fresh, Faithful, cacheVars
<1>7. CASE Store
  <2>1. key \in Key /\ audio \in Audio /\ Put(key, audio) /\ pc = "put" /\ pc' = "idle"
        /\ UNCHANGED <<driverVars, cacheWorkerId, workerVars, modelVars>>
    BY <1>7 DEF Store, Types
  <2>2. ~replacedInUse => audio.text = key.text /\ audio.model = key.model
    BY <2>1 DEF Fresh
  <2>3. QED
    BY <2>1, <2>2, StoreFacts DEF Types, Fresh, Faithful
<1>8. CASE ReplaceModel
  BY <1>8 DEF ReplaceModel, Types, Fresh, Faithful, cacheVars
<1>9. QED
  BY <1>1, <1>2, <1>3, <1>4, <1>5, <1>6, <1>7, <1>8 DEF Next

(* Whatever settings, deaths of the worker and earlier characters the cache has seen,
   a hit is the audio of the character looked up by the model that is there, unless
   the file was replaced under a worker or a character in progress. *)
THEOREM HitsSpeak == Spec => HitsSpeakTheModel
<1>1. HInv /\ [Next]_vars =>
         [pc = "find" /\ pc' = "idle" /\ ~replacedInUse
            => Last(entries').audio = [text |-> text, model |-> model]]_vars
  <2> SUFFICES ASSUME HInv, Find, pc' = "idle", ~replacedInUse
               PROVE  Last(entries').audio = [text |-> text, model |-> model]
    BY DEF Next, Lookup, IsStamped, Compare, Unstamp, Synthesize, SynthesisFails, Stamp,
       MakeKey, Store, Set, Terminate, Invalidate, Invalidated, Terminated, WorkerDies, ReplaceModel
  <2> DEFINE n == PlaceOf(CacheKey(text, "assumed"))
  <2>1. n # 0 /\ Get(n)
    BY DEF Find
  <2>2. n \in 1 .. Len(entries) /\ entries[n].key = CacheKey(text, "assumed")
    BY <2>1, PlaceFacts
  <2> HIDE DEF n
  <2>3. entries'[Len(entries')] = entries[n]
    BY <2>1, <2>2, GetFacts DEF HInv
  <2>4. entries[n] \in Entry /\ entries[n].audio.text = text /\ entries[n].audio.model = model
    BY <2>2 DEF HInv, Types, Faithful, CacheKey
  <2>5. QED
    BY <2>3, <2>4 DEF Last, Entry, Audio
<1>2. QED
  BY <1>1, HInvInit, HInvStep, PTL DEF Spec, HitsSpeakTheModel

-----------------------------------------------------------------------------
(* The bytes of a sequence of entries.  Bytes is a recursion over its prefixes. *)

LEMMA EntrySize ==
    ASSUME NEW e \in Entry PROVE Size[e.audio.text] \in Nat /\ Size[e.audio.text] > 0
<1>1. e.audio.text \in Texts
  BY DEF Entry, Audio
<1>2. QED
  BY <1>1, CacheLimitsAssumption

LEMMA BytesFacts ==
    ASSUME NEW s \in Seq(Entry)
    PROVE  \E f : /\ f[0] = 0 /\ \A n \in 0 .. Len(s) : f[n] \in Nat
                  /\ \A n \in 1 .. Len(s) : f[n] = f[n - 1] + Size[s[n].audio.text]
                  /\ Bytes(s) = f[Len(s)]
<1> DEFINE N == Len(s)
           size == [n \in 1 .. N |-> Size[s[n].audio.text]]
           g == [n \in 1 .. N |-> [x \in Nat |-> x + size[n]]]
           sum == CHOOSE f : f = [n \in 0 .. N |-> IF n = 0 THEN 0 ELSE f[n - 1] + Size[s[n].audio.text]]
<1>1. N \in Nat
  OBVIOUS
<1>2. ASSUME NEW n \in 1 .. N PROVE size[n] \in Nat /\ size[n] = Size[s[n].audio.text]
  <2>1. s[n] \in Entry
    OBVIOUS
  <2>2. QED
    BY <2>1, EntrySize
<1> HIDE DEF size
<1>3. g \in Steps(N, Nat)
  BY <1>2 DEF Steps
<1>4. PICK f : f \in Runs(N, Nat, 0, g)
  <2> HIDE DEF N, g
  <2>1. QED
    BY <1>1, <1>3, Recursion
<1>5. /\ f = [n \in 0 .. N |-> f[n]] /\ f[0] = 0
      /\ \A n \in 0 .. N : f[n] \in Nat
      /\ \A n \in 1 .. N : f[n - 1] \in Nat /\ f[n] = g[n][f[n - 1]]
  <2> HIDE DEF N, g
  <2>1. QED
    BY <1>1, <1>4, RunFacts
<1> HIDE DEF N
<1>6. \A n \in 1 .. N : f[n] = f[n - 1] + Size[s[n].audio.text]
  BY <1>2, <1>5
<1>7. f = [n \in 0 .. N |-> IF n = 0 THEN 0 ELSE f[n - 1] + Size[s[n].audio.text]]
  <2> HIDE DEF g
  <2>1. ASSUME NEW n \in 0 .. N
        PROVE  f[n] = IF n = 0 THEN 0 ELSE f[n - 1] + Size[s[n].audio.text]
    <3>1. n = 0 \/ n \in 1 .. N
      BY <1>1
    <3>2. QED
      BY <1>5, <1>6, <3>1
  <2>2. QED
    BY <1>5, <2>1
<1>8. sum = [n \in 0 .. N |-> IF n = 0 THEN 0 ELSE sum[n - 1] + Size[s[n].audio.text]]
  BY <1>7
<1>9. Bytes(s) = sum[N]
  BY DEF Bytes, N
<1> HIDE DEF sum
<1>10. sum[0] = 0 /\ \A n \in 1 .. N : sum[n] = sum[n - 1] + size[n]
  BY <1>1, <1>2, <1>8
<1>11. \A n \in 0 .. N : sum[n] \in Nat
  <2> DEFINE S == {n \in 0 .. N : sum[n] \in Nat}
  <2>1. 0 \in S
    BY <1>1, <1>10
  <2>2. \A n \in 1 .. N : n - 1 \in S => n \in S
    BY <1>1, <1>2, <1>10
  <2> HIDE DEF S
  <2>3. \A n \in 0 .. N : n \in S
    BY <1>1, <2>1, <2>2, UpTo
  <2>4. QED
    BY <2>3 DEF S
<1>12. QED
  BY <1>2, <1>9, <1>10, <1>11 DEF N

LEMMA BytesShort ==
    ASSUME NEW s \in Seq(Entry)
    PROVE  /\ Bytes(s) \in Nat
           /\ s = <<>> => Bytes(s) = 0
           /\ Len(s) = 1 => Bytes(s) = Size[s[1].audio.text]
<1>1. PICK f : /\ f[0] = 0 /\ \A n \in 0 .. Len(s) : f[n] \in Nat
               /\ \A n \in 1 .. Len(s) : f[n] = f[n - 1] + Size[s[n].audio.text]
               /\ Bytes(s) = f[Len(s)]
  BY BytesFacts
<1>2. Len(s) \in Nat /\ (s = <<>> => Len(s) = 0)
  OBVIOUS
<1>3. ASSUME Len(s) = 1 PROVE Bytes(s) = Size[s[1].audio.text]
  <2>1. Size[s[1].audio.text] \in Nat
    BY <1>3, EntrySize
  <2>2. f[1] = f[0] + Size[s[1].audio.text]
    BY <1>1, <1>3
  <2>3. QED
    BY <1>1, <1>3, <2>1, <2>2
<1>4. QED
  BY <1>1, <1>2, <1>3

LEMMA BytesConcat ==
    ASSUME NEW s \in Seq(Entry), NEW t \in Seq(Entry)
    PROVE  Bytes(s \o t) = Bytes(s) + Bytes(t)
<1> DEFINE u == s \o t
           M == Len(s)
           N == Len(t)
<1>1. /\ u \in Seq(Entry) /\ M \in Nat /\ N \in Nat /\ Len(u) = M + N
      /\ \A n \in 1 .. M : u[n] = s[n]
      /\ \A n \in 1 .. N : u[M + n] = t[n]
  BY ConcatProperties
<1>2. PICK f : /\ f[0] = 0 /\ \A n \in 0 .. M : f[n] \in Nat
               /\ \A n \in 1 .. M : f[n] = f[n - 1] + Size[s[n].audio.text]
               /\ Bytes(s) = f[M]
  BY BytesFacts
<1>3. PICK h : /\ h[0] = 0 /\ \A n \in 0 .. N : h[n] \in Nat
               /\ \A n \in 1 .. N : h[n] = h[n - 1] + Size[t[n].audio.text]
               /\ Bytes(t) = h[N]
  BY BytesFacts
<1> HIDE DEF u, M, N
<1>4. PICK w : /\ w[0] = 0 /\ \A n \in 0 .. Len(u) : w[n] \in Nat
               /\ \A n \in 1 .. Len(u) : w[n] = w[n - 1] + Size[u[n].audio.text]
               /\ Bytes(u) = w[Len(u)]
  BY <1>1, BytesFacts
<1>5. \A n \in 0 .. M : w[n] = f[n]
  <2> DEFINE S == {n \in 0 .. M : w[n] = f[n]}
  <2>1. 0 \in S
    BY <1>1, <1>2, <1>4
  <2>2. ASSUME NEW n \in 1 .. M, n - 1 \in S PROVE n \in S
    <3>1. n \in 1 .. Len(u) /\ w[n - 1] = f[n - 1] /\ u[n] = s[n]
      BY <1>1, <2>2
    <3>2. w[n] = f[n]
      BY <1>2, <1>4, <3>1
    <3>3. QED
      BY <3>2
  <2> HIDE DEF S
  <2>3. \A n \in 0 .. M : n \in S
    BY <1>1, <2>1, <2>2, UpTo
  <2>4. QED
    BY <2>3 DEF S
<1>6. \A n \in 0 .. N : w[M + n] = f[M] + h[n]
  <2> DEFINE S == {n \in 0 .. N : w[M + n] = f[M] + h[n]}
  <2>1. 0 \in S
    BY <1>1, <1>2, <1>3, <1>5
  <2>2. ASSUME NEW n \in 1 .. N, n - 1 \in S PROVE n \in S
    <3>1. /\ M + n \in 1 .. Len(u) /\ M + n - 1 = M + (n - 1) /\ u[M + n] = t[n]
          /\ w[M + (n - 1)] = f[M] + h[n - 1]
      BY <1>1, <2>2
    <3>2. w[M + n] = f[M] + h[n - 1] + Size[t[n].audio.text]
      <4>1. w[M + n] = w[M + n - 1] + Size[u[M + n].audio.text]
        BY <1>1, <1>4, <3>1
      <4>2. QED
        BY <3>1, <4>1
    <3>3. Size[t[n].audio.text] \in Nat
      <4>1. t[n] \in Entry
        BY DEF N
      <4>2. QED
        BY <4>1, EntrySize
    <3>4. f[M] \in Nat /\ h[n - 1] \in Nat
      BY <1>1, <1>2, <1>3
    <3>5. h[n] = h[n - 1] + Size[t[n].audio.text]
      BY <1>3
    <3> HIDE DEF S
    <3>6. w[M + n] = f[M] + h[n]
      BY <3>2, <3>3, <3>4, <3>5
    <3> USE DEF S
    <3>7. QED
      BY <3>6
  <2> HIDE DEF S
  <2>3. \A n \in 0 .. N : n \in S
    BY <1>1, <2>1, <2>2, UpTo
  <2>4. QED
    BY <2>3 DEF S
<1>7. w[M + N] = f[M] + h[N]
  BY <1>1, <1>6
<1>8. QED
  BY <1>1, <1>2, <1>3, <1>4, <1>7 DEF u

(* What is evicted and what is left. *)
LEMMA BytesSplit ==
    ASSUME NEW s \in Seq(Entry), NEW n \in 0 .. Len(s)
    PROVE  /\ Bytes(SubSeq(s, 1, n)) \in Nat /\ Bytes(SubSeq(s, n + 1, Len(s))) \in Nat
           /\ Bytes(s) = Bytes(SubSeq(s, 1, n)) + Bytes(SubSeq(s, n + 1, Len(s)))
<1>1. SubSeq(s, 1, n) \in Seq(Entry) /\ SubSeq(s, n + 1, Len(s)) \in Seq(Entry)
  OBVIOUS
<1>2. SubSeq(s, 1, n) \o SubSeq(s, n + 1, Len(s)) = SubSeq(s, 1, Len(s))
  <2>1. 1 \in 1 .. Len(s) + 1 /\ n \in 1 - 1 .. Len(s) /\ Len(s) \in n .. Len(s)
    OBVIOUS
  <2>2. QED
    BY <2>1, ConcatAdjacentSubSeq
<1>3. SubSeq(s, 1, Len(s)) = s
  BY SubSeqFull
<1>4. QED
  BY <1>1, <1>2, <1>3, BytesConcat, BytesShort

LEMMA BytesRemoved ==
    ASSUME NEW s \in Seq(Entry), NEW n \in 1 .. Len(s)
    PROVE  Bytes(s) = Bytes(RemoveAt(s, n)) + Size[s[n].audio.text]
<1> DEFINE a == SubSeq(s, 1, n - 1)
           r == SubSeq(s, n, Len(s))
           e == SubSeq(s, n, n)
           b == SubSeq(s, n + 1, Len(s))
<1>1. /\ a \in Seq(Entry) /\ r \in Seq(Entry) /\ e \in Seq(Entry) /\ b \in Seq(Entry)
      /\ Len(e) = 1 /\ e[1] = s[n]
  OBVIOUS
<1>2. Bytes(s) = Bytes(a) + Bytes(r)
  <2>1. n - 1 \in 0 .. Len(s) /\ n - 1 + 1 = n
    OBVIOUS
  <2>2. QED
    BY <2>1, BytesSplit
<1>3. e \o b = r
  <2>1. n \in 1 .. Len(s) + 1 /\ n \in n - 1 .. Len(s) /\ Len(s) \in n .. Len(s)
    OBVIOUS
  <2>2. QED
    BY <2>1, ConcatAdjacentSubSeq
<1>4. RemoveAt(s, n) = a \o b
  BY DEF RemoveAt
<1> HIDE DEF a, b, r, e
<1>5. Bytes(r) = Bytes(e) + Bytes(b) /\ Bytes(RemoveAt(s, n)) = Bytes(a) + Bytes(b)
  BY <1>1, <1>3, <1>4, BytesConcat
<1>6. Bytes(e) = Size[s[n].audio.text]
  BY <1>1, BytesShort
<1>7. Bytes(a) \in Nat /\ Bytes(b) \in Nat /\ Bytes(e) \in Nat
  BY <1>1, BytesShort
<1>8. QED
  BY <1>2, <1>5, <1>6, <1>7

-----------------------------------------------------------------------------
(* The order of use: what is kept are the last of the keys used, each of which is
   there once. *)

UsedLast ==
    /\ recent \in Seq(Key) /\ Len(recent) <= MaxEntries
    /\ \A i, j \in 1 .. Len(recent) : recent[i] = recent[j] => i = j
    /\ Len(entries) <= Len(recent)
    /\ \A i \in 1 .. Len(entries) : entries[i].key = recent[Len(recent) - Len(entries) + i]

(* The keys used, once k is the last of them; entries may still have to be evicted. *)
AllUsed(k) == Append(RemoveFirst(recent, k), k)

LastOf(s, used) ==
    Len(s) <= Len(used) /\ \A i \in 1 .. Len(s) : s[i].key = used[Len(used) - Len(s) + i]

(* Each key is there once more, and the new one is the last of them. *)
LEMMA AllUsedFacts ==
    ASSUME UsedLast, NEW k \in Key
    PROVE  /\ AllUsed(k) \in Seq(Key) /\ Len(AllUsed(k)) \in 1 .. MaxEntries + 1
           /\ \A i, j \in 1 .. Len(AllUsed(k)) : AllUsed(k)[i] = AllUsed(k)[j] => i = j
<1> DEFINE used == AllUsed(k)
           rest == RemoveFirst(recent, k)
           R == Len(recent)
<1>1. /\ recent \in Seq(Key) /\ R \in Nat /\ R <= MaxEntries /\ MaxEntries \in Nat
      /\ \A i, j \in 1 .. R : recent[i] = recent[j] => i = j
  BY CacheLimitsAssumption DEF UsedLast
<1>2. /\ rest \in Seq(Key) /\ Len(rest) <= R
      /\ \A i \in 1 .. Len(rest) : rest[i] # k
      /\ \A i, j \in 1 .. Len(rest) : rest[i] = rest[j] => i = j
  <2>1. CASE (\A i \in 1 .. R : recent[i] # k) /\ rest = recent
    BY <1>1, <2>1
  <2>2. ASSUME NEW p \in 1 .. R, recent[p] = k, rest = RemoveAt(recent, p)
        PROVE  <1>2
    <3>1. /\ rest \in Seq(Key) /\ Len(rest) = R - 1
          /\ \A i \in 1 .. R - 1 : rest[i] = IF i < p THEN recent[i] ELSE recent[i + 1]
      <4>1. recent \in Seq(Key) /\ rest = RemoveAt(recent, p)
        BY <1>1, <2>2
      <4> HIDE DEF rest
      <4>2. Closed(Key, rest, recent, p)
        BY <4>1, RemovedIs
      <4>3. QED
        BY <4>2 DEF Closed
    <3>2. ASSUME NEW i \in 1 .. R - 1
          PROVE  \E m \in 1 .. R : m # p /\ rest[i] = recent[m] /\ m = IF i < p THEN i ELSE i + 1
      <4>1. CASE i < p
        BY <1>1, <3>1, <4>1
      <4>2. CASE ~(i < p)
        BY <1>1, <3>1, <4>2
      <4>3. QED
        BY <4>1, <4>2
    <3>3. ASSUME NEW i \in 1 .. R - 1 PROVE rest[i] # k
      BY <1>1, <2>2, <3>2
    <3>4. ASSUME NEW i \in 1 .. R - 1, NEW j \in 1 .. R - 1, rest[i] = rest[j] PROVE i = j
      <4>1. PICK m \in 1 .. R : m # p /\ rest[i] = recent[m] /\ m = IF i < p THEN i ELSE i + 1
        BY <3>2
      <4>2. PICK n \in 1 .. R : n # p /\ rest[j] = recent[n] /\ n = IF j < p THEN j ELSE j + 1
        BY <3>2
      <4>3. m = n
        BY <1>1, <3>4, <4>1, <4>2
      <4>4. QED
        BY <4>1, <4>2, <4>3
    <3>5. QED
      BY <1>1, <3>1, <3>3, <3>4
  <2>3. QED
    BY <1>1, <2>1, <2>2, RemovedFirst
<1> HIDE DEF rest, R
<1>3. /\ used \in Seq(Key) /\ Len(used) = Len(rest) + 1 /\ Len(rest) \in Nat
      /\ \A i \in 1 .. Len(rest) : used[i] = rest[i]
      /\ used[Len(rest) + 1] = k
  BY <1>2 DEF AllUsed, rest
<1>4. \A i \in 1 .. Len(used) : i \in 1 .. Len(rest) \/ i = Len(rest) + 1
  BY <1>3
<1> HIDE DEF used
<1>5. \A i, j \in 1 .. Len(used) : used[i] = used[j] => i = j
  BY <1>2, <1>3, <1>4
<1>6. QED
  BY <1>1, <1>2, <1>3, <1>5 DEF used

(* What is kept is the last of them with the new entry behind it. *)
LEMMA AppendedIsLast ==
    ASSUME UsedLast, entries \in Seq(Entry), NEW k \in Key, NEW e \in Entry, e.key = k,
           NEW kept,
           \/ kept = entries /\ \A i \in 1 .. Len(entries) : entries[i].key # k
           \/ \E i \in 1 .. Len(entries) : entries[i].key = k /\ kept = RemoveAt(entries, i)
    PROVE  Append(kept, e) \in Seq(Entry) /\ LastOf(Append(kept, e), AllUsed(k))
<1> DEFINE rest == RemoveFirst(recent, k)
           R == Len(recent)
           E == Len(entries)
<1>1. /\ recent \in Seq(Key) /\ R \in Nat /\ E \in Nat /\ E <= R
      /\ \A i, j \in 1 .. R : recent[i] = recent[j] => i = j
      /\ \A i \in 1 .. E : R - E + i \in 1 .. R /\ entries[i].key = recent[R - E + i]
  <2>1. recent \in Seq(Key) /\ R \in Nat /\ E \in Nat /\ E <= R
    BY DEF UsedLast
  <2>2. \A i \in 1 .. E : R - E + i \in 1 .. R
    BY <2>1
  <2>3. QED
    BY <2>1, <2>2 DEF UsedLast
<1>2. /\ kept \in Seq(Entry) /\ rest \in Seq(Key) /\ Len(kept) <= Len(rest)
      /\ \A i \in 1 .. Len(kept) : kept[i].key = rest[Len(rest) - Len(kept) + i]
  <2>1. CASE /\ \A i \in 1 .. R : recent[i] # k
             /\ rest = recent
    <3>1. kept = entries
      BY <1>1, <2>1
    <3>2. QED
      BY <1>1, <2>1, <3>1
  <2>2. ASSUME NEW p \in 1 .. R, recent[p] = k, rest = RemoveAt(recent, p),
               kept = entries, \A i \in 1 .. E : entries[i].key # k
        PROVE  <1>2
    <3>1. /\ rest \in Seq(Key) /\ Len(rest) = R - 1
          /\ \A i \in 1 .. R - 1 : rest[i] = IF i < p THEN recent[i] ELSE recent[i + 1]
      <4>1. recent \in Seq(Key) /\ rest = RemoveAt(recent, p)
        BY <1>1, <2>2
      <4> HIDE DEF rest
      <4>2. Closed(Key, rest, recent, p)
        BY <4>1, RemovedIs
      <4>3. QED
        BY <4>2 DEF Closed
    <3>2. p <= R - E
      <4>1. SUFFICES ASSUME p > R - E PROVE FALSE
        BY <1>1
      <4>2. p - (R - E) \in 1 .. E /\ R - E + (p - (R - E)) = p
        BY <1>1, <4>1
      <4>3. entries[p - (R - E)].key = recent[p]
        BY <1>1, <4>2
      <4>4. QED
        BY <2>2, <4>2, <4>3
    <3>3. ASSUME NEW i \in 1 .. E PROVE entries[i].key = rest[R - 1 - E + i]
      <4>1. R - 1 - E + i \in 1 .. R - 1 /\ ~(R - 1 - E + i < p) /\ R - 1 - E + i + 1 = R - E + i
        BY <1>1, <3>2
      <4>2. rest[R - 1 - E + i] = recent[R - E + i]
        BY <3>1, <4>1
      <4>3. QED
        BY <1>1, <4>2
    <3>4. E <= R - 1
      BY <1>1, <3>2
    <3>5. QED
      BY <1>1, <2>2, <3>1, <3>3, <3>4
  <2>3. ASSUME NEW p \in 1 .. R, recent[p] = k, rest = RemoveAt(recent, p),
               NEW n \in 1 .. E, entries[n].key = k, kept = RemoveAt(entries, n)
        PROVE  <1>2
    <3>1. /\ rest \in Seq(Key) /\ Len(rest) = R - 1
          /\ \A i \in 1 .. R - 1 : rest[i] = IF i < p THEN recent[i] ELSE recent[i + 1]
      <4>1. recent \in Seq(Key) /\ rest = RemoveAt(recent, p)
        BY <1>1, <2>3
      <4> HIDE DEF rest
      <4>2. Closed(Key, rest, recent, p)
        BY <4>1, RemovedIs
      <4>3. QED
        BY <4>2 DEF Closed
    <3>2. /\ kept \in Seq(Entry) /\ Len(kept) = E - 1
          /\ \A i \in 1 .. E - 1 : kept[i] = IF i < n THEN entries[i] ELSE entries[i + 1]
      <4>1. kept = RemoveAt(entries, n)
        BY <2>3
      <4>2. Closed(Entry, kept, entries, n)
        BY <4>1, RemovedIs
      <4>3. QED
        BY <4>2 DEF Closed
    <3>3. p = R - E + n
      BY <1>1, <2>3
    <3>4. ASSUME NEW i \in 1 .. E - 1 PROVE kept[i].key = rest[R - E + i]
      <4>1. R - E + i \in 1 .. R - 1 /\ i \in 1 .. E /\ i + 1 \in 1 .. E
        BY <1>1
      <4>2. CASE i < n
        <5>1. R - E + i < p
          BY <1>1, <3>3, <4>2
        <5>2. QED
          BY <1>1, <3>1, <3>2, <4>1, <4>2, <5>1
      <4>3. CASE ~(i < n)
        <5>1. ~(R - E + i < p) /\ R - E + i + 1 = R - E + (i + 1)
          BY <1>1, <3>3, <4>3
        <5>2. kept[i].key = recent[R - E + (i + 1)] /\ rest[R - E + i] = recent[R - E + i + 1]
          BY <1>1, <3>1, <3>2, <4>1, <4>3, <5>1
        <5>3. QED
          BY <5>1, <5>2
      <4>4. QED
        BY <4>2, <4>3
    <3>5. R - 1 - (E - 1) = R - E /\ E - 1 <= R - 1
      BY <1>1
    <3>6. QED
      BY <3>1, <3>2, <3>4, <3>5
  <2>4. \/ (\A i \in 1 .. R : recent[i] # k) /\ rest = recent
        \/ \E p \in 1 .. R : recent[p] = k /\ rest = RemoveAt(recent, p)
    BY <1>1, RemovedFirst
  <2> HIDE DEF rest, R
  <2>5. QED
    BY <2>1, <2>2, <2>3, <2>4
<1> HIDE DEF rest, R
<1> DEFINE all == Append(kept, e)
           used == Append(rest, k)
<1>3. /\ all \in Seq(Entry) /\ Len(all) = Len(kept) + 1 /\ Len(kept) \in Nat
      /\ \A i \in 1 .. Len(kept) : all[i] = kept[i]
      /\ all[Len(kept) + 1] = e
  BY <1>2
<1>4. /\ used \in Seq(Key) /\ Len(used) = Len(rest) + 1 /\ Len(rest) \in Nat
      /\ \A i \in 1 .. Len(rest) : used[i] = rest[i]
      /\ used[Len(rest) + 1] = k
  BY <1>2
<1> HIDE DEF all, used
<1>5. ASSUME NEW i \in 1 .. Len(all) PROVE all[i].key = used[Len(used) - Len(all) + i]
  <2>1. CASE i \in 1 .. Len(kept)
    <3>1. /\ Len(used) - Len(all) + i = Len(rest) - Len(kept) + i
          /\ Len(rest) - Len(kept) + i \in 1 .. Len(rest)
      BY <1>2, <1>3, <1>4, <2>1
    <3>2. QED
      BY <1>2, <1>3, <1>4, <2>1, <3>1
  <2>2. CASE i = Len(kept) + 1
    <3>1. Len(used) - Len(all) + i = Len(rest) + 1
      BY <1>3, <1>4, <2>2
    <3>2. QED
      BY <1>3, <1>4, <2>2, <3>1
  <2>3. QED
    BY <1>3, <2>1, <2>2
<1>6. Len(all) <= Len(used)
  BY <1>2, <1>3, <1>4
<1>7. used = AllUsed(k)
  BY DEF AllUsed, used, rest
<1>8. QED
  BY <1>3, <1>5, <1>6, <1>7 DEF LastOf, all

(* Evicting from the front leaves the last of them. *)
LEMMA EvictedIsLast ==
    ASSUME UsedLast, NEW k \in Key, Used(k), NEW all \in Seq(Entry), LastOf(all, AllUsed(k)),
           NEW n \in 0 .. Len(all), entries' = SubSeq(all, n + 1, Len(all)),
           Len(all) - n <= MaxEntries
    PROVE  UsedLast'
<1> DEFINE used == AllUsed(k)
           U == Len(used)
           A == Len(all)
           d == IF U <= MaxEntries THEN 0 ELSE U - MaxEntries
<1>1. /\ used \in Seq(Key) /\ U \in 1 .. MaxEntries + 1 /\ MaxEntries \in Nat \ {0}
      /\ \A i, j \in 1 .. U : used[i] = used[j] => i = j
  BY AllUsedFacts, CacheLimitsAssumption
<1>2. A \in Nat /\ A <= U /\ \A i \in 1 .. A : all[i].key = used[U - A + i]
  BY DEF LastOf
<1>3. recent' = SubSeq(used, Max({1, U - MaxEntries + 1}), U)
  BY DEF Used, AllUsed
<1> HIDE DEF used, U, A
<1>4. Max({1, U - MaxEntries + 1}) = d + 1
  <2>1. \A m \in Int : Max({1, m}) = IF m <= 1 THEN 1 ELSE m
    BY DEF Max
  <2>2. QED
    BY <1>1, <2>1
<1>5. d \in Nat /\ d <= U /\ U - d <= MaxEntries /\ (A - n <= MaxEntries => A - n <= U - d)
  BY <1>1, <1>2 DEF A
<1> HIDE DEF d
<1>6. /\ recent' \in Seq(Key) /\ Len(recent') = U - d
      /\ \A i \in 1 .. U - d : recent'[i] = used[d + i]
  <2>1. recent' = SubSeq(used, d + 1, Len(used))
    BY <1>3, <1>4 DEF U
  <2>2. QED
    BY <1>1, <1>5, <2>1 DEF U
<1>7. /\ Len(entries') = A - n
      /\ \A i \in 1 .. A - n : n + i \in 1 .. A /\ entries'[i] = all[n + i]
  BY <1>2 DEF A
<1>8. A - n <= U - d
  BY <1>5 DEF A
<1>9. \A i, j \in 1 .. U - d : recent'[i] = recent'[j] => i = j
  <2>1. ASSUME NEW i \in 1 .. U - d, NEW j \in 1 .. U - d, recent'[i] = recent'[j]
        PROVE  i = j
    <3>1. d + i \in 1 .. U /\ d + j \in 1 .. U /\ used[d + i] = used[d + j]
      BY <1>1, <1>5, <1>6, <2>1
    <3>2. d + i = d + j
      BY <1>1, <3>1
    <3>3. QED
      BY <1>5, <3>2
  <2>2. QED
    BY <2>1
<1>10. ASSUME NEW i \in 1 .. A - n
       PROVE  entries'[i].key = recent'[U - d - (A - n) + i]
  <2>1. /\ U - d - (A - n) + i \in 1 .. U - d
        /\ d + (U - d - (A - n) + i) = U - A + (n + i)
    BY <1>1, <1>2, <1>5, <1>8 DEF A
  <2>2. recent'[U - d - (A - n) + i] = used[U - A + (n + i)]
    BY <1>6, <2>1
  <2>3. entries'[i].key = used[U - A + (n + i)]
    BY <1>2, <1>7
  <2>4. QED
    BY <2>2, <2>3
<1>11. QED
  BY <1>5, <1>6, <1>7, <1>8, <1>9, <1>10 DEF UsedLast

(* An entry found becomes the last. *)
LEMMA GetKeepsOrder ==
    ASSUME Types, UsedLast, NEW n \in 1 .. Len(entries), Get(n) PROVE UsedLast'
<1> DEFINE k == entries[n].key
           all == Append(RemoveAt(entries, n), entries[n])
<1>1. entries \in Seq(Entry) /\ entries[n] \in Entry /\ k \in Key
  <2>1. entries \in Seq(Entry) /\ entries[n] \in Entry
    BY DEF Types
  <2>2. QED
    BY <2>1 DEF Entry
<1>2. all \in Seq(Entry) /\ LastOf(all, AllUsed(k))
  BY <1>1, AppendedIsLast
<1>3. Len(all) = Len(entries) /\ Len(entries) <= MaxEntries
  <2>1. RemoveAt(entries, n) \in Seq(Entry) /\ Len(RemoveAt(entries, n)) = Len(entries) - 1
    BY <1>1, RemovedAt
  <2>2. Len(recent) \in Nat /\ MaxEntries \in Nat
    BY CacheLimitsAssumption DEF UsedLast
  <2>3. QED
    BY <1>1, <2>1, <2>2 DEF UsedLast
<1>4. entries' = SubSeq(all, 0 + 1, Len(all)) /\ Used(k)
  BY <1>2 DEF Get
<1>5. 0 \in 0 .. Len(all) /\ Len(all) - 0 <= MaxEntries
  BY <1>1, <1>3
<1> HIDE DEF all, k
<1>6. QED
  BY <1>1, <1>2, <1>4, <1>5, EvictedIsLast

(* What is kept when a key is stored, with the new entry behind it. *)
LEMMA OthersKept ==
    ASSUME NEW k
    PROVE  \/ /\ Others(k) = entries /\ \A i \in 1 .. Len(entries) : entries[i].key # k
              /\ Replaced(k) = 0
           \/ \E i \in 1 .. Len(entries) :
                 /\ entries[i].key = k /\ Others(k) = RemoveAt(entries, i)
                 /\ Replaced(k) = Size[entries[i].audio.text]
<1>1. CASE PlaceOf(k) = 0
  <2>1. \A i \in 1 .. Len(entries) : entries[i].key # k
    <3> DEFINE places == {i \in 1 .. Len(entries) : entries[i].key = k}
    <3>1. SUFFICES ASSUME places # {} PROVE FALSE
      OBVIOUS
    <3>2. PlaceOf(k) \in places
      BY <3>1 DEF PlaceOf
    <3>3. QED
      BY <1>1, <3>2
  <2>2. QED
    BY <1>1, <2>1 DEF Others, Replaced
<1>2. CASE PlaceOf(k) # 0
  BY <1>2, PlaceFacts DEF Others, Replaced
<1>3. QED
  BY <1>1, <1>2

(* A store keeps the order and counts what it adds, replaces and evicts. *)
LEMMA PutKeepsCount ==
    ASSUME Types, UsedLast, BoundedByTheRealSize, NEW k \in Key, NEW a \in Audio, Put(k, a)
    PROVE  UsedLast' /\ BoundedByTheRealSize'
<1> DEFINE e == [key |-> k, audio |-> a]
           kept == Others(k)
           all == Append(kept, e)
           total == totalBytes - Replaced(k) + Size[a.text]
<1>1. entries \in Seq(Entry) /\ e \in Entry /\ e.key = k /\ e.audio = a
  BY DEF Types, Entry
<1>2. Size[a.text] \in Nat /\ Size[a.text] > 0
  BY <1>1, EntrySize
<1>3. {MaxEntries, MaxBytes, MaxEntryBytes} \subseteq Nat \ {0}
  BY CacheLimitsAssumption
<1>4. CASE UNCHANGED cacheVars
  BY <1>4 DEF cacheVars, UsedLast, BoundedByTheRealSize, Bytes
<1>5. CASE /\ Size[a.text] <= MaxEntryBytes
           /\ Evict(all, total) /\ Used(k)
  <2>1. PICK n \in 0 .. Len(all) :
               /\ ~(Len(all) - n > MaxEntries \/ total - Bytes(SubSeq(all, 1, n)) > MaxBytes)
               /\ entries' = SubSeq(all, n + 1, Len(all))
               /\ totalBytes' = total - Bytes(SubSeq(all, 1, n))
    BY <1>5 DEF Evict
  <2>2. \/ kept = entries /\ Replaced(k) = 0 /\ \A i \in 1 .. Len(entries) : entries[i].key # k
        \/ \E i \in 1 .. Len(entries) :
              /\ entries[i].key = k /\ kept = RemoveAt(entries, i)
              /\ Replaced(k) = Size[entries[i].audio.text]
    BY OthersKept
  <2> HIDE DEF kept, e
  <2>3. all \in Seq(Entry) /\ LastOf(all, AllUsed(k))
    BY <1>1, <2>2, AppendedIsLast
  <2>4. UsedLast'
    <3>1. Len(all) - n <= MaxEntries
      BY <1>3, <2>1, <2>3
    <3> HIDE DEF all
    <3>2. QED
      BY <1>5, <2>1, <2>3, <3>1, EvictedIsLast
  <2>5. /\ kept \in Seq(Entry) /\ Bytes(kept) \in Nat
        /\ Bytes(kept) = totalBytes - Replaced(k)
        /\ \A i \in 1 .. Len(kept) : Size[kept[i].audio.text] <= MaxEntryBytes
    <3>1. CASE kept = entries /\ Replaced(k) = 0
      BY <1>1, <3>1, BytesShort DEF BoundedByTheRealSize
    <3>2. ASSUME NEW i \in 1 .. Len(entries), kept = RemoveAt(entries, i),
                 Replaced(k) = Size[entries[i].audio.text]
          PROVE  <2>5
      <4>1. /\ kept \in Seq(Entry) /\ Len(kept) = Len(entries) - 1
            /\ \A j \in 1 .. Len(entries) - 1 :
                  kept[j] = IF j < i THEN entries[j] ELSE entries[j + 1]
        BY <1>1, <3>2, RemovedAt
      <4>2. Bytes(entries) = Bytes(kept) + Replaced(k) /\ Bytes(kept) \in Nat /\ Replaced(k) \in Nat
        BY <1>1, <3>2, <4>1, BytesRemoved, BytesShort, EntrySize
      <4>3. \A j \in 1 .. Len(kept) : Size[kept[j].audio.text] <= MaxEntryBytes
        BY <1>1, <4>1 DEF BoundedByTheRealSize
      <4>4. QED
        BY <4>1, <4>2, <4>3 DEF BoundedByTheRealSize
    <3>3. QED
      BY <2>2, <3>1, <3>2
  <2>6. Bytes(all) = total
    <3>1. <<e>> \in Seq(Entry) /\ Len(<<e>>) = 1 /\ <<e>>[1] = e
      BY <1>1
    <3>2. Bytes(<<e>>) = Size[a.text]
      BY <1>1, <3>1, BytesShort
    <3>3. all = kept \o <<e>>
      BY <1>1, <2>5, AppendIsConcat
    <3>4. QED
      BY <2>5, <3>1, <3>2, <3>3, BytesConcat
  <2>7. \A i \in 1 .. Len(all) : Size[all[i].audio.text] <= MaxEntryBytes
    <3>1. /\ Len(kept) \in Nat /\ Len(all) = Len(kept) + 1
          /\ \A i \in 1 .. Len(kept) : all[i] = kept[i]
          /\ all[Len(kept) + 1] = e
      BY <1>1, <2>5
    <3>2. QED
      BY <1>1, <1>5, <2>5, <3>1
  <2> HIDE DEF all, total
  <2>8. /\ Bytes(entries') = total - Bytes(SubSeq(all, 1, n))
        /\ Bytes(SubSeq(all, 1, n)) \in Nat /\ total \in Nat
    <3>1. Bytes(SubSeq(all, n + 1, Len(all))) = Bytes(entries')
      BY <2>1
    <3>2. QED
      BY <2>1, <2>3, <2>6, <3>1, BytesSplit, BytesShort
  <2>9. /\ Len(entries') = Len(all) - n
        /\ \A i \in 1 .. Len(entries') : n + i \in 1 .. Len(all) /\ entries'[i] = all[n + i]
    BY <2>1, <2>3
  <2>10. totalBytes' = Bytes(entries') /\ totalBytes' <= MaxBytes
    BY <1>3, <2>1, <2>8
  <2>11. /\ Len(entries') <= MaxEntries
         /\ \A i \in 1 .. Len(entries') : Size[entries'[i].audio.text] <= MaxEntryBytes
    BY <1>3, <2>1, <2>3, <2>7, <2>9
  <2>12. Bytes(entries)' = Bytes(entries')
    BY DEF Bytes
  <2>13. QED
    BY <2>4, <2>10, <2>11, <2>12 DEF BoundedByTheRealSize
<1>6. QED
  BY <1>2, <1>3, <1>4, <1>5 DEF Put

LEMMA GetKeepsCount ==
    ASSUME Types, BoundedByTheRealSize, NEW n \in 1 .. Len(entries), Get(n)
    PROVE  BoundedByTheRealSize'
<1> DEFINE kept == RemoveAt(entries, n)
           e == entries[n]
<1>1. entries \in Seq(Entry) /\ e \in Entry
  BY DEF Types
<1>2. entries' = Append(kept, e) /\ totalBytes' = totalBytes
  BY DEF Get
<1>3. /\ kept \in Seq(Entry) /\ Len(kept) = Len(entries) - 1
      /\ \A j \in 1 .. Len(entries) - 1 : kept[j] = IF j < n THEN entries[j] ELSE entries[j + 1]
  BY <1>1, RemovedAt
<1>4. Bytes(entries) = Bytes(kept) + Size[e.audio.text] /\ Bytes(kept) \in Nat
  BY <1>1, <1>3, BytesRemoved, BytesShort
<1>5. \A j \in 1 .. Len(kept) : Size[kept[j].audio.text] <= MaxEntryBytes
  BY <1>1, <1>3 DEF BoundedByTheRealSize
<1>6. Size[e.audio.text] <= MaxEntryBytes
  BY DEF BoundedByTheRealSize
<1> HIDE DEF kept, e
<1>7. Bytes(entries') = Bytes(entries)
  <2>1. <<e>> \in Seq(Entry) /\ Len(<<e>>) = 1 /\ <<e>>[1] = e
    BY <1>1
  <2>2. Bytes(<<e>>) = Size[e.audio.text]
    BY <2>1, BytesShort
  <2>3. entries' = kept \o <<e>>
    BY <1>1, <1>2, <1>3, AppendIsConcat
  <2>4. QED
    BY <1>3, <1>4, <2>1, <2>2, <2>3, BytesConcat
<1>8. /\ Len(entries') = Len(entries)
      /\ \A i \in 1 .. Len(entries') : Size[entries'[i].audio.text] <= MaxEntryBytes
  <2>1. /\ Len(kept) \in Nat /\ Len(entries') = Len(kept) + 1
        /\ \A i \in 1 .. Len(kept) : entries'[i] = kept[i]
        /\ entries'[Len(kept) + 1] = e
    BY <1>1, <1>2, <1>3
  <2>2. Len(entries') = Len(entries)
    BY <1>1, <1>3, <2>1
  <2>3. QED
    BY <1>5, <1>6, <2>1, <2>2
<1>9. Bytes(entries)' = Bytes(entries')
  BY DEF Bytes
<1>10. QED
  BY <1>2, <1>7, <1>8, <1>9 DEF BoundedByTheRealSize

-----------------------------------------------------------------------------
CountInv == UsedLast /\ BoundedByTheRealSize

(* An empty cache. *)
LEMMA NothingKept ==
    /\ <<>> \in Seq(Entry) /\ <<>> \in Seq(Key) /\ Len(<<>>) = 0 /\ Bytes(<<>>) = 0
    /\ MaxEntries \in Nat /\ MaxBytes \in Nat
<1>1. <<>> \in Seq(Entry) /\ <<>> \in Seq(Key) /\ Len(<<>>) = 0
  OBVIOUS
<1>2. QED
  BY <1>1, BytesShort, CacheLimitsAssumption

LEMMA CountStep == HInv /\ CountInv /\ [Next]_vars => CountInv'
<1> SUFFICES ASSUME HInv, CountInv, [Next]_vars PROVE CountInv'
  OBVIOUS
<1> USE DEF HInv, CountInv
<1>1. CASE UNCHANGED cacheVars
  BY <1>1 DEF cacheVars, UsedLast, BoundedByTheRealSize, Bytes
<1>2. CASE Clear
  <2>1. entries' = <<>> /\ totalBytes' = 0 /\ recent' = <<>>
    BY <1>2 DEF Clear
  <2>2. Bytes(entries)' = Bytes(entries')
    BY DEF Bytes
  <2>3. QED
    BY <2>1, <2>2, NothingKept DEF UsedLast, BoundedByTheRealSize
<1>3. ASSUME NEW n \in 1 .. Len(entries), Get(n) PROVE CountInv'
  BY <1>3, GetKeepsOrder, GetKeepsCount
<1>4. CASE Store
  BY <1>4, PutKeepsCount DEF Store, Types
<1>5. CASE Find
  BY <1>1, <1>3, <1>5, PlaceFacts DEF Find
<1>6. CASE Compare \/ Invalidate
  BY <1>1, <1>2, <1>6 DEF Compare, Invalidate
<1>7. CASE ~(Store \/ Find \/ Compare \/ Invalidate)
  BY <1>1, <1>7 DEF Next, vars, Lookup, IsStamped, Unstamp, Synthesize, SynthesisFails, Stamp,
       MakeKey, Set, Terminate, Invalidated, Terminated, WorkerDies, ReplaceModel
<1>8. QED
  BY <1>4, <1>5, <1>6, <1>7

LEMMA CountHolds == Spec => [](HInv /\ CountInv)
<1>1. Init => CountInv
  BY NothingKept DEF Init, CountInv, UsedLast, BoundedByTheRealSize
<1>2. QED
  BY <1>1, HInvInit, HInvStep, CountStep, PTL DEF Spec

(* The count of bytes is the sum of the entries' sizes, and the limits on entries,
   bytes and bytes per entry are kept, through any replacement, eviction, hit and
   clearing and for any limits. *)
THEOREM CacheIsBounded == Spec => []BoundedByTheRealSize
BY CountHolds, PTL DEF CountInv

(* The cache has the last so many of the keys used since it was cleared, in the
   order of their last use. *)
THEOREM CacheIsLRU == Spec => []MostRecentAreKept
<1>1. HInv /\ CountInv => MostRecentAreKept
  <2> SUFFICES ASSUME Types, UsedLast PROVE MostRecentAreKept
    BY DEF HInv, CountInv
  <2>1. /\ Keys \in Seq(Key) /\ Len(Keys) = Len(entries)
        /\ \A i \in 1 .. Len(entries) : Keys[i] = entries[i].key
    <3>1. Len(entries) \in Nat /\ \A i \in 1 .. Len(entries) : entries[i] \in Entry
      BY DEF Types
    <3>2. \A i \in 1 .. Len(entries) : entries[i].key \in Key
      BY <3>1 DEF Entry
    <3>3. QED
      BY <3>1, <3>2 DEF Keys
  <2>2. recent \in Seq(Key)
    BY DEF UsedLast
  <2>3. QED
    BY <2>1, <2>2, SuffixByElements DEF UsedLast, MostRecentAreKept
<1>2. QED
  BY <1>1, CountHolds, PTL
=============================================================================
